-------------------------- MODULE ProcessInputProofs --------------------------
(***************************************************************************)
(* Proofs about ProcessInput, for any keyboard, number of slots and        *)
(* sequence of presses and releases: what the modes remember of modifiers  *)
(* is never left over, and the report never overflows; and about the       *)
(* careful typist of MCProcessInput, behind whom nothing is left.          *)
(***************************************************************************)
EXTENDS MCProcessInput, FiniteSetTheorems, Induction

(* How many slots are used is a sum over the keys.  FoldFunction takes the *)
(* keys away one after the other: g[s] is the sum over s, for every s of   *)
(* at most n keys.                                                         *)
Adds(g, f, S, n) ==
  \A s \in SUBSET S : Cardinality(s) <= n =>
    g[s] = IF s = {} THEN 0
           ELSE LET x == CHOOSE y \in s : TRUE IN f[x] + g[s \ {x}]

(* The key that is taken next, and what is left. *)
LEMMA LessOne ==
  ASSUME NEW S, IsFiniteSet(S), NEW s \in SUBSET S, s # {}
  PROVE  LET x == CHOOSE y \in s : TRUE
         IN  /\ x \in s /\ x \in S /\ s \ {x} \in SUBSET S
             /\ Cardinality(s) \in Nat \ {0}
             /\ Cardinality(s \ {x}) = Cardinality(s) - 1
<1> DEFINE x == CHOOSE y \in s : TRUE
<1>1. x \in s
  OBVIOUS
<1> HIDE DEF x
<1>2. IsFiniteSet(s)
  BY FS_Subset
<1>3. Cardinality(s \ {x}) = Cardinality(s) - 1
  BY <1>1, <1>2, FS_RemoveElement
<1>4. Cardinality(s) \in Nat /\ Cardinality(s) # 0
  BY <1>1, <1>2, FS_CardinalityType, FS_EmptySet
<1> QED BY <1>1, <1>3, <1>4 DEF x

(* The recursion has a solution, by induction over the number of keys. *)
LEMMA AddsExists ==
  ASSUME NEW S, IsFiniteSet(S), NEW f, NEW n \in Nat
  PROVE  \E g : g = [s \in SUBSET S |-> g[s]] /\ Adds(g, f, S, n)
<1> DEFINE T == { k \in Nat : \E g : g = [s \in SUBSET S |-> g[s]] /\ Adds(g, f, S, k) }
<1>1. 0 \in T
  <2> DEFINE g == [s \in SUBSET S |-> 0]
  <2>1. \A s \in SUBSET S : Cardinality(s) <= 0 => s = {}
    <3> SUFFICES ASSUME NEW s \in SUBSET S, Cardinality(s) <= 0, s # {} PROVE FALSE
      OBVIOUS
    <3>1. Cardinality(s) \in Nat \ {0}
      BY LessOne
    <3> QED BY <3>1
  <2>2. Adds(g, f, S, 0)
    BY <2>1 DEF Adds
  <2>3. g = [s \in SUBSET S |-> g[s]]
    OBVIOUS
  <2> QED BY <2>2, <2>3
<1>2. ASSUME NEW k \in Nat, k \in T PROVE k + 1 \in T
  <2>1. PICK g : g = [s \in SUBSET S |-> g[s]] /\ Adds(g, f, S, k)
    BY <1>2
  <2> DEFINE one(s) == CHOOSE y \in s : TRUE
             e(s) == IF s = {} THEN 0 ELSE f[one(s)] + g[s \ {one(s)}]
             h == [s \in SUBSET S |-> e(s)]
  <2>2. \A s \in SUBSET S : h[s] = e(s)
    BY DEF e
  <2>3. \A s \in SUBSET S : Cardinality(s) <= k => g[s] = e(s)
    BY <2>1 DEF Adds
  <2>4. h = [s \in SUBSET S |-> h[s]]
    <3> HIDE DEF e
    <3> QED OBVIOUS
  <2> HIDE DEF h
  <2>5. ASSUME NEW s \in SUBSET S, Cardinality(s) <= k + 1
        PROVE  h[s] = IF s = {} THEN 0 ELSE f[one(s)] + h[s \ {one(s)}]
    <3>1. CASE s = {}
      BY <2>2, <3>1
    <3>2. CASE s # {}
      <4>1. s \ {one(s)} \in SUBSET S /\ Cardinality(s \ {one(s)}) <= k
        <5>1. /\ s \ {one(s)} \in SUBSET S /\ Cardinality(s) \in Nat \ {0}
              /\ Cardinality(s \ {one(s)}) = Cardinality(s) - 1
          BY <3>2, LessOne
        <5> QED BY <2>5, <5>1
      <4>2. h[s \ {one(s)}] = g[s \ {one(s)}]
        <5> HIDE DEF e, one
        <5> QED BY <2>2, <2>3, <4>1
      <4>3. h[s] = f[one(s)] + g[s \ {one(s)}]
        BY <2>2, <3>2
      <4> QED BY <3>2, <4>2, <4>3
    <3> QED BY <3>1, <3>2
  <2>6. Adds(h, f, S, k + 1)
    BY <2>5 DEF Adds
  <2> HIDE DEF e
  <2> QED BY <2>4, <2>6
<1>3. n \in T
  <2> HIDE DEF T
  <2> QED BY <1>1, <1>2, NaturalInduction
<1> QED BY <1>3

(* The fold of the community modules unrolled. *)
LEMMA SumIs ==
  ASSUME NEW S, IsFiniteSet(S), NEW f, DOMAIN f = S
  PROVE  \E g : Adds(g, f, S, Cardinality(S)) /\ FoldFunction(+, 0, f) = g[S]
<1> DEFINE Is(g) == g = [s \in SUBSET S |->
                           IF s = {} THEN 0
                           ELSE LET x == CHOOSE y \in s : TRUE IN f[x] + g[s \ {x}]]
<1>1. \E g : Is(g)
  <2>1. Cardinality(S) \in Nat
    BY FS_CardinalityType
  <2>2. PICK g : g = [s \in SUBSET S |-> g[s]] /\ Adds(g, f, S, Cardinality(S))
    BY <2>1, AddsExists
  <2>3. \A s \in SUBSET S : Cardinality(s) <= Cardinality(S)
    BY FS_Subset
  <2> DEFINE e(s) == IF s = {} THEN 0 ELSE LET x == CHOOSE y \in s : TRUE IN f[x] + g[s \ {x}]
  <2>4. \A s \in SUBSET S : g[s] = e(s)
    BY <2>2, <2>3 DEF Adds
  <2>5. g = [s \in SUBSET S |-> e(s)]
    <3> HIDE DEF e
    <3> QED BY <2>2, <2>4
  <2> QED BY <2>5
<1> DEFINE iter == CHOOSE g : Is(g)
<1>2. Is(iter)
  <2> HIDE DEF Is
  <2> QED BY <1>1
<1>3. FoldFunction(+, 0, f) = iter[S]
  BY DEF FoldFunction, FoldFunctionOnSet, MapThenFoldSet
<1>4. Adds(iter, f, S, Cardinality(S))
  <2> DEFINE e(s) == IF s = {} THEN 0
                     ELSE LET x == CHOOSE y \in s : TRUE IN f[x] + iter[s \ {x}]
  <2>1. iter = [s \in SUBSET S |-> e(s)]
    BY <1>2
  <2>2. \A s \in SUBSET S : iter[s] = e(s)
    <3> HIDE DEF e, iter
    <3> QED BY <2>1
  <2> HIDE DEF iter
  <2> QED BY <2>2 DEF Adds
<1> HIDE DEF iter
<1> QED BY <1>3, <1>4

(* Another number for one key changes the sum by the difference, and no    *)
(* key has more than the sum.                                              *)
LEMMA SumChanged ==
  ASSUME NEW S, IsFiniteSet(S), NEW f \in [S -> Nat], NEW k \in S, NEW m \in Nat,
         NEW f2, f2 = [f EXCEPT ![k] = m]
  PROVE  /\ FoldFunction(+, 0, f) \in Nat /\ f[k] <= FoldFunction(+, 0, f)
         /\ FoldFunction(+, 0, f2) = FoldFunction(+, 0, f) - f[k] + m
<1>0. DOMAIN f = S /\ DOMAIN f2 = S
  OBVIOUS
<1>g. PICK g : Adds(g, f, S, Cardinality(S)) /\ FoldFunction(+, 0, f) = g[S]
  BY <1>0, SumIs
<1>h. PICK h : Adds(h, f2, S, Cardinality(S)) /\ FoldFunction(+, 0, f2) = h[S]
  BY <1>0, SumIs
<1> DEFINE one(s) == CHOOSE y \in s : TRUE
           Ok(s) == /\ g[s] \in Nat /\ h[s] \in Nat
                    /\ k \notin s => h[s] = g[s]
                    /\ k \in s => f[k] <= g[s] /\ h[s] = g[s] - f[k] + m
           T == { n \in Nat : \A s \in SUBSET S : Cardinality(s) <= n => Ok(s) }
<1>1. Cardinality(S) \in Nat /\ \A s \in SUBSET S : Cardinality(s) <= Cardinality(S)
  BY FS_CardinalityType, FS_Subset
<1>2. f2 \in [S -> Nat] /\ f2[k] = m /\ \A x \in S : x # k => f2[x] = f[x]
  OBVIOUS
<1>4. \A s \in SUBSET S : /\ s = {} => g[s] = 0 /\ h[s] = 0
                          /\ s # {} => /\ g[s] = f[one(s)] + g[s \ {one(s)}]
                                       /\ h[s] = f2[one(s)] + h[s \ {one(s)}]
  BY <1>1, <1>g, <1>h DEF Adds
<1> HIDE DEF one
<1>5. Ok({})
  <2>1. {} \in SUBSET S
    OBVIOUS
  <2>2. g[{}] = 0 /\ h[{}] = 0
    BY <1>4, <2>1
  <2> QED BY <2>2
<1>6. ASSUME NEW s \in SUBSET S, s # {}, Ok(s \ {one(s)})
      PROVE  Ok(s)
  <2>1. one(s) \in s /\ one(s) \in S
    BY <1>6 DEF one
  <2>2. g[s] = f[one(s)] + g[s \ {one(s)}] /\ h[s] = f2[one(s)] + h[s \ {one(s)}]
    BY <1>4, <1>6
  <2>3. f[one(s)] \in Nat /\ f2[one(s)] \in Nat /\ f[k] \in Nat
    BY <1>2, <2>1
  <2>4. CASE one(s) = k
    <3>1. k \notin s \ {one(s)} /\ k \in s /\ f2[one(s)] = m /\ f[one(s)] = f[k]
      BY <1>2, <2>1, <2>4
    <3>2. g[s \ {one(s)}] \in Nat /\ h[s \ {one(s)}] = g[s \ {one(s)}]
      BY <1>6, <3>1
    <3> QED BY <2>2, <2>3, <3>1, <3>2
  <2>5. CASE one(s) # k
    <3>1. (k \in s <=> k \in s \ {one(s)}) /\ f2[one(s)] = f[one(s)]
      BY <1>2, <2>1, <2>5
    <3>2. CASE k \in s
      BY <1>6, <2>2, <2>3, <3>1, <3>2
    <3>3. CASE k \notin s
      BY <1>6, <2>2, <2>3, <3>1, <3>3
    <3> QED BY <3>2, <3>3
  <2> QED BY <2>4, <2>5
<1> HIDE DEF Ok
<1>7. 0 \in T
  <2>1. \A s \in SUBSET S : Cardinality(s) <= 0 => s = {}
    <3> SUFFICES ASSUME NEW s \in SUBSET S, Cardinality(s) <= 0, s # {} PROVE FALSE
      OBVIOUS
    <3>1. Cardinality(s) \in Nat \ {0}
      BY LessOne
    <3> QED BY <3>1
  <2> QED BY <1>5, <2>1
<1>8. ASSUME NEW n \in Nat, n \in T PROVE n + 1 \in T
  <2> SUFFICES ASSUME NEW s \in SUBSET S, Cardinality(s) <= n + 1 PROVE Ok(s)
    OBVIOUS
  <2>1. CASE s = {}
    BY <1>5, <2>1
  <2>2. CASE s # {}
    <3>1. s \ {one(s)} \in SUBSET S /\ Cardinality(s \ {one(s)}) <= n
      <4>1. /\ s \ {one(s)} \in SUBSET S /\ Cardinality(s) \in Nat \ {0}
            /\ Cardinality(s \ {one(s)}) = Cardinality(s) - 1
        BY <2>2, LessOne DEF one
      <4> QED BY <4>1
    <3>2. Ok(s \ {one(s)})
      BY <1>8, <3>1
    <3> QED BY <1>6, <2>2, <3>2
  <2> QED BY <2>1, <2>2
<1>9. Cardinality(S) \in T
  <2> HIDE DEF T
  <2> QED BY <1>1, <1>7, <1>8, NaturalInduction
<1>10. Ok(S)
  BY <1>1, <1>9
<1> QED BY <1>10, <1>g, <1>h DEF Ok

(* Nothing pressed adds up to nothing. *)
LEMMA SumOfNothing ==
  ASSUME NEW S, IsFiniteSet(S), NEW f, f = [k \in S |-> 0]
  PROVE  FoldFunction(+, 0, f) = 0
<1>g. PICK g : Adds(g, f, S, Cardinality(S)) /\ FoldFunction(+, 0, f) = g[S]
  BY SumIs
<1> DEFINE one(s) == CHOOSE y \in s : TRUE
           T == { n \in Nat : \A s \in SUBSET S : Cardinality(s) <= n => g[s] = 0 }
<1>1. Cardinality(S) \in Nat /\ \A s \in SUBSET S : Cardinality(s) <= Cardinality(S)
  BY FS_CardinalityType, FS_Subset
<1>2. \A x \in S : f[x] = 0
  OBVIOUS
<1>4. \A s \in SUBSET S : /\ s = {} => g[s] = 0
                          /\ s # {} => g[s] = f[one(s)] + g[s \ {one(s)}]
  BY <1>1, <1>g DEF Adds
<1> HIDE DEF one
<1>5. 0 \in T
  <2>1. \A s \in SUBSET S : Cardinality(s) <= 0 => s = {}
    <3> SUFFICES ASSUME NEW s \in SUBSET S, Cardinality(s) <= 0, s # {} PROVE FALSE
      OBVIOUS
    <3>1. Cardinality(s) \in Nat \ {0}
      BY LessOne
    <3> QED BY <3>1
  <2> QED BY <1>4, <2>1
<1>6. ASSUME NEW n \in Nat, n \in T PROVE n + 1 \in T
  <2> SUFFICES ASSUME NEW s \in SUBSET S, Cardinality(s) <= n + 1 PROVE g[s] = 0
    OBVIOUS
  <2>1. CASE s = {}
    BY <1>4, <2>1
  <2>2. CASE s # {}
    <3>1. /\ s \ {one(s)} \in SUBSET S /\ Cardinality(s) \in Nat \ {0}
          /\ Cardinality(s \ {one(s)}) = Cardinality(s) - 1 /\ one(s) \in S
      BY <2>2, LessOne DEF one
    <3>2. Cardinality(s \ {one(s)}) <= n
      BY <3>1
    <3>3. g[s \ {one(s)}] = 0 /\ f[one(s)] = 0
      BY <1>2, <1>6, <3>1, <3>2
    <3> QED BY <1>4, <2>2, <3>3
  <2> QED BY <2>1, <2>2
<1>7. Cardinality(S) \in T
  <2> HIDE DEF T
  <2> QED BY <1>1, <1>5, <1>6, NaturalInduction
<1> QED BY <1>1, <1>7, <1>g

-----------------------------------------------------------------------------
(* A report: its keys and modifiers, and no more keys than slots. *)
Shape == [keys : [OutKeys -> Nat], mods : SUBSET ModKeys]

AReport == { h \in Shape : SlotsUsed(h) <= MAX_DEPRESSED_KEYS }

LEMMA OutIsFinite == IsFiniteSet(OutKeys)
<1>1. IsFiniteSet(Plain)
  BY KeysAssumption, FS_Subset
<1>2. \A x, y, z : IsFiniteSet({x, y, z})
  <2> TAKE x, y, z
  <2>1. IsFiniteSet({x}) /\ IsFiniteSet({y}) /\ IsFiniteSet({z})
    BY FS_Singleton
  <2>2. IsFiniteSet(({x} \cup {y}) \cup {z})
    <3>1. IsFiniteSet({x} \cup {y})
      BY <2>1, FS_Union
    <3> QED BY <2>1, <3>1, FS_Union
  <2>3. {x, y, z} = ({x} \cup {y}) \cup {z}
    OBVIOUS
  <2> QED BY <2>2, <2>3
<1>3. IsFiniteSet(VimKeys)
  <2>1. VimKeys = ({"HOME", "END", "PAGE_UP"} \cup {"PAGE_DOWN", "ARROW_LEFT", "ARROW_DOWN"})
                    \cup {"ARROW_UP", "ARROW_RIGHT", "DELETE"}
    BY DEF VimKeys
  <2> QED BY <1>2, <2>1, FS_Union
<1>4. IsFiniteSet(FunctionKeys)
  <2>1. FunctionKeys = {"F1", "F2", "F2"}
    BY DEF FunctionKeys
  <2> QED BY <1>2, <2>1
<1> QED BY <1>1, <1>3, <1>4, FS_Union DEF OutKeys

(* What the sum means for the slots. *)
LEMMA SlotsOf ==
  ASSUME NEW h \in Shape, NEW k \in OutKeys, NEW n \in Nat
  PROVE  /\ SlotsUsed(h) \in Nat /\ h.keys[k] \in 0 .. SlotsUsed(h)
         /\ SlotsUsed([h EXCEPT !.keys[k] = n]) = SlotsUsed(h) - h.keys[k] + n
<1> DEFINE f == h.keys
           f2 == [f EXCEPT ![k] = n]
<1>1. f \in [OutKeys -> Nat]
  BY DEF Shape
<1> HIDE DEF f
<1>2. IsFiniteSet(OutKeys)
  BY OutIsFinite
<1>3. DOMAIN f = OutKeys /\ DOMAIN f2 = OutKeys
  BY <1>1
<1>4. /\ FoldFunction(+, 0, f) \in Nat /\ f[k] <= FoldFunction(+, 0, f)
      /\ FoldFunction(+, 0, f2) = FoldFunction(+, 0, f) - f[k] + n
  BY <1>1, <1>2, SumChanged
<1>7. [h EXCEPT !.keys[k] = n].keys = f2
  BY DEF f, Shape
<1>8. /\ SlotsUsed(h) = FoldFunction(+, 0, f)
      /\ SlotsUsed([h EXCEPT !.keys[k] = n]) = FoldFunction(+, 0, f2)
  BY <1>7 DEF SlotsUsed, f
<1>9. f[k] \in Nat
  BY <1>1
<1>10. SlotsUsed(h) \in Nat /\ f[k] \in 0 .. SlotsUsed(h)
  <2>1. SlotsUsed(h) \in Nat /\ f[k] <= SlotsUsed(h)
    <3> HIDE DEF f2
    <3> QED BY <1>4, <1>8
  <2> HIDE DEF f2
  <2> QED BY <1>9, <2>1
<1>11. SlotsUsed([h EXCEPT !.keys[k] = n]) = SlotsUsed(h) - f[k] + n
  BY <1>4, <1>8
<1> QED BY <1>10, <1>11 DEF f

LEMMA CountReport ==
  ASSUME NEW h \in Shape, NEW k \in OutKeys, NEW n \in Nat
  PROVE  LET g == [h EXCEPT !.keys[k] = n]
         IN  /\ g \in Shape /\ g.mods = h.mods
             /\ SlotsUsed(g) = SlotsUsed(h) - h.keys[k] + n
<1> DEFINE f == [h.keys EXCEPT ![k] = n]
           g == [h EXCEPT !.keys = f]
<1>1. f \in [OutKeys -> Nat]
  <2>1. h.keys \in [OutKeys -> Nat]
    BY DEF Shape
  <2> QED BY <2>1
<1>2. g \in Shape /\ g.mods = h.mods
  <2> HIDE DEF f
  <2> QED BY <1>1 DEF Shape
<1>3. SlotsUsed(g) = SlotsUsed(h) - h.keys[k] + n
  BY SlotsOf
<1> QED BY <1>2, <1>3

(* A code that is no key of the report changes no slot. *)
LEMMA OtherReport ==
  ASSUME NEW h \in Shape, NEW k, k \notin OutKeys, NEW n
  PROVE  [h EXCEPT !.keys[k] = n] = h
<1>1. h.keys \in [OutKeys -> Nat]
  BY DEF Shape
<1>2. [h.keys EXCEPT ![k] = n] = h.keys
  BY <1>1
<1> DEFINE f == [h.keys EXCEPT ![k] = n]
<1>3. f = h.keys
  BY <1>2
<1>4. [h EXCEPT !.keys = f] = h
  <2> HIDE DEF f
  <2> QED BY <1>3 DEF Shape
<1> QED BY <1>4

LEMMA DownReport ==
  ASSUME NEW h \in AReport, NEW k
  PROVE  KeyDown(h, k) \in AReport /\ KeyDown(h, k).mods = h.mods
<1>1. h \in Shape
  BY DEF AReport
<1>2. CASE k \in OutKeys /\ FreeSlot(h)
  <2> DEFINE n == h.keys[k] + 1
             g == [h EXCEPT !.keys[k] = n]
  <2>1. h.keys[k] \in Nat /\ n \in Nat /\ SlotsUsed(h) \in Nat
    BY <1>1, <1>2, SlotsOf DEF Shape
  <2>2. KeyDown(h, k) = g
    BY <1>2 DEF KeyDown
  <2>3. g \in Shape /\ g.mods = h.mods /\ SlotsUsed(g) = SlotsUsed(h) - h.keys[k] + n
    <3> HIDE DEF n
    <3> QED BY <1>1, <1>2, <2>1, CountReport
  <2>4. SlotsUsed(g) <= MAX_DEPRESSED_KEYS
    <3>1. SlotsUsed(h) < MAX_DEPRESSED_KEYS /\ n = h.keys[k] + 1
      BY <1>2 DEF FreeSlot
    <3> HIDE DEF n, g
    <3> QED BY <2>1, <2>3, <3>1, KeysAssumption
  <2> HIDE DEF g
  <2> QED BY <2>2, <2>3, <2>4 DEF AReport
<1>3. CASE k \notin OutKeys \/ ~FreeSlot(h)
  BY <1>1, <1>3, OtherReport DEF KeyDown
<1> QED BY <1>2, <1>3

LEMMA UpReport ==
  ASSUME NEW h \in AReport, NEW k
  PROVE  KeyUp(h, k) \in AReport /\ KeyUp(h, k).mods = h.mods
<1>1. h \in Shape
  BY DEF AReport
<1>2. CASE k \in OutKeys /\ h.keys[k] > 0
  <2> DEFINE n == h.keys[k] - 1
             g == [h EXCEPT !.keys[k] = n]
  <2>1. h.keys[k] \in Nat /\ n \in Nat /\ SlotsUsed(h) \in Nat
    BY <1>1, <1>2, SlotsOf DEF Shape
  <2>2. KeyUp(h, k) = g
    BY <1>2 DEF KeyUp
  <2>3. g \in Shape /\ g.mods = h.mods /\ SlotsUsed(g) = SlotsUsed(h) - h.keys[k] + n
    <3> HIDE DEF n
    <3> QED BY <1>1, <1>2, <2>1, CountReport
  <2>4. SlotsUsed(g) <= MAX_DEPRESSED_KEYS
    <3>1. SlotsUsed(h) <= MAX_DEPRESSED_KEYS /\ n = h.keys[k] - 1
      BY DEF AReport
    <3> HIDE DEF n, g
    <3> QED BY <2>1, <2>3, <3>1, KeysAssumption
  <2> HIDE DEF g
  <2> QED BY <2>2, <2>3, <2>4 DEF AReport
<1>3. CASE k \notin OutKeys \/ ~(h.keys[k] > 0)
  BY <1>1, <1>3, OtherReport DEF KeyUp
<1> QED BY <1>2, <1>3

LEMMA SendReport ==
  ASSUME NEW h \in AReport, NEW action, NEW k
  PROVE  /\ send_over_hid(h, action, k) \in AReport
         /\ k \notin ModKeys => send_over_hid(h, action, k).mods = h.mods
         /\ k \in ModKeys => send_over_hid(h, action, k).mods =
                               IF action = "down" THEN h.mods \cup {k} ELSE h.mods \ {k}
<1>1. CASE k \notin ModKeys
  BY <1>1, DownReport, UpReport DEF send_over_hid
<1>2. CASE k \in ModKeys
  <2> DEFINE m == IF action = "down" THEN h.mods \cup {k} ELSE h.mods \ {k}
             g == [h EXCEPT !.mods = m]
  <2>1. h \in Shape /\ SlotsUsed(h) <= MAX_DEPRESSED_KEYS
    BY DEF AReport
  <2>2. m \in SUBSET ModKeys
    BY <1>2, <2>1 DEF Shape
  <2>3. send_over_hid(h, action, k) = g
    BY <1>2 DEF send_over_hid
  <2>4. g \in Shape /\ g.keys = h.keys /\ g.mods = m
    <3> HIDE DEF m
    <3> QED BY <2>1, <2>2 DEF Shape
  <2>5. SlotsUsed(g) <= MAX_DEPRESSED_KEYS
    <3> HIDE DEF g
    <3> QED BY <2>1, <2>4 DEF SlotsUsed
  <2>6. g \in AReport
    <3> HIDE DEF g
    <3> QED BY <2>4, <2>5 DEF AReport
  <2> HIDE DEF g
  <2> QED BY <1>2, <2>3, <2>4, <2>6
<1> QED BY <1>1, <1>2

(* The report of a keyboard on which nothing was pressed yet. *)
LEMMA StartReport == Init => hid \in AReport /\ SlotsUsed(hid) = 0
<1> SUFFICES ASSUME Init PROVE hid \in AReport /\ SlotsUsed(hid) = 0
  OBVIOUS
<1> DEFINE f == [k \in OutKeys |-> 0]
<1>1. hid = [keys |-> f, mods |-> {}]
  BY DEF Init
<1>2. f \in [OutKeys -> Nat]
  OBVIOUS
<1>3. FoldFunction(+, 0, f) = 0
  BY OutIsFinite, SumOfNothing
<1> HIDE DEF f
<1>4. hid \in Shape /\ hid.keys = f
  BY <1>1, <1>2 DEF Shape
<1>5. SlotsUsed(hid) = 0
  BY <1>3, <1>4 DEF SlotsUsed
<1> QED BY <1>4, <1>5, KeysAssumption DEF AReport

-----------------------------------------------------------------------------
(* The flags. *)
LEMMA FlagsStep ==
  ASSUME FlagsHeld, NEW k,
         \/ Press(k) \/ Release(k)
  PROVE  FlagsHeld'
<1>1. CASE Press(k)
  <2>1. down' = down \cup {k} /\ current_modifiers' = Modifiers("down", k)
    BY <1>1 DEF Press, process_input
  <2>2. "shift" \in current_modifiers' => "shift" \in current_modifiers \/ k \in Shifts
    BY <2>1 DEF Modifiers, Track
  <2>3. "ctrl" \in current_modifiers' => "ctrl" \in current_modifiers \/ k \in Controls
    BY <2>1 DEF Modifiers, Track
  <2> QED BY <2>1, <2>2, <2>3 DEF FlagsHeld
<1>2. CASE Release(k)
  <2>1. down' = down \ {k} /\ current_modifiers' = Modifiers("up", k)
    BY <1>2 DEF Release, process_input
  <2>2. "shift" \in current_modifiers' => "shift" \in current_modifiers /\ k \notin Shifts
    BY <2>1 DEF Modifiers, Track, Shifts, Controls
  <2>3. "ctrl" \in current_modifiers' => "ctrl" \in current_modifiers /\ k \notin Controls
    BY <2>1 DEF Modifiers, Track, Shifts, Controls
  <2> QED BY <2>1, <2>2, <2>3 DEF FlagsHeld
<1> QED BY <1>1, <1>2

(* Whatever keys are pressed and released in whatever mode, a shift or     *)
(* control flag (process_input.c:129-143) belongs to a key that is down.   *)
THEOREM FlagsHeldCorrect == Spec => []FlagsHeld
<1>1. Init => FlagsHeld
  BY DEF Init, FlagsHeld
<1>2. FlagsHeld /\ [Next]_vars => FlagsHeld'
  <2> SUFFICES ASSUME FlagsHeld, [Next]_vars PROVE FlagsHeld'
    OBVIOUS
  <2>1. CASE Next
    BY <2>1, FlagsStep DEF Next
  <2>2. CASE UNCHANGED vars
    BY <2>2 DEF FlagsHeld, vars
  <2> QED BY <2>1, <2>2
<1> QED BY <1>1, <1>2, PTL DEF Spec

-----------------------------------------------------------------------------
(* The selection.  That the report holds the shift is kept because vim     *)
(* mode is the only one that has it, and passes no shift on.               *)
SelectionInv == hid \in AReport /\ SelectionHeld

LEMMA OutIsNoModifier == OutKeys \cap ModKeys = {} /\ "SHIFT_LEFT" \in ModKeys
  BY KeysAssumption DEF OutKeys, VimKeys, FunctionKeys, ModKeys, Shifts, Controls

LEMMA SendStep ==
  ASSUME hid \in AReport, NEW action, NEW k, Send(action, k) \/ Silent
  PROVE  hid' \in AReport /\ (k \notin ModKeys => hid'.mods = hid.mods)
<1>1. CASE Silent
  BY <1>1 DEF Silent
<1>2. CASE Send(action, k)
  <2>1. hid' = send_over_hid(hid, action, k)
    BY <1>2 DEF Send
  <2> QED BY <2>1, SendReport
<1> QED BY <1>1, <1>2

LEMMA SendBothStep ==
  ASSUME hid \in AReport, NEW action, NEW k, NEW action2, NEW k2,
         SendBoth(action, k, action2, k2)
  PROVE  hid' \in AReport
<1>1. send_over_hid(hid, action, k) \in AReport
  BY SendReport
<1>2. hid' = send_over_hid(send_over_hid(hid, action, k), action2, k2)
  BY DEF SendBoth
<1> QED BY <1>1, <1>2, SendReport

LEMMA ShiftKept ==
  ASSUME hid \in AReport, NEW action, NEW k, k # "SHIFT_LEFT", Send(action, k)
  PROVE  hid' \in AReport /\ ("SHIFT_LEFT" \in hid.mods => "SHIFT_LEFT" \in hid'.mods)
<1>1. hid' = send_over_hid(hid, action, k)
  BY DEF Send
<1>2. CASE k \in ModKeys
  <2>1. send_over_hid(hid, action, k) \in AReport
    BY SendReport
  <2>2. send_over_hid(hid, action, k).mods =
          IF action = "down" THEN hid.mods \cup {k} ELSE hid.mods \ {k}
    BY <1>2, SendReport
  <2> QED BY <1>1, <2>1, <2>2
<1>3. CASE k \notin ModKeys
  BY <1>3, SendStep
<1> QED BY <1>2, <1>3

LEMMA VimStep ==
  ASSUME SelectionInv, current_mode = "vim", NEW action, NEW k, NEW m,
         vim_process_input(action, k, m)
  PROVE  SelectionInv'
<1> USE DEF SelectionInv, SelectionHeld
<1>1. CASE VimMove(action, k, m)
  <2>1. VimTable(m)[k] \notin ModKeys
    <3>1. VimTable(m)[k] \in VimKeys
      BY <1>1 DEF VimMove, VimTable, VimKeys
    <3> QED BY <3>1 DEF VimKeys, ModKeys, Shifts, Controls
  <2>2. Send(action, VimTable(m)[k]) /\ UNCHANGED << current_mode, shift_down >>
    BY <1>1 DEF VimMove
  <2> HIDE DEF SelectionInv
  <2>3. hid' \in AReport /\ hid'.mods = hid.mods
    BY <2>1, <2>2, SendStep DEF SelectionInv
  <2> QED BY <2>2, <2>3 DEF SelectionInv
<1>2. CASE VimDelete(action, k, m)
  <2>1. ~shift_down'
    BY <1>2 DEF VimDelete, Ended
  <2>2. hid' \in AReport
    <3>1. Send(action, "DELETE") \/ SendBoth(action, "DELETE", "up", "SHIFT_LEFT")
      BY <1>2 DEF VimDelete
    <3> QED BY <3>1, SendStep, SendBothStep
  <2> QED BY <2>1, <2>2
<1>3. CASE VimSelect(action, k, m)
  <2>1. CASE action = "down" /\ ~shift_down
    <3>1. hid' = send_over_hid(hid, "down", "SHIFT_LEFT")
      BY <1>3, <2>1 DEF VimSelect, Send
    <3>2. hid' \in AReport /\ "SHIFT_LEFT" \in hid'.mods
      BY <3>1, SendReport, OutIsNoModifier
    <3> QED BY <1>3, <3>2 DEF VimSelect
  <2>2. CASE action = "down" /\ shift_down
    <3>1. ~shift_down' /\ Send("up", "SHIFT_LEFT")
      BY <1>3, <2>2 DEF VimSelect
    <3> QED BY <3>1, SendStep
  <2>3. CASE action # "down"
    BY <1>3, <2>3 DEF VimSelect, Silent
  <2> QED BY <2>1, <2>2, <2>3
<1>4. CASE VimExit(action, k, m)
  <2>1. ~shift_down'
    BY <1>4 DEF VimExit, Ended
  <2>2. hid' \in AReport
    <3>1. Send("up", "SHIFT_LEFT") \/ Silent
      BY <1>4 DEF VimExit
    <3> QED BY <3>1, SendStep
  <2> QED BY <2>1, <2>2
<1>5. CASE VimOther(action, k, m)
  <2>1. /\ (k # "SHIFT_LEFT" /\ Send(action, k)) \/ Silent
        /\ UNCHANGED << current_mode, shift_down >>
    BY <1>5 DEF VimOther, PassedOn, Shifts
  <2>2. hid' \in AReport /\ ("SHIFT_LEFT" \in hid.mods => "SHIFT_LEFT" \in hid'.mods)
    <3>1. CASE Silent
      BY <3>1 DEF Silent
    <3>2. CASE k # "SHIFT_LEFT" /\ Send(action, k)
      BY <3>2, ShiftKept
    <3> QED BY <2>1, <3>1, <3>2
  <2> QED BY <2>1, <2>2
<1> QED BY <1>1, <1>2, <1>3, <1>4, <1>5 DEF vim_process_input

LEMMA InputStep ==
  ASSUME SelectionInv, NEW action, NEW k, process_input(action, k)
  PROVE  SelectionInv'
<1>1. CASE NormalInput(action, k)
  <2>1. ~shift_down'
    BY <1>1 DEF NormalInput, SelectionInv, SelectionHeld
  <2>2. hid' \in AReport
    <3>1. Send(action, k) \/ Silent
      BY <1>1 DEF NormalInput
    <3> QED BY <3>1, SendStep DEF SelectionInv
  <2> QED BY <2>1, <2>2 DEF SelectionInv, SelectionHeld
<1>2. CASE VimInput(action, k)
  <2>1. CASE k \notin {"VIM", "FN"}
    BY <1>2, <2>1, VimStep DEF VimInput
  <2>2. CASE k \in {"VIM", "FN"}
    BY <1>2, <2>2 DEF VimInput, SelectionInv, SelectionHeld, Silent
  <2> QED BY <2>1, <2>2
<1>3. CASE FunctionInput(action, k)
  <2>1. ~shift_down'
    BY <1>3 DEF FunctionInput, SelectionInv, SelectionHeld
  <2>2. hid' \in AReport
    <3>1. Send(action, FunctionKey(k)) \/ Silent
      BY <1>3 DEF FunctionInput
    <3> QED BY <3>1, SendStep DEF SelectionInv
  <2> QED BY <2>1, <2>2 DEF SelectionInv, SelectionHeld
<1> QED BY <1>1, <1>2, <1>3 DEF process_input

(* The shift that vim mode presses for a selection (process_input.c:76-    *)
(* 112) is in the report as long as vim mode remembers it, and vim mode is *)
(* never left with it, for any sequence of keys.                           *)
THEOREM SelectionHeldCorrect == Spec => []SelectionHeld
<1>1. Init => SelectionInv
  BY StartReport DEF Init, SelectionInv, SelectionHeld
<1>2. SelectionInv /\ [Next]_vars => SelectionInv'
  <2> SUFFICES ASSUME SelectionInv, [Next]_vars PROVE SelectionInv'
    OBVIOUS
  <2>1. CASE Next
    BY <2>1, InputStep DEF Next, Press, Release
  <2>2. CASE UNCHANGED vars
    BY <2>2 DEF SelectionInv, SelectionHeld, vars
  <2> QED BY <2>1, <2>2
<1>3. SelectionInv => SelectionHeld
  BY DEF SelectionInv
<1> QED BY <1>1, <1>2, <1>3, PTL DEF Spec

-----------------------------------------------------------------------------
(* The types, and the slots.                                               *)
TypeInv == SelectionInv /\ TypeOK

LEMMA ReportTypes ==
  ASSUME NEW h \in AReport
  PROVE  /\ h.keys \in [OutKeys -> 0 .. MAX_DEPRESSED_KEYS]
         /\ SlotsUsed(h) <= MAX_DEPRESSED_KEYS /\ h.mods \subseteq ModKeys
<1>1. h \in Shape /\ SlotsUsed(h) <= MAX_DEPRESSED_KEYS
  BY DEF AReport
<1>2. h.keys \in [OutKeys -> Nat] /\ h.mods \subseteq ModKeys
  BY <1>1 DEF Shape
<1>3. ASSUME NEW k \in OutKeys
      PROVE  h.keys[k] \in 0 .. MAX_DEPRESSED_KEYS
  <2>1. SlotsUsed(h) \in Nat /\ h.keys[k] \in 0 .. SlotsUsed(h)
    BY <1>1, SlotsOf
  <2> QED BY <1>1, <2>1, KeysAssumption
<1> QED BY <1>1, <1>2, <1>3

LEMMA FlagTypes ==
  ASSUME current_modifiers \subseteq {"shift", "ctrl"}, NEW action, NEW k
  PROVE  Modifiers(action, k) \subseteq {"shift", "ctrl"}
<1>1. \A flag, keys, m : flag \in {"shift", "ctrl"} /\ m \subseteq {"shift", "ctrl"} =>
        Track(flag, keys, action, k, m) \subseteq {"shift", "ctrl"}
  BY DEF Track
<1> DEFINE m == Track("shift", Shifts, action, k, current_modifiers)
<1>2. m \subseteq {"shift", "ctrl"}
  BY <1>1
<1>3. Modifiers(action, k) = Track("ctrl", Controls, action, k, m)
  BY DEF Modifiers
<1> HIDE DEF m
<1>4. Track("ctrl", Controls, action, k, m) \subseteq {"shift", "ctrl"}
  BY <1>1, <1>2
<1> QED BY <1>3, <1>4

LEMMA ModeTypes ==
  ASSUME current_mode \in {"normal", "vim", "function"}, shift_down \in BOOLEAN,
         NEW action, NEW k, process_input(action, k)
  PROVE  current_mode' \in {"normal", "vim", "function"} /\ shift_down' \in BOOLEAN
<1>1. CASE NormalInput(action, k)
  BY <1>1 DEF NormalInput
<1>2. CASE FunctionInput(action, k)
  BY <1>2 DEF FunctionInput
<1>3. CASE VimInput(action, k)
  <2>1. CASE k \in {"VIM", "FN"}
    BY <1>3, <2>1 DEF VimInput
  <2>2. CASE k \notin {"VIM", "FN"}
    <3>1. PICK m : vim_process_input(action, k, m)
      BY <1>3, <2>2 DEF VimInput
    <3>2. CASE VimMove(action, k, m) \/ VimOther(action, k, m)
      BY <3>2 DEF VimMove, VimOther
    <3>3. CASE VimDelete(action, k, m) \/ VimExit(action, k, m)
      BY <3>3 DEF VimDelete, VimExit, Ended
    <3>4. CASE VimSelect(action, k, m)
      BY <3>4 DEF VimSelect
    <3> QED BY <3>1, <3>2, <3>3, <3>4 DEF vim_process_input
  <2> QED BY <2>1, <2>2
<1> QED BY <1>1, <1>2, <1>3 DEF process_input

LEMMA TypeStep ==
  ASSUME TypeInv, NEW k \in Keys, Press(k) \/ Release(k)
  PROVE  TypeInv'
<1>1. PICK action : process_input(action, k)
  BY DEF Press, Release
<1>2. SelectionInv'
  BY <1>1, InputStep DEF TypeInv
<1>3. current_mode' \in {"normal", "vim", "function"} /\ shift_down' \in BOOLEAN
  BY <1>1, ModeTypes DEF TypeInv, TypeOK
<1>4. current_modifiers' \subseteq {"shift", "ctrl"}
  BY <1>1, FlagTypes DEF TypeInv, TypeOK, process_input
<1>5. down' \subseteq Keys
  BY DEF TypeInv, TypeOK, Press, Release
<1>6. /\ hid'.keys \in [OutKeys -> 0 .. MAX_DEPRESSED_KEYS]
      /\ SlotsUsed(hid') <= MAX_DEPRESSED_KEYS /\ hid'.mods \subseteq ModKeys
  BY <1>2, ReportTypes DEF SelectionInv
<1> QED BY <1>2, <1>3, <1>4, <1>5, <1>6 DEF TypeInv, TypeOK

LEMMA TypeInit == ASSUME Init PROVE TypeInv
<1>1. hid \in AReport
  BY StartReport
<1>2. /\ hid.keys \in [OutKeys -> 0 .. MAX_DEPRESSED_KEYS]
      /\ SlotsUsed(hid) <= MAX_DEPRESSED_KEYS /\ hid.mods \subseteq ModKeys
  BY <1>1, ReportTypes
<1>3. /\ down = {} /\ current_mode = "normal"
      /\ current_modifiers = {} /\ shift_down = FALSE
  BY DEF Init
<1> QED BY <1>1, <1>2, <1>3 DEF TypeInv, SelectionInv, SelectionHeld, TypeOK

(* The report never holds more keys than it has slots                      *)
(* (send_over_hid.c:8, 35-60), for any number of slots and of keys held    *)
(* down at once: a press is entered only in a free slot, a release gives   *)
(* back one that was taken, in whatever mode either comes.                 *)
THEOREM SlotsCorrect == Spec => []TypeOK
<1>1. Init => TypeInv
  BY TypeInit
<1>2. TypeInv /\ [Next]_vars => TypeInv'
  <2> SUFFICES ASSUME TypeInv, [Next]_vars PROVE TypeInv'
    OBVIOUS
  <2>1. CASE Next
    BY <2>1, TypeStep DEF Next
  <2>2. CASE UNCHANGED vars
    <3>1. hid' = hid
      BY <2>2 DEF vars
    <3>2. SlotsUsed(hid') = SlotsUsed(hid)
      BY <3>1
    <3> QED BY <2>2, <3>2 DEF TypeInv, SelectionInv, SelectionHeld, TypeOK, vars
  <2> QED BY <2>1, <2>2
<1>3. TypeInv => TypeOK
  BY DEF TypeInv
<1> QED BY <1>1, <1>2, <1>3, PTL DEF Spec

-----------------------------------------------------------------------------
(* The careful typist.  What a mode sends for a letter, and the letters    *)
(* that vim mode keeps to itself.                                          *)
Out(mode, m, k) ==
  IF mode = "normal" THEN k
  ELSE IF mode = "function" THEN FunctionKey(k)
  ELSE IF k \in DOMAIN VimTable(m) THEN VimTable(m)[k]
  ELSE IF m = {} /\ k \in {"X", "D"} THEN "DELETE" ELSE k

Own(mode, m) == IF mode = "vim" /\ m = {} THEN {"V", "I"} ELSE {}

Modes == {"normal", "vim", "function"}

(* The table of vim mode, key by key. *)
LEMMA TableIs ==
  /\ DOMAIN VimTable({}) = {"0", "H", "J", "K", "L"}
  /\ VimTable({})["0"] = "HOME" /\ VimTable({})["H"] = "ARROW_LEFT"
  /\ VimTable({})["J"] = "ARROW_DOWN" /\ VimTable({})["K"] = "ARROW_UP"
  /\ VimTable({})["L"] = "ARROW_RIGHT"
  /\ DOMAIN VimTable({"shift"}) = {"4", "H", "L"}
  /\ VimTable({"shift"})["4"] = "END" /\ VimTable({"shift"})["H"] = "PAGE_UP"
  /\ VimTable({"shift"})["L"] = "PAGE_DOWN"
  /\ \A m : m # {} /\ m # {"shift"} => DOMAIN VimTable(m) = {}
<1>1. {} # {"shift"}
  OBVIOUS
<1>2. VimTable({}) = [k \in {"0", "H", "J", "K", "L"} |->
                    CASE k = "0" -> "HOME"      [] k = "H" -> "ARROW_LEFT"
                      [] k = "J" -> "ARROW_DOWN" [] k = "K" -> "ARROW_UP"
                      [] k = "L" -> "ARROW_RIGHT"]
  BY <1>1 DEF VimTable
<1>3. VimTable({"shift"}) = [k \in {"4", "H", "L"} |->
                    CASE k = "4" -> "END" [] k = "H" -> "PAGE_UP" [] k = "L" -> "PAGE_DOWN"]
  BY <1>1 DEF VimTable
<1>4. \A m : m # {} /\ m # {"shift"} => DOMAIN VimTable(m) = {}
  BY DEF VimTable
<1> QED BY <1>2, <1>3, <1>4

LEMMA TableKeys == \A m : DOMAIN VimTable(m) \subseteq {"0", "4", "H", "J", "K", "L"}
<1> TAKE m
<1>1. CASE m = {}
  BY <1>1, TableIs
<1>2. CASE m = {"shift"}
  BY <1>2, TableIs
<1>3. CASE m # {} /\ m # {"shift"}
  <2>1. DOMAIN VimTable(m) = {}
    BY <1>3, TableIs
  <2> QED BY <2>1
<1> QED BY <1>1, <1>2, <1>3

LEMMA PlainIs ==
  ASSUME NEW k \in Plain
  PROVE  /\ k \in Keys /\ k \in OutKeys
         /\ k \notin ModKeys /\ k \notin VimKeys \ {"DELETE"} /\ k \notin FunctionKeys
         /\ k # "VIM" /\ k # "FN" /\ k \notin Shifts /\ k \notin Controls
  BY KeysAssumption DEF OutKeys, ModKeys

(* What is sent for a letter is a key of the report, and no other letter   *)
(* is sent as the same, but for those that vim mode sends as delete.       *)
LEMMA OutIs ==
  ASSUME NEW k \in Plain, NEW mode \in Modes, NEW m
  PROVE  Out(mode, m, k) \in OutKeys
<1>1. CASE mode = "normal"
  BY <1>1, PlainIs DEF Out
<1>2. CASE mode = "function"
  BY <1>2, PlainIs DEF Out, FunctionKey, OutKeys, FunctionKeys
<1>3. CASE mode = "vim"
  <2>1. CASE k \in DOMAIN VimTable(m)
    <3>1. VimTable(m)[k] \in VimKeys
      <4>1. CASE m = {}
        BY <2>1, <4>1, TableIs DEF VimKeys
      <4>2. CASE m = {"shift"}
        BY <2>1, <4>2, TableIs DEF VimKeys
      <4>3. CASE m # {} /\ m # {"shift"}
        BY <2>1, <4>3, TableIs
      <4> QED BY <4>1, <4>2, <4>3
    <3> QED BY <1>3, <2>1, <3>1 DEF Out, OutKeys
  <2>2. CASE k \notin DOMAIN VimTable(m)
    BY <1>3, <2>2, PlainIs DEF Out, OutKeys, VimKeys
  <2> QED BY <2>1, <2>2
<1> QED BY <1>1, <1>2, <1>3 DEF Modes

LEMMA OutDiffers ==
  ASSUME NEW j \in Plain, NEW k \in Plain, NEW mode \in Modes, NEW m,
         j # k, Out(mode, m, j) = Out(mode, m, k)
  PROVE  mode = "vim" /\ m = {} /\ {j, k} \subseteq {"X", "D", "DELETE"}
<1>0. /\ j \notin VimKeys \ {"DELETE"} /\ j \notin FunctionKeys
      /\ k \notin VimKeys \ {"DELETE"} /\ k \notin FunctionKeys
  BY PlainIs
<1>1. CASE mode = "normal"
  BY <1>1 DEF Out
<1>2. CASE mode = "function"
  BY <1>0, <1>2 DEF Out, FunctionKey, FunctionKeys
<1>3. CASE mode = "vim" /\ m = {}
  <2>1. \A x : Out(mode, m, x) = IF x = "0" THEN "HOME" ELSE IF x = "H" THEN "ARROW_LEFT"
               ELSE IF x = "J" THEN "ARROW_DOWN" ELSE IF x = "K" THEN "ARROW_UP"
               ELSE IF x = "L" THEN "ARROW_RIGHT"
               ELSE IF x \in {"X", "D"} THEN "DELETE" ELSE x
    BY <1>3, TableIs DEF Out
  <2>2. /\ j \notin {"HOME", "ARROW_LEFT", "ARROW_DOWN", "ARROW_UP", "ARROW_RIGHT"}
        /\ k \notin {"HOME", "ARROW_LEFT", "ARROW_DOWN", "ARROW_UP", "ARROW_RIGHT"}
    BY <1>0 DEF VimKeys
  <2>3. j \in {"X", "D", "DELETE"} /\ k \in {"X", "D", "DELETE"}
    BY <2>1, <2>2
  <2> QED BY <1>3, <2>3
<1>4. CASE mode = "vim" /\ m = {"shift"}
  <2>1. \A x : Out(mode, m, x) = IF x = "4" THEN "END" ELSE IF x = "H" THEN "PAGE_UP"
               ELSE IF x = "L" THEN "PAGE_DOWN" ELSE x
    BY <1>4, TableIs DEF Out
  <2>2. j \notin {"END", "PAGE_UP", "PAGE_DOWN"} /\ k \notin {"END", "PAGE_UP", "PAGE_DOWN"}
    BY <1>0 DEF VimKeys
  <2> QED BY <2>1, <2>2
<1>5. CASE mode = "vim" /\ m # {} /\ m # {"shift"}
  <2>1. \A x : Out(mode, m, x) = x
    BY <1>5, TableIs DEF Out
  <2> QED BY <2>1
<1> QED BY <1>1, <1>2, <1>3, <1>4, <1>5 DEF Modes

(* The keys of report h are those sent for the letters in S, each as often *)
(* as it was sent.                                                         *)
SentAs(S, mode, m, o) == { k \in S : Out(mode, m, k) = o }

Shows(h, S, mode, m) ==
  /\ \A o \in OutKeys : h.keys[o] = Cardinality(SentAs(S, mode, m, o))
  /\ SlotsUsed(h) = Cardinality(S)

LEMMA SentIsFinite ==
  ASSUME NEW S, IsFiniteSet(S), NEW mode, NEW m, NEW o
  PROVE  /\ IsFiniteSet(SentAs(S, mode, m, o))
         /\ Cardinality(SentAs(S, mode, m, o)) \in Nat
<1>1. SentAs(S, mode, m, o) \subseteq S
  BY DEF SentAs
<1> QED BY <1>1, FS_Subset, FS_CardinalityType

(* A press that is sent joins them, and its release leaves them.  A press  *)
(* is worth a diagnostic when its code is in the report already.           *)
LEMMA PressShows ==
  ASSUME NEW h \in AReport, NEW mode \in Modes, NEW m, NEW S \in SUBSET Plain, IsFiniteSet(S),
         Shows(h, S, mode, m), Cardinality(S) < MAX_DEPRESSED_KEYS,
         NEW k \in Plain, k \notin S, NEW o, o = Out(mode, m, k)
  PROVE  Shows(KeyDown(h, o), S \cup {k}, mode, m)
<1> DEFINE n == h.keys[o] + 1
           g == [h EXCEPT !.keys[o] = n]
<1>1. o \in OutKeys /\ o \notin ModKeys
  BY OutIs, OutIsNoModifier
<1>2. h.keys[o] = Cardinality(SentAs(S, mode, m, o)) /\ h.keys[o] \in Nat
  BY <1>1, SentIsFinite DEF Shows
<1>4. KeyDown(h, o) = g
  BY DEF KeyDown, FreeSlot, Shows
<1>5. h \in Shape /\ h.keys \in [OutKeys -> Nat]
  BY DEF AReport, Shape
<1>6. SlotsUsed(g) = Cardinality(S) + 1
  <2>1. Cardinality(S) \in Nat /\ SlotsUsed(h) = Cardinality(S)
    BY FS_CardinalityType DEF Shows
  <2>2. n \in Nat /\ n = h.keys[o] + 1
    BY <1>2
  <2>3. SlotsUsed(g) = SlotsUsed(h) - h.keys[o] + n
    <3> HIDE DEF n
    <3> QED BY <1>1, <1>5, <2>2, CountReport
  <2> HIDE DEF n, g
  <2> QED BY <1>2, <2>1, <2>2, <2>3
<1>7. Cardinality(S \cup {k}) = Cardinality(S) + 1
  BY FS_AddElement
<1>8. \A p \in OutKeys : g.keys[p] = IF p = o THEN n ELSE h.keys[p]
  <2>1. g.keys = [h.keys EXCEPT ![o] = n]
    BY <1>5 DEF Shape
  <2> HIDE DEF n, g
  <2> QED BY <1>1, <1>5, <2>1
<1>9. ASSUME NEW p \in OutKeys
      PROVE  g.keys[p] = Cardinality(SentAs(S \cup {k}, mode, m, p))
  <2> HIDE DEF g
  <2>1. h.keys[p] = Cardinality(SentAs(S, mode, m, p))
    BY DEF Shows
  <2>2. CASE p = o
    <3>1. SentAs(S \cup {k}, mode, m, p) = SentAs(S, mode, m, o) \cup {k}
      BY <2>2 DEF SentAs
    <3>2. k \notin SentAs(S, mode, m, o)
      BY DEF SentAs
    <3>3. Cardinality(SentAs(S, mode, m, o) \cup {k}) = Cardinality(SentAs(S, mode, m, o)) + 1
      BY <3>2, SentIsFinite, FS_AddElement
    <3> QED BY <1>2, <1>8, <2>2, <3>1, <3>3
  <2>3. CASE p # o
    <3>1. SentAs(S \cup {k}, mode, m, p) = SentAs(S, mode, m, p)
      BY <2>3 DEF SentAs
    <3> QED BY <1>8, <2>1, <2>3, <3>1
  <2> QED BY <2>2, <2>3
<1> HIDE DEF g
<1> QED BY <1>4, <1>6, <1>7, <1>9 DEF Shows

LEMMA PressSays ==
  ASSUME NEW h \in AReport, NEW mode \in Modes, NEW m, NEW S \in SUBSET Plain, IsFiniteSet(S),
         Shows(h, S, mode, m), NEW k \in Plain, NEW o, o = Out(mode, m, k)
  PROVE  \/ Diagnostics(h, "down", o) = {}
         \/ Diagnostics(h, "down", o) = {"key down twice"} /\ SentAs(S, mode, m, o) # {}
<1>1. o \in OutKeys /\ o \notin ModKeys
  BY OutIs, OutIsNoModifier
<1>2. h.keys[o] = Cardinality(SentAs(S, mode, m, o)) /\ h.keys[o] \in Nat
  BY <1>1, SentIsFinite DEF Shows
<1>3. CASE h.keys[o] > 0
  <2>1. SentAs(S, mode, m, o) # {}
    BY <1>2, <1>3, FS_EmptySet
  <2> QED BY <1>1, <1>3, <2>1 DEF Diagnostics
<1>4. CASE ~(h.keys[o] > 0)
  BY <1>1, <1>4 DEF Diagnostics
<1> QED BY <1>3, <1>4

LEMMA ReleaseShows ==
  ASSUME NEW h \in AReport, NEW mode \in Modes, NEW m, NEW S \in SUBSET Plain, IsFiniteSet(S),
         Shows(h, S, mode, m), NEW k \in S, NEW o, o = Out(mode, m, k)
  PROVE  /\ Shows(KeyUp(h, o), S \ {k}, mode, m)
         /\ Diagnostics(h, "up", o) = {}
<1> DEFINE n == h.keys[o] - 1
           g == [h EXCEPT !.keys[o] = n]
<1>1. o \in OutKeys /\ o \notin ModKeys
  BY OutIs, OutIsNoModifier
<1>2. k \in SentAs(S, mode, m, o)
  BY DEF SentAs
<1>3. /\ h.keys[o] = Cardinality(SentAs(S, mode, m, o)) /\ h.keys[o] \in Nat \ {0}
      /\ Cardinality(SentAs(S, mode, m, o) \ {k}) = n
  <2>1. h.keys[o] = Cardinality(SentAs(S, mode, m, o)) /\ h.keys[o] \in Nat
    BY <1>1, SentIsFinite DEF Shows
  <2>2. Cardinality(SentAs(S, mode, m, o)) # 0
    BY <1>2, SentIsFinite, FS_EmptySet
  <2>3. Cardinality(SentAs(S, mode, m, o) \ {k}) = Cardinality(SentAs(S, mode, m, o)) - 1
    BY <1>2, SentIsFinite, FS_RemoveElement
  <2> QED BY <2>1, <2>2, <2>3
<1>4. KeyUp(h, o) = g
  BY <1>3 DEF KeyUp
<1>5. h \in Shape /\ h.keys \in [OutKeys -> Nat]
  BY DEF AReport, Shape
<1>6. SlotsUsed(g) = Cardinality(S) - 1
  <2>1. Cardinality(S) \in Nat /\ SlotsUsed(h) = Cardinality(S)
    BY FS_CardinalityType DEF Shows
  <2>2. n \in Nat /\ n = h.keys[o] - 1 /\ h.keys[o] \in Nat
    BY <1>3
  <2>3. SlotsUsed(g) = SlotsUsed(h) - h.keys[o] + n
    <3> HIDE DEF n
    <3> QED BY <1>1, <1>5, <2>2, CountReport
  <2> HIDE DEF n, g
  <2> QED BY <2>1, <2>2, <2>3
<1>7. Cardinality(S \ {k}) = Cardinality(S) - 1
  BY FS_RemoveElement
<1>8. \A p \in OutKeys : g.keys[p] = IF p = o THEN n ELSE h.keys[p]
  <2>1. g.keys = [h.keys EXCEPT ![o] = n]
    BY <1>5 DEF Shape
  <2> HIDE DEF n, g
  <2> QED BY <1>1, <1>5, <2>1
<1>9. ASSUME NEW p \in OutKeys
      PROVE  g.keys[p] = Cardinality(SentAs(S \ {k}, mode, m, p))
  <2> HIDE DEF g
  <2>1. h.keys[p] = Cardinality(SentAs(S, mode, m, p))
    BY DEF Shows
  <2>2. CASE p = o
    <3>1. SentAs(S \ {k}, mode, m, p) = SentAs(S, mode, m, o) \ {k}
      BY <2>2 DEF SentAs
    <3> QED BY <1>3, <1>8, <2>2, <3>1
  <2>3. CASE p # o
    <3>1. SentAs(S \ {k}, mode, m, p) = SentAs(S, mode, m, p)
      BY <2>3 DEF SentAs
    <3> QED BY <1>8, <2>1, <2>3, <3>1
  <2> QED BY <2>2, <2>3
<1>10. Diagnostics(h, "up", o) = {}
  BY <1>1, <1>3 DEF Diagnostics
<1> HIDE DEF g
<1> QED BY <1>4, <1>6, <1>7, <1>9, <1>10 DEF Shows

(* With no letter sent no key is in the report, in whatever mode. *)
LEMMA ShowsNothing ==
  ASSUME NEW h, NEW mode, NEW m
  PROVE  Shows(h, {}, mode, m) <=> SlotsUsed(h) = 0 /\ \A o \in OutKeys : h.keys[o] = 0
<1>1. \A o : SentAs({}, mode, m, o) = {}
  BY DEF SentAs
<1>2. Cardinality({}) = 0
  BY FS_EmptySet
<1> QED BY <1>1, <1>2 DEF Shows

(* A letter whose release sends a code that is not in the report. *)
LEMMA NothingShows ==
  ASSUME NEW h \in AReport, NEW mode \in Modes, NEW m, NEW S \in SUBSET Plain,
         Shows(h, S, mode, m), "I" \in Plain, "I" \notin S, NEW o, o = Out(mode, m, "I")
  PROVE  o = "I" /\ KeyUp(h, o) = h /\ Diagnostics(h, "up", o) = {}
<1>1. o = "I"
  <2>1. "I" \notin DOMAIN VimTable(m)
    BY TableKeys
  <2> QED BY <2>1 DEF Out, FunctionKey
<1>2. o \in OutKeys /\ o \notin ModKeys
  BY OutIs, OutIsNoModifier
<1>3. SentAs(S, mode, m, o) = {}
  <2>1. \A j \in S : Out(mode, m, j) # o
    BY OutDiffers
  <2> QED BY <2>1 DEF SentAs
<1>4. h.keys[o] = 0
  BY <1>2, <1>3, FS_EmptySet DEF Shows
<1>5. KeyUp(h, o) = h
  BY <1>4 DEF KeyUp
<1>6. Diagnostics(h, "up", o) = {}
  BY <1>1 DEF Diagnostics
<1> QED BY <1>1, <1>5, <1>6

LEMMA ModsOnly ==
  ASSUME NEW h \in AReport, NEW action, NEW k \in ModKeys
  PROVE  /\ send_over_hid(h, action, k).keys = h.keys
         /\ send_over_hid(h, action, k).mods =
              IF action = "down" THEN h.mods \cup {k} ELSE h.mods \ {k}
<1> DEFINE m == IF action = "down" THEN h.mods \cup {k} ELSE h.mods \ {k}
<1>1. h \in Shape
  BY DEF AReport
<1>2. send_over_hid(h, action, k) = [h EXCEPT !.mods = m]
  BY DEF send_over_hid
<1>3. [h EXCEPT !.mods = m].keys = h.keys /\ [h EXCEPT !.mods = m].mods = m
  <2> HIDE DEF m
  <2> QED BY <1>1 DEF Shape
<1> QED BY <1>2, <1>3

LEMMA ShiftSent ==
  ASSUME NEW h \in AReport
  PROVE  /\ send_over_hid(h, "up", "SHIFT_LEFT").keys = h.keys
         /\ send_over_hid(h, "up", "SHIFT_LEFT").mods = h.mods \ {"SHIFT_LEFT"}
         /\ send_over_hid(h, "down", "SHIFT_LEFT").keys = h.keys
         /\ send_over_hid(h, "down", "SHIFT_LEFT").mods = h.mods \cup {"SHIFT_LEFT"}
<1>1. "SHIFT_LEFT" \in ModKeys
  BY OutIsNoModifier
<1>2. h \in Shape
  BY DEF AReport
<1>3. /\ send_over_hid(h, "up", "SHIFT_LEFT") = [h EXCEPT !.mods = h.mods \ {"SHIFT_LEFT"}]
      /\ send_over_hid(h, "down", "SHIFT_LEFT") = [h EXCEPT !.mods = h.mods \cup {"SHIFT_LEFT"}]
  BY <1>1 DEF send_over_hid
<1>4. \A m : [h EXCEPT !.mods = m].keys = h.keys /\ [h EXCEPT !.mods = m].mods = m
  BY <1>2 DEF Shape
<1> QED BY <1>3, <1>4

LEMMA KeySent ==
  ASSUME NEW h \in AReport, NEW action, NEW k, k \notin ModKeys
  PROVE  send_over_hid(h, action, k) \in AReport /\ send_over_hid(h, action, k).mods = h.mods
  BY SendReport

LEMMA SameKeys ==
  ASSUME NEW h, NEW g, g.keys = h.keys
  PROVE  /\ SlotsUsed(g) = SlotsUsed(h)
         /\ \A S, mode, m : Shows(h, S, mode, m) => Shows(g, S, mode, m)
<1>1. SlotsUsed(g) = SlotsUsed(h)
  BY DEF SlotsUsed
<1> QED BY <1>1 DEF Shows

LEMMA PlainFlags ==
  ASSUME NEW k \in Plain, NEW action
  PROVE  Modifiers(action, k) = current_modifiers
  BY PlainIs DEF Modifiers, Track

(* What happens to a letter that the mode sends: the code of the mode goes *)
(* to the report, and only vim mode may let go of its shift besides.       *)
LEMMA LetterSent ==
  ASSUME hid \in AReport, current_mode \in Modes, shift_down \in BOOLEAN,
         NEW action \in {"down", "up"}, NEW k \in Plain,
         k \notin Own(current_mode, current_modifiers), process_input(action, k),
         NEW o, o = Out(current_mode, current_modifiers, k)
  PROVE  /\ UNCHANGED << current_mode, current_modifiers >>
         /\ hid'.keys = send_over_hid(hid, action, o).keys
         /\ said' = Diagnostics(hid, action, o)
         /\ hid'.mods = IF shift_down' = shift_down THEN hid.mods ELSE hid.mods \ {"SHIFT_LEFT"}
         /\ shift_down' = shift_down \/ (current_mode = "vim" /\ shift_down' = FALSE)
<1> DEFINE h == send_over_hid(hid, action, o)
<1>1. o \in OutKeys /\ o \notin ModKeys
  BY OutIs, OutIsNoModifier
<1>2. h \in AReport /\ h.mods = hid.mods
  BY <1>1, KeySent
<1>3. current_modifiers' = current_modifiers
  BY PlainFlags DEF process_input
<1>4. k \notin ModKeys /\ k \notin {"VIM", "FN"}
  BY PlainIs
<1> HIDE DEF h
<1>5. ASSUME Send(action, o), UNCHANGED << current_mode, shift_down >>
      PROVE  /\ UNCHANGED current_mode /\ hid'.keys = h.keys /\ said' = Diagnostics(hid, action, o)
             /\ hid'.mods = IF shift_down' = shift_down THEN hid.mods ELSE hid.mods \ {"SHIFT_LEFT"}
             /\ shift_down' = shift_down \/ (current_mode = "vim" /\ shift_down' = FALSE)
  BY <1>2, <1>5 DEF Send, h
<1>6. CASE NormalInput(action, k)
  BY <1>3, <1>4, <1>5, <1>6 DEF NormalInput, Out, h
<1>7. CASE FunctionInput(action, k)
  BY <1>3, <1>4, <1>5, <1>7 DEF FunctionInput, Out, h
<1>8. CASE VimInput(action, k)
  <2> DEFINE m == current_modifiers
  <2>1. current_mode = "vim" /\ vim_process_input(action, k, m)
    BY <1>4, <1>8, PlainFlags DEF VimInput
  <2> HIDE DEF m
  <2>2. o = Out("vim", m, k) /\ k \notin Own("vim", m)
    BY <2>1 DEF m
  <2>3. CASE VimMove(action, k, m)
    <3>1. o = VimTable(m)[k]
      BY <2>2, <2>3 DEF VimMove, Out
    <3> QED BY <1>3, <1>5, <2>3, <3>1 DEF VimMove, h
  <2>4. CASE VimDelete(action, k, m)
    <3>1. o = "DELETE" /\ current_mode' = current_mode /\ shift_down' = FALSE
      <4>1. k \notin DOMAIN VimTable(m)
        BY <2>4, TableIs DEF VimDelete
      <4> QED BY <2>2, <2>4, <4>1 DEF VimDelete, Out, Ended
    <3>2. CASE shift_down
      <4>1. hid' = send_over_hid(h, "up", "SHIFT_LEFT")
        BY <2>4, <3>1, <3>2 DEF VimDelete, SendBoth, Selection, h
      <4>2. said' = Diagnostics(hid, action, o) \cup Diagnostics(h, "up", "SHIFT_LEFT")
        BY <2>4, <3>1, <3>2 DEF VimDelete, SendBoth, Selection, h
      <4>3. Diagnostics(h, "up", "SHIFT_LEFT") = {}
        BY OutIsNoModifier DEF Diagnostics
      <4>4. hid'.keys = h.keys /\ hid'.mods = h.mods \ {"SHIFT_LEFT"}
        BY <1>2, <4>1, ShiftSent
      <4> QED BY <1>2, <1>3, <2>1, <3>1, <3>2, <4>2, <4>3, <4>4 DEF h
    <3>3. CASE ~shift_down
      <4>1. Send(action, o) /\ UNCHANGED << current_mode, shift_down >>
        BY <2>4, <3>1, <3>3 DEF VimDelete, Selection
      <4> QED BY <1>3, <1>5, <4>1 DEF h
    <3> QED BY <3>2, <3>3
  <2>5. CASE VimSelect(action, k, m) \/ VimExit(action, k, m)
    BY <2>2, <2>5 DEF VimSelect, VimExit, Own
  <2>6. CASE VimOther(action, k, m)
    <3>1. o = k
      BY <2>2, <2>6 DEF VimOther, Out
    <3>2. PassedOn(k)
      BY PlainIs DEF PassedOn
    <3> QED BY <1>3, <1>5, <2>6, <3>1, <3>2 DEF VimOther, h
  <2> QED BY <2>1, <2>3, <2>4, <2>5, <2>6 DEF vim_process_input
<1> QED BY <1>6, <1>7, <1>8 DEF process_input

(* The letters that vim mode keeps: a selection begins or ends, or vim     *)
(* mode does.                                                              *)
Selected == IF shift_down THEN {"SHIFT_LEFT"} ELSE {}

LEMMA LetterKept ==
  ASSUME hid \in AReport, current_mode \in Modes, shift_down \in BOOLEAN,
         NEW held, "SHIFT_LEFT" \notin held, hid.mods = Selected \cup held,
         NEW action \in {"down", "up"}, NEW k \in Plain,
         k \in Own(current_mode, current_modifiers), process_input(action, k)
  PROVE  /\ UNCHANGED current_modifiers
         /\ current_mode' = IF k = "I" THEN "normal" ELSE "vim"
         /\ hid'.keys = hid.keys /\ said' = {}
         /\ hid'.mods = Selected' \cup held
         /\ k = "I" => shift_down' = FALSE
<1>1. current_modifiers' = current_modifiers
  BY PlainFlags DEF process_input
<1>2. current_mode = "vim" /\ current_modifiers = {} /\ k \in {"V", "I"}
  BY DEF Own
<1>3. k \notin DOMAIN VimTable({})
  BY <1>2, TableIs
<1>4. vim_process_input(action, k, {})
  BY <1>2, PlainIs, PlainFlags DEF process_input, NormalInput, FunctionInput, VimInput
<1>5. VimSelect(action, k, {}) \/ VimExit(action, k, {})
  BY <1>2, <1>3, <1>4 DEF vim_process_input, VimMove, VimDelete, VimOther
<1>6. ASSUME Send("up", "SHIFT_LEFT")
      PROVE  hid'.keys = hid.keys /\ hid'.mods = held /\ said' = {}
  <2>1. hid' = send_over_hid(hid, "up", "SHIFT_LEFT") /\ said' = Diagnostics(hid, "up", "SHIFT_LEFT")
    BY <1>6 DEF Send
  <2>2. hid'.keys = hid.keys /\ hid'.mods = hid.mods \ {"SHIFT_LEFT"}
    BY <2>1, ShiftSent
  <2>3. said' = {}
    BY <2>1, OutIsNoModifier DEF Diagnostics
  <2> QED BY <2>2, <2>3 DEF Selected
<1>7. ASSUME Send("down", "SHIFT_LEFT"), ~shift_down
      PROVE  hid'.keys = hid.keys /\ hid'.mods = {"SHIFT_LEFT"} \cup held /\ said' = {}
  <2>1. hid' = send_over_hid(hid, "down", "SHIFT_LEFT") /\ said' = Diagnostics(hid, "down", "SHIFT_LEFT")
    BY <1>7 DEF Send
  <2>2. hid'.keys = hid.keys /\ hid'.mods = hid.mods \cup {"SHIFT_LEFT"}
    BY <2>1, ShiftSent
  <2>3. hid.mods = held
    BY <1>7 DEF Selected
  <2>4. said' = {}
    BY <2>1, <2>3, OutIsNoModifier DEF Diagnostics
  <2> QED BY <2>2, <2>3, <2>4
<1>8. CASE VimSelect(action, k, {})
  <2>1. k = "V" /\ current_mode' = "vim"
    BY <1>2, <1>8 DEF VimSelect
  <2>2. CASE action = "down" /\ shift_down
    BY <1>1, <1>6, <1>8, <2>1, <2>2 DEF VimSelect, Selected
  <2>3. CASE action = "down" /\ ~shift_down
    BY <1>1, <1>7, <1>8, <2>1, <2>3 DEF VimSelect, Selected
  <2>4. CASE action # "down"
    BY <1>1, <1>8, <2>1, <2>4 DEF VimSelect, Silent, Selected
  <2> QED BY <2>2, <2>3, <2>4
<1>9. CASE VimExit(action, k, {})
  <2>1. k = "I" /\ current_mode' = "normal" /\ shift_down' = FALSE
    BY <1>9 DEF VimExit, Ended
  <2>2. CASE shift_down
    BY <1>1, <1>6, <1>9, <2>1, <2>2 DEF VimExit, Selection, Selected
  <2>3. CASE ~shift_down
    BY <1>1, <1>9, <2>1, <2>3 DEF VimExit, Selection, Silent, Selected
  <2> QED BY <2>2, <2>3
<1> QED BY <1>5, <1>8, <1>9

-----------------------------------------------------------------------------
(* The letters in S are in the report; one that is not is kept by vim      *)
(* mode, or is the i that left it.                                         *)
InReport(S) ==
  /\ Shows(hid, S, current_mode, current_modifiers)
  /\ S \cap Own(current_mode, current_modifiers) = {}
  /\ Letters \ S \subseteq {"I"} \cup Own(current_mode, current_modifiers)
  /\ "I" \notin Letters \cap Own(current_mode, current_modifiers)

(* Vim mode passes on no modifiers but alt and gui. *)
Alts == ModKeys \ (Shifts \cup Controls)

ModsShown ==
  hid.mods = IF current_mode = "vim" THEN Selected \cup (down \cap Alts) ELSE down \cap ModKeys

CarefulInv ==
  /\ TypeInv /\ ModsShown
  /\ said = {} \/ (said = {"key down twice"} /\ TwoDeletes)
  /\ \E S \in SUBSET Letters : InReport(S)

LEMMA AltIs == Alts \subseteq ModKeys /\ "SHIFT_LEFT" \notin Alts
  BY DEF Alts, Shifts

LEMMA CarefulTypes ==
  ASSUME CarefulInv
  PROVE  /\ hid \in AReport /\ current_mode \in Modes /\ shift_down \in BOOLEAN
         /\ IsFiniteSet(Letters) /\ Letters \in SUBSET Plain
         /\ shift_down => current_mode = "vim"
<1>1. down \subseteq Keys /\ IsFiniteSet(Keys)
  BY KeysAssumption DEF CarefulInv, TypeInv, TypeOK
<1>2. IsFiniteSet(Letters)
  BY <1>1, FS_Subset DEF Letters
<1> QED BY <1>2 DEF CarefulInv, TypeInv, TypeOK, SelectionInv, SelectionHeld, Modes, Letters

LEMMA LetterMods ==
  ASSUME ModsShown, current_mode' = current_mode, down' \cap ModKeys = down \cap ModKeys,
         shift_down \in BOOLEAN, shift_down => current_mode = "vim",
         hid'.mods = IF shift_down' = shift_down THEN hid.mods ELSE hid.mods \ {"SHIFT_LEFT"},
         shift_down' = shift_down \/ (current_mode = "vim" /\ shift_down' = FALSE)
  PROVE  ModsShown'
<1>1. down' \cap Alts = down \cap Alts
  BY AltIs
<1> QED BY <1>1, AltIs DEF ModsShown, Selected

(* A letter goes down. *)
LEMMA LetterPress ==
  ASSUME CarefulInv, NEW k \in Plain, CarefulPress(k), TypeInv'
  PROVE  CarefulInv'
<1>1. /\ k \notin down /\ down' = down \cup {k} /\ process_input("down", k)
      /\ Cardinality(Letters) < MAX_DEPRESSED_KEYS
  BY DEF CarefulPress, Press
<1>4. /\ Letters' = Letters \cup {k} /\ k \notin Letters
      /\ down' \cap ModKeys = down \cap ModKeys
  BY <1>1, PlainIs DEF Letters
<1>5. PICK S \in SUBSET Letters : InReport(S)
  BY DEF CarefulInv
<1> DEFINE o == Out(current_mode, current_modifiers, k)
<1>6. CASE k \notin Own(current_mode, current_modifiers)
  <2>1. /\ UNCHANGED << current_mode, current_modifiers >>
        /\ hid'.keys = send_over_hid(hid, "down", o).keys
        /\ said' = Diagnostics(hid, "down", o)
        /\ hid'.mods = IF shift_down' = shift_down THEN hid.mods ELSE hid.mods \ {"SHIFT_LEFT"}
        /\ shift_down' = shift_down \/ (current_mode = "vim" /\ shift_down' = FALSE)
    BY <1>1, <1>6, CarefulTypes, LetterSent
  <2>2. o \notin ModKeys
    BY OutIs, OutIsNoModifier, CarefulTypes
  <2>3. send_over_hid(hid, "down", o) = KeyDown(hid, o)
    BY <2>2 DEF send_over_hid
  <2>4. /\ Shows(KeyDown(hid, o), S \cup {k}, current_mode, current_modifiers)
        /\ \/ Diagnostics(hid, "down", o) = {}
           \/ /\ Diagnostics(hid, "down", o) = {"key down twice"}
              /\ SentAs(S, current_mode, current_modifiers, o) # {}
    <3>1. IsFiniteSet(S) /\ Cardinality(S) <= Cardinality(Letters)
      BY <1>5, CarefulTypes, FS_Subset
    <3>2. Cardinality(S) < MAX_DEPRESSED_KEYS
      <4>1. Cardinality(S) \in Nat /\ Cardinality(Letters) \in Nat
        BY <3>1, CarefulTypes, FS_CardinalityType
      <4> QED BY <1>1, <3>1, <4>1, KeysAssumption
    <3>4. S \in SUBSET Plain /\ k \notin S
      BY <1>4, <1>5, CarefulTypes
    <3>5. Shows(hid, S, current_mode, current_modifiers)
      BY <1>5 DEF InReport
    <3> HIDE DEF o
    <3>6. o = Out(current_mode, current_modifiers, k)
      BY DEF o
    <3>7. hid \in AReport /\ current_mode \in Modes
      BY CarefulTypes
    <3>8. Shows(KeyDown(hid, o), S \cup {k}, current_mode, current_modifiers)
      BY <3>1, <3>2, <3>4, <3>5, <3>6, <3>7, PressShows
    <3>9. \/ Diagnostics(hid, "down", o) = {}
          \/ /\ Diagnostics(hid, "down", o) = {"key down twice"}
             /\ SentAs(S, current_mode, current_modifiers, o) # {}
      BY <3>1, <3>4, <3>5, <3>6, <3>7, PressSays
    <3> QED BY <3>8, <3>9
  <2>8. said' = {} \/ (said' = {"key down twice"} /\ TwoDeletes')
    <3> SUFFICES ASSUME NEW j \in S, Out(current_mode, current_modifiers, j) = o
                 PROVE  TwoDeletes'
      BY <2>1, <2>4 DEF SentAs
    <3>1. j \in Plain /\ j # k /\ j \in down' /\ k \in down'
      BY <1>1, <1>4, <1>5, CarefulTypes DEF Letters
    <3>2. /\ current_mode = "vim" /\ current_modifiers = {}
          /\ {j, k} \subseteq {"X", "D", "DELETE"}
      BY <3>1, CarefulTypes, OutDiffers
    <3> QED BY <2>1, <3>1, <3>2 DEF TwoDeletes
  <2> HIDE DEF o
  <2>5. Shows(hid', S \cup {k}, current_mode, current_modifiers)
    BY <2>1, <2>3, <2>4, SameKeys
  <2>6. InReport(S \cup {k})' /\ S \cup {k} \in SUBSET Letters'
    BY <1>4, <1>5, <1>6, <2>1, <2>5 DEF InReport, Own
  <2>7. ModsShown'
    BY <1>4, <2>1, CarefulTypes, LetterMods DEF CarefulInv
  <2> QED BY <2>6, <2>7, <2>8 DEF CarefulInv
<1>7. CASE k \in Own(current_mode, current_modifiers)
  <2>1. hid.mods = Selected \cup (down \cap Alts) /\ "SHIFT_LEFT" \notin down \cap Alts
    BY <1>7, AltIs DEF CarefulInv, ModsShown, Own
  <2>2. /\ UNCHANGED current_modifiers
        /\ current_mode' = IF k = "I" THEN "normal" ELSE "vim"
        /\ hid'.keys = hid.keys /\ said' = {}
        /\ hid'.mods = Selected' \cup (down \cap Alts)
        /\ k = "I" => shift_down' = FALSE
    BY <1>1, <1>7, <2>1, CarefulTypes, LetterKept
  <2>3. CASE k = "I"
    <3>1. down = {}
      BY <1>7, <2>3 DEF CarefulPress, ModeKeys, Own
    <3>2. S = {} /\ Letters' = {"I"} /\ down' \cap ModKeys = {}
      BY <1>4, <1>5, <2>3, <3>1 DEF Letters
    <3>3. Shows(hid', {}, "normal", current_modifiers)
      <4>1. Shows(hid, {}, "normal", current_modifiers)
        BY <1>5, <3>2, ShowsNothing DEF InReport
      <4> QED BY <2>2, <4>1, SameKeys
    <3>4. InReport({})'
      BY <2>2, <2>3, <3>2, <3>3 DEF InReport, Own
    <3>5. ModsShown'
      BY <2>2, <2>3, <3>1, <3>2 DEF ModsShown, Selected
    <3> QED BY <2>2, <3>2, <3>4, <3>5 DEF CarefulInv
  <2>4. CASE k = "V"
    <3>1. current_mode = "vim" /\ current_mode' = "vim" /\ current_modifiers' = current_modifiers
      BY <1>7, <2>2, <2>4 DEF Own
    <3>2. Shows(hid', S, current_mode, current_modifiers)
      BY <1>5, <2>2, SameKeys DEF InReport
    <3>3. InReport(S)' /\ S \in SUBSET Letters'
      BY <1>4, <1>5, <1>7, <2>4, <3>1, <3>2 DEF InReport, Own
    <3>4. ModsShown'
      BY <1>4, <2>2, <3>1, AltIs DEF ModsShown
    <3> QED BY <2>2, <3>3, <3>4 DEF CarefulInv
  <2> QED BY <1>7, <2>3, <2>4 DEF Own
<1> QED BY <1>6, <1>7

(* A letter comes up. *)
LEMMA LetterRelease ==
  ASSUME CarefulInv, NEW k \in Plain, Release(k), TypeInv'
  PROVE  CarefulInv'
<1>1. k \in down /\ down' = down \ {k} /\ process_input("up", k)
  BY DEF Release
<1>3. /\ Letters' = Letters \ {k} /\ k \in Letters
      /\ down' \cap ModKeys = down \cap ModKeys
  BY <1>1, PlainIs DEF Letters
<1>4. PICK S \in SUBSET Letters : InReport(S)
  BY DEF CarefulInv
<1>5. S \in SUBSET Plain /\ IsFiniteSet(S)
  BY <1>4, CarefulTypes, FS_Subset
<1> DEFINE o == Out(current_mode, current_modifiers, k)
<1>6. CASE k \notin Own(current_mode, current_modifiers)
  <2>1. /\ UNCHANGED << current_mode, current_modifiers >>
        /\ hid'.keys = send_over_hid(hid, "up", o).keys
        /\ said' = Diagnostics(hid, "up", o)
        /\ hid'.mods = IF shift_down' = shift_down THEN hid.mods ELSE hid.mods \ {"SHIFT_LEFT"}
        /\ shift_down' = shift_down \/ (current_mode = "vim" /\ shift_down' = FALSE)
    BY <1>1, <1>6, CarefulTypes, LetterSent
  <2>2. o \notin ModKeys
    BY OutIs, OutIsNoModifier, CarefulTypes
  <2>3. send_over_hid(hid, "up", o) = KeyUp(hid, o)
    BY <2>2 DEF send_over_hid
  <2>4. /\ Shows(KeyUp(hid, o), S \ {k}, current_mode, current_modifiers)
        /\ Diagnostics(hid, "up", o) = {}
    <3>1. Shows(hid, S, current_mode, current_modifiers)
      BY <1>4 DEF InReport
    <3> HIDE DEF o
    <3>2. o = Out(current_mode, current_modifiers, k)
      BY DEF o
    <3>3. CASE k \in S
      BY <1>5, <3>1, <3>2, <3>3, CarefulTypes, ReleaseShows
    <3>4. CASE k \notin S
      <4>1. k = "I"
        BY <1>3, <1>4, <1>6, <3>4 DEF InReport
      <4>2. S \ {k} = S
        BY <3>4
      <4>3. KeyUp(hid, o) = hid /\ Diagnostics(hid, "up", o) = {}
        BY <1>5, <3>1, <3>2, <3>4, <4>1, CarefulTypes, NothingShows
      <4> QED BY <3>1, <4>2, <4>3
    <3> QED BY <3>3, <3>4
  <2> HIDE DEF o
  <2>5. Shows(hid', S \ {k}, current_mode, current_modifiers)
    BY <2>1, <2>3, <2>4, SameKeys
  <2>6. InReport(S \ {k})' /\ S \ {k} \in SUBSET Letters'
    BY <1>3, <1>4, <1>6, <2>1, <2>5 DEF InReport, Own
  <2>7. ModsShown'
    BY <1>3, <2>1, CarefulTypes, LetterMods DEF CarefulInv
  <2> QED BY <2>1, <2>4, <2>6, <2>7 DEF CarefulInv
<1>7. CASE k \in Own(current_mode, current_modifiers)
  <2>1. hid.mods = Selected \cup (down \cap Alts) /\ "SHIFT_LEFT" \notin down \cap Alts
    BY <1>7, AltIs DEF CarefulInv, ModsShown, Own
  <2>2. k # "I" /\ k \notin S
    BY <1>3, <1>4, <1>7 DEF InReport
  <2>3. /\ UNCHANGED current_modifiers
        /\ current_mode' = "vim" /\ current_mode = "vim"
        /\ hid'.keys = hid.keys /\ said' = {}
        /\ hid'.mods = Selected' \cup (down \cap Alts)
    BY <1>1, <1>7, <2>1, <2>2, CarefulTypes, LetterKept DEF Own
  <2>4. Shows(hid', S, current_mode, current_modifiers)
    BY <1>4, <2>3, SameKeys DEF InReport
  <2>5. InReport(S)' /\ S \in SUBSET Letters'
    BY <1>3, <1>4, <2>2, <2>3, <2>4 DEF InReport, Own
  <2>6. ModsShown'
    BY <1>3, <2>3, AltIs DEF ModsShown
  <2> QED BY <2>3, <2>5, <2>6 DEF CarefulInv
<1> QED BY <1>6, <1>7

(* With no letter down the report holds no key, whatever the mode.         *)
LEMMA NoLetters ==
  ASSUME CarefulInv, Letters = {}, Letters' = {}, hid'.keys = hid.keys
  PROVE  \E S \in SUBSET Letters' : InReport(S)'
<1>1. InReport({})
  BY DEF CarefulInv
<1>2. Shows(hid, {}, current_mode', current_modifiers')
  BY <1>1, ShowsNothing DEF InReport
<1>3. Shows(hid', {}, current_mode', current_modifiers')
  BY <1>2, SameKeys
<1>4. InReport({})'
  BY <1>3 DEF InReport
<1> QED BY <1>4

LEMMA ModIs ==
  ASSUME NEW k \in ModKeys
  PROVE  /\ k \notin Plain /\ k \notin {"VIM", "FN", "X", "D", "V", "I", "1", "2"}
         /\ k \notin {"0", "4", "H", "J", "K", "L"}
  BY KeysAssumption DEF ModKeys, Shifts, Controls

(* A modifier is reported by every mode, alt and gui by vim mode, too. *)
LEMMA ModifierSent ==
  ASSUME NEW action \in {"down", "up"}, NEW k \in ModKeys, process_input(action, k),
         current_mode \in Modes
  PROVE  /\ UNCHANGED << current_mode, shift_down >>
         /\ IF current_mode = "vim" /\ k \notin Alts THEN Silent ELSE Send(action, k)
<1>1. CASE NormalInput(action, k)
  BY <1>1, ModIs DEF NormalInput
<1>2. CASE FunctionInput(action, k)
  BY <1>2, ModIs DEF FunctionInput, FunctionKey
<1>3. CASE VimInput(action, k)
  <2>1. PICK m : vim_process_input(action, k, m)
    BY <1>3, ModIs DEF VimInput
  <2>2. VimOther(action, k, m)
    <3>1. k \notin DOMAIN VimTable(m)
      BY ModIs, TableKeys
    <3> QED BY <2>1, <3>1, ModIs DEF vim_process_input, VimMove, VimDelete, VimSelect, VimExit
  <2>3. PassedOn(k) <=> k \in Alts
    BY DEF PassedOn, Alts
  <2> QED BY <1>3, <2>2, <2>3 DEF VimInput, VimOther
<1> QED BY <1>1, <1>2, <1>3 DEF process_input

(* A modifier goes down or comes up.  No letter is down, so nothing else   *)
(* changes.                                                                *)
LEMMA ModifierStep ==
  ASSUME CarefulInv, NEW k \in ModKeys, CarefulPress(k) \/ CarefulRelease(k), TypeInv'
  PROVE  CarefulInv'
<1>1. Letters = {}
  BY DEF CarefulPress, CarefulRelease
<1>2. PICK action \in {"down", "up"} :
        /\ process_input(action, k)
        /\ IF action = "down" THEN k \notin down /\ down' = down \cup {k}
                              ELSE k \in down /\ down' = down \ {k}
  BY DEF CarefulPress, CarefulRelease, Press, Release
<1>3. Letters' = {}
  BY <1>1, <1>2, ModIs DEF Letters
<1>4. /\ UNCHANGED << current_mode, shift_down >>
      /\ IF current_mode = "vim" /\ k \notin Alts THEN Silent ELSE Send(action, k)
  BY <1>2, CarefulTypes, ModifierSent
<1>5. CASE current_mode = "vim" /\ k \notin Alts
  <2>1. hid' = hid /\ said' = {}
    BY <1>4, <1>5 DEF Silent
  <2>2. down' \cap Alts = down \cap Alts
    BY <1>2, <1>5
  <2>3. ModsShown'
    BY <1>4, <1>5, <2>1, <2>2 DEF ModsShown, Selected, CarefulInv
  <2> QED BY <1>1, <1>3, <2>1, <2>3, NoLetters DEF CarefulInv
<1>6. CASE ~(current_mode = "vim" /\ k \notin Alts)
  <2>1. hid' = send_over_hid(hid, action, k) /\ said' = Diagnostics(hid, action, k)
    BY <1>4, <1>6 DEF Send
  <2>2. hid.mods = IF current_mode = "vim" THEN Selected \cup (down \cap Alts)
                                           ELSE down \cap ModKeys
    BY DEF CarefulInv, ModsShown
  <2>8. /\ send_over_hid(hid, action, k).keys = hid.keys
        /\ send_over_hid(hid, action, k).mods =
             IF action = "down" THEN hid.mods \cup {k} ELSE hid.mods \ {k}
    BY CarefulTypes, ModsOnly
  <2>3. hid'.mods = IF action = "down" THEN hid.mods \cup {k} ELSE hid.mods \ {k}
    BY <2>1, <2>8
  <2>4. hid'.keys = hid.keys
    BY <2>1, <2>8
  <2>5. current_mode = "vim" => k \in Alts /\ k \notin Selected
    BY <1>6, AltIs DEF Selected
  <2>6. said' = {}
    BY <1>2, <2>1, <2>2, <2>5 DEF Diagnostics
  <2>7. ModsShown'
    <3>1. Selected' = Selected /\ current_mode' = current_mode
      BY <1>4 DEF Selected
    <3>2. CASE current_mode = "vim"
      BY <1>2, <2>2, <2>3, <2>5, <3>1, <3>2 DEF ModsShown
    <3>3. CASE current_mode # "vim"
      BY <1>2, <2>2, <2>3, <3>1, <3>3 DEF ModsShown
    <3> QED BY <3>2, <3>3
  <2> QED BY <1>1, <1>3, <2>4, <2>6, <2>7, NoLetters DEF CarefulInv
<1> QED BY <1>5, <1>6

(* The keys that change the mode. *)
LEMMA ModeStep ==
  ASSUME CarefulInv, NEW k \in {"VIM", "FN"}, CarefulPress(k) \/ Release(k), TypeInv'
  PROVE  CarefulInv'
<1>1. k \notin Plain /\ k \notin ModKeys
  BY KeysAssumption DEF ModKeys, Shifts, Controls
<1>2. PICK action \in {"down", "up"} :
        /\ process_input(action, k)
        /\ IF action = "down" THEN down = {} /\ down' = {k}
                              ELSE k \in down /\ down' = down \ {k}
  BY DEF CarefulPress, ModeKeys, Press, Release
<1>3. /\ Silent /\ UNCHANGED shift_down
      /\ action = "up" => current_mode' = current_mode
  BY <1>2 DEF process_input, NormalInput, VimInput, FunctionInput
<1>4. current_modifiers' = current_modifiers
  <2>1. k \notin Shifts /\ k \notin Controls
    BY DEF Shifts, Controls
  <2> QED BY <1>2, <2>1 DEF process_input, Modifiers, Track
<1>5. current_mode = "vim" => current_mode' = "vim"
  BY <1>2 DEF process_input, NormalInput, VimInput, FunctionInput
<1>6. hid' = hid /\ said' = {} /\ Letters' = Letters
  BY <1>1, <1>2, <1>3 DEF Silent, Letters
<1>7. down' \cap ModKeys = down \cap ModKeys /\ down' \cap Alts = down \cap Alts
  BY <1>1, <1>2, AltIs
<1>8. CASE action = "up"
  <2>1. ModsShown'
    BY <1>3, <1>6, <1>7, <1>8 DEF CarefulInv, ModsShown, Selected
  <2>2. \E S \in SUBSET Letters' : InReport(S)'
    BY <1>3, <1>4, <1>6, <1>8 DEF CarefulInv, InReport
  <2> QED BY <1>6, <2>1, <2>2 DEF CarefulInv
<1>9. CASE action = "down"
  <2>1. Letters = {} /\ down \cap ModKeys = {}
    BY <1>2, <1>9 DEF Letters
  <2>2. ModsShown'
    BY <1>3, <1>5, <1>6, <1>7, <2>1, CarefulTypes, AltIs DEF CarefulInv, ModsShown, Selected
  <2> QED BY <1>6, <2>1, <2>2, NoLetters DEF CarefulInv
<1> QED BY <1>8, <1>9

LEMMA CarefulStep ==
  ASSUME CarefulInv, NEW k \in Keys, CarefulPress(k) \/ CarefulRelease(k)
  PROVE  CarefulInv'
<1>1. Press(k) \/ Release(k)
  BY DEF CarefulPress, CarefulRelease
<1>2. TypeInv'
  BY <1>1, TypeStep DEF CarefulInv
<1>3. CASE k \in Plain
  BY <1>2, <1>3, LetterPress, LetterRelease DEF CarefulRelease
<1>4. CASE k \in ModKeys
  BY <1>2, <1>4, ModifierStep
<1>5. CASE k \in {"VIM", "FN"}
  BY <1>2, <1>5, ModeStep DEF CarefulRelease
<1> QED BY <1>3, <1>4, <1>5, KeysAssumption

LEMMA TypistStep ==
  ASSUME careful => CarefulInv, [TypistsNext /\ UNCHANGED careful]_<< vars, careful >>
  PROVE  (careful => CarefulInv)'
<1>1. careful' = careful
  OBVIOUS
<1>2. CASE careful /\ CarefulNext
  BY <1>1, <1>2, CarefulStep DEF CarefulNext
<1>3. CASE ~careful
  BY <1>1, <1>3
<1>4. CASE careful /\ UNCHANGED vars
  <2>1. /\ hid' = hid /\ said' = said /\ down' = down /\ current_mode' = current_mode
        /\ current_modifiers' = current_modifiers /\ shift_down' = shift_down
    BY <1>4 DEF vars
  <2> QED BY <1>1, <1>4, <2>1 DEF CarefulInv, TypeInv, SelectionInv, SelectionHeld, TypeOK,
        ModsShown, Selected, TwoDeletes, InReport, Letters
<1> QED BY <1>2, <1>3, <1>4 DEF TypistsNext

LEMMA CarefulInit == ASSUME Init PROVE CarefulInv
<1>1. TypeInv
  BY TypeInit
<1>2. /\ down = {} /\ current_mode = "normal" /\ current_modifiers = {}
      /\ shift_down = FALSE /\ said = {} /\ hid.mods = {}
      /\ \A o \in OutKeys : hid.keys[o] = 0
  BY DEF Init
<1>3. SlotsUsed(hid) = 0
  BY StartReport
<1>4. Shows(hid, {}, current_mode, current_modifiers)
  BY <1>2, <1>3, ShowsNothing
<1>5. Letters = {}
  BY <1>2 DEF Letters
<1>6. InReport({})
  BY <1>4, <1>5 DEF InReport
<1> QED BY <1>1, <1>2, <1>5, <1>6 DEF CarefulInv, ModsShown

(* What the report holds for a careful typist: exactly the letters that are *)
(* down, as the mode translates them and each in a slot of its own, but    *)
(* for those that vim mode keeps to itself and the i that left it; and the *)
(* modifiers that are down, or in vim mode the shift of the selection, alt *)
(* and gui (process_input.c:41-126, send_over_hid.c:10-72).                *)
THEOREM CarefulInvHolds == TypistsSpec => [](careful => CarefulInv)
<1>1. TypistsInit => (careful => CarefulInv)
  BY CarefulInit DEF TypistsInit
<1>2. (careful => CarefulInv) /\ [TypistsNext /\ UNCHANGED careful]_<< vars, careful >>
        => (careful => CarefulInv)'
  BY TypistStep
<1> QED BY <1>1, <1>2, PTL DEF TypistsSpec

(* So nothing is left in the report when she has let go of all keys, but   *)
(* the shift of a selection, whatever modes and selections the keys went   *)
(* through (process_input.c:41-126, send_over_hid.c:50-60).                *)
THEOREM NothingStuckCorrect == TypistsSpec => []NothingStuck
<1>1. (careful => CarefulInv) => NothingStuck
  <2> SUFFICES ASSUME careful, CarefulInv, down = {}
               PROVE  /\ \A k \in OutKeys : hid.keys[k] = 0
                      /\ hid.mods = IF shift_down THEN {"SHIFT_LEFT"} ELSE {}
    BY DEF NothingStuck
  <2>1. InReport({})
    BY DEF CarefulInv, Letters
  <2>2. \A k \in OutKeys : hid.keys[k] = 0
    BY <2>1, ShowsNothing DEF InReport
  <2>3. hid.mods = IF shift_down THEN {"SHIFT_LEFT"} ELSE {}
    BY CarefulTypes DEF CarefulInv, ModsShown, Selected
  <2> QED BY <2>2, <2>3
<1> QED BY <1>1, CarefulInvHolds, PTL

(* And no press or release surprises send_over_hid, but one of a second    *)
(* key that is sent as delete (send_over_hid.c:17-67).                     *)
THEOREM NoDiagnosticsCorrect == TypistsSpec => []NoDiagnostics
<1>1. (careful => CarefulInv) => NoDiagnostics
  BY DEF CarefulInv, NoDiagnostics
<1> QED BY <1>1, CarefulInvHolds, PTL
=============================================================================
