-------------------------- MODULE CdcOutputProofs ---------------------------
(***************************************************************************)
(* Proofs about CdcOutput and its Fifo, for a ring buffer, packets and     *)
(* messages of any size.  First what the ring buffer holds after a read    *)
(* and after a write, overflows included; then that the terminal sees      *)
(* characters in order and once, and that what was taken for it is kept.   *)
(***************************************************************************)
EXTENDS CdcOutput, SequenceTheorems, TLAPS

Indices == 0 .. 2 * DEPTH - 1
Fifos(T) ==
  [mem : [0 .. DEPTH - 1 -> T], rd : Indices, wr : Indices, overwritable : BOOLEAN]

(* The items that a read can still have, oldest first. *)
Held(f) == Least(DEPTH, Items(f))
Kept(f) == Peek(f, DEPTH)

-----------------------------------------------------------------------------
(* Indices and slots. *)
LEMMA Depth == DEPTH \in Nat /\ DEPTH >= 1
  BY DepthAssumption

LEMMA IndexTurn ==
  \A x \in 0 .. 4 * DEPTH - 1 :
    x % (2 * DEPTH) = IF x < 2 * DEPTH THEN x ELSE x - 2 * DEPTH
<1> DEFINE M == 2 * DEPTH
<1>1. M \in Nat /\ M >= 1
  BY Depth
<1> HIDE DEF M
<1>2. \A x \in 0 .. M - 1 : x % M = x
  BY <1>1
<1>3. \A x \in M .. 2 * M - 1 : x % M = x - M
  BY <1>1
<1>4. \A x \in 0 .. 2 * M - 1 : x % M = IF x < M THEN x ELSE x - M
  BY <1>1, <1>2, <1>3
<1>5. 2 * M = 4 * DEPTH
  BY Depth DEF M
<1> QED BY <1>4, <1>5 DEF M

LEMMA SlotTurn ==
  \A x \in 0 .. 4 * DEPTH - 1 :
    x % DEPTH = IF x < DEPTH THEN x
                ELSE IF x < 2 * DEPTH THEN x - DEPTH
                ELSE IF x < 3 * DEPTH THEN x - 2 * DEPTH ELSE x - 3 * DEPTH
<1>1. \A x \in 0 .. DEPTH - 1 : x % DEPTH = x
  BY Depth
<1>2. \A x \in DEPTH .. 2 * DEPTH - 1 : x % DEPTH = x - DEPTH
  BY Depth
<1>3. \A x \in 2 * DEPTH .. 3 * DEPTH - 1 : x % DEPTH = x - 2 * DEPTH
  BY Depth
<1>4. \A x \in 3 * DEPTH .. 4 * DEPTH - 1 : x % DEPTH = x - 3 * DEPTH
  BY Depth
<1> QED BY <1>1, <1>2, <1>3, <1>4, Depth

LEMMA SlotType == \A x \in 0 .. 4 * DEPTH - 1 : x % DEPTH \in 0 .. DEPTH - 1
  BY SlotTurn, Depth

LEMMA SameSlot ==
  ASSUME NEW x \in 0 .. 4 * DEPTH - 1, NEW y \in 0 .. 4 * DEPTH - 1,
         x = y \/ x = y + DEPTH \/ x = y + 2 * DEPTH \/ x = y + 3 * DEPTH
  PROVE  x % DEPTH = y % DEPTH
<1> DEFINE s(z) == IF z < DEPTH THEN z
                   ELSE IF z < 2 * DEPTH THEN z - DEPTH
                   ELSE IF z < 3 * DEPTH THEN z - 2 * DEPTH ELSE z - 3 * DEPTH
<1>1. x % DEPTH = s(x) /\ y % DEPTH = s(y)
  BY SlotTurn
<1>2. s(x) = s(y)
  BY Depth
<1> QED BY <1>1, <1>2

(* How many items there are, without the modulus. *)
LEMMA ItemsAre ==
  ASSUME NEW T, NEW f \in Fifos(T)
  PROVE  /\ Items(f) = IF f.wr < f.rd THEN f.wr + 2 * DEPTH - f.rd ELSE f.wr - f.rd
         /\ Items(f) \in 0 .. 2 * DEPTH - 1
         /\ Held(f) \in 0 .. DEPTH /\ (Items(f) <= DEPTH => Held(f) = Items(f))
         /\ (Items(f) > DEPTH => Held(f) = DEPTH)
<1>1. f.wr \in 0 .. 2 * DEPTH - 1 /\ f.rd \in 0 .. 2 * DEPTH - 1
  BY DEF Fifos, Indices
<1>2. PICK x \in 0 .. 4 * DEPTH - 1 : x = f.wr + 2 * DEPTH - f.rd
  BY <1>1, Depth
<1>3. Items(f) = x % (2 * DEPTH)
  BY <1>2 DEF Items
<1>4. x % (2 * DEPTH) = IF x < 2 * DEPTH THEN x ELSE x - 2 * DEPTH
  BY IndexTurn
<1>5. Items(f) = IF f.wr < f.rd THEN f.wr + 2 * DEPTH - f.rd ELSE f.wr - f.rd
  BY <1>1, <1>2, <1>3, <1>4, Depth
<1>6. Items(f) \in 0 .. 2 * DEPTH - 1
  BY <1>1, <1>5, Depth
<1> QED BY <1>5, <1>6, Depth DEF Held, Least

LEMMA CorrectedIs ==
  ASSUME NEW T, NEW f \in Fifos(T)
  PROVE  /\ Corrected(f) \in Fifos(T) /\ Items(Corrected(f)) = Held(f)
         /\ Corrected(f).mem = f.mem /\ Corrected(f).wr = f.wr
         /\ Corrected(f).overwritable = f.overwritable
         /\ \/ Corrected(f).rd = f.wr - Held(f)
            \/ Corrected(f).rd = f.wr - Held(f) + 2 * DEPTH
<1>1. f.wr \in 0 .. 2 * DEPTH - 1 /\ f.rd \in 0 .. 2 * DEPTH - 1
  BY DEF Fifos, Indices
<1>2. CASE Items(f) > DEPTH
  <2>1. PICK r \in Indices : r = advance_index(f.wr, DEPTH)
                             /\ (r = f.wr - DEPTH \/ r = f.wr + DEPTH)
    <3>1. PICK x \in 0 .. 4 * DEPTH - 1 : x = f.wr + DEPTH
      BY <1>1, Depth
    <3>2. advance_index(f.wr, DEPTH) = IF x < 2 * DEPTH THEN x ELSE x - 2 * DEPTH
      BY <3>1, IndexTurn DEF advance_index
    <3>3. advance_index(f.wr, DEPTH) \in Indices
      BY <1>1, <3>1, <3>2, Depth DEF Indices
    <3> QED BY <1>1, <3>1, <3>2, <3>3, Depth
  <2>2. PICK g : g = Corrected(f)
    OBVIOUS
  <2>3. g = [f EXCEPT !.rd = r]
    BY <1>2, <2>1, <2>2 DEF Corrected
  <2>4. /\ g \in Fifos(T) /\ g.rd = r /\ g.mem = f.mem /\ g.wr = f.wr
        /\ g.overwritable = f.overwritable
    BY <2>1, <2>3 DEF Fifos
  <2>5. Items(g) = IF g.wr < g.rd THEN g.wr + 2 * DEPTH - g.rd ELSE g.wr - g.rd
    BY <2>4, ItemsAre
  <2>6. Items(g) = DEPTH /\ Held(f) = DEPTH
    BY <1>1, <1>2, <2>1, <2>4, <2>5, Depth, ItemsAre DEF Indices
  <2>7. r = f.wr - Held(f) \/ r = f.wr - Held(f) + 2 * DEPTH
    BY <1>1, <2>1, <2>6, Depth
  <2> QED BY <2>2, <2>4, <2>6, <2>7
<1>3. CASE ~(Items(f) > DEPTH)
  <2>1. Corrected(f) = f
    BY <1>3 DEF Corrected
  <2>2. Held(f) = Items(f) /\ Held(f) \in 0 .. DEPTH
    BY <1>3, ItemsAre, Depth
  <2>3. f.rd = f.wr - Items(f) \/ f.rd = f.wr - Items(f) + 2 * DEPTH
    BY <1>1, ItemsAre, Depth
  <2> QED BY <2>1, <2>2, <2>3
<1> QED BY <1>2, <1>3

(* The items held end at the write index, whether or not it overflowed.    *)
LEMMA KeptIs ==
  ASSUME NEW T, NEW f \in Fifos(T)
  PROVE  Kept(f) = [i \in 1 .. Held(f) |-> f.mem[(f.wr + DEPTH - Held(f) + i - 1) % DEPTH]]
<1> DEFINE g == Corrected(f)
<1>1. /\ g.mem = f.mem /\ Items(g) = Held(f) /\ Held(f) \in 0 .. DEPTH
      /\ f.wr \in 0 .. 2 * DEPTH - 1 /\ g.rd \in 0 .. 2 * DEPTH - 1
      /\ (g.rd = f.wr - Held(f) \/ g.rd = f.wr - Held(f) + 2 * DEPTH)
  BY CorrectedIs, ItemsAre DEF Fifos, Indices
<1>2. Least(DEPTH, Items(g)) = Held(f)
  BY <1>1, Depth DEF Least
<1>3. Kept(f) = [i \in 1 .. Held(f) |-> f.mem[(g.rd + i - 1) % DEPTH]]
  BY <1>1, <1>2 DEF Kept, Peek
<1> HIDE DEF g
<1>4. ASSUME NEW i \in 1 .. Held(f)
      PROVE  (g.rd + i - 1) % DEPTH = (f.wr + DEPTH - Held(f) + i - 1) % DEPTH
  <2>1. PICK x \in 0 .. 4 * DEPTH - 1 : x = g.rd + i - 1
    BY <1>1, Depth
  <2>2. PICK y \in 0 .. 4 * DEPTH - 1 : y = f.wr + DEPTH - Held(f) + i - 1
    BY <1>1, Depth
  <2>3. y = x + DEPTH \/ x = y + DEPTH
    BY <1>1, <2>1, <2>2, Depth
  <2>4. x % DEPTH = y % DEPTH
    BY <2>3, SameSlot
  <2> QED BY <2>1, <2>2, <2>4
<1> QED BY <1>3, <1>4

LEMMA KeptSeq ==
  ASSUME NEW T, NEW f \in Fifos(T)
  PROVE  /\ Kept(f) \in Seq(T) /\ Len(Kept(f)) = Held(f) /\ Held(f) \in 0 .. DEPTH
         /\ \A i \in 1 .. Held(f) :
              Kept(f)[i] = f.mem[(f.wr + DEPTH - Held(f) + i - 1) % DEPTH]
<1>1. Held(f) \in 0 .. DEPTH /\ Held(f) \in Nat /\ f.wr \in 0 .. 2 * DEPTH - 1
  <2>1. Held(f) \in 0 .. DEPTH
    BY ItemsAre
  <2>2. f.wr \in 0 .. 2 * DEPTH - 1
    BY DEF Fifos, Indices
  <2> QED BY <2>1, <2>2, Depth
<1>2. ASSUME NEW i \in 1 .. Held(f)
      PROVE  f.mem[(f.wr + DEPTH - Held(f) + i - 1) % DEPTH] \in T
  <2>1. PICK x \in 0 .. 4 * DEPTH - 1 : x = f.wr + DEPTH - Held(f) + i - 1
    BY <1>1, Depth
  <2>2. x % DEPTH \in 0 .. DEPTH - 1
    BY SlotType
  <2> QED BY <2>1, <2>2 DEF Fifos
<1>3. Kept(f) \in [1 .. Held(f) -> T]
  BY <1>2, KeptIs
<1>4. Kept(f) \in Seq(T) /\ Len(Kept(f)) = Held(f)
  BY <1>1, <1>3, SeqDef, LenProperties
<1> QED BY <1>1, <1>4, KeptIs

-----------------------------------------------------------------------------
(* Reading. *)
LEMMA ReadIs ==
  ASSUME NEW T, NEW f \in Fifos(T), NEW n \in Nat
  PROVE  /\ AfterRead(f, n) \in Fifos(T)
         /\ AfterRead(f, n).overwritable = f.overwritable
         /\ AfterRead(f, n).mem = f.mem /\ AfterRead(f, n).wr = f.wr
         /\ Held(AfterRead(f, n)) = Held(f) - Least(n, Held(f))
         /\ Least(n, Held(f)) \in 0 .. Held(f)
<1>1. PICK g \in Fifos(T) : g = Corrected(f)
  BY CorrectedIs
<1>2. /\ g.mem = f.mem /\ g.wr = f.wr /\ g.overwritable = f.overwritable
      /\ Items(g) = Held(f) /\ Held(f) \in 0 .. DEPTH
      /\ f.wr \in 0 .. 2 * DEPTH - 1 /\ g.rd \in 0 .. 2 * DEPTH - 1
      /\ (g.rd = f.wr - Held(f) \/ g.rd = f.wr - Held(f) + 2 * DEPTH)
  BY <1>1, CorrectedIs, ItemsAre DEF Fifos, Indices
<1>3. PICK m \in 0 .. Held(f) : m = Least(n, Held(f))
  BY <1>2, Depth DEF Least
<1>4. PICK x \in 0 .. 4 * DEPTH - 1 : x = g.rd + m
  BY <1>2, <1>3, Depth
<1>5. PICK r \in Indices : r = advance_index(g.rd, m) /\ (r = x \/ r = x - 2 * DEPTH)
  <2>1. advance_index(g.rd, m) = IF x < 2 * DEPTH THEN x ELSE x - 2 * DEPTH
    BY <1>4, IndexTurn DEF advance_index
  <2> QED BY <2>1, <1>4, Depth DEF Indices
<1>6. PICK h : h = AfterRead(f, n)
  OBVIOUS
<1>7. h = [g EXCEPT !.rd = r]
  BY <1>1, <1>2, <1>3, <1>5, <1>6 DEF AfterRead
<1>8. h \in Fifos(T) /\ h.rd = r /\ h.mem = g.mem /\ h.wr = g.wr /\ h.overwritable = g.overwritable
  BY <1>5, <1>7 DEF Fifos
<1>9. Items(h) = IF h.wr < h.rd THEN h.wr + 2 * DEPTH - h.rd ELSE h.wr - h.rd
  BY <1>8, ItemsAre
<1>10. Items(h) = Held(f) - m
  BY <1>2, <1>3, <1>4, <1>5, <1>8, <1>9, Depth DEF Indices
<1>11. Items(h) <= DEPTH
  BY <1>2, <1>3, <1>10, Depth
<1>12. Held(h) = Held(f) - m
  BY <1>8, <1>10, <1>11, ItemsAre
<1> QED BY <1>2, <1>3, <1>6, <1>8, <1>12

(* A read takes the oldest items, and leaves the others in their order. *)
LEMMA ReadSplits ==
  ASSUME NEW T, NEW f \in Fifos(T), NEW n \in Nat
  PROVE  Peek(f, n) \in Seq(T) /\ Kept(f) = Peek(f, n) \o Kept(AfterRead(f, n))
<1>1. PICK h \in Fifos(T) : h = AfterRead(f, n)
  BY ReadIs
<1>2. PICK m \in 0 .. Held(f) : m = Least(n, Held(f))
  BY ReadIs
<1>3. h.mem = f.mem /\ h.wr = f.wr /\ Held(h) = Held(f) - m /\ Held(f) \in 0 .. DEPTH
  BY <1>1, <1>2, ReadIs, ItemsAre
<1>4. Items(Corrected(f)) = Held(f)
  BY CorrectedIs
<1>5. PICK s : s = Peek(f, n)
  OBVIOUS
<1>6. s = [i \in 1 .. m |-> Kept(f)[i]]
  <2>1. s = [i \in 1 .. m |-> Corrected(f).mem[(Corrected(f).rd + i - 1) % DEPTH]]
    BY <1>2, <1>4, <1>5 DEF Peek
  <2>2. Least(DEPTH, Items(Corrected(f))) = Held(f)
    BY <1>3, <1>4, Depth DEF Least
  <2>3. Kept(f) = [i \in 1 .. Held(f) |-> Corrected(f).mem[(Corrected(f).rd + i - 1) % DEPTH]]
    BY <2>2 DEF Kept, Peek
  <2>4. \A i \in 1 .. m : i \in 1 .. Held(f)
    BY <1>2, <1>3
  <2> QED BY <2>1, <2>3, <2>4
<1>7. PICK k \in Seq(T) : k = Kept(f) /\ Len(k) = Held(f)
  BY KeptSeq
<1>8. PICK l \in Seq(T) : l = Kept(h) /\ Len(l) = Held(h)
  BY KeptSeq
<1>9. s \in Seq(T) /\ Len(s) = m
  <2>1. \A i \in 1 .. m : k[i] \in T
    BY <1>2, <1>3, <1>7, ElementOfSeq
  <2>2. s \in [1 .. m -> T] /\ m \in Nat
    BY <1>2, <1>3, <1>6, <1>7, <2>1
  <2> QED BY <2>2, SeqDef, LenProperties
<1>10. PICK t : t = s \o l
  OBVIOUS
<1>11. /\ t \in Seq(T) /\ Len(t) = m + (Held(f) - m)
       /\ \A i \in 1 .. m + (Held(f) - m) : t[i] = IF i <= m THEN s[i] ELSE l[i - m]
  BY <1>3, <1>8, <1>9, <1>10, ConcatProperties
<1>12. Len(t) = Len(k)
  BY <1>2, <1>3, <1>7, <1>11
<1>13. ASSUME NEW i \in 1 .. Len(k) PROVE t[i] = k[i]
  <2>1. CASE i <= m
    <3>1. i \in 1 .. m /\ i \in 1 .. m + (Held(f) - m)
      BY <1>2, <1>3, <1>7, <2>1
    <3> QED BY <1>6, <1>7, <1>11, <2>1, <3>1
  <2>2. CASE ~(i <= m)
    <3>1. i \in 1 .. m + (Held(f) - m) /\ i - m \in 1 .. Held(h) /\ i \in 1 .. Held(f)
      BY <1>2, <1>3, <1>7, <2>2
    <3>2. l[i - m] = f.mem[(f.wr + DEPTH - Held(h) + (i - m) - 1) % DEPTH]
      BY <1>3, <1>8, <3>1, KeptSeq
    <3>3. k[i] = f.mem[(f.wr + DEPTH - Held(f) + i - 1) % DEPTH]
      BY <1>7, <3>1, KeptSeq
    <3>4. f.wr + DEPTH - Held(h) + (i - m) - 1 = f.wr + DEPTH - Held(f) + i - 1
      <4>1. PICK w \in Nat : w = f.wr
        BY Depth DEF Fifos, Indices
      <4>2. PICK q \in Nat : q = Held(f) /\ Held(h) = q - m /\ m \in Nat
        BY <1>2, <1>3, Depth
      <4>3. w + DEPTH - (q - m) + (i - m) - 1 = w + DEPTH - q + i - 1
        BY <4>1, <4>2, Depth
      <4> QED BY <4>1, <4>2, <4>3
    <3> QED BY <1>11, <2>2, <3>1, <3>2, <3>3, <3>4
  <2> QED BY <2>1, <2>2
<1>14. t = k
  BY <1>7, <1>11, <1>12, <1>13, SeqEqual
<1> QED BY <1>1, <1>5, <1>7, <1>8, <1>9, <1>10, <1>14

-----------------------------------------------------------------------------
(* Writing. *)
PlaceFrom(b, p) == ((p + DEPTH - (b % DEPTH)) % DEPTH) + 1

LEMMA PlaceIs ==
  ASSUME NEW b \in Indices
  PROVE  /\ \A j \in 0 .. DEPTH - 1 :
              (b + j) % DEPTH \in 0 .. DEPTH - 1 /\ PlaceFrom(b, (b + j) % DEPTH) = j + 1
         /\ \A p \in 0 .. DEPTH - 1 : PlaceFrom(b, p) \in 1 .. DEPTH
<1>1. PICK w \in 0 .. DEPTH - 1 : w = b % DEPTH /\ (b = w \/ b = w + DEPTH)
  <2>1. b \in 0 .. 4 * DEPTH - 1 /\ b \in 0 .. 2 * DEPTH - 1
    BY Depth DEF Indices
  <2>2. b % DEPTH = IF b < DEPTH THEN b ELSE b - DEPTH
    BY <2>1, SlotTurn, Depth
  <2> QED BY <2>1, <2>2, Depth
<1>2. ASSUME NEW j \in 0 .. DEPTH - 1
      PROVE  (b + j) % DEPTH \in 0 .. DEPTH - 1 /\ PlaceFrom(b, (b + j) % DEPTH) = j + 1
  <2>1. PICK x \in 0 .. 4 * DEPTH - 1 : x = b + j /\ x < 3 * DEPTH
    BY <1>1, Depth
  <2>2. PICK p \in 0 .. DEPTH - 1 : p = x % DEPTH
    BY SlotType
  <2>3. p = IF x < DEPTH THEN x ELSE IF x < 2 * DEPTH THEN x - DEPTH ELSE x - 2 * DEPTH
    BY <2>1, <2>2, SlotTurn
  <2>4. PICK y \in 0 .. 4 * DEPTH - 1 : y = p + DEPTH - w
    BY <1>1, Depth
  <2>5. y = j \/ y = j + DEPTH
    BY <1>1, <2>1, <2>3, <2>4, Depth
  <2>6. y % DEPTH = IF y < DEPTH THEN y ELSE IF y < 2 * DEPTH THEN y - DEPTH
                    ELSE IF y < 3 * DEPTH THEN y - 2 * DEPTH ELSE y - 3 * DEPTH
    BY SlotTurn
  <2>7. y % DEPTH = j
    BY <2>5, <2>6, Depth
  <2>8. PlaceFrom(b, p) = j + 1
    BY <1>1, <2>4, <2>7 DEF PlaceFrom
  <2> QED BY <2>1, <2>2, <2>8
<1>3. ASSUME NEW p \in 0 .. DEPTH - 1 PROVE PlaceFrom(b, p) \in 1 .. DEPTH
  <2>1. PICK y \in 0 .. 4 * DEPTH - 1 : y = p + DEPTH - w
    BY <1>1, Depth
  <2>2. PICK q \in 0 .. DEPTH - 1 : q = y % DEPTH
    BY SlotType
  <2>3. PlaceFrom(b, p) = q + 1
    BY <1>1, <2>1, <2>2 DEF PlaceFrom
  <2> QED BY <2>3, Depth
<1> QED BY <1>2, <1>3

LEMMA PushIs ==
  ASSUME NEW T, NEW f \in Fifos(T), NEW items \in Seq(T), Len(items) <= DEPTH,
         NEW b \in Indices
  PROVE  /\ Push(f, items, b) \in Fifos(T)
         /\ Push(f, items, b).rd = f.rd
         /\ Push(f, items, b).overwritable = f.overwritable
         /\ \/ Push(f, items, b).wr = b + Len(items)
            \/ Push(f, items, b).wr = b + Len(items) - 2 * DEPTH
         /\ \A j \in 0 .. DEPTH - 1 :
              Push(f, items, b).mem[(b + j) % DEPTH]
                = IF j < Len(items) THEN items[j + 1] ELSE f.mem[(b + j) % DEPTH]
<1>1. PICK n \in 0 .. DEPTH : n = Len(items)
  BY LenProperties, Depth
<1>2. PICK x \in 0 .. 4 * DEPTH - 1 : x = b + n
  BY Depth DEF Indices
<1>3. PICK w \in Indices : w = advance_index(b, n) /\ (w = x \/ w = x - 2 * DEPTH)
  <2>1. advance_index(b, n) = IF x < 2 * DEPTH THEN x ELSE x - 2 * DEPTH
    BY <1>2, IndexTurn DEF advance_index
  <2>2. /\ x < 2 * DEPTH => x \in Indices
        /\ ~(x < 2 * DEPTH) => x - 2 * DEPTH \in Indices
    BY Depth DEF Indices
  <2> QED BY <2>1, <2>2
<1>4. f.mem \in [0 .. DEPTH - 1 -> T] /\ DOMAIN f.mem = 0 .. DEPTH - 1
  BY DEF Fifos
<1>5. PICK m : m = [p \in 0 .. DEPTH - 1 |->
                        IF PlaceFrom(b, p) <= n THEN items[PlaceFrom(b, p)] ELSE f.mem[p]]
  OBVIOUS
<1>6. m \in [0 .. DEPTH - 1 -> T]
  <2>1. ASSUME NEW p \in 0 .. DEPTH - 1, PlaceFrom(b, p) <= n PROVE items[PlaceFrom(b, p)] \in T
    <3>1. PlaceFrom(b, p) \in 1 .. Len(items)
      BY <1>1, <2>1, PlaceIs, Depth
    <3> QED BY <3>1, ElementOfSeq
  <2> QED BY <1>4, <1>5, <2>1
<1>7. PICK g : g = Push(f, items, b)
  OBVIOUS
<1>8. g = [f EXCEPT !.mem = m, !.wr = w]
  BY <1>1, <1>3, <1>4, <1>5, <1>7 DEF Push, PlaceFrom
<1>9. g \in Fifos(T) /\ g.rd = f.rd /\ g.overwritable = f.overwritable /\ g.wr = w /\ g.mem = m
  BY <1>3, <1>6, <1>8 DEF Fifos
<1>10. ASSUME NEW j \in 0 .. DEPTH - 1
       PROVE  m[(b + j) % DEPTH] = IF j < n THEN items[j + 1] ELSE f.mem[(b + j) % DEPTH]
  <2>1. PICK p \in 0 .. DEPTH - 1 : p = (b + j) % DEPTH /\ PlaceFrom(b, p) = j + 1
    BY PlaceIs
  <2>2. m[p] = IF j + 1 <= n THEN items[j + 1] ELSE f.mem[p]
    BY <1>5, <2>1
  <2>3. j + 1 <= n <=> j < n
    BY <1>1
  <2> QED BY <2>1, <2>2, <2>3
<1>11. g.wr = b + Len(items) \/ g.wr = b + Len(items) - 2 * DEPTH
  <2>1. x = b + Len(items)
    BY <1>1, <1>2
  <2>2. g.wr = x \/ g.wr = x - 2 * DEPTH
    BY <1>3, <1>9
  <2> QED BY <1>1, <2>1, <2>2, Depth DEF Indices
<1>12. \A j \in 0 .. DEPTH - 1 :
         g.mem[(b + j) % DEPTH] = IF j < Len(items) THEN items[j + 1] ELSE f.mem[(b + j) % DEPTH]
  BY <1>1, <1>9, <1>10
<1> QED BY <1>7, <1>9, <1>11, <1>12

(* Behind a write, the items written come last. *)
LEMMA PushKept ==
  ASSUME NEW T, NEW f \in Fifos(T), NEW items \in Seq(T), Len(items) <= DEPTH,
         NEW b \in Indices, NEW a \in Nat,
         Held(Push(f, items, b)) = a + Len(items)
  PROVE  /\ a + Len(items) <= DEPTH
         /\ \A i \in 1 .. a + Len(items) :
              Kept(Push(f, items, b))[i] =
                IF i <= a THEN f.mem[(b + DEPTH - a + i - 1) % DEPTH] ELSE items[i - a]
<1>1. PICK n \in 0 .. DEPTH : n = Len(items)
  BY LenProperties, Depth
<1>2. PICK g \in Fifos(T) : g = Push(f, items, b)
  BY PushIs
<1>3. a + n <= DEPTH /\ Held(g) = a + n
  BY <1>1, <1>2, ItemsAre, Depth
<1>4. g.wr = b + n \/ g.wr = b + n - 2 * DEPTH
  BY <1>1, <1>2, PushIs
<1>5. ASSUME NEW i \in 1 .. a + n
      PROVE  Kept(g)[i] = IF i <= a THEN f.mem[(b + DEPTH - a + i - 1) % DEPTH] ELSE items[i - a]
  <2>1. PICK x \in 0 .. 4 * DEPTH - 1 : x = g.wr + DEPTH - (a + n) + i - 1
    <3>1. g.wr \in 0 .. 2 * DEPTH - 1
      BY DEF Fifos, Indices
    <3> QED BY <1>3, <3>1, Depth
  <2>2. Kept(g)[i] = g.mem[x % DEPTH]
    BY <1>3, <2>1, KeptSeq
  <2>3. CASE i <= a
    <3>1. PICK j \in 0 .. DEPTH - 1 : j = DEPTH - a + i - 1 /\ ~(j < n)
      BY <1>3, <2>3, Depth
    <3>2. PICK y \in 0 .. 4 * DEPTH - 1 : y = b + j
      BY Depth DEF Indices
    <3>3. x = y \/ y = x + 2 * DEPTH
      BY <1>3, <1>4, <2>1, <3>1, <3>2, Depth DEF Indices
    <3>4. x % DEPTH = y % DEPTH
      BY <3>3, SameSlot
    <3>5. g.mem[(b + j) % DEPTH] = f.mem[(b + j) % DEPTH]
      BY <1>1, <1>2, <3>1, PushIs
    <3>6. b + j = b + DEPTH - a + i - 1
      BY <3>1, Depth DEF Indices
    <3> QED BY <2>2, <2>3, <3>2, <3>4, <3>5, <3>6
  <2>4. CASE ~(i <= a)
    <3>1. PICK j \in 0 .. DEPTH - 1 : j = i - a - 1 /\ j < n /\ j + 1 = i - a
      BY <1>3, <2>4, Depth
    <3>2. PICK y \in 0 .. 4 * DEPTH - 1 : y = b + j
      BY Depth DEF Indices
    <3>3. x = y + DEPTH \/ y = x + DEPTH
      BY <1>3, <1>4, <2>1, <3>1, <3>2, Depth DEF Indices
    <3>4. x % DEPTH = y % DEPTH
      BY <3>3, SameSlot
    <3>5. g.mem[(b + j) % DEPTH] = items[j + 1]
      BY <1>1, <1>2, <3>1, PushIs
    <3> QED BY <2>2, <2>4, <3>1, <3>2, <3>4, <3>5
  <2> QED BY <2>3, <2>4
<1> QED BY <1>1, <1>2, <1>3, <1>5

(* s is a stretch of p and a stretch of q behind it. *)
Joins(s, p, q, a, c, d) ==
  /\ a <= Len(s) /\ c + a <= Len(p) /\ d + (Len(s) - a) <= Len(q)
  /\ \A i \in 1 .. a : s[i] = p[c + i]
  /\ \A i \in a + 1 .. Len(s) : s[i] = q[d + i - a]

LEMMA PushJoins ==
  ASSUME NEW T, NEW f \in Fifos(T), NEW items \in Seq(T), Len(items) <= DEPTH,
         NEW b \in Indices, NEW a \in Nat, NEW c \in Nat,
         Held(Push(f, items, b)) = a + Len(items),
         c + a <= Held(f),
         a > 0 => f.wr - Held(f) + c - (b - a) \in {0 - DEPTH, 0, DEPTH}
  PROVE  Joins(Kept(Push(f, items, b)), Kept(f), items, a, c, 0)
<1>1. PICK g \in Fifos(T) : g = Push(f, items, b)
  BY PushIs
<1>2. PICK n \in 0 .. DEPTH : n = Len(items)
  BY LenProperties, Depth
<1>3. /\ a + n <= DEPTH /\ Held(g) = a + n
      /\ \A i \in 1 .. a + n :
           Kept(g)[i] = IF i <= a THEN f.mem[(b + DEPTH - a + i - 1) % DEPTH] ELSE items[i - a]
  <2>1. /\ a + Len(items) <= DEPTH /\ Held(g) = a + Len(items)
        /\ \A i \in 1 .. a + Len(items) :
             Kept(g)[i] = IF i <= a THEN f.mem[(b + DEPTH - a + i - 1) % DEPTH] ELSE items[i - a]
    BY <1>1, PushKept
  <2> QED BY <1>2, <2>1
<1>4. PICK s \in Seq(T) : s = Kept(g) /\ Len(s) = a + n
  BY <1>3, KeptSeq
<1>5. PICK h \in 0 .. DEPTH : h = Held(f) /\ Len(Kept(f)) = h /\ c + a <= h
  BY KeptSeq
<1>6. ASSUME NEW i \in 1 .. a PROVE s[i] = Kept(f)[c + i]
  <2>1. s[i] = f.mem[(b + DEPTH - a + i - 1) % DEPTH]
    BY <1>2, <1>3, <1>4
  <2>2. c + i \in 1 .. h
    BY <1>5
  <2>3. Kept(f)[c + i] = f.mem[(f.wr + DEPTH - h + (c + i) - 1) % DEPTH]
    BY <1>5, <2>2, KeptSeq
  <2>4. PICK w \in 0 .. 2 * DEPTH - 1 : w = f.wr
    BY DEF Fifos, Indices
  <2>5. PICK x \in 0 .. 4 * DEPTH - 1 : x = b + DEPTH - a + i - 1
    <3>1. a <= DEPTH /\ b \in 0 .. 2 * DEPTH - 1
      <4>1. a + n <= DEPTH
        BY <1>3
      <4> QED BY <1>2, <4>1, Depth DEF Indices
    <3>2. b + DEPTH - a + i - 1 \in 0 .. 4 * DEPTH - 1
      BY <3>1, Depth
    <3> QED BY <3>2
  <2>6. PICK y \in 0 .. 4 * DEPTH - 1 : y = w + DEPTH - h + (c + i) - 1
    BY <2>2, Depth
  <2>7. w - h + c - (b - a) \in {0 - DEPTH, 0, DEPTH}
    <3>1. a > 0
      OBVIOUS
    <3> QED BY <1>5, <2>4, <3>1
  <2>8. x = y \/ x = y + DEPTH \/ y = x + DEPTH
    BY <2>5, <2>6, <2>7, Depth DEF Indices
  <2>9. x % DEPTH = y % DEPTH
    BY <2>8, SameSlot
  <2> QED BY <2>1, <2>3, <2>4, <2>5, <2>6, <2>9
<1>7. ASSUME NEW i \in a + 1 .. a + n PROVE s[i] = items[0 + i - a]
  <2>1. i \in 1 .. a + n /\ ~(i <= a) /\ 0 + i - a = i - a
    BY <1>2
  <2> QED BY <1>3, <1>4, <2>1
<1>8. a <= a + n /\ c + a <= Len(Kept(f)) /\ 0 + ((a + n) - a) <= Len(items)
  BY <1>2, <1>5
<1> QED BY <1>1, <1>4, <1>6, <1>7, <1>8 DEF Joins

(* j items from the read index to the write index. *)
LEMMA PushHeld ==
  ASSUME NEW T, NEW f \in Fifos(T), NEW items \in Seq(T), Len(items) <= DEPTH,
         NEW b \in Indices, NEW j \in 0 .. 2 * DEPTH - 1,
         f.rd + j - (b + Len(items)) \in {0 - 2 * DEPTH, 0, 2 * DEPTH}
  PROVE  Held(Push(f, items, b)) = IF j <= DEPTH THEN j ELSE DEPTH
<1>1. PICK n \in 0 .. DEPTH : n = Len(items)
  BY LenProperties, Depth
<1>2. PICK r \in 0 .. 2 * DEPTH - 1 : r = f.rd
  BY DEF Fifos, Indices
<1>3. r + j - (b + n) \in {0 - 2 * DEPTH, 0, 2 * DEPTH}
  BY <1>1, <1>2
<1>4. PICK g \in Fifos(T) : g = Push(f, items, b) /\ g.rd = r
                            /\ (g.wr = b + n \/ g.wr = b + n - 2 * DEPTH)
  BY <1>1, <1>2, PushIs
<1>5. PICK v \in 0 .. 2 * DEPTH - 1 : v = g.wr
  BY DEF Fifos, Indices
<1>6. /\ Items(g) = IF v < r THEN v + 2 * DEPTH - r ELSE v - r
      /\ (Items(g) <= DEPTH => Held(g) = Items(g)) /\ (Items(g) > DEPTH => Held(g) = DEPTH)
  BY <1>4, <1>5, ItemsAre
<1>7. Items(g) = j
  <2>1. v = b + n \/ v = b + n - 2 * DEPTH
    BY <1>4, <1>5
  <2>2. v = r + j \/ v = r + j - 2 * DEPTH
    BY <1>3, <2>1, Depth DEF Indices
  <2> QED BY <1>6, <2>2, Depth
<1> QED BY <1>4, <1>6, <1>7, Depth

(* A write leaves the last of what was held and, behind it, a stretch of   *)
(* what is written; a buffer that may not overwrite leaves all it held.    *)
LEMMA WriteJoins ==
  ASSUME NEW T, NEW f \in Fifos(T), NEW items \in Seq(T)
  PROVE  /\ AfterWrite(f, items) \in Fifos(T)
         /\ AfterWrite(f, items).overwritable = f.overwritable
         /\ \E a, c, d \in Nat :
              /\ Joins(Kept(AfterWrite(f, items)), Kept(f), items, a, c, d)
              /\ ~f.overwritable => a = Len(Kept(f)) /\ c = 0
<1>1. PICK h \in 0 .. DEPTH : h = Held(f) /\ Len(Kept(f)) = h /\ Least(DEPTH, Items(f)) = h
  BY KeptSeq DEF Held
<1>2. PICK n \in Nat : n = Len(items)
  BY LenProperties
<1>3. PICK w \in 0 .. 2 * DEPTH - 1 : w = f.wr
  BY DEF Fifos, Indices
<1>4. PICK r \in 0 .. 2 * DEPTH - 1 : r = f.rd
  BY DEF Fifos, Indices
<1>5. PICK k \in 0 .. 2 * DEPTH - 1 :
        /\ k = Items(f) /\ k = IF w < r THEN w + 2 * DEPTH - r ELSE w - r
        /\ h = IF k <= DEPTH THEN k ELSE DEPTH
  <2>1. PICK k \in 0 .. 2 * DEPTH - 1 : k = Items(f)
    BY ItemsAre
  <2>2. k = IF w < r THEN w + 2 * DEPTH - r ELSE w - r
    BY <1>3, <1>4, <2>1, ItemsAre
  <2>3. h = IF k <= DEPTH THEN k ELSE DEPTH
    BY <1>1, <2>1, ItemsAre, Depth
  <2> QED BY <2>1, <2>2, <2>3
<1>6. ASSUME NEW part \in Seq(T), NEW b \in Indices, Len(part) <= DEPTH
      PROVE  Push(f, part, b) \in Fifos(T) /\ Push(f, part, b).overwritable = f.overwritable
  BY <1>6, PushIs
<1>7. CASE ~f.overwritable
  <2>1. PICK m \in 0 .. DEPTH : m = Least(n, Remaining(f)) /\ m <= n /\ h + m <= DEPTH
                                /\ (k > DEPTH => m = 0)
    <3>1. Remaining(f) = DEPTH - h
      BY <1>1 DEF Remaining
    <3>2. PICK m \in Nat : m = Least(n, DEPTH - h) /\ m <= n /\ m <= DEPTH - h
      <4>1. DEPTH - h \in Nat
        BY Depth
      <4> QED BY <4>1 DEF Least
    <3>3. h + m <= DEPTH /\ m \in 0 .. DEPTH
      BY <3>2, Depth
    <3>4. k > DEPTH => m = 0
      BY <1>5, <3>3, Depth
    <3> QED BY <3>1, <3>2, <3>3, <3>4
  <2>2. PICK part \in Seq(T) : part = SubSeq(items, 1, m) /\ Len(part) = m
                               /\ \A i \in 1 .. m : part[i] = items[i]
    <3>1. \A i \in 1 .. m : items[i] \in T
      <4>1. \A i \in 1 .. m : i \in 1 .. Len(items)
        BY <1>2, <2>1
      <4> QED BY <4>1, ElementOfSeq
    <3>2. 1 \in Int /\ m \in Int /\ (IF 1 <= m THEN m - 1 + 1 ELSE 0) = m /\ m - 1 + 1 = m
      OBVIOUS
    <3>3. /\ SubSeq(items, 1, m) \in Seq(T)
          /\ Len(SubSeq(items, 1, m)) = m
          /\ \A i \in 1 .. m : SubSeq(items, 1, m)[i] = items[1 + i - 1]
      BY <3>1, <3>2, SubSeqProperties
    <3>4. \A i \in 1 .. m : 1 + i - 1 = i
      OBVIOUS
    <3> QED BY <3>3, <3>4
  <2>3. PICK b \in Indices : b = w
    BY DEF Indices
  <2>4. PICK g : g = AfterWrite(f, items) /\ g = Push(f, part, b)
    BY <1>2, <1>3, <1>7, <2>1, <2>2, <2>3 DEF AfterWrite
  <2>5. g \in Fifos(T) /\ g.overwritable = f.overwritable
    <3>1. Len(part) <= DEPTH
      BY <2>2, Depth
    <3> QED BY <1>6, <2>4, <3>1
  <2>6. Held(g) = h + m
    <3>1. PICK j \in 0 .. 2 * DEPTH - 1 : j = k + m
      BY <1>5, <2>1, Depth
    <3>2. r + j - (b + m) \in {0 - 2 * DEPTH, 0, 2 * DEPTH}
      BY <1>5, <2>3, <3>1, Depth
    <3>3. Held(g) = IF j <= DEPTH THEN j ELSE DEPTH
      <4>1. f.rd + j - (b + Len(part)) \in {0 - 2 * DEPTH, 0, 2 * DEPTH} /\ Len(part) <= DEPTH
        BY <1>4, <2>2, <3>2, Depth
      <4> QED BY <2>4, <4>1, PushHeld
    <3> QED BY <1>5, <2>1, <3>1, <3>3, Depth
  <2>7. Joins(Kept(g), Kept(f), part, h, 0, 0)
    <3>1. h > 0 => f.wr - Held(f) + 0 - (b - h) \in {0 - DEPTH, 0, DEPTH}
      BY <1>1, <1>3, <2>3, Depth
    <3>2. h \in Nat /\ 0 \in Nat /\ 0 + h <= Held(f) /\ Len(part) <= DEPTH
      BY <1>1, <2>1, <2>2, Depth
    <3> QED BY <1>1, <2>2, <2>4, <2>6, <3>1, <3>2, PushJoins
  <2>8. Joins(Kept(g), Kept(f), items, h, 0, 0)
    <3>1. Len(Kept(g)) = h + m
      BY <2>5, <2>6, KeptSeq
    <3>2. ASSUME NEW i \in h + 1 .. h + m PROVE part[0 + i - h] = items[0 + i - h]
      <4>1. 0 + i - h \in 1 .. m
        BY <2>1
      <4> QED BY <2>2, <4>1
    <3>3. 0 + ((h + m) - h) <= Len(items)
      BY <1>2, <2>1
    <3> QED BY <2>7, <3>1, <3>2, <3>3 DEF Joins
  <2>9. h \in Nat /\ 0 \in Nat /\ h = Len(Kept(f))
    BY <1>1, Depth
  <2> QED BY <2>4, <2>5, <2>8, <2>9
<1>8. CASE f.overwritable /\ n >= DEPTH
  <2>1. PICK d \in Nat : d = n - DEPTH /\ n - DEPTH + 1 = d + 1
    BY <1>8, Depth
  <2>2. PICK part \in Seq(T) : part = SubSeq(items, n - DEPTH + 1, n) /\ Len(part) = DEPTH
                               /\ \A i \in 1 .. DEPTH : part[i] = items[d + i]
    <3>1. \A i \in d + 1 .. n : items[i] \in T
      <4>1. \A i \in d + 1 .. n : i \in 1 .. Len(items)
        BY <1>2, <2>1
      <4> QED BY <4>1, ElementOfSeq
    <3>2. d + 1 \in Int /\ n \in Int /\ d + 1 <= n /\ n - (d + 1) + 1 = DEPTH
      BY <2>1, Depth
    <3>3. /\ SubSeq(items, d + 1, n) \in Seq(T)
          /\ Len(SubSeq(items, d + 1, n)) = DEPTH
          /\ \A i \in 1 .. DEPTH : SubSeq(items, d + 1, n)[i] = items[d + 1 + i - 1]
      BY <3>1, <3>2, SubSeqProperties
    <3>4. \A i \in 1 .. DEPTH : d + 1 + i - 1 = d + i
      OBVIOUS
    <3> QED BY <2>1, <3>3, <3>4
  <2>3. PICK b \in Indices : b = r
    BY DEF Indices
  <2>4. PICK g : g = AfterWrite(f, items) /\ g = Push(f, part, b)
    BY <1>2, <1>4, <1>8, <2>2, <2>3 DEF AfterWrite
  <2>5. DEPTH \in 0 .. DEPTH
    BY Depth
  <2>6. g \in Fifos(T) /\ g.overwritable = f.overwritable
    <3>1. Len(part) <= DEPTH
      BY <2>2, Depth
    <3> QED BY <1>6, <2>4, <3>1
  <2>7. Held(g) = DEPTH
    <3>1. DEPTH \in 0 .. 2 * DEPTH - 1 /\ DEPTH <= DEPTH
      BY Depth
    <3>2. r + DEPTH - (b + DEPTH) \in {0 - 2 * DEPTH, 0, 2 * DEPTH}
      BY <2>3, Depth
    <3>3. f.rd + DEPTH - (b + Len(part)) \in {0 - 2 * DEPTH, 0, 2 * DEPTH} /\ Len(part) <= DEPTH
      BY <1>4, <2>2, <3>2, Depth
    <3> QED BY <2>4, <3>1, <3>3, PushHeld
  <2>8. Joins(Kept(g), Kept(f), part, 0, 0, 0)
    <3>1. 0 \in Nat /\ 0 + 0 <= Held(f) /\ Len(part) <= DEPTH /\ Held(g) = 0 + Len(part)
      BY <1>1, <2>2, <2>7, Depth
    <3>2. 0 > 0 => f.wr - Held(f) + 0 - (b - 0) \in {0 - DEPTH, 0, DEPTH}
      OBVIOUS
    <3> QED BY <2>2, <2>4, <3>1, <3>2, PushJoins
  <2>9. Joins(Kept(g), Kept(f), items, 0, 0, d)
    <3>1. Len(Kept(g)) = DEPTH
      BY <2>6, <2>7, KeptSeq
    <3>2. ASSUME NEW i \in 0 + 1 .. DEPTH PROVE part[0 + i - 0] = items[d + i - 0]
      <4>1. i \in 1 .. DEPTH /\ 0 + i - 0 = i /\ d + i - 0 = d + i
        OBVIOUS
      <4> QED BY <2>2, <4>1
    <3>3. d + (DEPTH - 0) <= Len(items)
      BY <1>2, <2>1, Depth
    <3> QED BY <2>8, <3>1, <3>2, <3>3 DEF Joins
  <2> QED BY <1>8, <2>4, <2>6, <2>9
<1>9. CASE f.overwritable /\ n < DEPTH
  <2>1. PICK m \in 0 .. DEPTH : m = n /\ n < DEPTH
    <3>1. n < DEPTH
      BY <1>9
    <3> QED BY <3>1, Depth
  <2>2. CASE k + n < 2 * DEPTH
    <3>1. PICK b \in Indices : b = w
      BY DEF Indices
    <3>2. PICK g : g = AfterWrite(f, items) /\ g = Push(f, items, b)
      BY <1>2, <1>3, <1>5, <1>9, <2>2, <3>1, Depth DEF AfterWrite
    <3>3. g \in Fifos(T) /\ g.overwritable = f.overwritable
      BY <1>2, <1>6, <2>1, <3>2, Depth
    <3>4. PICK j \in 0 .. 2 * DEPTH - 1 : j = k + n
      BY <2>2, Depth
    <3>5. Held(g) = IF j <= DEPTH THEN j ELSE DEPTH
      <4>1. r + j - (b + m) \in {0 - 2 * DEPTH, 0, 2 * DEPTH}
        BY <1>5, <2>1, <3>1, <3>4, Depth
      <4>2. m = Len(items) /\ m <= DEPTH
        BY <1>2, <2>1, Depth
      <4> QED BY <1>4, <3>2, <4>1, <4>2, PushHeld
    <3>6. PICK a \in Nat : a = Held(g) - n /\ Held(g) = a + n /\ a <= h
      BY <1>5, <2>1, <3>4, <3>5, Depth
    <3>7. PICK c \in Nat : c = h - a
      BY <3>6
    <3>8. Joins(Kept(g), Kept(f), items, a, c, 0)
      <4>1. f.wr - Held(f) + c - (b - a) = 0
        BY <1>1, <1>3, <3>1, <3>7, Depth
      <4>2. c + a <= Held(f) /\ Len(items) <= DEPTH /\ Held(g) = a + Len(items)
        <5>1. c + a <= h
          BY <3>7, Depth
        <5>2. n <= DEPTH
          BY <2>1, Depth
        <5> QED BY <1>1, <1>2, <3>6, <5>1, <5>2
      <4> QED BY <3>2, <4>1, <4>2, PushJoins
    <3> QED BY <1>9, <3>2, <3>3, <3>8
  <2>3. CASE k + n >= 2 * DEPTH
    <3>1. PICK x \in 0 .. 4 * DEPTH - 1 : x = r + (DEPTH - n)
      BY <2>1, Depth
    <3>2. PICK b \in Indices : b = advance_index(r, DEPTH - n) /\ (b = x \/ b = x - 2 * DEPTH)
                               /\ (b = x - 2 * DEPTH => x >= 2 * DEPTH)
      <4>1. advance_index(r, DEPTH - n) = IF x < 2 * DEPTH THEN x ELSE x - 2 * DEPTH
        BY <3>1, IndexTurn DEF advance_index
      <4>2. /\ x < 2 * DEPTH => x \in Indices
            /\ ~(x < 2 * DEPTH) => x - 2 * DEPTH \in Indices
        BY Depth DEF Indices
      <4>3. x - 2 * DEPTH # x
        BY Depth
      <4> QED BY <4>1, <4>2, <4>3, Depth
    <3>3. PICK g : g = AfterWrite(f, items) /\ g = Push(f, items, b)
      BY <1>2, <1>4, <1>5, <1>9, <2>3, <3>2 DEF AfterWrite
    <3>4. g \in Fifos(T) /\ g.overwritable = f.overwritable
      BY <1>2, <1>6, <2>1, <3>3, Depth
    <3>5. Held(g) = DEPTH
      <4>1. DEPTH \in 0 .. 2 * DEPTH - 1 /\ DEPTH <= DEPTH
        BY Depth
      <4>2. r + DEPTH - (b + m) \in {0 - 2 * DEPTH, 0, 2 * DEPTH}
        <5>1. CASE b = x
          BY <2>1, <3>1, <5>1, Depth
        <5>2. CASE b = x - 2 * DEPTH
          BY <2>1, <3>1, <5>2, Depth
        <5> QED BY <3>2, <5>1, <5>2
      <4>3. m = Len(items) /\ m <= DEPTH
        BY <1>2, <2>1, Depth
      <4> QED BY <1>4, <3>3, <4>1, <4>2, <4>3, PushHeld
    <3>6. PICK a \in Nat : a = DEPTH - n /\ DEPTH = a + n
      <4>1. DEPTH - n \in Nat
        BY <2>1, Depth
      <4>2. DEPTH = (DEPTH - n) + n
        BY Depth
      <4> QED BY <4>1, <4>2
    <3>7. PICK c \in Nat : c = 2 * DEPTH - k /\ c + a <= h /\ h = DEPTH
      <4>1. 2 * DEPTH - k \in Nat /\ k + n >= 2 * DEPTH /\ k > DEPTH
        BY <2>1, <2>3, Depth
      <4>2. h = DEPTH
        BY <1>5, <4>1, Depth
      <4>3. (2 * DEPTH - k) + a <= DEPTH
        BY <3>6, <4>1, Depth
      <4> QED BY <4>1, <4>2, <4>3
    <3>8. Joins(Kept(g), Kept(f), items, a, c, 0)
      <4>1. w - h + c - (b - a) \in {0 - DEPTH, 0, DEPTH}
        <5>1. w - h + c - (b - a) = w - k + DEPTH - b + a
          BY <3>7, Depth DEF Indices
        <5>2. CASE b = x
          BY <1>5, <3>1, <3>6, <5>1, <5>2, Depth
        <5>3. CASE b = x - 2 * DEPTH
          <6>1. r >= DEPTH + n
            BY <3>1, <3>2, <5>3, Depth
          <6>2. k = w + 2 * DEPTH - r
            BY <1>5, <2>3, <6>1, Depth
          <6> QED BY <3>1, <3>6, <5>1, <5>3, <6>2, Depth
        <5> QED BY <3>2, <5>2, <5>3
      <4>2. c + a <= Held(f) /\ Len(items) <= DEPTH /\ Held(g) = a + Len(items)
        BY <1>1, <1>2, <2>1, <3>5, <3>6, <3>7, Depth
      <4>3. f.wr - Held(f) + c - (b - a) \in {0 - DEPTH, 0, DEPTH}
        BY <1>1, <1>3, <4>1
      <4> QED BY <3>3, <4>2, <4>3, PushJoins
    <3> QED BY <1>9, <3>3, <3>4, <3>8
  <2> QED BY <2>2, <2>3, Depth
<1>10. f.overwritable \in BOOLEAN
  BY DEF Fifos
<1> QED BY <1>7, <1>8, <1>9, <1>10, Depth

-----------------------------------------------------------------------------
(* Whether it may overwrite makes no difference to what is held. *)
LEMMA SetKept ==
  ASSUME NEW T, NEW f \in Fifos(T), NEW yes \in BOOLEAN
  PROVE  /\ SetOverwritable(f, yes) \in Fifos(T)
         /\ SetOverwritable(f, yes).overwritable = yes
         /\ Kept(SetOverwritable(f, yes)) = Kept(f)
<1>1. PICK g : g = SetOverwritable(f, yes)
  OBVIOUS
<1>2. /\ g \in Fifos(T) /\ g.overwritable = yes
      /\ g.mem = f.mem /\ g.rd = f.rd /\ g.wr = f.wr
  BY <1>1 DEF SetOverwritable, Fifos
<1>3. Held(g) = Held(f)
  BY <1>2 DEF Held, Items
<1>4. Kept(g) = [i \in 1 .. Held(g) |-> g.mem[(g.wr + DEPTH - Held(g) + i - 1) % DEPTH]]
  BY <1>2, KeptIs
<1>5. Kept(f) = [i \in 1 .. Held(f) |-> f.mem[(f.wr + DEPTH - Held(f) + i - 1) % DEPTH]]
  BY KeptIs
<1> QED BY <1>1, <1>2, <1>3, <1>4, <1>5

LEMMA EmptyKept ==
  ASSUME NEW T, NEW f \in Fifos(T), f.rd = 0, f.wr = 0
  PROVE  Kept(f) = << >>
<1>1. Held(f) = 0
  BY ItemsAre, Depth
<1>2. Kept(f) \in Seq(T) /\ Len(Kept(f)) = 0
  BY <1>1, KeptSeq
<1> QED BY <1>2, EmptySeq

LEMMA ClearedKept ==
  ASSUME NEW T, NEW f \in Fifos(T)
  PROVE  Cleared(f) \in Fifos(T) /\ Kept(Cleared(f)) = << >>
<1>1. PICK g : g = Cleared(f)
  OBVIOUS
<1>2. 0 \in Indices
  BY Depth DEF Indices
<1>3. g \in Fifos(T) /\ g.rd = 0 /\ g.wr = 0
  BY <1>1, <1>2 DEF Cleared, Fifos
<1> QED BY <1>1, <1>3, EmptyKept

LEMMA NewKept == NewFifo \in Fifos(Nat) /\ Kept(NewFifo) = << >>
<1>1. 0 \in Indices
  BY Depth DEF Indices
<1>2. NewFifo \in Fifos(Nat) /\ NewFifo.rd = 0 /\ NewFifo.wr = 0
  BY <1>1 DEF NewFifo, Fifos
<1> QED BY <1>2, EmptyKept

-----------------------------------------------------------------------------
(* Rising characters, behind lo and up to hi. *)
Ordered(s, lo, hi) ==
  /\ \A i \in 1 .. Len(s) : lo < s[i] /\ s[i] <= hi
  /\ \A i, j \in 1 .. Len(s) : i < j => s[i] < s[j]

(* A packet, and the characters in the FIFO behind it. *)
Line(p, q, lo, hi) ==
  /\ Ordered(p, lo, hi) /\ Ordered(q, lo, hi)
  /\ \A i \in 1 .. Len(p), j \in 1 .. Len(q) : p[i] < q[j]

Packet(e) == IF e = << >> THEN << >> ELSE e[1]
Endpoints == {<< >>} \cup {<< s >> : s \in Seq(Nat)}

OutTypeOK ==
  /\ bus \in {"up", "reset", "conf", "enum"} /\ done \in {"no", "short", "full"}
  /\ mounted \in BOOLEAN /\ suspended \in BOOLEAN /\ terminal \in BOOLEAN /\ busy \in BOOLEAN
  /\ ep \in Endpoints /\ fifo \in Fifos(Nat)
  /\ printed \in Nat /\ shown \in Nat /\ shown <= printed

(* The endpoint is claimed from the moment it is filled until tud_task has *)
(* heard that the packet was read.                                         *)
Claimed ==
  /\ ep # << >> \/ done # "no" => busy
  /\ ep # << >> => done = "no" /\ bus = "up"

InLine == Line(Packet(ep), Kept(fifo), shown, printed)

OutInv == OutTypeOK /\ Claimed /\ InLine

-----------------------------------------------------------------------------
(* Sequences of characters. *)
LEMMA EmptyOrdered == \A lo, hi : Ordered(<< >>, lo, hi)
<1>1. Len(<< >>) = 0
  OBVIOUS
<1> QED BY <1>1 DEF Ordered

LEMMA EmptyLine ==
  ASSUME NEW q, NEW lo, NEW hi
  PROVE  Line(<< >>, q, lo, hi) <=> Ordered(q, lo, hi)
<1>1. Len(<< >>) = 0
  OBVIOUS
<1> QED BY <1>1, EmptyOrdered DEF Line

LEMMA LineConcat ==
  ASSUME NEW p \in Seq(Nat), NEW q \in Seq(Nat), NEW lo, NEW hi
  PROVE  Ordered(p \o q, lo, hi) <=> Line(p, q, lo, hi)
<1>1. PICK t : t = p \o q
  OBVIOUS
<1>2. Len(p) \in Nat /\ Len(q) \in Nat
  BY LenProperties
<1>3. /\ Len(t) = Len(p) + Len(q)
      /\ \A i \in 1 .. Len(p) + Len(q) : t[i] = IF i <= Len(p) THEN p[i] ELSE q[i - Len(p)]
  BY <1>1, ConcatProperties
<1>4. \A i \in 1 .. Len(p) : i \in 1 .. Len(t) /\ t[i] = p[i]
  BY <1>2, <1>3
<1>5. ASSUME NEW i \in 1 .. Len(q)
      PROVE  i + Len(p) \in 1 .. Len(t) /\ t[i + Len(p)] = q[i]
  <2>1. /\ i + Len(p) \in 1 .. Len(p) + Len(q) /\ ~(i + Len(p) <= Len(p))
        /\ (i + Len(p)) - Len(p) = i
    BY <1>2
  <2> QED BY <1>3, <2>1
<1>6. ASSUME NEW i \in 1 .. Len(t)
      PROVE  i \in 1 .. Len(p) \/ \E k \in 1 .. Len(q) : i = k + Len(p)
  <2>1. CASE i <= Len(p)
    BY <1>2, <1>3, <2>1
  <2>2. CASE ~(i <= Len(p))
    <3>1. i - Len(p) \in 1 .. Len(q) /\ i = (i - Len(p)) + Len(p)
      BY <1>2, <1>3, <2>2
    <3> QED BY <3>1
  <2> QED BY <2>1, <2>2
<1>7. ASSUME Ordered(t, lo, hi) PROVE Line(p, q, lo, hi)
  <2>1. Ordered(p, lo, hi)
    BY <1>4, <1>7 DEF Ordered
  <2>2. Ordered(q, lo, hi)
    <3>1. \A i, j \in 1 .. Len(q) : i < j => i + Len(p) < j + Len(p)
      BY <1>2
    <3> QED BY <1>5, <1>7, <3>1 DEF Ordered
  <2>3. ASSUME NEW i \in 1 .. Len(p), NEW j \in 1 .. Len(q) PROVE p[i] < q[j]
    <3>1. i < j + Len(p)
      BY <1>2
    <3> QED BY <1>4, <1>5, <1>7, <3>1 DEF Ordered
  <2> QED BY <2>1, <2>2, <2>3 DEF Line
<1>8. ASSUME Line(p, q, lo, hi) PROVE Ordered(t, lo, hi)
  <2>1. \A i \in 1 .. Len(t) : lo < t[i] /\ t[i] <= hi
    BY <1>4, <1>5, <1>6, <1>8 DEF Line, Ordered
  <2>2. ASSUME NEW i \in 1 .. Len(t), NEW j \in 1 .. Len(t), i < j PROVE t[i] < t[j]
    <3>1. CASE j \in 1 .. Len(p)
      <4>1. i \in 1 .. Len(p)
        BY <1>2, <2>2, <3>1
      <4> QED BY <1>4, <1>8, <2>2, <3>1, <4>1 DEF Line, Ordered
    <3>2. CASE \E k \in 1 .. Len(q) : j = k + Len(p)
      <4>1. PICK k \in 1 .. Len(q) : j = k + Len(p)
        BY <3>2
      <4>2. t[j] = q[k]
        BY <1>5, <4>1
      <4>3. CASE i \in 1 .. Len(p)
        BY <1>4, <1>8, <4>2, <4>3 DEF Line
      <4>4. CASE \E m \in 1 .. Len(q) : i = m + Len(p)
        <5>1. PICK m \in 1 .. Len(q) : i = m + Len(p)
          BY <4>4
        <5>2. t[i] = q[m] /\ m < k
          BY <1>2, <1>5, <2>2, <4>1, <5>1
        <5> QED BY <1>8, <4>2, <5>2 DEF Line, Ordered
      <4> QED BY <1>6, <4>3, <4>4
    <3> QED BY <1>6, <3>1, <3>2
  <2> QED BY <2>1, <2>2 DEF Ordered
<1> QED BY <1>1, <1>7, <1>8

LEMMA LineRead ==
  ASSUME NEW p \in Seq(Nat), NEW q \in Seq(Nat), NEW lo \in Nat, NEW hi \in Nat,
         Line(p, q, lo, hi), p # << >>
  PROVE  /\ p[Len(p)] \in Nat /\ lo < p[Len(p)] /\ p[Len(p)] <= hi
         /\ Ordered(q, p[Len(p)], hi)
         /\ \A i \in 1 .. Len(p) : p[i] <= p[Len(p)]
<1>1. Len(p) \in Nat /\ Len(p) \in 1 .. Len(p)
  BY EmptySeq, LenProperties
<1>2. p[Len(p)] \in Nat /\ \A i \in 1 .. Len(p) : p[i] \in Nat
  BY <1>1, ElementOfSeq
<1>3. lo < p[Len(p)] /\ p[Len(p)] <= hi
  BY <1>1 DEF Line, Ordered
<1>4. Ordered(q, p[Len(p)], hi)
  BY <1>1 DEF Line, Ordered
<1>5. ASSUME NEW i \in 1 .. Len(p) PROVE p[i] <= p[Len(p)]
  <2>1. CASE i = Len(p)
    BY <1>2, <2>1
  <2>2. CASE i # Len(p)
    <3>1. i < Len(p)
      BY <1>1, <2>2
    <3>2. p[i] < p[Len(p)]
      BY <1>1, <3>1 DEF Line, Ordered
    <3> QED BY <1>2, <3>2
  <2> QED BY <2>1, <2>2
<1> QED BY <1>2, <1>3, <1>4, <1>5

(* Behind a write: the characters written are younger than all others.     *)
LEMMA LineWrite ==
  ASSUME NEW p \in Seq(Nat), NEW q \in Seq(Nat), NEW items \in Seq(Nat), NEW s \in Seq(Nat),
         NEW lo \in Nat, NEW mid \in Nat, NEW hi \in Nat, lo <= mid, mid <= hi,
         NEW a \in Nat, NEW c \in Nat, NEW d \in Nat,
         Line(p, q, lo, mid), Ordered(items, mid, hi), Joins(s, q, items, a, c, d)
  PROVE  Line(p, s, lo, hi)
<1>1. /\ Len(p) \in Nat /\ Len(q) \in Nat /\ Len(items) \in Nat /\ Len(s) \in Nat
      /\ a <= Len(s) /\ c + a <= Len(q) /\ d + (Len(s) - a) <= Len(items)
  BY LenProperties DEF Joins
<1>2. /\ \A i \in 1 .. Len(p) : p[i] \in Nat
      /\ \A i \in 1 .. Len(q) : q[i] \in Nat
      /\ \A i \in 1 .. Len(items) : items[i] \in Nat
      /\ \A i \in 1 .. Len(s) : s[i] \in Nat
  BY ElementOfSeq
<1>3. ASSUME NEW i \in 1 .. a
      PROVE  c + i \in 1 .. Len(q) /\ s[i] = q[c + i] /\ lo < s[i] /\ s[i] <= mid
  <2>1. c + i \in 1 .. Len(q)
    BY <1>1
  <2>2. s[i] = q[c + i]
    BY DEF Joins
  <2> QED BY <2>1, <2>2 DEF Line, Ordered
<1>4. ASSUME NEW i \in a + 1 .. Len(s)
      PROVE  d + i - a \in 1 .. Len(items) /\ s[i] = items[d + i - a] /\ mid < s[i] /\ s[i] <= hi
  <2>1. d + i - a \in 1 .. Len(items)
    BY <1>1
  <2>2. s[i] = items[d + i - a]
    BY DEF Joins
  <2> QED BY <2>1, <2>2 DEF Ordered
<1>5. \A i \in 1 .. Len(s) : i \in 1 .. a \/ i \in a + 1 .. Len(s)
  BY <1>1
<1>6. Ordered(p, lo, hi)
  <2>1. ASSUME NEW i \in 1 .. Len(p) PROVE lo < p[i] /\ p[i] <= hi
    <3>1. lo < p[i] /\ p[i] <= mid /\ p[i] \in Nat
      BY <1>2 DEF Line, Ordered
    <3> QED BY <3>1
  <2> QED BY <2>1 DEF Line, Ordered
<1>7. \A i \in 1 .. Len(s) : lo < s[i] /\ s[i] <= hi
  <2> TAKE i \in 1 .. Len(s)
  <2>1. CASE i \in 1 .. a
    <3>1. s[i] \in Nat
      BY <1>2
    <3>2. lo < s[i] /\ s[i] <= mid
      BY <1>3, <2>1, Zenon
    <3> QED BY <3>1, <3>2
  <2>2. CASE i \in a + 1 .. Len(s)
    <3>1. s[i] \in Nat
      BY <1>2
    <3>2. mid < s[i] /\ s[i] <= hi
      BY <1>4, <2>2, Zenon
    <3> QED BY <3>1, <3>2
  <2> QED BY <1>5, <2>1, <2>2
<1>8. ASSUME NEW i \in 1 .. Len(s), NEW j \in 1 .. Len(s), i < j PROVE s[i] < s[j]
  <2>1. CASE i \in 1 .. a /\ j \in 1 .. a
    <3>1. c + i < c + j
      BY <1>8
    <3>2. q[c + i] < q[c + j]
      BY <1>3, <2>1, <3>1 DEF Line, Ordered
    <3> QED BY <1>3, <2>1, <3>2
  <2>2. CASE i \in 1 .. a /\ j \in a + 1 .. Len(s)
    <3>1. s[i] \in Nat /\ s[j] \in Nat
      BY <1>2
    <3>2. s[i] <= mid
      BY <1>3, <2>2, Zenon
    <3>3. mid < s[j]
      BY <1>4, <2>2, Zenon
    <3>4. \A x, z \in Nat : x <= mid /\ mid < z => x < z
      OBVIOUS
    <3> QED BY <3>1, <3>2, <3>3, <3>4, Zenon
  <2>3. CASE i \in a + 1 .. Len(s) /\ j \in a + 1 .. Len(s)
    <3>1. d + i - a < d + j - a
      BY <1>8
    <3>2. items[d + i - a] < items[d + j - a]
      BY <1>4, <2>3, <3>1 DEF Ordered
    <3> QED BY <1>4, <2>3, <3>2
  <2>4. ~(i \in a + 1 .. Len(s) /\ j \in 1 .. a)
    BY <1>8
  <2> QED BY <1>5, <2>1, <2>2, <2>3, <2>4
<1>9. ASSUME NEW i \in 1 .. Len(p), NEW j \in 1 .. Len(s) PROVE p[i] < s[j]
  <2>1. CASE j \in 1 .. a
    BY <1>3, <2>1 DEF Line
  <2>2. CASE j \in a + 1 .. Len(s)
    <3>1. p[i] \in Nat /\ s[j] \in Nat
      BY <1>2
    <3>2. p[i] <= mid
      BY DEF Line, Ordered
    <3>3. mid < s[j]
      BY <1>4, <2>2
    <3>4. \A x, z \in Nat : x <= mid /\ mid < z => x < z
      OBVIOUS
    <3> QED BY <3>1, <3>2, <3>3, <3>4, Zenon
  <2> QED BY <1>5, <2>1, <2>2
<1> QED BY <1>6, <1>7, <1>8, <1>9 DEF Line, Ordered

(* Some character of s is c. *)
Holds(s, c) == \E i \in 1 .. Len(s) : s[i] = c

LEMMA HoldsConcat ==
  ASSUME NEW p \in Seq(Nat), NEW q \in Seq(Nat), NEW c
  PROVE  Holds(p \o q, c) <=> Holds(p, c) \/ Holds(q, c)
<1>1. PICK t : t = p \o q
  OBVIOUS
<1>2. Len(p) \in Nat /\ Len(q) \in Nat
  BY LenProperties
<1>3. /\ Len(t) = Len(p) + Len(q)
      /\ \A i \in 1 .. Len(p) + Len(q) : t[i] = IF i <= Len(p) THEN p[i] ELSE q[i - Len(p)]
  BY <1>1, ConcatProperties
<1>4. ASSUME Holds(t, c) PROVE Holds(p, c) \/ Holds(q, c)
  <2>1. PICK i \in 1 .. Len(t) : t[i] = c
    BY <1>4 DEF Holds
  <2>2. CASE i <= Len(p)
    <3>1. i \in 1 .. Len(p) /\ p[i] = c
      BY <1>2, <1>3, <2>1, <2>2
    <3> QED BY <3>1 DEF Holds
  <2>3. CASE ~(i <= Len(p))
    <3>1. i - Len(p) \in 1 .. Len(q) /\ q[i - Len(p)] = c
      BY <1>2, <1>3, <2>1, <2>3
    <3> QED BY <3>1 DEF Holds
  <2> QED BY <2>2, <2>3
<1>5. ASSUME NEW i \in 1 .. Len(p), p[i] = c PROVE Holds(t, c)
  <2>1. i \in 1 .. Len(t) /\ t[i] = c
    BY <1>2, <1>3, <1>5
  <2> QED BY <2>1 DEF Holds
<1>6. ASSUME NEW i \in 1 .. Len(q), q[i] = c PROVE Holds(t, c)
  <2>1. /\ i + Len(p) \in 1 .. Len(p) + Len(q) /\ ~(i + Len(p) <= Len(p))
        /\ (i + Len(p)) - Len(p) = i
    BY <1>2
  <2>2. i + Len(p) \in 1 .. Len(t) /\ t[i + Len(p)] = c
    BY <1>3, <1>6, <2>1
  <2> QED BY <2>2 DEF Holds
<1>7. Holds(p, c) \/ Holds(q, c) => Holds(t, c)
  BY <1>5, <1>6 DEF Holds
<1> QED BY <1>1, <1>4, <1>7

-----------------------------------------------------------------------------
(* Sending and printing. *)
LEMMA Sizes == EP_SIZE \in Nat /\ MAX_MESSAGE \in Nat /\ MAX_TEXT \in Nat
  BY OutputAssumption

LEMMA PacketSeq == ASSUME NEW e \in Endpoints PROVE Packet(e) \in Seq(Nat)
<1>1. CASE e = << >>
  BY <1>1 DEF Packet
<1>2. ASSUME NEW s \in Seq(Nat), e = << s >> PROVE Packet(e) \in Seq(Nat)
  <2>1. e[1] = s /\ e # << >>
    BY <1>2
  <2> QED BY <2>1 DEF Packet
<1> QED BY <1>1, <1>2 DEF Endpoints

(* A packet, or none, is filled from the FIFO f; lo and hi bound what is   *)
(* on its way.                                                             *)
LEMMA SendLine ==
  ASSUME NEW f \in Fifos(Nat), NEW lo, NEW hi, Send(f),
         Ordered(Kept(f), lo, hi)
  PROVE  /\ ep' \in Endpoints /\ fifo' \in Fifos(Nat) /\ busy'
         /\ fifo'.overwritable = f.overwritable
         /\ (ep' # << >> => bus = "up")
         /\ Line(Packet(ep'), Kept(fifo'), lo, hi)
         /\ bus = "up" => \A c : Holds(Kept(f), c) => Holds(Packet(ep'), c) \/ Holds(Kept(fifo'), c)
<1>1. PICK s \in Seq(Nat) : s = Peek(f, EP_SIZE)
  BY ReadSplits, Sizes
<1>2. PICK g \in Fifos(Nat) : g = AfterRead(f, EP_SIZE) /\ g.overwritable = f.overwritable
  BY ReadIs, Sizes
<1>3. PICK q \in Seq(Nat) : q = Kept(g)
  BY KeptSeq
<1>4. Kept(f) = s \o q
  BY <1>1, <1>2, <1>3, ReadSplits, Sizes
<1>5. fifo' = g /\ busy' = TRUE /\ ep' = IF bus = "up" THEN << s >> ELSE << >>
  BY <1>1, <1>2 DEF Send
<1>6. Line(s, q, lo, hi)
  BY <1>4, LineConcat
<1>7. CASE bus = "up"
  <2>1. ep' = << s >> /\ ep' \in Endpoints /\ Packet(ep') = s
    <3>1. << s >>[1] = s /\ << s >> # << >>
      OBVIOUS
    <3> QED BY <1>5, <1>7, <3>1 DEF Endpoints, Packet
  <2>2. \A c : Holds(Kept(f), c) => Holds(s, c) \/ Holds(q, c)
    BY <1>4, HoldsConcat
  <2> QED BY <1>2, <1>3, <1>5, <1>6, <1>7, <2>1, <2>2
<1>8. CASE bus # "up"
  <2>1. ep' = << >> /\ ep' \in Endpoints /\ Packet(ep') = << >>
    BY <1>5, <1>8 DEF Endpoints, Packet
  <2>2. Line(<< >>, q, lo, hi)
    BY <1>6, EmptyLine DEF Line
  <2> QED BY <1>2, <1>3, <1>5, <1>8, <2>1, <2>2
<1> QED BY <1>7, <1>8

LEMMA FlushLine ==
  ASSUME OutTypeOK, Claimed, NEW f \in Fifos(Nat), NEW lo, NEW hi, Flush(f),
         Line(Packet(ep), Kept(f), lo, hi), UNCHANGED << bus, done >>
  PROVE  /\ ep' \in Endpoints /\ fifo' \in Fifos(Nat) /\ busy' \in BOOLEAN
         /\ fifo'.overwritable = f.overwritable
         /\ Claimed' /\ Line(Packet(ep'), Kept(fifo'), lo, hi)
         /\ bus = "up" => \A c : Holds(Packet(ep), c) \/ Holds(Kept(f), c)
                                  => Holds(Packet(ep'), c) \/ Holds(Kept(fifo'), c)
<1>1. CASE Free /\ Send(f)
  <2>1. ep = << >> /\ done = "no"
    BY <1>1 DEF Free, Claimed
  <2>2. Packet(ep) = << >>
    BY <2>1 DEF Packet
  <2>3. Ordered(Kept(f), lo, hi)
    BY <2>2, EmptyLine
  <2>4. /\ ep' \in Endpoints /\ fifo' \in Fifos(Nat) /\ busy'
        /\ fifo'.overwritable = f.overwritable
        /\ (ep' # << >> => bus = "up")
        /\ Line(Packet(ep'), Kept(fifo'), lo, hi)
        /\ bus = "up" => \A c : Holds(Kept(f), c) => Holds(Packet(ep'), c) \/ Holds(Kept(fifo'), c)
    BY <1>1, <2>3, SendLine
  <2>5. busy' \in BOOLEAN
    BY <1>1 DEF Send
  <2>6. Claimed'
    BY <2>1, <2>4 DEF Claimed
  <2>7. \A c : ~Holds(<< >>, c)
    <3>1. Len(<< >>) = 0
      OBVIOUS
    <3> QED BY <3>1 DEF Holds
  <2> QED BY <2>2, <2>4, <2>5, <2>6, <2>7
<1>2. CASE fifo' = f /\ UNCHANGED << ep, busy >>
  BY <1>2 DEF OutTypeOK, Claimed
<1> QED BY <1>1, <1>2 DEF Flush

LEMMA PrintLine ==
  ASSUME OutInv, NEW length \in Nat, cdc_printf(length)
  PROVE  /\ OutInv'
         /\ bus = "up" /\ ~fifo.overwritable =>
              \A c : Holds(Packet(ep), c) \/ Holds(Kept(fifo), c)
                      => Holds(Packet(ep'), c) \/ Holds(Kept(fifo'), c)
<1>1. /\ fifo \in Fifos(Nat) /\ ep \in Endpoints /\ printed \in Nat /\ shown \in Nat
      /\ shown <= printed /\ Line(Packet(ep), Kept(fifo), shown, printed)
  BY DEF OutInv, OutTypeOK, InLine
<1>2. PICK items : items = [i \in 1 .. length |-> printed + i]
  OBVIOUS
<1>3. items \in Seq(Nat) /\ Ordered(items, printed, printed + length)
  <2>1. items \in [1 .. length -> Nat]
    BY <1>1, <1>2
  <2>2. items \in Seq(Nat) /\ Len(items) = length
    BY <2>1, SeqDef, LenProperties
  <2>3. /\ \A i \in 1 .. length : printed < printed + i /\ printed + i <= printed + length
        /\ \A i, j \in 1 .. length : i < j => printed + i < printed + j
    BY <1>1
  <2>4. \A i \in 1 .. length : items[i] = printed + i
    BY <1>2
  <2> QED BY <2>2, <2>3, <2>4 DEF Ordered
<1>4. PICK f \in Fifos(Nat) : f = AfterWrite(fifo, items) /\ f.overwritable = fifo.overwritable
  BY <1>1, <1>3, WriteJoins
<1>5. PICK p \in Seq(Nat) : p = Packet(ep)
  BY <1>1, PacketSeq
<1>6. PICK q \in Seq(Nat) : q = Kept(fifo)
  BY <1>1, KeptSeq
<1>7. PICK s \in Seq(Nat) : s = Kept(f)
  BY KeptSeq
<1>8. PICK a \in Nat, c \in Nat, d \in Nat :
        /\ Joins(s, q, items, a, c, d)
        /\ ~fifo.overwritable => a = Len(q) /\ c = 0
  BY <1>1, <1>3, <1>4, <1>6, <1>7, WriteJoins
<1>9. Line(p, s, shown, printed + length)
  <2>1. PICK hi \in Nat : hi = printed + length /\ printed <= hi
    BY <1>1
  <2> QED BY <1>1, <1>3, <1>5, <1>6, <1>8, <2>1, LineWrite
<1>10. Flush(f) /\ printed' = printed + length /\ UNCHANGED << usb, done, shown >>
  BY <1>2, <1>4 DEF cdc_printf
<1>11. UNCHANGED << bus, mounted, suspended, terminal, done, shown >>
  BY <1>10 DEF usb
<1>12. /\ ep' \in Endpoints /\ fifo' \in Fifos(Nat) /\ busy' \in BOOLEAN
       /\ Claimed' /\ Line(Packet(ep'), Kept(fifo'), shown, printed + length)
       /\ bus = "up" => \A x : Holds(Packet(ep), x) \/ Holds(Kept(f), x)
                                => Holds(Packet(ep'), x) \/ Holds(Kept(fifo'), x)
  BY <1>5, <1>7, <1>9, <1>10, <1>11, FlushLine DEF OutInv
<1>13. printed' \in Nat /\ shown <= printed'
  BY <1>1, <1>10
<1>14. OutInv'
  BY <1>1, <1>10, <1>11, <1>12, <1>13 DEF OutInv, OutTypeOK, InLine
<1>15. ASSUME ~fifo.overwritable, NEW x, Holds(q, x) PROVE Holds(s, x)
  <2>1. PICK i \in 1 .. Len(q) : q[i] = x
    BY <1>15 DEF Holds
  <2>2. i \in 1 .. a /\ c + i = i /\ a <= Len(s) /\ Len(q) \in Nat /\ Len(s) \in Nat
    BY <1>8, <1>15, LenProperties DEF Joins
  <2>3. s[i] = x /\ i \in 1 .. Len(s)
    BY <1>8, <2>1, <2>2 DEF Joins
  <2> QED BY <2>3 DEF Holds
<1> QED BY <1>6, <1>7, <1>12, <1>14, <1>15

LEMMA NothingHeld == Len(<< >>) = 0 /\ \A c : ~Holds(<< >>, c)
<1>1. Len(<< >>) = 0
  OBVIOUS
<1> QED BY <1>1 DEF Holds

(* tud_task hears of a packet that was read, or of the terminal. *)
LEMMA TransfersLine ==
  ASSUME OutInv, TaskTransfers
  PROVE  /\ OutInv'
         /\ \A c : Holds(Packet(ep), c) \/ Holds(Kept(fifo), c)
                    => Holds(Packet(ep'), c) \/ Holds(Kept(fifo'), c)
<1>1. /\ fifo \in Fifos(Nat) /\ ep \in Endpoints /\ terminal \in BOOLEAN
      /\ Line(Packet(ep), Kept(fifo), shown, printed) /\ Claimed /\ OutTypeOK
  BY DEF OutInv, OutTypeOK, InLine
<1>2. PICK f \in Fifos(Nat) : f = SetOverwritable(fifo, ~terminal) /\ Kept(f) = Kept(fifo)
  BY <1>1, SetKept
<1>3. /\ bus = "up" /\ done' = "no"
      /\ UNCHANGED << bus, mounted, suspended, terminal, printed, shown >>
  BY DEF TaskTransfers, usb
<1>4. \/ done # "no" /\ NextPacket(f)
      \/ done = "no" /\ fifo' = f /\ UNCHANGED << busy, ep >>
  BY <1>2 DEF TaskTransfers
<1>5. /\ ep' \in Endpoints /\ fifo' \in Fifos(Nat) /\ busy' \in BOOLEAN
      /\ (ep' # << >> => busy') /\ Line(Packet(ep'), Kept(fifo'), shown, printed)
      /\ \A c : Holds(Packet(ep), c) \/ Holds(Kept(fifo), c)
                 => Holds(Packet(ep'), c) \/ Holds(Kept(fifo'), c)
  <2>1. CASE done # "no" /\ NextPacket(f)
    <3>1. ep = << >> /\ Packet(ep) = << >> /\ Ordered(Kept(f), shown, printed)
      <4>1. ep = << >>
        BY <1>1, <2>1 DEF Claimed
      <4>2. Packet(ep) = << >>
        BY <4>1 DEF Packet
      <4> QED BY <1>1, <1>2, <4>1, <4>2, EmptyLine
    <3>2. CASE CanSend(f) /\ Send(f)
      <4>1. /\ ep' \in Endpoints /\ fifo' \in Fifos(Nat) /\ busy'
            /\ Line(Packet(ep'), Kept(fifo'), shown, printed)
            /\ \A c : Holds(Kept(f), c) => Holds(Packet(ep'), c) \/ Holds(Kept(fifo'), c)
        BY <1>3, <3>1, <3>2, SendLine
      <4>2. busy' \in BOOLEAN
        BY <3>2 DEF Send
      <4> QED BY <1>2, <3>1, <4>1, <4>2, NothingHeld
    <3>3. CASE /\ fifo' = f /\ busy' = (done = "full" /\ Items(f) = 0)
               /\ ep' = IF busy' THEN << << >> >> ELSE << >>
      <4>1. << >> \in Seq(Nat) /\ << << >> >>[1] = << >> /\ << << >> >> # << >>
        OBVIOUS
      <4>2. busy' \in BOOLEAN
        BY <3>3
      <4>3. ep' = << << >> >> \/ ep' = << >>
        BY <3>3
      <4>4. ep' \in Endpoints /\ Packet(ep') = << >>
        BY <4>1, <4>3 DEF Endpoints, Packet
      <4>5. ep' # << >> => busy'
        BY <3>3
      <4> QED BY <1>2, <3>1, <3>3, <4>2, <4>4, <4>5, EmptyLine
    <3> QED BY <2>1, <3>2, <3>3 DEF NextPacket
  <2>2. CASE done = "no" /\ fifo' = f /\ UNCHANGED << busy, ep >>
    BY <1>1, <1>2, <2>2 DEF OutTypeOK, Claimed
  <2> QED BY <1>4, <2>1, <2>2
<1>6. Claimed'
  BY <1>3, <1>5 DEF Claimed
<1>7. OutTypeOK'
  BY <1>1, <1>3, <1>5 DEF OutTypeOK
<1>8. InLine'
  BY <1>3, <1>5 DEF InLine
<1> QED BY <1>5, <1>6, <1>7, <1>8 DEF OutInv

LEMMA HostReadsLine ==
  ASSUME OutInv, HostReads
  PROVE  /\ OutInv'
         /\ \A c \in Nat : Holds(Packet(ep), c) \/ Holds(Kept(fifo), c)
                            => c <= shown' \/ Holds(Kept(fifo'), c)
<1>1. /\ ep # << >> /\ ep' = << >> /\ fifo' = fifo
      /\ shown' = IF ep[1] = << >> THEN shown ELSE ep[1][Len(ep[1])]
      /\ UNCHANGED << bus, mounted, suspended, terminal, busy, printed >>
  BY DEF HostReads, usb
<1>2. PICK p \in Seq(Nat) : p = Packet(ep) /\ p = ep[1]
  <2>1. Packet(ep) \in Seq(Nat)
    BY PacketSeq DEF OutInv, OutTypeOK
  <2> QED BY <1>1, <2>1 DEF Packet
<1>3. PICK q \in Seq(Nat) : q = Kept(fifo)
  BY KeptSeq DEF OutInv, OutTypeOK
<1>4. printed \in Nat /\ shown \in Nat /\ shown <= printed /\ Line(p, q, shown, printed)
  BY <1>2, <1>3 DEF OutInv, OutTypeOK, InLine
<1>5. /\ shown' \in Nat /\ shown' <= printed /\ Ordered(q, shown', printed)
      /\ \A c \in Nat : Holds(p, c) => c <= shown'
  <2>1. CASE p = << >>
    <3>1. shown' = shown /\ Ordered(q, shown, printed)
      BY <1>1, <1>2, <1>4, <2>1 DEF Line
    <3> QED BY <1>4, <2>1, <3>1, NothingHeld
  <2>2. CASE p # << >>
    <3>1. shown' = p[Len(p)]
      BY <1>1, <1>2, <2>2
    <3>2. /\ p[Len(p)] \in Nat /\ p[Len(p)] <= printed /\ Ordered(q, p[Len(p)], printed)
          /\ \A i \in 1 .. Len(p) : p[i] <= p[Len(p)]
      BY <1>4, <2>2, LineRead
    <3> QED BY <3>1, <3>2 DEF Holds
  <2> QED BY <2>1, <2>2
<1>6. Packet(ep') = << >> /\ ep' \in Endpoints
  BY <1>1 DEF Packet, Endpoints
<1>7. done' \in {"short", "full"} /\ busy
  BY <1>1 DEF HostReads, OutInv, Claimed
<1>8. OutTypeOK'
  BY <1>1, <1>4, <1>5, <1>6, <1>7 DEF OutInv, OutTypeOK
<1>9. Claimed'
  BY <1>1, <1>7 DEF Claimed
<1>10. InLine'
  BY <1>1, <1>3, <1>5, <1>6, EmptyLine DEF InLine
<1> QED BY <1>1, <1>2, <1>3, <1>5, <1>8, <1>9, <1>10 DEF OutInv

LEMMA ResetLine ==
  ASSUME OutInv, TaskReset
  PROVE  OutInv' /\ bus' # "up"
<1>1. PICK g \in Fifos(Nat) : g = Cleared(fifo) /\ Kept(g) = << >>
  BY ClearedKept DEF OutInv, OutTypeOK
<1>2. PICK f \in Fifos(Nat) : f = SetOverwritable(g, TRUE) /\ Kept(f) = << >>
  BY <1>1, SetKept
<1>3. /\ bus = "reset" /\ bus' = "enum" /\ mounted' = FALSE /\ suspended' = FALSE
      /\ busy' = FALSE /\ done' = "no" /\ fifo' = f
      /\ UNCHANGED << ep, printed, terminal, shown >>
  BY <1>1, <1>2 DEF TaskReset
<1>4. ep = << >>
  BY <1>3 DEF OutInv, Claimed
<1>5. OutTypeOK'
  BY <1>3 DEF OutInv, OutTypeOK
<1>6. Claimed'
  BY <1>3, <1>4 DEF Claimed
<1>7. InLine'
  <2>1. Packet(ep') = << >> /\ Kept(fifo') = << >>
    BY <1>2, <1>3, <1>4 DEF Packet
  <2> QED BY <2>1, EmptyLine, EmptyOrdered DEF InLine
<1> QED BY <1>3, <1>5, <1>6, <1>7 DEF OutInv

LEMMA FlushOnInputLine ==
  ASSUME OutInv, FlushOnInput
  PROVE  /\ OutInv'
         /\ bus = "up" => \A c : Holds(Packet(ep), c) \/ Holds(Kept(fifo), c)
                                  => Holds(Packet(ep'), c) \/ Holds(Kept(fifo'), c)
<1>1. /\ OutTypeOK /\ Claimed /\ fifo \in Fifos(Nat)
      /\ Line(Packet(ep), Kept(fifo), shown, printed)
  BY DEF OutInv, OutTypeOK, InLine
<1>2. Flush(fifo) /\ UNCHANGED << bus, mounted, suspended, terminal, done, printed, shown >>
  BY DEF FlushOnInput, usb
<1>3. /\ ep' \in Endpoints /\ fifo' \in Fifos(Nat) /\ busy' \in BOOLEAN
      /\ Claimed' /\ Line(Packet(ep'), Kept(fifo'), shown, printed)
      /\ bus = "up" => \A c : Holds(Packet(ep), c) \/ Holds(Kept(fifo), c)
                               => Holds(Packet(ep'), c) \/ Holds(Kept(fifo'), c)
  BY <1>1, <1>2, FlushLine
<1>4. OutTypeOK'
  BY <1>1, <1>2, <1>3 DEF OutTypeOK
<1>5. InLine'
  BY <1>2, <1>3 DEF InLine
<1> QED BY <1>3, <1>4, <1>5 DEF OutInv

(* The steps that move no character. *)
LEMMA OthersLine ==
  ASSUME OutInv, TaskConfigure \/ OpenClose \/ SuspendResume \/ HostConfigure \/ UNCHANGED outvars
  PROVE  OutInv' /\ UNCHANGED << ep, fifo >>
<1>1. /\ UNCHANGED << ep, fifo, busy, done, printed, shown >>
      /\ bus' \in {"up", "conf", bus} /\ (bus = "up" => bus' = "up")
      /\ mounted' \in BOOLEAN /\ suspended' \in BOOLEAN /\ terminal' \in BOOLEAN
  BY DEF TaskConfigure, OpenClose, SuspendResume, HostConfigure, outvars, usb, OutInv, OutTypeOK
<1>2. OutTypeOK'
  BY <1>1 DEF OutInv, OutTypeOK
<1>3. Claimed'
  BY <1>1 DEF OutInv, Claimed
<1>4. InLine'
  BY <1>1 DEF OutInv, InLine
<1> QED BY <1>1, <1>2, <1>3, <1>4 DEF OutInv

LEMMA BusResetLine == ASSUME OutInv, BusReset PROVE OutInv' /\ bus' # "up"
<1>1. /\ bus' = "reset" /\ terminal' = FALSE /\ ep' = << >>
      /\ UNCHANGED << mounted, suspended, busy, done, fifo, printed, shown >>
  BY DEF BusReset
<1>2. Packet(ep') = << >> /\ ep' \in Endpoints
  BY <1>1 DEF Packet, Endpoints
<1>3. OutTypeOK'
  BY <1>1, <1>2 DEF OutInv, OutTypeOK
<1>4. Claimed'
  BY <1>1 DEF OutInv, Claimed
<1>5. InLine'
  <2>1. Ordered(Kept(fifo), shown, printed)
    BY DEF OutInv, InLine, Line
  <2> QED BY <1>1, <1>2, <2>1, EmptyLine DEF InLine
<1> QED BY <1>1, <1>3, <1>4, <1>5 DEF OutInv

LEMMA InitLine == ASSUME Init PROVE OutInv
<1>1. /\ bus = "enum" /\ mounted = FALSE /\ suspended = FALSE /\ terminal = FALSE
      /\ busy = FALSE /\ ep = << >> /\ done = "no" /\ fifo = NewFifo /\ printed = 0 /\ shown = 0
  BY DEF Init
<1>2. OutTypeOK
  <2>1. ep \in Endpoints
    BY <1>1 DEF Endpoints
  <2>2. fifo \in Fifos(Nat)
    BY <1>1, NewKept
  <2>3. printed \in Nat /\ shown \in Nat /\ shown <= printed
    BY <1>1
  <2>4. /\ mounted \in BOOLEAN /\ suspended \in BOOLEAN /\ terminal \in BOOLEAN
        /\ busy \in BOOLEAN
    BY <1>1, Zenon
  <2> QED BY <1>1, <2>1, <2>2, <2>3, <2>4, Zenon DEF OutTypeOK
<1>3. Claimed
  BY <1>1 DEF Claimed
<1>4. InLine
  <2>1. Packet(ep) = << >> /\ Kept(fifo) = << >>
    BY <1>1, NewKept DEF Packet
  <2> QED BY <2>1, EmptyLine, EmptyOrdered DEF InLine
<1> QED BY <1>2, <1>3, <1>4 DEF OutInv

LEMMA LengthType ==
  ASSUME OutTypeOK, NEW length \in 1 .. Least(MAX_MESSAGE, MAX_TEXT - printed)
  PROVE  length \in Nat
<1>1. Least(MAX_MESSAGE, MAX_TEXT - printed) \in Int
  BY Sizes DEF Least, OutTypeOK
<1> QED BY <1>1

LEMMA NextLine == ASSUME OutInv, [Next]_outvars PROVE OutInv'
<1>1. ASSUME NEW length \in 1 .. Least(MAX_MESSAGE, MAX_TEXT - printed), cdc_printf(length)
      PROVE  OutInv'
  BY <1>1, LengthType, PrintLine DEF OutInv
<1>2. CASE tud_task
  BY <1>2, ResetLine, OthersLine, TransfersLine DEF tud_task
<1> QED BY <1>1, <1>2, FlushOnInputLine, HostReadsLine, OthersLine, BusResetLine DEF Next

-----------------------------------------------------------------------------
(* The endpoint is claimed from a packet until tud_task has heard that it  *)
(* was read, and what is on its way lies between what the terminal has     *)
(* read and what was printed last (cdc_device.c:166-210,456-475).          *)
THEOREM OutInvHolds == Spec => []OutInv
<1>1. Init => OutInv
  BY InitLine
<1>2. OutInv /\ [Next]_outvars => OutInv'
  BY NextLine
<1> QED BY <1>1, <1>2, PTL DEF Spec

LEMMA ComingIs ==
  ASSUME OutInv
  PROVE  Coming \in Seq(Nat) /\ Ordered(Coming, shown, printed) /\ DOMAIN Coming = 1 .. Len(Coming)
<1>1. PICK p \in Seq(Nat) : p = Packet(ep)
  BY PacketSeq DEF OutInv, OutTypeOK
<1>2. PICK q \in Seq(Nat) : q = Kept(fifo)
  BY KeptSeq DEF OutInv, OutTypeOK
<1>3. Coming = p \o q
  BY <1>1, <1>2 DEF Coming, Packet, Kept
<1>4. Ordered(p \o q, shown, printed)
  BY <1>1, <1>2, LineConcat DEF OutInv, InLine
<1>5. p \o q \in Seq(Nat)
  BY ConcatProperties
<1> QED BY <1>3, <1>4, <1>5, LenProperties

(* The terminal sees characters in the order in which they were printed    *)
(* and none twice, for every depth of the FIFO and size of the packets     *)
(* (tusb_fifo.c:392-548, cdc_device.c:166-210).                            *)
THEOREM InOrderCorrect == Spec => []InOrder
<1>1. ASSUME OutInv PROVE InOrder
  <2>1. PICK t \in Seq(Nat) : t = Coming /\ Ordered(t, shown, printed) /\ DOMAIN t = 1 .. Len(t)
    BY <1>1, ComingIs
  <2>2. ASSUME NEW i \in 1 .. Len(t) PROVE t[i] > IF i = 1 THEN shown ELSE t[i - 1]
    <3>1. Len(t) \in Nat /\ t[i] \in Nat /\ shown \in Nat
      BY <1>1, LenProperties, ElementOfSeq DEF OutInv, OutTypeOK
    <3>2. CASE i = 1
      <4>1. shown < t[i]
        BY <2>1 DEF Ordered
      <4> QED BY <3>1, <3>2, <4>1
    <3>3. CASE i # 1
      <4>1. i - 1 \in 1 .. Len(t) /\ i - 1 < i
        BY <3>1, <3>3
      <4>2. t[i - 1] < t[i] /\ t[i - 1] \in Nat
        BY <2>1, <4>1, ElementOfSeq DEF Ordered
      <4> QED BY <3>1, <3>3, <4>2
    <3> QED BY <3>2, <3>3
  <2> QED BY <2>1, <2>2 DEF InOrder
<1> QED BY <1>1, OutInvHolds, PTL

Row(e, f) == (IF e = << >> THEN << >> ELSE e[1]) \o Peek(f, DEPTH)

LEMMA RowHolds ==
  ASSUME NEW e \in Endpoints, NEW f \in Fifos(Nat), NEW c
  PROVE  (\E i \in DOMAIN Row(e, f) : Row(e, f)[i] = c) <=> Holds(Packet(e), c) \/ Holds(Kept(f), c)
<1>1. PICK p \in Seq(Nat) : p = Packet(e)
  BY PacketSeq
<1>2. PICK q \in Seq(Nat) : q = Kept(f)
  BY KeptSeq
<1>3. PICK t \in Seq(Nat) : t = p \o q
  BY ConcatProperties
<1>4. Row(e, f) = t
  BY <1>1, <1>2, <1>3 DEF Row, Packet, Kept
<1>5. DOMAIN t = 1 .. Len(t)
  BY LenProperties
<1>6. Holds(t, c) <=> Holds(p, c) \/ Holds(q, c)
  BY <1>3, HoldsConcat
<1> QED BY <1>1, <1>2, <1>4, <1>5, <1>6 DEF Holds

LEMMA WaitsIs ==
  /\ OutInv => \A c : Waits(c) <=> Holds(Packet(ep), c) \/ Holds(Kept(fifo), c)
  /\ OutInv' => \A c : Waits(c)' <=> Holds(Packet(ep'), c) \/ Holds(Kept(fifo'), c)
<1>1. \A c : Waits(c) <=> \E i \in DOMAIN Row(ep, fifo) : Row(ep, fifo)[i] = c
  BY DEF Waits, Coming, Row
<1>2. \A c : Waits(c)' <=> \E i \in DOMAIN Row(ep', fifo') : Row(ep', fifo')[i] = c
  BY DEF Waits, Coming, Row
<1>3. OutInv => ep \in Endpoints /\ fifo \in Fifos(Nat)
  BY DEF OutInv, OutTypeOK
<1>4. OutInv' => ep' \in Endpoints /\ fifo' \in Fifos(Nat)
  BY DEF OutInv, OutTypeOK
<1> QED BY <1>1, <1>2, <1>3, <1>4, RowHolds

LEMMA NextKeeps ==
  ASSUME OutInv, [Next]_outvars, ~fifo.overwritable, bus' = "up",
         NEW c \in Nat, Waits(c), ~(c <= shown')
  PROVE  Waits(c)'
<1>1. Holds(Packet(ep), c) \/ Holds(Kept(fifo), c)
  BY WaitsIs
<1>2. OutInv'
  BY NextLine
<1> SUFFICES Holds(Packet(ep'), c) \/ Holds(Kept(fifo'), c)
  BY <1>2, WaitsIs
<1>3. ASSUME NEW length \in 1 .. Least(MAX_MESSAGE, MAX_TEXT - printed), cdc_printf(length)
      PROVE  Holds(Packet(ep'), c) \/ Holds(Kept(fifo'), c)
  <2>1. length \in Nat /\ bus = "up"
    BY <1>3, LengthType DEF OutInv, cdc_printf, usb
  <2> QED BY <1>1, <1>3, <2>1, PrintLine
<1>4. CASE FlushOnInput
  <2>1. bus = "up"
    BY <1>4 DEF FlushOnInput, usb
  <2> QED BY <1>1, <1>4, <2>1, FlushOnInputLine
<1>5. CASE TaskTransfers
  BY <1>1, <1>5, TransfersLine
<1>6. CASE HostReads
  BY <1>1, <1>6, HostReadsLine
<1>7. CASE TaskConfigure \/ OpenClose \/ SuspendResume \/ HostConfigure \/ UNCHANGED outvars
  <2>1. ep' = ep /\ fifo' = fifo
    BY <1>7, OthersLine
  <2> QED BY <1>1, <2>1
<1>8. ~TaskReset /\ ~BusReset
  BY ResetLine, BusResetLine
<1> QED BY <1>3, <1>4, <1>5, <1>6, <1>7, <1>8 DEF Next, tud_task

(* A character in the FIFO that the driver keeps for the terminal leaves   *)
(* only for the terminal, or with the bus (cdc_device.c:181-210,391).      *)
THEOREM KeptForTerminalCorrect == Spec => KeptForTerminal
<1>1. ASSUME OutInv, [Next]_outvars
      PROVE  [~fifo.overwritable /\ ~fifo'.overwritable =>
                \A c \in 1 .. printed : Waits(c) => Waits(c)' \/ c <= shown' \/ bus' # "up"]_outvars
  <2>1. printed \in Nat
    BY <1>1 DEF OutInv, OutTypeOK
  <2>2. ASSUME ~fifo.overwritable, NEW c \in 1 .. printed, Waits(c), bus' = "up", ~(c <= shown')
        PROVE  Waits(c)'
    <3>1. c \in Nat
      BY <2>1
    <3> QED BY <1>1, <2>2, <3>1, NextKeeps
  <2> QED BY <2>2
<1> QED BY <1>1, OutInvHolds, PTL DEF Spec, KeptForTerminal
=============================================================================
