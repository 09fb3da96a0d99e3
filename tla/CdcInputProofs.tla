--------------------------- MODULE CdcInputProofs ---------------------------
(***************************************************************************)
(* Proofs about CdcInput, for every packet size, FIFO and line buffer that *)
(* CdcAssumption allows: nothing overflows, and the program sees the lines *)
(* that the host has written, as LineStream promises.                      *)
(*                                                                         *)
(* The stream that is on its way is a fold over characters, so lemmas      *)
(* about it are by induction over their number.                            *)
(***************************************************************************)
EXTENDS CdcInput, SequenceTheorems, Induction

-----------------------------------------------------------------------------
(* Numbers. *)
(* The least of a set of numbers is one of them. *)
LEMMA MinIs ==
  ASSUME NEW T \in SUBSET Nat, T # {}
  PROVE  Min(T) \in T /\ \A y \in T : Min(T) <= y
  BY LeastNumber DEF Min

LEMMA MaxIs ==
  ASSUME NEW n \in Nat, NEW s \in SUBSET (1 .. n + 1), n + 1 \in s
  PROVE  Max(s) = n + 1
<1>1. \A y \in s : n + 1 >= y
  OBVIOUS
<1>2. \E x \in s : \A y \in s : x >= y
  BY <1>1
<1>3. Max(s) \in s /\ \A y \in s : Max(s) >= y
  <2> DEFINE m == CHOOSE x \in s : \A y \in s : x >= y
  <2>1. m \in s /\ \A y \in s : m >= y
    BY <1>2
  <2> QED BY <2>1 DEF Max
<1>4. Max(s) \in 1 .. n + 1 /\ Max(s) >= n + 1
  BY <1>3
<1> QED BY <1>4

-----------------------------------------------------------------------------
(* The function behind the fold that Written is: its value for the first  *)
(* k positions is the stream after k characters.                          *)
Fold(g, b, seq, S) ==
  g = [s \in SUBSET S |-> IF s = {} THEN b ELSE After(g[s \ {Max(s)}], seq[Max(s)])]

LEMMA FoldExists ==
  ASSUME NEW b, NEW seq, NEW n \in Nat
  PROVE  \E g : Fold(g, b, seq, 1 .. n)
<1> DEFINE T == { k \in Nat : \E g : Fold(g, b, seq, 1 .. k) }
<1>1. 0 \in T
  <2>1. 1 .. 0 = {}
    OBVIOUS
  <2> DEFINE g == [s \in SUBSET (1 .. 0) |-> b]
  <2>2. \A s \in SUBSET (1 .. 0) : s = {}
    BY <2>1
  <2>3. Fold(g, b, seq, 1 .. 0)
    BY <2>2 DEF Fold
  <2> QED BY <2>3
<1>2. ASSUME NEW k \in Nat, k \in T PROVE k + 1 \in T
  <2>1. PICK g : Fold(g, b, seq, 1 .. k)
    BY <1>2
  <2> DEFINE h == [s \in SUBSET (1 .. k + 1) |->
                     IF k + 1 \in s THEN After(g[s \ {k + 1}], seq[k + 1]) ELSE g[s]]
             body(s) == IF s = {} THEN b ELSE After(h[s \ {Max(s)}], seq[Max(s)])
  <2>2. ASSUME NEW s \in SUBSET (1 .. k + 1)
        PROVE  h[s] = body(s)
    <3>1. CASE k + 1 \in s
      <4>1. Max(s) = k + 1
        BY <3>1, MaxIs
      <4>2. s \ {k + 1} \in SUBSET (1 .. k + 1) /\ k + 1 \notin s \ {k + 1}
        OBVIOUS
      <4>3. h[s \ {k + 1}] = g[s \ {k + 1}]
        BY <4>2
      <4>4. h[s] = After(g[s \ {k + 1}], seq[k + 1])
        BY <3>1
      <4>5. s # {}
        BY <3>1
      <4> HIDE DEF h
      <4> QED BY <4>1, <4>3, <4>4, <4>5
    <3>2. CASE k + 1 \notin s
      <4>1. s \in SUBSET (1 .. k)
        BY <3>2
      <4>2. h[s] = g[s]
        BY <3>2
      <4>3. g[s] = IF s = {} THEN b ELSE After(g[s \ {Max(s)}], seq[Max(s)])
        <5> DEFINE e(u) == IF u = {} THEN b ELSE After(g[u \ {Max(u)}], seq[Max(u)])
        <5>1. g = [u \in SUBSET (1 .. k) |-> e(u)]
          BY <2>1 DEF Fold
        <5> HIDE DEF e
        <5>2. g[s] = e(s)
          BY <4>1, <5>1
        <5> QED BY <5>2 DEF e
      <4>4. h[s \ {Max(s)}] = g[s \ {Max(s)}]
        BY <3>2
      <4> HIDE DEF h
      <4> QED BY <4>2, <4>3, <4>4
    <3> QED BY <3>1, <3>2
  <2>3. h = [s \in SUBSET (1 .. k + 1) |-> body(s)]
    <3>1. h = [s \in SUBSET (1 .. k + 1) |-> h[s]]
      OBVIOUS
    <3> HIDE DEF h, body
    <3> QED BY <2>2, <3>1
  <2>4. Fold(h, b, seq, 1 .. k + 1)
    <3> HIDE DEF h
    <3> QED BY <2>3 DEF Fold
  <2> QED BY <2>4
<1>3. n \in T
  <2> HIDE DEF T
  <2> QED BY <1>1, <1>2, NaturalInduction
<1> QED BY <1>3

LEMMA FoldIs ==
  ASSUME NEW C, NEW seq \in Seq(C), NEW b
  PROVE  \E g : Fold(g, b, seq, 1 .. Len(seq)) /\ Written(b, seq) = g[1 .. Len(seq)]
<1> DEFINE n == Len(seq)
<1>1. n \in Nat /\ DOMAIN seq = 1 .. n
  OBVIOUS
<1> DEFINE iter == CHOOSE g : Fold(g, b, seq, 1 .. n)
<1>2. Fold(iter, b, seq, 1 .. n)
  <2> HIDE DEF n
  <2> QED BY <1>1, FoldExists
<1>3. Written(b, seq) = iter[1 .. n]
  BY <1>1 DEF Written, FoldLeft, MapThenFoldSet, Fold
<1> QED BY <1>2, <1>3

-----------------------------------------------------------------------------
(* Text, character by character. *)
Streams == [lines : Seq(Seq(STRING)), typed : Seq(STRING)]

(* h[k] is the stream after k characters. *)
Run(h, b, text) == h[0] = b /\ \A k \in 1 .. Len(text) : h[k] = After(h[k - 1], text[k])

LEMMA FoldValue ==
  ASSUME NEW g, NEW b, NEW text, NEW n \in Nat, Fold(g, b, text, 1 .. n)
  PROVE  /\ g[1 .. 0] = b
         /\ \A k \in 1 .. n : g[1 .. k] = After(g[1 .. k - 1], text[k])
<1> DEFINE e(s) == IF s = {} THEN b ELSE After(g[s \ {Max(s)}], text[Max(s)])
<1>1. g = [s \in SUBSET (1 .. n) |-> e(s)]
  BY DEF Fold
<1>2. \A s \in SUBSET (1 .. n) : g[s] = e(s)
  <2> HIDE DEF e
  <2> QED BY <1>1
<1>3. g[1 .. 0] = b
  <2>1. 1 .. 0 = {}
    OBVIOUS
  <2> QED BY <1>2, <2>1
<1>4. ASSUME NEW k \in 1 .. n
      PROVE  g[1 .. k] = After(g[1 .. k - 1], text[k])
  <2>1. 1 .. k \in SUBSET (1 .. n) /\ 1 .. k # {}
    <3>1. k \in 1 .. k
      OBVIOUS
    <3>2. \A i \in 1 .. k : i \in 1 .. n
      OBVIOUS
    <3> QED BY <3>1, <3>2
  <2>2. Max(1 .. k) = k
    <3>1. k - 1 \in Nat /\ (k - 1) + 1 = k /\ 1 .. k \in SUBSET (1 .. (k - 1) + 1)
      OBVIOUS
    <3>2. (k - 1) + 1 \in 1 .. k
      OBVIOUS
    <3> QED BY <3>1, <3>2, MaxIs
  <2>3. (1 .. k) \ {k} = 1 .. k - 1
    OBVIOUS
  <2>4. g[1 .. k] = e(1 .. k)
    <3> HIDE DEF e
    <3> QED BY <1>2, <2>1
  <2> QED BY <2>1, <2>2, <2>3, <2>4
<1> QED BY <1>3, <1>4

LEMMA WrittenRuns ==
  ASSUME NEW text \in Seq(STRING), NEW b
  PROVE  \E h : Run(h, b, text) /\ Written(b, text) = h[Len(text)]
<1>1. PICK g : Fold(g, b, text, 1 .. Len(text)) /\ Written(b, text) = g[1 .. Len(text)]
  BY FoldIs
<1>2. Len(text) \in Nat
  OBVIOUS
<1> DEFINE h == [k \in 0 .. Len(text) |-> g[1 .. k]]
<1>3. Run(h, b, text)
  <2>1. g[1 .. 0] = b /\ \A k \in 1 .. Len(text) : g[1 .. k] = After(g[1 .. k - 1], text[k])
    BY <1>1, <1>2, FoldValue
  <2>2. h[0] = b
    BY <1>2, <2>1
  <2>3. ASSUME NEW k \in 1 .. Len(text) PROVE h[k] = After(h[k - 1], text[k])
    <3>1. k \in 0 .. Len(text) /\ k - 1 \in 0 .. Len(text)
      BY <1>2
    <3>2. h[k] = g[1 .. k] /\ h[k - 1] = g[1 .. k - 1]
      BY <3>1
    <3> HIDE DEF h
    <3> QED BY <2>1, <3>2
  <2> HIDE DEF h
  <2> QED BY <2>2, <2>3 DEF Run
<1>4. Written(b, text) = h[Len(text)]
  BY <1>1, <1>2
<1> HIDE DEF h
<1> QED BY <1>3, <1>4

LEMMA RunsAgree ==
  ASSUME NEW text \in Seq(STRING), NEW b, NEW h, Run(h, b, text)
  PROVE  Written(b, text) = h[Len(text)]
<1>1. PICK g : Run(g, b, text) /\ Written(b, text) = g[Len(text)]
  BY WrittenRuns
<1>2. Len(text) \in Nat
  OBVIOUS
<1> DEFINE T == { k \in Nat : k <= Len(text) => g[k] = h[k] }
<1>3. 0 \in T
  BY <1>1 DEF Run
<1>4. ASSUME NEW k \in Nat, k \in T PROVE k + 1 \in T
  <2>1. CASE k + 1 <= Len(text)
    <3>1. k + 1 \in 1 .. Len(text) /\ (k + 1) - 1 = k /\ k <= Len(text)
      BY <1>2, <2>1
    <3>2. g[k] = h[k]
      BY <1>4, <3>1
    <3>3. g[k + 1] = After(g[(k + 1) - 1], text[k + 1]) /\ h[k + 1] = After(h[(k + 1) - 1], text[k + 1])
      BY <1>1, <3>1 DEF Run
    <3>4. g[k + 1] = h[k + 1]
      BY <3>1, <3>2, <3>3
    <3> QED BY <3>4
  <2>2. CASE ~(k + 1 <= Len(text))
    BY <2>2
  <2> QED BY <2>1, <2>2
<1>5. Nat \subseteq T
  <2> HIDE DEF T
  <2> QED BY <1>3, <1>4, NaturalInduction
<1> QED BY <1>1, <1>2, <1>5

LEMMA WrittenNothing ==
  \A b : Written(b, << >>) = b
<1> SUFFICES ASSUME NEW b PROVE Written(b, << >>) = b
  OBVIOUS
<1>1. << >> \in Seq(STRING) /\ Len(<< >>) = 0
  OBVIOUS
<1> DEFINE h == [k \in 0 .. 0 |-> b]
<1>2. Run(h, b, << >>)
  BY <1>1 DEF Run
<1>3. h[0] = b
  OBVIOUS
<1> HIDE DEF h
<1> QED BY <1>1, <1>2, <1>3, RunsAgree

(* What is written in two parts. *)
LEMMA WrittenAppend ==
  ASSUME NEW b, NEW s \in Seq(STRING), NEW t \in Seq(STRING)
  PROVE  Written(b, s \o t) = Written(Written(b, s), t)
<1>1. /\ s \o t \in Seq(STRING) /\ Len(s \o t) = Len(s) + Len(t)
      /\ Len(s) \in Nat /\ Len(t) \in Nat
      /\ \A i \in 1 .. Len(s) : (s \o t)[i] = s[i]
      /\ \A i \in 1 .. Len(t) : (s \o t)[Len(s) + i] = t[i]
  <2>1. Len(s) \in Nat /\ Len(t) \in Nat
    OBVIOUS
  <2>2. /\ s \o t \in Seq(STRING) /\ Len(s \o t) = Len(s) + Len(t)
        /\ \A i \in 1 .. Len(s) + Len(t) : (s \o t)[i] =
              IF i <= Len(s) THEN s[i] ELSE t[i - Len(s)]
    BY ConcatProperties
  <2>3. \A i \in 1 .. Len(t) : /\ Len(s) + i \in 1 .. Len(s) + Len(t) /\ ~(Len(s) + i <= Len(s))
                               /\ (Len(s) + i) - Len(s) = i
    BY <2>1
  <2>4. \A i \in 1 .. Len(s) : i \in 1 .. Len(s) + Len(t) /\ i <= Len(s)
    BY <2>1
  <2> QED BY <2>1, <2>2, <2>3, <2>4
<1>2. PICK h : Run(h, b, s \o t) /\ Written(b, s \o t) = h[Len(s \o t)]
  BY <1>1, WrittenRuns
<1>3. Written(b, s) = h[Len(s)]
  <2>1. \A k \in 1 .. Len(s) : k \in 1 .. Len(s \o t)
    BY <1>1
  <2>2. Run(h, b, s)
    BY <1>1, <1>2, <2>1 DEF Run
  <2> QED BY <2>2, RunsAgree
<1>4. Written(h[Len(s)], t) = h[Len(s) + Len(t)]
  <2> DEFINE f == [k \in 0 .. Len(t) |-> h[Len(s) + k]]
  <2>1. f[0] = h[Len(s)] /\ f[Len(t)] = h[Len(s) + Len(t)]
    BY <1>1
  <2>2. ASSUME NEW k \in 1 .. Len(t) PROVE f[k] = After(f[k - 1], t[k])
    <3>1. /\ k \in 0 .. Len(t) /\ k - 1 \in 0 .. Len(t)
          /\ Len(s) + k \in 1 .. Len(s \o t) /\ Len(s) + (k - 1) = (Len(s) + k) - 1
      BY <1>1
    <3>2. f[k] = h[Len(s) + k] /\ f[k - 1] = h[(Len(s) + k) - 1]
      BY <3>1
    <3>3. h[Len(s) + k] = After(h[(Len(s) + k) - 1], (s \o t)[Len(s) + k])
      BY <1>2, <3>1 DEF Run
    <3>4. (s \o t)[Len(s) + k] = t[k]
      BY <1>1
    <3> HIDE DEF f
    <3> QED BY <3>2, <3>3, <3>4
  <2>3. Run(f, h[Len(s)], t)
    <3> HIDE DEF f
    <3> QED BY <2>1, <2>2 DEF Run
  <2> HIDE DEF f
  <2> QED BY <2>1, <2>3, RunsAgree
<1> QED BY <1>1, <1>2, <1>3, <1>4

LEMMA WrittenOne ==
  ASSUME NEW b, NEW c \in STRING
  PROVE  Written(b, << c >>) = After(b, c)
<1> DEFINE h == [k \in 0 .. 1 |-> IF k = 0 THEN b ELSE After(b, c)]
<1>1. << c >> \in Seq(STRING) /\ Len(<< c >>) = 1 /\ << c >>[1] = c
  <2>1. << c >> \in Seq(STRING)
    <3>1. << >> \in Seq(STRING) /\ Append(<< >>, c) = << c >>
      OBVIOUS
    <3> QED BY <3>1, AppendProperties
  <2>2. Len(<< c >>) = 1 /\ << c >>[1] = c
    OBVIOUS
  <2> QED BY <2>1, <2>2
<1>2. h[0] = b /\ h[1] = After(b, c)
  OBVIOUS
<1> HIDE DEF h
<1>3. Run(h, b, << c >>)
  <2>1. \A k \in 1 .. 1 : k = 1
    OBVIOUS
  <2>2. h[1] = After(h[1 - 1], c)
    <3>1. 1 - 1 = 0
      OBVIOUS
    <3> QED BY <1>2, <3>1
  <2> QED BY <1>1, <1>2, <2>1, <2>2 DEF Run
<1> QED BY <1>1, <1>2, <1>3, RunsAgree

LEMMA WrittenFirst ==
  ASSUME NEW b, NEW text \in Seq(STRING), text # << >>
  PROVE  Written(b, text) = Written(After(b, Head(text)), Tail(text))
<1>1. Head(text) \in STRING /\ Tail(text) \in Seq(STRING) /\ << Head(text) >> \in Seq(STRING)
  BY HeadTailProperties
<1>2. text = << Head(text) >> \o Tail(text)
  OBVIOUS
<1>3. Written(b, << Head(text) >> \o Tail(text)) = Written(Written(b, << Head(text) >>), Tail(text))
  BY <1>1, WrittenAppend
<1> QED BY <1>1, <1>2, <1>3, WrittenOne

-----------------------------------------------------------------------------
(* What text does to a stream. *)
LEMMA AfterType ==
  ASSUME NEW s \in Streams, NEW c \in STRING
  PROVE  After(s, c) \in Streams
<1>1. s.lines \in Seq(Seq(STRING)) /\ s.typed \in Seq(STRING)
  BY DEF Streams
<1>2. Append(s.lines, s.typed) \in Seq(Seq(STRING)) /\ Append(s.typed, c) \in Seq(STRING)
  BY <1>1, AppendProperties
<1>3. << >> \in Seq(STRING)
  OBVIOUS
<1> DEFINE l == Append(s.lines, s.typed)
           t == Append(s.typed, c)
<1>4. [lines |-> l, typed |-> << >>] \in Streams
  <2> HIDE DEF l
  <2> QED BY <1>2, <1>3 DEF l, Streams
<1>5. [s EXCEPT !.typed = t] \in Streams
  <2> HIDE DEF t
  <2> QED BY <1>2 DEF t, Streams
<1> QED BY <1>4, <1>5 DEF After

LEMMA WrittenType ==
  ASSUME NEW b \in Streams, NEW text \in Seq(STRING)
  PROVE  Written(b, text) \in Streams
<1>1. PICK h : Run(h, b, text) /\ Written(b, text) = h[Len(text)]
  BY WrittenRuns
<1>2. Len(text) \in Nat
  OBVIOUS
<1> DEFINE T == { k \in Nat : k <= Len(text) => h[k] \in Streams }
<1>3. 0 \in T
  BY <1>1 DEF Run
<1>4. ASSUME NEW k \in Nat, k \in T PROVE k + 1 \in T
  <2>1. CASE k + 1 <= Len(text)
    <3>1. k + 1 \in 1 .. Len(text) /\ (k + 1) - 1 = k /\ k <= Len(text)
      BY <1>2, <2>1
    <3>2. h[k + 1] = After(h[(k + 1) - 1], text[k + 1]) /\ text[k + 1] \in STRING
      BY <1>1, <3>1 DEF Run
    <3>3. h[k] \in Streams
      BY <1>4, <3>1
    <3>4. h[k + 1] \in Streams
      BY <3>1, <3>2, <3>3, AfterType
    <3> QED BY <3>4
  <2>2. CASE ~(k + 1 <= Len(text))
    BY <2>2
  <2> QED BY <2>1, <2>2
<1>5. Nat \subseteq T
  <2> HIDE DEF T
  <2> QED BY <1>3, <1>4, NaturalInduction
<1> QED BY <1>1, <1>2, <1>5

(* A whole line in front of a stream stays in front. *)
Behind(line, s) == [lines |-> << line >> \o s.lines, typed |-> s.typed]

LEMMA AppendBehind ==
  ASSUME NEW S, NEW x \in S, NEW s \in Seq(S), NEW y \in S
  PROVE  Append(<< x >> \o s, y) = << x >> \o Append(s, y)
<1> DEFINE p == << x >>
           q == << y >>
<1>1. p \in Seq(S) /\ q \in Seq(S)
  <2>1. << >> \in Seq(S) /\ Append(<< >>, x) = << x >> /\ Append(<< >>, y) = << y >>
    OBVIOUS
  <2> QED BY <2>1, AppendProperties
<1>2. Append(s, y) = s \o q
  BY AppendIsConcat
<1>3. p \o s \in Seq(S)
  <2> HIDE DEF p
  <2> QED BY <1>1, ConcatProperties
<1>4. Append(p \o s, y) = (p \o s) \o q
  <2> HIDE DEF p
  <2> QED BY <1>3, AppendIsConcat
<1>5. (p \o s) \o q = p \o (s \o q)
  <2> HIDE DEF p, q
  <2> QED BY <1>1, ConcatAssociative
<1> QED BY <1>2, <1>4, <1>5

LEMMA AfterBehind ==
  ASSUME NEW line \in Seq(STRING), NEW s \in Streams, NEW c \in STRING
  PROVE  After(Behind(line, s), c) = Behind(line, After(s, c))
<1>1. s.lines \in Seq(Seq(STRING)) /\ s.typed \in Seq(STRING)
  BY DEF Streams
<1> DEFINE L == << line >> \o s.lines
           A == Append(s.lines, s.typed)
<1>2. Append(L, s.typed) = << line >> \o A
  BY <1>1, AppendBehind
<1>3. Behind(line, s) = [lines |-> L, typed |-> s.typed]
  BY DEF Behind
<1>4. CASE c = LF
  <2>1. After(s, c) = [lines |-> A, typed |-> << >>]
    BY <1>4 DEF After, LF, CR
  <2>2. After(Behind(line, s), c) = [lines |-> Append(L, s.typed), typed |-> << >>]
    <3> HIDE DEF L
    <3> QED BY <1>3, <1>4 DEF After, LF, CR
  <2> HIDE DEF A, L
  <2> QED BY <1>2, <2>1, <2>2 DEF Behind
<1>5. CASE c # LF /\ (c = CR \/ Len(s.typed) >= INPUT_MAX_LEN)
  BY <1>5 DEF After, Behind
<1>6. CASE c # LF /\ ~(c = CR \/ Len(s.typed) >= INPUT_MAX_LEN)
  <2>1. After(s, c) = [s EXCEPT !.typed = Append(@, c)]
    BY <1>6 DEF After
  <2>2. After(s, c).lines = s.lines /\ After(s, c).typed = Append(s.typed, c)
    BY <2>1 DEF Streams
  <2>3. After(Behind(line, s), c) = [lines |-> L, typed |-> Append(s.typed, c)]
    BY <1>6 DEF After, Behind
  <2> QED BY <2>2, <2>3 DEF Behind
<1> QED BY <1>4, <1>5, <1>6

LEMMA WrittenBehind ==
  ASSUME NEW line \in Seq(STRING), NEW b \in Streams, NEW text \in Seq(STRING)
  PROVE  Written(Behind(line, b), text) = Behind(line, Written(b, text))
<1>1. PICK h : Run(h, b, text) /\ Written(b, text) = h[Len(text)]
  BY WrittenRuns
<1>2. Len(text) \in Nat
  OBVIOUS
<1>3. \A k \in 0 .. Len(text) : h[k] \in Streams
  <2> DEFINE T == { k \in Nat : k <= Len(text) => h[k] \in Streams }
  <2>1. 0 \in T
    BY <1>1 DEF Run
  <2>2. ASSUME NEW k \in Nat, k \in T PROVE k + 1 \in T
    <3>1. CASE k + 1 <= Len(text)
      <4>1. k + 1 \in 1 .. Len(text) /\ (k + 1) - 1 = k /\ k <= Len(text)
        BY <1>2, <3>1
      <4>2. h[k + 1] = After(h[(k + 1) - 1], text[k + 1]) /\ text[k + 1] \in STRING
        BY <1>1, <4>1 DEF Run
      <4>3. h[k] \in Streams
        BY <2>2, <4>1
      <4>4. h[k + 1] \in Streams
        BY <4>1, <4>2, <4>3, AfterType
      <4> QED BY <4>4
    <3>2. CASE ~(k + 1 <= Len(text))
      BY <3>2
    <3> QED BY <3>1, <3>2
  <2>3. Nat \subseteq T
    <3> HIDE DEF T
    <3> QED BY <2>1, <2>2, NaturalInduction
  <2> QED BY <1>2, <2>3
<1> DEFINE f == [k \in 0 .. Len(text) |-> Behind(line, h[k])]
<1>4. f[0] = Behind(line, b) /\ f[Len(text)] = Behind(line, Written(b, text))
  BY <1>1, <1>2 DEF Run
<1>5. ASSUME NEW k \in 1 .. Len(text) PROVE f[k] = After(f[k - 1], text[k])
  <2>1. k \in 0 .. Len(text) /\ k - 1 \in 0 .. Len(text)
    BY <1>2
  <2>2. f[k] = Behind(line, h[k]) /\ f[k - 1] = Behind(line, h[k - 1])
    BY <2>1
  <2>3. h[k] = After(h[k - 1], text[k]) /\ text[k] \in STRING /\ h[k - 1] \in Streams
    BY <1>1, <1>3, <2>1 DEF Run
  <2> HIDE DEF f
  <2> QED BY <2>2, <2>3, AfterBehind
<1> HIDE DEF f
<1>6. Run(f, Behind(line, b), text)
  BY <1>4, <1>5 DEF Run
<1> QED BY <1>4, <1>6, RunsAgree

(* Stream a is stream s with its end cut off. *)
Prefix(p, q) == Len(p) <= Len(q) /\ \A i \in 1 .. Len(p) : p[i] = q[i]
Texts(s) == Append(s.lines, s.typed)
Cut(a, s) ==
  /\ Len(a.lines) <= Len(s.lines)
  /\ \A i \in 1 .. Len(a.lines) : a.lines[i] = s.lines[i]
  /\ Prefix(a.typed, Texts(s)[Len(a.lines) + 1])

LEMMA TextsAre ==
  ASSUME NEW s \in Streams
  PROVE  /\ Texts(s) \in Seq(Seq(STRING)) /\ Len(Texts(s)) = Len(s.lines) + 1
         /\ Len(s.lines) \in Nat /\ Len(s.typed) \in Nat
         /\ \A i \in 1 .. Len(s.lines) : Texts(s)[i] = s.lines[i]
         /\ Texts(s)[Len(s.lines) + 1] = s.typed
<1>1. s.lines \in Seq(Seq(STRING)) /\ s.typed \in Seq(STRING)
  BY DEF Streams
<1> QED BY <1>1, AppendProperties DEF Texts

LEMMA CutItself == ASSUME NEW s \in Streams PROVE Cut(s, s)
<1>1. s.lines \in Seq(Seq(STRING)) /\ s.typed \in Seq(STRING)
  BY DEF Streams
<1> QED BY <1>1, TextsAre DEF Cut, Prefix

LEMMA CutAfter ==
  ASSUME NEW a \in Streams, NEW s \in Streams, NEW c \in STRING, Cut(a, s)
  PROVE  Cut(a, After(s, c))
<1> DEFINE n == Len(a.lines)
           m == Len(s.lines)
           z == After(s, c)
<1>1. n \in Nat /\ m \in Nat /\ n <= m /\ z \in Streams
  BY TextsAre, AfterType DEF Cut
<1>2. s.lines \in Seq(Seq(STRING)) /\ s.typed \in Seq(STRING)
  BY DEF Streams
<1>3. CASE z.lines = Append(s.lines, s.typed)
  <2>1. Len(z.lines) = m + 1 /\ (\A i \in 1 .. m : z.lines[i] = s.lines[i]) /\ z.lines[m + 1] = s.typed
    BY <1>2, <1>3, AppendProperties
  <2>2. Texts(z)[n + 1] = z.lines[n + 1]
    <3>1. n + 1 \in 1 .. Len(z.lines)
      BY <1>1, <2>1
    <3> HIDE DEF n, z
    <3> QED BY <1>1, <3>1, TextsAre
  <2>3. Texts(s)[n + 1] = z.lines[n + 1]
    <3>1. CASE n = m
      <4>1. Texts(s)[m + 1] = s.typed
        BY TextsAre
      <4> QED BY <2>1, <3>1, <4>1
    <3>2. CASE n # m
      <4>1. n + 1 \in 1 .. m
        BY <1>1, <3>2
      <4>2. Texts(s)[n + 1] = s.lines[n + 1]
        BY <4>1, TextsAre
      <4> HIDE DEF n, m, z
      <4> QED BY <2>1, <4>1, <4>2
    <3> QED BY <3>1, <3>2
  <2>4. \A i \in 1 .. n : i \in 1 .. m
    BY <1>1
  <2>5. n <= Len(z.lines)
    BY <1>1, <2>1
  <2>6. Prefix(a.typed, Texts(z)[n + 1])
    BY <2>2, <2>3 DEF Cut
  <2>7. Cut(a, z)
    <3> HIDE DEF z
    <3> QED BY <2>1, <2>4, <2>5, <2>6 DEF Cut
  <2> QED BY <2>7
<1>4. CASE z.lines = s.lines /\ (z.typed = s.typed \/ z.typed = Append(s.typed, c))
  <2>1. CASE n = m
    <3>1. Texts(s)[n + 1] = s.typed /\ Texts(z)[n + 1] = z.typed
      <4> HIDE DEF z
      <4> QED BY <1>1, <1>4, <2>1, TextsAre
    <3>2. Prefix(s.typed, z.typed)
      <4>1. Len(s.typed) \in Nat
        BY <1>2
      <4>2. Len(Append(s.typed, c)) = Len(s.typed) + 1
            /\ \A i \in 1 .. Len(s.typed) : Append(s.typed, c)[i] = s.typed[i]
        BY <1>2, AppendProperties
      <4> HIDE DEF z
      <4> QED BY <1>4, <4>1, <4>2 DEF Prefix
    <3>3. Prefix(a.typed, z.typed)
      <4>1. Prefix(a.typed, s.typed)
        BY <3>1 DEF Cut
      <4>2. Len(a.typed) \in Nat /\ Len(s.typed) \in Nat /\ Len(z.typed) \in Nat
        <5> HIDE DEF z
        <5> QED BY <1>1, TextsAre
      <4>3. \A i \in 1 .. Len(a.typed) : i \in 1 .. Len(s.typed)
        BY <4>1, <4>2 DEF Prefix
      <4>4. Len(a.typed) <= Len(z.typed)
        <5>1. Len(a.typed) <= Len(s.typed) /\ Len(s.typed) <= Len(z.typed)
          BY <3>2, <4>1 DEF Prefix
        <5> HIDE DEF z
        <5> QED BY <4>2, <5>1
      <4> HIDE DEF z
      <4> QED BY <3>2, <4>1, <4>3, <4>4 DEF Prefix
    <3>4. Cut(a, z)
      <4> HIDE DEF z
      <4> QED BY <1>1, <1>4, <3>1, <3>3 DEF Cut
    <3> QED BY <3>4
  <2>2. CASE n # m
    <3>1. n + 1 \in 1 .. m
      BY <1>1, <2>2
    <3>2. Texts(s)[n + 1] = s.lines[n + 1] /\ Texts(z)[n + 1] = z.lines[n + 1]
      <4> HIDE DEF z
      <4> QED BY <1>1, <1>4, <3>1, TextsAre
    <3>3. Cut(a, z)
      <4> HIDE DEF z
      <4> QED BY <1>1, <1>4, <3>2 DEF Cut
    <3> QED BY <3>3
  <2> QED BY <2>1, <2>2
<1>5. \/ z.lines = Append(s.lines, s.typed)
      \/ z.lines = s.lines /\ (z.typed = s.typed \/ z.typed = Append(s.typed, c))
  <2>1. CASE c = LF
    BY <2>1 DEF After
  <2>2. CASE c # LF /\ (c = CR \/ Len(s.typed) >= INPUT_MAX_LEN)
    BY <2>2 DEF After
  <2>3. CASE c # LF /\ ~(c = CR \/ Len(s.typed) >= INPUT_MAX_LEN)
    <3>1. z = [s EXCEPT !.typed = Append(@, c)]
      BY <2>3 DEF After
    <3>2. z.lines = s.lines /\ z.typed = Append(s.typed, c)
      <4> HIDE DEF z
      <4> QED BY <3>1 DEF Streams
    <3> QED BY <3>2
  <2> QED BY <2>1, <2>2, <2>3
<1> QED BY <1>3, <1>4, <1>5

(* Without the text that came last, a stream has its end cut off. *)
LEMMA CutWritten ==
  ASSUME NEW a \in Streams, NEW text \in Seq(STRING)
  PROVE  Cut(a, Written(a, text))
<1>1. PICK h : Run(h, a, text) /\ Written(a, text) = h[Len(text)]
  BY WrittenRuns
<1>2. Len(text) \in Nat
  OBVIOUS
<1> DEFINE T == { k \in Nat : k <= Len(text) => h[k] \in Streams /\ Cut(a, h[k]) }
<1>3. 0 \in T
  BY <1>1, CutItself DEF Run
<1>4. ASSUME NEW k \in Nat, k \in T PROVE k + 1 \in T
  <2>1. CASE k + 1 <= Len(text)
    <3>1. k + 1 \in 1 .. Len(text) /\ (k + 1) - 1 = k /\ k <= Len(text)
      BY <1>2, <2>1
    <3>2. h[k + 1] = After(h[(k + 1) - 1], text[k + 1]) /\ text[k + 1] \in STRING
      BY <1>1, <3>1 DEF Run
    <3>3. h[k] \in Streams /\ Cut(a, h[k])
      BY <1>4, <3>1
    <3>4. h[k + 1] \in Streams /\ Cut(a, h[k + 1])
      BY <3>1, <3>2, <3>3, AfterType, CutAfter
    <3> QED BY <3>4
  <2>2. CASE ~(k + 1 <= Len(text))
    BY <2>2
  <2> QED BY <2>1, <2>2
<1>5. Nat \subseteq T
  <2> HIDE DEF T
  <2> QED BY <1>3, <1>4, NaturalInduction
<1> QED BY <1>1, <1>2, <1>5

(* So it is what LineStream allows to be left after a loss. *)
LEMMA CutIs ==
  ASSUME NEW a \in Streams, NEW s \in Streams, Cut(a, s)
  PROVE  \E n \in DOMAIN Texts(s) : \E length \in 0 .. Len(Texts(s)[n]) :
           a = [lines |-> SubSeq(Texts(s), 1, n - 1), typed |-> SubSeq(Texts(s)[n], 1, length)]
<1> DEFINE n == Len(a.lines) + 1
           length == Len(a.typed)
           t == Texts(s)
<1>1. /\ t \in Seq(Seq(STRING)) /\ Len(t) = Len(s.lines) + 1 /\ Len(s.lines) \in Nat
      /\ \A i \in 1 .. Len(s.lines) : t[i] = s.lines[i]
  BY TextsAre
<1>2. a.lines \in Seq(Seq(STRING)) /\ a.typed \in Seq(STRING)
      /\ Len(a.lines) \in Nat /\ length \in Nat /\ Len(a.lines) <= Len(s.lines)
  BY DEF Streams, Cut
<1> HIDE DEF t
<1>3. n \in DOMAIN t /\ t[n] \in Seq(STRING)
  BY <1>1, <1>2
<1>4. Prefix(a.typed, t[n])
  BY DEF Cut, t
<1>5. length \in 0 .. Len(t[n])
  BY <1>2, <1>3, <1>4 DEF Prefix
<1>6. a.typed = SubSeq(t[n], 1, length)
  <2>1. \A i \in 1 .. length : a.typed[i] = t[n][i]
    BY <1>4 DEF Prefix
  <2> DEFINE p == a.typed
             q == t[n]
  <2> HIDE DEF p, q
  <2>2. p \in Seq(STRING) /\ q \in Seq(STRING) /\ Len(p) \in Nat /\ Len(p) <= Len(q)
        /\ \A i \in 1 .. Len(p) : p[i] = q[i]
    BY <1>2, <1>3, <1>5, <2>1 DEF p, q
  <2>3. SubSeq(q, 1, Len(p)) = p
    BY <2>2
  <2> QED BY <2>3 DEF p, q
<1>7. a.lines = SubSeq(t, 1, n - 1)
  <2>1. n - 1 = Len(a.lines)
    BY <1>2
  <2>2. \A i \in 1 .. Len(a.lines) : a.lines[i] = t[i]
    BY <1>1, <1>2 DEF Cut
  <2> DEFINE p == a.lines
  <2> HIDE DEF p
  <2>3. p \in Seq(Seq(STRING)) /\ Len(p) \in Nat /\ \A i \in 1 .. Len(p) : p[i] = t[i]
    BY <1>2, <2>2 DEF p
  <2>4. Len(p) <= Len(t)
    <3>1. Len(a.lines) <= Len(t)
      BY <1>1, <1>2
    <3> QED BY <3>1 DEF p
  <2>5. SubSeq(t, 1, Len(p)) = p
    BY <1>1, <2>3, <2>4
  <2> QED BY <2>1, <2>5 DEF p
<1>8. a = [lines |-> SubSeq(t, 1, n - 1), typed |-> SubSeq(t[n], 1, length)]
  BY <1>6, <1>7 DEF Streams
<1> HIDE DEF n, length
<1> QED BY <1>3, <1>5, <1>8 DEF t

-----------------------------------------------------------------------------
(* The driver and the line buffer. *)
LEMMA Sizes ==
  /\ INPUT_MAX_LEN \in Nat /\ FIFO_SIZE \in Nat /\ EP_SIZE \in Nat /\ EP_SIZE <= FIFO_SIZE
  /\ \A p \in Packets : p \in Seq(STRING) /\ p # << >> /\ Len(p) <= EP_SIZE
  BY CdcAssumption

LEMMA Nothing == << >> \in Seq(STRING) /\ Len(<< >>) = 0
  OBVIOUS

LEMMA CStringType ==
  ASSUME NEW text \in Seq(STRING)
  PROVE  CString(text) \in Seq(STRING) /\ Len(CString(text)) <= Len(text)
<1> DEFINE nuls == { i \in DOMAIN text : text[i] = NUL }
           n == Min(nuls) - 1
<1>1. Len(text) \in Nat /\ DOMAIN text = 1 .. Len(text)
  OBVIOUS
<1>2. CASE nuls = {}
  BY <1>1, <1>2 DEF CString
<1>3. CASE nuls # {}
  <2>1. nuls \in SUBSET Nat
    BY <1>1
  <2>2. Min(nuls) \in nuls
    <3> HIDE DEF nuls
    <3> QED BY <1>3, <2>1, MinIs
  <2>3. n \in 0 .. Len(text) - 1
    BY <1>1, <2>2
  <2>4. CString(text) = SubSeq(text, 1, n)
    BY <1>3 DEF CString
  <2> HIDE DEF n
  <2>5. /\ SubSeq(text, 1, n) \in Seq(STRING)
        /\ Len(SubSeq(text, 1, n)) = IF 1 <= n THEN n - 1 + 1 ELSE 0
    <3>1. \A i \in 1 .. n : text[i] \in STRING
      BY <1>1, <2>3
    <3>2. n \in Int
      BY <2>3
    <3> QED BY <3>1, <3>2, SubSeqProperties
  <2> QED BY <1>1, <2>3, <2>4, <2>5
<1> QED BY <1>2, <1>3

(* What has arrived fits. *)
Stored == SubSeq(fifo \o packet, 1, Min({FIFO_SIZE, Len(fifo \o packet)}))

LEMMA AllStored ==
  ASSUME NEW q \in Seq(STRING), NEW p \in Seq(STRING), Len(q) + Len(p) <= FIFO_SIZE
  PROVE  /\ SubSeq(q \o p, 1, Min({FIFO_SIZE, Len(q \o p)})) = q \o p
         /\ q \o p \in Seq(STRING) /\ Len(q \o p) = Len(q) + Len(p)
<1>1. q \o p \in Seq(STRING) /\ Len(q \o p) = Len(q) + Len(p)
  BY ConcatProperties
<1>2. Len(q \o p) \in Nat /\ Len(q \o p) <= FIFO_SIZE
  BY <1>1
<1>3. Min({FIFO_SIZE, Len(q \o p)}) = Len(q \o p)
  <2> DEFINE k == Len(q \o p)
  <2> HIDE DEF k
  <2>1. k \in Nat /\ k <= FIFO_SIZE
    BY <1>2 DEF k
  <2>2. {FIFO_SIZE, k} \in SUBSET Nat /\ {FIFO_SIZE, k} # {} /\ k \in {FIFO_SIZE, k}
    BY <2>1, Sizes
  <2>3. Min({FIFO_SIZE, k}) \in {FIFO_SIZE, k} /\ \A y \in {FIFO_SIZE, k} : Min({FIFO_SIZE, k}) <= y
    BY <2>2, MinIs
  <2>4. Min({FIFO_SIZE, k}) <= k
    BY <2>2, <2>3
  <2>5. Min({FIFO_SIZE, k}) = k
    BY <2>1, <2>3, <2>4, Sizes
  <2> QED BY <2>5 DEF k
<1>4. SubSeq(q \o p, 1, Len(q \o p)) = q \o p
  BY <1>1, SubSeqFull
<1> QED BY <1>1, <1>3, <1>4

LEMMA TaskIs ==
  ASSUME InputInv, tud_task
  PROVE  /\ fifo' = IF bus = "reset" THEN << >> ELSE fifo \o packet
         /\ packet' = << >> /\ fifo' \in Seq(STRING)
         /\ Len(fifo') = IF bus = "reset" THEN 0 ELSE Len(fifo) + Len(packet)
<1>1. fifo \in Seq(STRING) /\ packet \in Seq(STRING) /\ Len(fifo) + Len(packet) <= FIFO_SIZE
  BY DEF InputInv, TypeOK
<1>2. /\ Stored = fifo \o packet /\ fifo \o packet \in Seq(STRING)
      /\ Len(fifo \o packet) = Len(fifo) + Len(packet)
  BY <1>1, AllStored DEF Stored
<1>3. fifo' = IF bus = "reset" THEN << >> ELSE Stored
  BY DEF tud_task, Stored
<1>4. packet' = << >>
  BY DEF tud_task
<1>5. CASE bus = "reset"
  BY <1>3, <1>4, <1>5, Nothing
<1>6. CASE bus # "reset"
  <2>1. fifo' = fifo \o packet
    BY <1>2, <1>3, <1>6
  <2> QED BY <1>2, <1>4, <1>6, <2>1
<1> QED BY <1>5, <1>6

LEMMA TaskStep ==
  ASSUME InputInv, tud_task, UNCHANGED << inbuf, buffer, received_data >>, pc' \in {"main", "usb"}
  PROVE  InputInv'
<1>1. /\ {packet, fifo, inbuf, buffer, received_data} \subseteq Seq(STRING)
      /\ bus \in {"up", "reset", "enum", "conf"} /\ armed \in BOOLEAN
      /\ Len(fifo) + Len(packet) <= FIFO_SIZE
      /\ Len(fifo) \in Nat /\ Len(packet) \in Nat
  BY DEF InputInv, TypeOK
<1>2. /\ fifo' = IF bus = "reset" THEN << >> ELSE fifo \o packet
      /\ packet' = << >> /\ fifo' \in Seq(STRING)
      /\ Len(fifo') = IF bus = "reset" THEN 0 ELSE Len(fifo) + Len(packet)
  BY TaskIs
<1>3. bus' = CASE bus = "reset" -> "enum" [] bus = "conf" -> "up" [] OTHER -> bus
  BY DEF tud_task
<1>4. armed' = (armed \/ bus = "conf" \/ (packet # << >> /\ bus = "up" /\ Room(fifo')))
  BY DEF tud_task
<1>5. /\ bus = "reset" => bus' = "enum"
      /\ bus = "conf" => bus' = "up"
      /\ bus \in {"up", "enum"} => bus' = bus
  BY <1>3
<1>6. Len(fifo') <= FIFO_SIZE /\ Len(packet') = 0
  BY <1>1, <1>2, Nothing, Sizes
<1>7. TypeOK'
  <2>1. {packet', fifo', inbuf', buffer', received_data'} \subseteq Seq(STRING)
    BY <1>1, <1>2, Nothing
  <2>2. bus' \in {"up", "reset", "enum", "conf"} /\ armed' \in BOOLEAN
    BY <1>1, <1>4, <1>5
  <2>3. Len(packet') <= EP_SIZE
    BY <1>6, Sizes
  <2> QED BY <1>6, <2>1, <2>2, <2>3 DEF InputInv, TypeOK
<1>8. Armed'
  <2>1. CASE armed
    <3>1. bus = "up" /\ packet = << >> /\ Room(fifo)
      BY <2>1 DEF InputInv, Armed
    <3>2. fifo' = fifo
      BY <1>1, <1>2, <3>1, ConcatEmptySeq
    <3> QED BY <1>2, <1>5, <3>1, <3>2 DEF Armed
  <2>2. CASE bus = "conf"
    <3>1. packet = << >> /\ fifo = << >>
      BY <2>2 DEF InputInv, Detached
    <3>2. Len(fifo') = 0
      BY <1>2, <2>2, <3>1, Nothing
    <3>3. FIFO_SIZE - Len(fifo') >= EP_SIZE
      BY <3>2, Sizes
    <3> QED BY <1>2, <1>5, <2>2, <3>3 DEF Armed, Room
  <2>3. CASE packet # << >> /\ bus = "up" /\ Room(fifo')
    BY <1>2, <1>5, <2>3 DEF Armed
  <2>4. CASE ~armed'
    BY <2>4 DEF Armed
  <2> QED BY <1>4, <2>1, <2>2, <2>3, <2>4
<1>9. Detached'
  <2>1. CASE bus = "reset"
    BY <1>2, <2>1 DEF Detached
  <2>2. CASE bus = "enum"
    <3>1. packet = << >> /\ fifo = << >>
      BY <2>2 DEF InputInv, Detached
    <3>2. << >> \o << >> = << >>
      BY Nothing, ConcatEmptySeq
    <3> QED BY <1>2, <2>2, <3>1, <3>2 DEF Detached
  <2>3. CASE bus \in {"up", "conf"}
    BY <1>5, <2>3 DEF Detached
  <2> QED BY <1>1, <2>1, <2>2, <2>3
<1>10. Len(fifo') + Len(packet') <= FIFO_SIZE
  <2>1. Len(fifo') \in Nat
    BY <1>2
  <2> QED BY <1>6, <2>1
<1> QED BY <1>7, <1>8, <1>9, <1>10 DEF InputInv

LEMMA ReadStep == ASSUME InputInv, Read PROVE InputInv'
<1>1. CASE fifo = << >>
  <2>1. UNCHANGED << bus, armed, packet, fifo, inbuf, buffer, received_data >> /\ pc' = "main"
    BY <1>1 DEF Read, stack
  <2> QED BY <2>1 DEF InputInv, TypeOK, Armed, Detached, Room
<1>2. CASE fifo # << >>
  <2>1. /\ UNCHANGED << bus, packet, pc, buffer, received_data >>
        /\ fifo' = << >> /\ inbuf' = fifo
        /\ armed' = (armed \/ (bus = "up" /\ packet = << >>))
    BY <1>2 DEF Read
  <2>2. Room(<< >>)
    <3>1. FIFO_SIZE - 0 >= EP_SIZE
      BY Sizes
    <3> QED BY <3>1, Nothing DEF Room
  <2>3. TypeOK'
    BY <2>1, Nothing, Sizes DEF InputInv, TypeOK
  <2>4. Armed' /\ Detached'
    BY <2>1, <2>2 DEF InputInv, Armed, Detached
  <2>5. Len(fifo') + Len(packet') <= FIFO_SIZE
    <3>1. packet \in Seq(STRING) /\ Len(packet) <= EP_SIZE
      BY DEF InputInv, TypeOK
    <3>2. Len(packet) \in Nat
      BY <3>1
    <3>3. Len(fifo') = 0
      BY <2>1, Nothing
    <3>4. 0 + Len(packet) <= FIFO_SIZE
      BY <3>1, <3>2, Sizes
    <3> QED BY <2>1, <3>3, <3>4
  <2> QED BY <2>3, <2>4, <2>5 DEF InputInv
<1> QED BY <1>1, <1>2

(* A character that is looked at changes nothing below usb_task. *)
LEMMA HandleStep ==
  ASSUME InputInv, NEW c, Handle(c), pc' \in {"main", "usb", "bootrom"},
         buffer' \in Seq(STRING), Len(buffer') <= INPUT_MAX_LEN,
         received_data' \in Seq(STRING), Len(received_data') <= INPUT_MAX_LEN
  PROVE  InputInv'
<1>1. UNCHANGED << bus, armed, packet, fifo >>
  BY DEF Handle, stack
<1>2. inbuf' = Tail(inbuf) /\ inbuf # << >> /\ inbuf \in Seq(STRING) /\ Len(inbuf) <= FIFO_SIZE
  BY DEF Handle, InputInv, TypeOK
<1>3. inbuf' \in Seq(STRING) /\ Len(inbuf') = Len(inbuf) - 1
  BY <1>2, HeadTailProperties
<1>4. Len(inbuf') <= FIFO_SIZE
  <2>1. Len(inbuf) \in Nat
    BY <1>2
  <2> QED BY <1>2, <1>3, <2>1, Sizes
<1>5. TypeOK'
  BY <1>1, <1>3, <1>4 DEF InputInv, TypeOK
<1>6. Armed' /\ Detached' /\ Len(fifo') + Len(packet') <= FIFO_SIZE
  BY <1>1 DEF InputInv, Armed, Detached, Room
<1> QED BY <1>5, <1>6 DEF InputInv

LEMMA TextTypes ==
  ASSUME InputInv
  PROVE  /\ {packet, fifo, inbuf, buffer, received_data} \subseteq Seq(STRING)
         /\ Len(buffer) <= INPUT_MAX_LEN /\ Len(received_data) <= INPUT_MAX_LEN
         /\ CString(buffer) \in Seq(STRING) /\ Len(CString(buffer)) <= INPUT_MAX_LEN
<1>1. /\ {packet, fifo, inbuf, buffer, received_data} \subseteq Seq(STRING)
      /\ Len(buffer) <= INPUT_MAX_LEN /\ Len(received_data) <= INPUT_MAX_LEN
  BY DEF InputInv, TypeOK
<1>2. CString(buffer) \in Seq(STRING) /\ Len(CString(buffer)) <= Len(buffer)
  BY <1>1, CStringType
<1>3. Len(CString(buffer)) <= INPUT_MAX_LEN
  <2>1. Len(buffer) \in Nat /\ Len(CString(buffer)) \in Nat
    BY <1>1, <1>2
  <2> QED BY <1>1, <1>2, <2>1, Sizes
<1> QED BY <1>1, <1>2, <1>3

LEMMA HostInputStep ==
  ASSUME InputInv, BusReset \/ HostConfigure \/ \E text \in Packets : HostWrites(text)
  PROVE  InputInv'
<1>1. CASE BusReset
  BY <1>1 DEF BusReset, InputInv, TypeOK, Armed, Detached
<1>2. CASE HostConfigure
  BY <1>2 DEF HostConfigure, InputInv, TypeOK, Armed, Detached
<1>3. ASSUME NEW text \in Packets, HostWrites(text) PROVE InputInv'
  <2>1. packet' = text /\ ~armed' /\ armed /\ bus = "up"
        /\ UNCHANGED << bus, fifo, pc, inbuf, buffer, received_data >>
    BY <1>3 DEF HostWrites
  <2>2. text \in Seq(STRING) /\ Len(text) <= EP_SIZE /\ Room(fifo) /\ fifo \in Seq(STRING)
    BY <2>1, Sizes DEF InputInv, TypeOK, Armed
  <2>3. Len(fifo) + Len(text) <= FIFO_SIZE
    <3>1. Len(fifo) \in Nat /\ Len(text) \in Nat
      BY <2>2
    <3> QED BY <2>2, <3>1, Sizes DEF Room
  <2>4. TypeOK'
    <3>1. armed' \in BOOLEAN
      BY <1>3 DEF HostWrites
    <3> QED BY <2>1, <2>2, <3>1 DEF InputInv, TypeOK
  <2>5. Armed' /\ Detached'
    BY <2>1 DEF Armed, Detached
  <2> QED BY <2>1, <2>3, <2>4, <2>5 DEF InputInv
<1> QED BY <1>1, <1>2, <1>3

LEMMA InputStep == ASSUME InputInv, Next PROVE InputInv'
<1>1. CASE usb_task \/ AwaitHost
  <2>1. tud_task /\ UNCHANGED << inbuf, buffer, received_data >> /\ pc' \in {"main", "usb"}
    BY <1>1 DEF usb_task, AwaitHost
  <2> QED BY <2>1, TaskStep
<1>2. CASE Read
  BY <1>2, ReadStep
<1>3. CASE Store
  <2>1. PICK c : Handle(c)
    BY <1>3 DEF Store
  <2>2. buffer' = (IF MayStore THEN Append(buffer, Head(inbuf)) ELSE buffer)
        /\ received_data' = received_data /\ pc' \in {"main", "usb"}
    BY <1>3 DEF Store, Handle
  <2>3. inbuf \in Seq(STRING) /\ inbuf # << >> /\ buffer \in Seq(STRING)
    BY <2>1, TextTypes DEF Handle
  <2>4. Head(inbuf) \in STRING
    BY <2>3, HeadTailProperties
  <2>5. /\ Append(buffer, Head(inbuf)) \in Seq(STRING)
        /\ Len(Append(buffer, Head(inbuf))) = Len(buffer) + 1
    BY <2>3, <2>4, AppendProperties
  <2>6. buffer' \in Seq(STRING) /\ Len(buffer') <= INPUT_MAX_LEN
    <3>1. CASE MayStore
      <4>1. Len(buffer) < INPUT_MAX_LEN /\ Len(buffer) \in Nat
        BY <2>3, <3>1 DEF MayStore
      <4>2. Len(buffer) + 1 <= INPUT_MAX_LEN
        BY <4>1, Sizes
      <4> QED BY <2>2, <2>5, <3>1, <4>2
    <3>2. CASE ~MayStore
      BY <2>2, <2>3, <3>2, TextTypes
    <3> QED BY <3>1, <3>2
  <2> QED BY <2>1, <2>2, <2>6, TextTypes, HandleStep
<1>4. CASE Return
  <2>1. Handle(CR) /\ UNCHANGED << buffer, received_data >> /\ pc' \in {"main", "usb"}
    BY <1>4 DEF Return, Handle
  <2> QED BY <2>1, TextTypes, HandleStep
<1>5. CASE EndLine \/ Reboot
  <2>1. /\ Handle(LF) /\ pc' \in {"main", "usb", "bootrom"} /\ buffer' = << >>
        /\ received_data' \in {received_data, CString(buffer)}
    BY <1>5 DEF EndLine, Reboot, Handle, NextLine
  <2>2. buffer' \in Seq(STRING) /\ Len(buffer') <= INPUT_MAX_LEN
    BY <2>1, Nothing, Sizes
  <2> QED BY <2>1, <2>2, TextTypes, HandleStep
<1>6. CASE cdc_get_line
  <2>1. UNCHANGED << bus, armed, packet, fifo, pc, inbuf, buffer >> /\ received_data' = << >>
    BY <1>6 DEF cdc_get_line, stack
  <2>2. received_data' \in Seq(STRING) /\ Len(received_data') <= INPUT_MAX_LEN
    BY <2>1, Nothing, Sizes
  <2> QED BY <2>1, <2>2 DEF InputInv, TypeOK, Armed, Detached, Room
<1>7. CASE BusReset \/ HostConfigure \/ \E text \in Packets : HostWrites(text)
  BY <1>7, HostInputStep
<1> QED BY <1>1, <1>2, <1>3, <1>4, <1>5, <1>6, <1>7 DEF Next, Program

(* In every state no index leaves its array and the FIFO has room for a    *)
(* packet that has arrived or that the endpoint would take                 *)
(* (cdc_device.c:81-106,434, usb.c:33-67).                                 *)
THEOREM InputInvHolds == Spec => []InputInv
<1>1. Init => InputInv
  <2> SUFFICES ASSUME Init PROVE InputInv
    OBVIOUS
  <2>1. TypeOK
    <3>1. {packet, fifo, inbuf, buffer, received_data} = {<< >>}
      BY DEF Init
    <3>2. {packet, fifo, inbuf, buffer, received_data} \subseteq Seq(STRING)
      BY <3>1, Nothing
    <3>3. /\ Len(packet) = 0 /\ Len(fifo) = 0 /\ Len(inbuf) = 0
          /\ Len(buffer) = 0 /\ Len(received_data) = 0
      BY Nothing DEF Init
    <3>4. bus \in {"up", "reset", "enum", "conf"} /\ armed \in BOOLEAN /\ pc \in {"main", "usb", "bootrom"}
      BY DEF Init
    <3>5. /\ Len(packet) <= EP_SIZE /\ Len(fifo) <= FIFO_SIZE /\ Len(inbuf) <= FIFO_SIZE
          /\ Len(buffer) <= INPUT_MAX_LEN /\ Len(received_data) <= INPUT_MAX_LEN
      <4>1. 0 <= EP_SIZE /\ 0 <= FIFO_SIZE /\ 0 <= INPUT_MAX_LEN
        BY Sizes
      <4> QED BY <3>3, <4>1
    <3> QED BY <3>2, <3>4, <3>5 DEF TypeOK
  <2>2. Armed /\ Detached /\ Len(fifo) + Len(packet) <= FIFO_SIZE
    BY Nothing, Sizes DEF Init, Armed, Detached
  <2> QED BY <2>1, <2>2 DEF InputInv
<1>2. InputInv /\ [Next]_cdcvars => InputInv'
  <2> SUFFICES ASSUME InputInv, [Next]_cdcvars PROVE InputInv'
    OBVIOUS
  <2>1. CASE Next
    BY <2>1, InputStep
  <2>2. CASE UNCHANGED cdcvars
    BY <2>2 DEF InputInv, TypeOK, Armed, Detached, Room, cdcvars, stack
  <2> QED BY <2>1, <2>2
<1> QED BY <1>1, <1>2, PTL DEF Spec

-----------------------------------------------------------------------------
(* The refinement of LineStream.  The operators of the instance are those  *)
(* of Text.                                                                *)
LEMMA SameText ==
  /\ \A s, text : Lines!Written(s, text) = Written(s, text)
  /\ \A text : Lines!CString(text) = CString(text)
  /\ Lines!NoText = NoText
<1>1. \A s, text : Lines!Written(s, text) = Written(s, text)
  BY DEF Lines!Written, Written, Lines!FoldLeft, FoldLeft, Lines!MapThenFoldSet, MapThenFoldSet,
         Lines!After, After, Lines!Max, Max, Lines!LF, LF, Lines!CR, CR
<1>2. \A text : Lines!CString(text) = CString(text)
  BY DEF Lines!CString, CString, Lines!Min, Min, Lines!NUL, NUL
<1>3. Lines!NoText = NoText
  BY DEF Lines!NoText, NoText
<1> QED BY <1>1, <1>2, <1>3

(* The text in the line buffer, then that in inbuf, the FIFO and the       *)
(* packet.                                                                 *)
Typed(text) == [lines |-> << >>, typed |-> text]
OnTheWay == Written([NoText EXCEPT !.typed = buffer], inbuf \o fifo \o packet)

LEMMA TypedType == \A text \in Seq(STRING) : Typed(text) \in Streams
<1>1. << >> \in Seq(Seq(STRING))
  OBVIOUS
<1> QED BY <1>1 DEF Typed, Streams

LEMMA TypedIs ==
  \A text : [NoText EXCEPT !.typed = text] = Typed(text)
  BY DEF NoText, Typed

LEMMA JoinTypes ==
  \A i, q, p \in Seq(STRING) :
    /\ i \o q \in Seq(STRING) /\ i \o q \o p \in Seq(STRING)
    /\ i \o q \o p = i \o (q \o p) /\ q \o p \in Seq(STRING)
  BY ConcatProperties, ConcatAssociative

(* What a step does to the first character on the way. *)
LEMMA FirstOfJoin ==
  ASSUME NEW b, NEW i \in Seq(STRING), NEW r \in Seq(STRING), i # << >>
  PROVE  Written(b, i \o r) = Written(After(b, Head(i)), Tail(i) \o r)
<1>1. Tail(i) \in Seq(STRING)
  BY HeadTailProperties
<1>2. Written(b, i \o r) = Written(Written(b, i), r)
  BY WrittenAppend
<1>3. Written(b, i) = Written(After(b, Head(i)), Tail(i))
  BY WrittenFirst
<1>4. Written(After(b, Head(i)), Tail(i) \o r) = Written(Written(After(b, Head(i)), Tail(i)), r)
  BY <1>1, WrittenAppend
<1> QED BY <1>2, <1>3, <1>4

LEMMA FirstLine ==
  ASSUME NEW line \in Seq(STRING)
  PROVE  After(Typed(line), LF) = Behind(line, Typed(<< >>))
<1> DEFINE l == << line >>
<1>1. l \in Seq(Seq(STRING)) /\ Append(<< >>, line) = l
  <2>1. << >> \in Seq(Seq(STRING)) /\ Append(<< >>, line) = << line >>
    OBVIOUS
  <2> QED BY <2>1, AppendProperties
<1>2. l \o << >> = l
  <2> HIDE DEF l
  <2> QED BY <1>1, ConcatEmptySeq
<1>3. After(Typed(line), LF) = [lines |-> l, typed |-> << >>]
  <2> HIDE DEF l
  <2> QED BY <1>1 DEF After, Typed
<1>4. Behind(line, Typed(<< >>)) = [lines |-> l \o << >>, typed |-> << >>]
  BY DEF Behind, Typed
<1> QED BY <1>2, <1>3, <1>4

(* A whole line arrives. *)
LEMMA ArriveIs ==
  ASSUME NEW line \in Seq(STRING), NEW s \in Streams
  PROVE  LET z == Behind(line, s)
         IN  z.lines # << >> /\ Head(z.lines) = line /\ [z EXCEPT !.lines = Tail(@)] = s
<1> DEFINE l == << line >> \o s.lines
<1>1. s.lines \in Seq(Seq(STRING)) /\ s = [lines |-> s.lines, typed |-> s.typed]
  BY DEF Streams
<1>2. l # << >> /\ Head(l) = line /\ Tail(l) = s.lines
  BY <1>1
<1>3. Behind(line, s) = [lines |-> l, typed |-> s.typed]
  BY DEF Behind
<1>4. [Behind(line, s) EXCEPT !.lines = Tail(@)] = [lines |-> Tail(l), typed |-> s.typed]
  <2> DEFINE z == Behind(line, s)
             m == Tail(l)
  <2>1. z.lines = l
    <3> HIDE DEF l
    <3> QED BY <1>3
  <2>2. [z EXCEPT !.lines = m] = [lines |-> m, typed |-> s.typed]
    <3> HIDE DEF l, m
    <3> QED BY <1>3
  <2> HIDE DEF l, z
  <2> QED BY <2>1, <2>2 DEF z
<1> HIDE DEF l
<1> QED BY <1>1, <1>2, <1>3, <1>4

LEMMA ComingIs ==
  ASSUME NEW b \in Seq(STRING), NEW i \in Seq(STRING), NEW q \in Seq(STRING), NEW p \in Seq(STRING)
  PROVE  LET w == Written([NoText EXCEPT !.typed = b], i \o q \o p)
         IN  /\ w = Written(Typed(b), i \o (q \o p)) /\ w \in Streams
             /\ {q \o p, i \o (q \o p)} \subseteq Seq(STRING)
<1>1. i \o q \o p = i \o (q \o p) /\ i \o (q \o p) \in Seq(STRING) /\ q \o p \in Seq(STRING)
  BY JoinTypes
<1>2. Typed(b) \in Streams
  BY TypedType
<1>3. Written(Typed(b), i \o (q \o p)) \in Streams
  BY <1>1, <1>2, WrittenType
<1> QED BY <1>1, <1>3, TypedIs

LEMMA OnTheWayIs ==
  ASSUME InputInv
  PROVE  /\ OnTheWay = Written(Typed(buffer), inbuf \o (fifo \o packet))
         /\ OnTheWay \in Streams
         /\ {packet, fifo, inbuf, buffer, fifo \o packet, inbuf \o (fifo \o packet)} \subseteq Seq(STRING)
<1>1. {packet, fifo, inbuf, buffer} \subseteq Seq(STRING)
  BY DEF InputInv, TypeOK
<1> QED BY <1>1, ComingIs DEF OnTheWay

LEMMA OnTheWayNext ==
  ASSUME InputInv'
  PROVE  /\ OnTheWay' = Written(Typed(buffer'), inbuf' \o (fifo' \o packet'))
         /\ OnTheWay' \in Streams
         /\ {packet', fifo', inbuf', buffer', fifo' \o packet', inbuf' \o (fifo' \o packet')}
               \subseteq Seq(STRING)
<1>1. {packet', fifo', inbuf', buffer'} \subseteq Seq(STRING)
  BY DEF InputInv, TypeOK
<1> QED BY <1>1, ComingIs DEF OnTheWay

LEMMA LineStutter ==
  ASSUME bus' = "up" <=> bus = "up", OnTheWay' = OnTheWay, received_data' = received_data,
         pc' = "bootrom" <=> pc = "bootrom"
  PROVE  UNCHANGED Lines!streamvars
  BY DEF Lines!streamvars, OnTheWay

LEMMA LineTask ==
  ASSUME InputInv, InputInv', tud_task, pc # "bootrom", pc' # "bootrom",
         UNCHANGED << inbuf, buffer, received_data >>
  PROVE  [Lines!Next]_(Lines!streamvars)
<1>1. /\ fifo' = (IF bus = "reset" THEN << >> ELSE fifo \o packet)
      /\ packet' = << >>
  BY TaskIs
<1>2. /\ bus = "reset" => bus' = "enum"
      /\ bus = "conf" => bus' = "up"
      /\ bus \in {"up", "enum"} => bus' = bus
  BY DEF tud_task
<1>3. OnTheWay = Written(Typed(buffer), inbuf \o (fifo \o packet)) /\ OnTheWay \in Streams
      /\ {packet, fifo, inbuf, buffer, fifo \o packet, inbuf \o (fifo \o packet)} \subseteq Seq(STRING)
  BY OnTheWayIs
<1>4. OnTheWay' = Written(Typed(buffer), inbuf \o (fifo' \o << >>)) /\ OnTheWay' \in Streams
  BY <1>1, OnTheWayNext
<1>5. CASE bus = "reset"
  <2>1. inbuf \o (<< >> \o << >>) = inbuf
    <3>1. << >> \o << >> = << >>
      BY Nothing, ConcatEmptySeq
    <3> QED BY <1>3, <3>1, ConcatEmptySeq
  <2>2. OnTheWay' = Written(Typed(buffer), inbuf)
    BY <1>1, <1>4, <1>5, <2>1
  <2>3. OnTheWay = Written(Written(Typed(buffer), inbuf), fifo \o packet)
    BY <1>3, WrittenAppend
  <2>4. Cut(OnTheWay', OnTheWay)
    <3> DEFINE a == Written(Typed(buffer), inbuf)
    <3>1. a \in Streams
      BY <1>4, <2>2
    <3> HIDE DEF a
    <3>2. Cut(a, Written(a, fifo \o packet))
      BY <1>3, <3>1, CutWritten
    <3> QED BY <2>2, <2>3, <3>2 DEF a
  <2>5. \E n \in DOMAIN Texts(OnTheWay) : \E length \in 0 .. Len(Texts(OnTheWay)[n]) :
          OnTheWay' = [lines |-> SubSeq(Texts(OnTheWay), 1, n - 1),
                       typed |-> SubSeq(Texts(OnTheWay)[n], 1, length)]
    BY <1>3, <1>4, <2>4, CutIs
  <2>6. Lines!Lose
    BY <1>2, <1>5, <2>5 DEF Lines!Lose, OnTheWay, Texts
  <2> QED BY <2>6 DEF Lines!Next
<1>6. CASE bus \in {"up", "enum", "conf"}
  <2>1. fifo' \o << >> = fifo \o packet
    BY <1>1, <1>3, <1>6, ConcatEmptySeq
  <2>2. OnTheWay' = OnTheWay
    BY <1>3, <1>4, <2>1
  <2>3. CASE bus = "conf"
    <3>1. Lines!Connection
      BY <1>2, <2>2, <2>3 DEF Lines!Connection, OnTheWay
    <3> QED BY <3>1 DEF Lines!Next
  <2>4. CASE bus \in {"up", "enum"}
    BY <1>2, <2>2, <2>4, LineStutter
  <2> QED BY <1>6, <2>3, <2>4
<1>7. bus \in {"up", "reset", "enum", "conf"}
  BY DEF InputInv, TypeOK
<1> QED BY <1>5, <1>6, <1>7

LEMMA LineRead ==
  ASSUME InputInv, InputInv', Read, pc # "bootrom"
  PROVE  UNCHANGED Lines!streamvars
<1>1. /\ {packet, fifo, inbuf, buffer} \subseteq Seq(STRING)
      /\ OnTheWay = Written(Typed(buffer), inbuf \o (fifo \o packet))
      /\ OnTheWay' = Written(Typed(buffer'), inbuf' \o (fifo' \o packet'))
  BY OnTheWayIs, OnTheWayNext
<1>2. /\ UNCHANGED << bus, packet, buffer, received_data >> /\ pc' # "bootrom"
      /\ inbuf = << >> /\ \/ inbuf' = << >> /\ fifo' = fifo
                          \/ inbuf' = fifo /\ fifo' = << >>
  BY DEF Read, stack
<1>3. << >> \o (fifo \o packet) = fifo \o packet /\ fifo \o (<< >> \o packet) = fifo \o packet
  BY <1>1, JoinTypes, ConcatEmptySeq
<1>4. OnTheWay' = OnTheWay
  BY <1>1, <1>2, <1>3
<1> QED BY <1>2, <1>4, LineStutter

(* A character is looked at: the stream is what is typed after it, with    *)
(* the rest written to it.                                                 *)
LEMMA LineHandle ==
  ASSUME InputInv, InputInv', NEW c, Handle(c)
  PROVE  /\ c \in STRING
         /\ OnTheWay = Written(After(Typed(buffer), c), inbuf' \o (fifo \o packet))
         /\ OnTheWay' = Written(Typed(buffer'), inbuf' \o (fifo \o packet))
         /\ inbuf' \o (fifo \o packet) \in Seq(STRING) /\ buffer \in Seq(STRING)
         /\ UNCHANGED bus
<1>1. inbuf # << >> /\ c = Head(inbuf) /\ inbuf' = Tail(inbuf) /\ UNCHANGED << bus, fifo, packet >>
  BY DEF Handle, stack
<1>2. /\ {inbuf, buffer, fifo \o packet} \subseteq Seq(STRING)
      /\ OnTheWay = Written(Typed(buffer), inbuf \o (fifo \o packet))
  BY OnTheWayIs
<1>3. /\ OnTheWay' = Written(Typed(buffer'), inbuf' \o (fifo' \o packet'))
      /\ inbuf' \o (fifo' \o packet') \in Seq(STRING)
  BY OnTheWayNext
<1>4. c \in STRING
  BY <1>1, <1>2, HeadTailProperties
<1>5. OnTheWay = Written(After(Typed(buffer), c), Tail(inbuf) \o (fifo \o packet))
  BY <1>1, <1>2, FirstOfJoin
<1> QED BY <1>1, <1>2, <1>3, <1>4, <1>5

LEMMA LineChar ==
  ASSUME InputInv, InputInv', Store \/ Return, pc # "bootrom"
  PROVE  UNCHANGED Lines!streamvars
<1>1. PICK c : /\ Handle(c) /\ c # LF
               /\ \/ c = CR /\ buffer' = buffer
                  \/ c # CR /\ buffer' = IF MayStore THEN Append(buffer, c) ELSE buffer
  <2>1. CASE Store
    <3>1. PICK c \in (UNION { Range(p) : p \in Packets }) \ {LF, CR} : Handle(c)
      BY <2>1 DEF Store
    <3>2. c = Head(inbuf) /\ buffer' = (IF MayStore THEN Append(buffer, Head(inbuf)) ELSE buffer)
      BY <2>1, <3>1 DEF Store, Handle
    <3>3. c # LF /\ c # CR
      BY <3>1
    <3> QED BY <3>1, <3>2, <3>3
  <2>2. CASE Return
    BY <2>2 DEF Return, LF, CR
  <2> QED BY <2>1, <2>2
<1>2. pc' # "bootrom" /\ received_data' = received_data
  BY DEF Store, Return, Handle
<1>3. /\ c \in STRING /\ buffer \in Seq(STRING) /\ UNCHANGED bus
      /\ OnTheWay = Written(After(Typed(buffer), c), inbuf' \o (fifo \o packet))
      /\ OnTheWay' = Written(Typed(buffer'), inbuf' \o (fifo \o packet))
  BY <1>1, LineHandle
<1>4. After(Typed(buffer), c) = Typed(buffer')
  <2>1. Len(buffer) \in Nat
    BY <1>3
  <2>2. MayStore <=> ~(Len(buffer) >= INPUT_MAX_LEN)
    BY <2>1, Sizes DEF MayStore
  <2>3. CASE c = CR \/ ~MayStore
    BY <1>1, <2>2, <2>3 DEF After, Typed
  <2>4. CASE c # CR /\ MayStore
    <3>1. buffer' = Append(buffer, c)
      BY <1>1, <2>4
    <3>2. After(Typed(buffer), c) = [Typed(buffer) EXCEPT !.typed = Append(@, c)]
      BY <1>1, <2>2, <2>4 DEF After, Typed
    <3> QED BY <3>1, <3>2 DEF Typed
  <2> QED BY <2>3, <2>4
<1> QED BY <1>2, <1>3, <1>4, LineStutter

LEMMA LineArrives ==
  ASSUME InputInv, InputInv', EndLine \/ Reboot, pc # "bootrom"
  PROVE  Lines!Arrive
<1>1. Handle(LF) /\ buffer' = << >>
  BY DEF EndLine, Reboot, NextLine
<1> DEFINE rest == inbuf' \o (fifo \o packet)
<1>2. /\ buffer \in Seq(STRING) /\ rest \in Seq(STRING) /\ UNCHANGED bus
      /\ OnTheWay = Written(After(Typed(buffer), LF), rest)
      /\ OnTheWay' = Written(Typed(<< >>), rest)
  BY <1>1, LineHandle
<1> HIDE DEF rest
<1>3. OnTheWay = Behind(buffer, OnTheWay') /\ OnTheWay' \in Streams
  <2>1. Typed(<< >>) \in Streams
    BY Nothing, TypedType
  <2>2. OnTheWay = Written(Behind(buffer, Typed(<< >>)), rest)
    BY <1>2, FirstLine
  <2> QED BY <1>2, <2>1, <2>2, WrittenBehind, WrittenType
<1>4. /\ OnTheWay.lines # << >> /\ Head(OnTheWay.lines) = buffer
      /\ OnTheWay' = [OnTheWay EXCEPT !.lines = Tail(@)]
  BY <1>2, <1>3, ArriveIs
<1>5. CASE EndLine
  <2>1. CString(buffer) # Command /\ received_data' = CString(buffer) /\ pc' # "bootrom"
    BY <1>5 DEF EndLine, Handle
  <2> QED BY <1>2, <1>4, <2>1, SameText DEF Lines!Arrive, OnTheWay
<1>6. CASE Reboot
  <2>1. CString(buffer) = Command /\ received_data' = received_data /\ pc' = "bootrom"
    BY <1>6 DEF Reboot
  <2> QED BY <1>2, <1>4, <2>1, SameText DEF Lines!Arrive, OnTheWay
<1> QED BY <1>5, <1>6

LEMMA LineWrites ==
  ASSUME InputInv, InputInv', NEW text \in Packets, HostWrites(text)
  PROVE  Lines!Write
<1>1. /\ packet' = text /\ bus = "up" /\ packet = << >>
      /\ UNCHANGED << bus, fifo, pc, inbuf, buffer, received_data >>
  BY DEF HostWrites, InputInv, Armed
<1>2. /\ {packet, fifo, inbuf, buffer, fifo \o packet, inbuf \o (fifo \o packet)} \subseteq Seq(STRING)
      /\ OnTheWay = Written(Typed(buffer), inbuf \o (fifo \o packet))
      /\ OnTheWay' = Written(Typed(buffer), inbuf \o (fifo \o text))
  BY <1>1, OnTheWayIs, OnTheWayNext
<1>3. text \in Seq(STRING)
  BY Sizes
<1>4. fifo \o packet = fifo
  BY <1>1, <1>2, ConcatEmptySeq
<1>5. inbuf \o (fifo \o text) = (inbuf \o fifo) \o text /\ inbuf \o fifo \in Seq(STRING)
  <2>1. inbuf \in Seq(STRING) /\ fifo \in Seq(STRING)
    BY <1>2
  <2>2. inbuf \o fifo \in Seq(STRING)
    BY <2>1, ConcatProperties
  <2>3. (inbuf \o fifo) \o text = inbuf \o (fifo \o text)
    BY <1>3, <2>1, ConcatAssociative
  <2> QED BY <2>2, <2>3
<1>6. OnTheWay' = Written(OnTheWay, text)
  <2>1. OnTheWay = Written(Typed(buffer), inbuf \o fifo)
    BY <1>2, <1>4
  <2>2. OnTheWay' = Written(Typed(buffer), (inbuf \o fifo) \o text)
    BY <1>2, <1>5
  <2>3. Written(Typed(buffer), (inbuf \o fifo) \o text) =
          Written(Written(Typed(buffer), inbuf \o fifo), text)
    BY <1>3, <1>5, WrittenAppend
  <2> QED BY <2>1, <2>2, <2>3
<1> QED BY <1>1, <1>6, SameText DEF Lines!Write, OnTheWay

LEMMA LineHost ==
  ASSUME InputInv, InputInv', BusReset \/ HostConfigure, pc # "bootrom"
  PROVE  [Lines!Next]_(Lines!streamvars)
<1>1. UNCHANGED << packet, fifo, pc, inbuf, buffer, received_data >>
  BY DEF BusReset, HostConfigure
<1>2. OnTheWay' = OnTheWay
  BY <1>1 DEF OnTheWay
<1>3. bus' # "up"
  BY DEF BusReset, HostConfigure
<1>4. CASE bus = "up"
  <2>1. Lines!Connection
    BY <1>1, <1>2, <1>3, <1>4 DEF Lines!Connection, OnTheWay
  <2> QED BY <1>1, <2>1 DEF Lines!Next
<1>5. CASE bus # "up"
  BY <1>1, <1>2, <1>3, <1>5, LineStutter
<1> QED BY <1>4, <1>5

LEMMA LineStep ==
  ASSUME InputInv, InputInv', Next
  PROVE  [Lines!Next]_(Lines!streamvars)
<1>1. pc # "bootrom"
  BY DEF Next
<1>2. CASE usb_task \/ AwaitHost
  <2>1. tud_task /\ pc' # "bootrom" /\ UNCHANGED << inbuf, buffer, received_data >>
    BY <1>1, <1>2 DEF usb_task, AwaitHost
  <2> QED BY <1>1, <2>1, LineTask
<1>3. CASE Read
  BY <1>1, <1>3, LineRead
<1>4. CASE Store \/ Return
  BY <1>1, <1>4, LineChar
<1>5. CASE EndLine \/ Reboot
  <2>1. Lines!Arrive
    BY <1>1, <1>5, LineArrives
  <2> QED BY <1>1, <2>1 DEF Lines!Next
<1>6. CASE cdc_get_line
  <2>1. /\ received_data # << >> /\ received_data' = << >>
        /\ UNCHANGED << bus, packet, fifo, inbuf, buffer, pc >>
    BY <1>6 DEF cdc_get_line, stack
  <2>2. Lines!Fetch
    BY <2>1 DEF Lines!Fetch
  <2> QED BY <1>1, <2>2 DEF Lines!Next
<1>7. CASE BusReset \/ HostConfigure
  BY <1>1, <1>7, LineHost
<1>8. ASSUME NEW text \in Packets, HostWrites(text) PROVE Lines!Next
  BY <1>1, <1>8, LineWrites DEF Lines!Next
<1> QED BY <1>2, <1>3, <1>4, <1>5, <1>6, <1>7, <1>8 DEF Next, Program

(* usb_task, handle_cdc_input and cdc_get_line over the CDC driver         *)
(* implement LineStream: the lines written are the lines fetched, in       *)
(* order, however packets cut them, and only a bus reset cuts off the end  *)
(* of what is on its way (usb.c:18-68, cdc_device.c:81-106).               *)
THEOREM LinesImplemented == Spec => ImplementsLines
<1>1. Init => Lines!Init
  <2> SUFFICES ASSUME Init PROVE Lines!Init
    OBVIOUS
  <2>1. bus # "up" /\ pc # "bootrom" /\ received_data = << >>
    BY DEF Init
  <2>2. << >> \o << >> \o << >> = << >>
    BY Nothing, ConcatEmptySeq
  <2>3. [NoText EXCEPT !.typed = << >>] = NoText
    BY DEF NoText
  <2>4. Written([NoText EXCEPT !.typed = buffer], inbuf \o fifo \o packet) = NoText
    BY <2>2, <2>3, WrittenNothing DEF Init
  <2> QED BY <2>1, <2>4, SameText DEF Lines!Init
<1>2. InputInv /\ InputInv' /\ [Next]_cdcvars => [Lines!Next]_(Lines!streamvars)
  <2> SUFFICES ASSUME InputInv, InputInv', [Next]_cdcvars PROVE [Lines!Next]_(Lines!streamvars)
    OBVIOUS
  <2>1. CASE Next
    BY <2>1, LineStep
  <2>2. CASE UNCHANGED cdcvars
    BY <2>2 DEF cdcvars, stack, Lines!streamvars
  <2> QED BY <2>1, <2>2
<1> QED BY <1>1, <1>2, InputInvHolds, PTL DEF Spec, ImplementsLines, Lines!Spec
=============================================================================
