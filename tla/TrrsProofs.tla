----------------------------- MODULE TrrsProofs -----------------------------
(***************************************************************************)
(* Proofs about Trrs, for UARTs with a FIFO of any size, any time-outs and *)
(* any delays of sender and receiver: the receiver falls into step again   *)
(* after a silence, and then reads whole packets.                          *)
(***************************************************************************)
EXTENDS Trrs, SequenceTheorems, TLAPS

Bytes == 0 .. BYTES

TypeOK ==
  /\ count \in 0 .. BYTES - 1 /\ quiet \in 0 .. QUIET
  /\ rx \in Seq(Bytes) /\ Len(rx) <= FIFO_SIZE
  /\ pc \in {"idle", "second"} /\ first \in Bytes /\ late \in Nat
  /\ astray \in BOOLEAN

(* What the guards of Tick say of the clocks. *)
Bounded ==
  /\ pc = "second" => late <= TIMEOUT + 1
  /\ pc = "idle" => late <= IF rx = << >> THEN 0 ELSE POLL
  /\ count % 2 = 1 => quiet <= SEND_GAP

(* More ticks than these cannot pass before the receiver has read all that *)
(* is in the FIFO, and has given up what it still waits for.               *)
Left(p, s, l) ==
  IF p = "second"
    THEN TIMEOUT + 2 + IF s = << >> THEN 0 - l ELSE Looks(Len(s) - 1)
    ELSE IF s = << >> THEN 0 ELSE TIMEOUT + 2 + Looks(Len(s)) - l

(* So there is nothing left after a silence. *)
Drained == quiet + Left(pc, rx, late) <= QUIET

(* In step, the wait for the second byte began when the first was there.   *)
Recent == ~astray /\ pc = "second" /\ rx = << >> => late <= quiet

-----------------------------------------------------------------------------
(* Numbers. *)
LEMMA Constants ==
  /\ BYTES \in Nat /\ BYTES % 2 = 0 /\ BYTES >= FIFO_SIZE + 2
  /\ FIFO_SIZE \in Nat /\ TIMEOUT \in Nat /\ SEND_GAP \in Nat /\ POLL \in Nat /\ QUIET \in Nat
  /\ SEND_GAP <= TIMEOUT
  /\ QUIET >= Looks(FIFO_SIZE) + TIMEOUT + 2
  BY TrrsAssumption

LEMMA Times ==
  /\ FIFO_SIZE \in Nat /\ TIMEOUT \in Nat /\ SEND_GAP \in Nat /\ POLL \in Nat /\ QUIET \in Nat
  /\ SEND_GAP <= TIMEOUT
  BY Constants

LEMMA LooksIs ==
  /\ Looks(0) = 0 /\ \A n \in Nat : Looks(n) \in Nat
  /\ \A n \in Nat \ {0} : n = 1 \/ Looks(n) = Looks(n - 2) + POLL
  /\ Looks(1) = POLL
<1>1. POLL \in Nat
  BY Constants
<1>2. \A n \in Nat : (n + 1) \div 2 \in Nat
  OBVIOUS
<1>3. \A n \in Nat : Looks(n) \in Nat
  BY <1>1, <1>2 DEF Looks
<1>4. ASSUME NEW n \in Nat \ {0}, n # 1 PROVE Looks(n) = Looks(n - 2) + POLL
  <2>1. (n + 1) \div 2 = ((n - 2) + 1) \div 2 + 1
    OBVIOUS
  <2>2. \A k \in Nat : (k + 1) * POLL = k * POLL + POLL
    BY <1>1
  <2>3. ((n - 2) + 1) \div 2 \in Nat
    BY <1>2, <1>4
  <2> QED BY <2>1, <2>2, <2>3 DEF Looks
<1>5. (0 + 1) \div 2 = 0 /\ (1 + 1) \div 2 = 1
  OBVIOUS
<1>6. Looks(0) = 0 /\ Looks(1) = POLL
  BY <1>1, <1>5 DEF Looks
<1> QED BY <1>3, <1>4, <1>6

LEMMA LooksGrow ==
  ASSUME NEW m \in Nat, NEW n \in Nat, m <= n PROVE Looks(m) <= Looks(n)
<1>1. (m + 1) \div 2 \in Nat /\ (n + 1) \div 2 \in Nat /\ (m + 1) \div 2 <= (n + 1) \div 2
  OBVIOUS
<1>2. \A i, j \in Nat : i <= j => i * POLL <= j * POLL
  BY Constants
<1> QED BY <1>1, <1>2 DEF Looks

(* Counting modulo BYTES, over one turn. *)
LEMMA Turn ==
  \A x \in 0 .. 2 * BYTES - 1 : x % BYTES = IF x < BYTES THEN x ELSE x - BYTES
<1>1. \A x \in 0 .. BYTES - 1 : x % BYTES = x
  BY Constants
<1>2. \A x \in BYTES .. 2 * BYTES - 1 : x % BYTES = x - BYTES
  BY Constants
<1> QED BY <1>1, <1>2, Constants

LEMMA NextCount ==
  ASSUME NEW c \in 0 .. BYTES - 1
  PROVE  /\ (c + 1) % BYTES \in 0 .. BYTES - 1
         /\ ((c + 1) % BYTES) % 2 = (c + 1) % 2
         /\ (c + 1) % BYTES = IF c = BYTES - 1 THEN 0 ELSE c + 1
<1>1. (c + 1) % BYTES = IF c = BYTES - 1 THEN 0 ELSE c + 1
  BY Turn, Constants
<1> QED BY <1>1, Constants

-----------------------------------------------------------------------------
(* What is pending, byte by byte, now and after a step. *)
PendingOf(p, f, s) == (IF p = "second" THEN << f >> ELSE << >>) \o s

LEMMA PendingOfIdle ==
  ASSUME NEW f, NEW s \in Seq(Bytes) PROVE PendingOf("idle", f, s) = s
  BY ConcatProperties, ConcatEmptySeq DEF PendingOf

LEMMA PendingOfSecond ==
  ASSUME NEW f \in Bytes, NEW s \in Seq(Bytes)
  PROVE  /\ PendingOf("second", f, s) \in Seq(Bytes)
         /\ Len(PendingOf("second", f, s)) = Len(s) + 1
         /\ PendingOf("second", f, s)[1] = f
         /\ \A i \in 1 .. Len(s) : PendingOf("second", f, s)[i + 1] = s[i]
<1> DEFINE h == << f >>
<1>1. h \in Seq(Bytes) /\ h = << f >>
  OBVIOUS
<1>2. Len(h) = 1 /\ h[1] = f /\ Len(s) \in Nat
  BY <1>1, LenProperties
<1> HIDE DEF h
<1>3. PICK t : t = h \o s
  OBVIOUS
<1>4. PendingOf("second", f, s) = t
  BY <1>1, <1>3 DEF PendingOf
<1>5. /\ t \in Seq(Bytes) /\ Len(t) = Len(h) + Len(s)
      /\ \A i \in 1 .. Len(h) + Len(s) : t[i] = IF i <= Len(h) THEN h[i] ELSE s[i - Len(h)]
  BY <1>1, <1>3, ConcatProperties
<1>6. t[1] = f
  BY <1>2, <1>5
<1>7. ASSUME NEW i \in 1 .. Len(s) PROVE t[i + 1] = s[i]
  <2>1. i + 1 \in 1 .. Len(h) + Len(s) /\ ~(i + 1 <= Len(h)) /\ (i + 1) - Len(h) = i
    BY <1>2
  <2> QED BY <1>5, <2>1
<1> QED BY <1>2, <1>4, <1>5, <1>6, <1>7

LEMMA PendingIdle ==
  /\ TypeOK /\ pc = "idle" => Pending = rx
  /\ TypeOK' /\ pc' = "idle" => Pending' = rx'
  BY PendingOfIdle DEF TypeOK, Pending, PendingOf

LEMMA PendingSecond ==
  /\ TypeOK /\ pc = "second" =>
       /\ Pending \in Seq(Bytes) /\ Len(Pending) = Len(rx) + 1
       /\ Pending[1] = first
       /\ \A i \in 1 .. Len(rx) : Pending[i + 1] = rx[i]
  /\ TypeOK' /\ pc' = "second" =>
       /\ Pending' \in Seq(Bytes) /\ Len(Pending') = Len(rx') + 1
       /\ Pending'[1] = first'
       /\ \A i \in 1 .. Len(rx') : Pending'[i + 1] = rx'[i]
<1>1. Pending = PendingOf(pc, first, rx) /\ Pending' = PendingOf(pc', first', rx')
  BY DEF Pending, PendingOf
<1>2. TypeOK /\ pc = "second" =>
       /\ Pending \in Seq(Bytes) /\ Len(Pending) = Len(rx) + 1
       /\ Pending[1] = first
       /\ \A i \in 1 .. Len(rx) : Pending[i + 1] = rx[i]
  BY <1>1, PendingOfSecond DEF TypeOK
<1>3. TypeOK' /\ pc' = "second" =>
       /\ Pending' \in Seq(Bytes) /\ Len(Pending') = Len(rx') + 1
       /\ Pending'[1] = first'
       /\ \A i \in 1 .. Len(rx') : Pending'[i + 1] = rx'[i]
  BY <1>1, PendingOfSecond DEF TypeOK
<1> QED BY <1>2, <1>3

LEMMA PopRx ==
  ASSUME TypeOK, rx # << >>
  PROVE  /\ Head(rx) \in Bytes /\ Head(rx) = rx[1]
         /\ Tail(rx) \in Seq(Bytes) /\ Len(Tail(rx)) = Len(rx) - 1 /\ Len(rx) \in Nat \ {0}
         /\ \A i \in 1 .. Len(rx) - 1 : Tail(rx)[i] = rx[i + 1]
         /\ Tail(rx) = << >> <=> Len(rx) = 1
<1>1. rx \in Seq(Bytes) /\ Len(rx) \in Nat \ {0}
  BY EmptySeq DEF TypeOK
<1>2. /\ Head(rx) \in Bytes /\ Head(rx) = rx[1]
      /\ Tail(rx) \in Seq(Bytes) /\ Len(Tail(rx)) = Len(rx) - 1
      /\ \A i \in 1 .. Len(rx) - 1 : Tail(rx)[i] = rx[i + 1]
  <2>1. rx[1] \in Bytes
    BY <1>1, ElementOfSeq, 1 \in 1 .. Len(rx)
  <2> QED BY <1>1, <2>1, HeadTailProperties
<1>3. Tail(rx) = << >> <=> Len(rx) = 1
  <2>1. Tail(rx) = << >> => Len(Tail(rx)) = 0
    BY EmptySeq
  <2>2. Tail(rx) # << >> => Len(Tail(rx)) # 0
    BY <1>2, EmptySeq
  <2> QED BY <1>1, <1>2, <2>1, <2>2
<1> QED BY <1>1, <1>2, <1>3

LEMMA PushRx ==
  ASSUME TypeOK, NEW byte \in Bytes
  PROVE  /\ Append(rx, byte) \in Seq(Bytes) /\ Len(Append(rx, byte)) = Len(rx) + 1
         /\ Len(rx) \in Nat /\ Append(rx, byte)[Len(rx) + 1] = byte
         /\ \A i \in 1 .. Len(rx) : Append(rx, byte)[i] = rx[i]
         /\ Append(rx, byte) # << >>
<1>1. rx \in Seq(Bytes) /\ Len(rx) \in Nat
  BY LenProperties DEF TypeOK
<1>2. /\ Append(rx, byte) \in Seq(Bytes) /\ Len(Append(rx, byte)) = Len(rx) + 1
      /\ Append(rx, byte)[Len(rx) + 1] = byte
      /\ \A i \in 1 .. Len(rx) : Append(rx, byte)[i] = rx[i]
  BY <1>1, AppendProperties
<1>3. Append(rx, byte) # << >>
  BY <1>1, <1>2, EmptySeq
<1> QED BY <1>1, <1>2, <1>3

-----------------------------------------------------------------------------
(* A sequence of the last bytes sent before byte c, which begins with a    *)
(* packet.                                                                 *)
Follows(c, s) ==
  /\ (c + Len(s)) % 2 = 0
  /\ \A i \in 1 .. Len(s) : s[i] = (c + BYTES + i - 1 - Len(s)) % BYTES

LEMMA InStepIs == ASSUME TypeOK PROVE InStep <=> (~astray => Follows(count, Pending))
<1>1. DOMAIN Pending = 1 .. Len(Pending)
  <2>1. Pending \in Seq(Bytes)
    BY PendingIdle, PendingSecond DEF TypeOK
  <2> QED BY <2>1, LenProperties
<1> QED BY <1>1 DEF InStep, Follows

LEMMA FollowsMore ==
  ASSUME NEW c \in 0 .. BYTES - 1, NEW s \in Seq(Bytes), NEW t \in Seq(Bytes),
         Len(s) <= FIFO_SIZE, Len(t) = Len(s) + 1,
         \A i \in 1 .. Len(s) : t[i] = s[i], t[Len(s) + 1] = c,
         Follows(c, s)
  PROVE  Follows((c + 1) % BYTES, t)
<1> DEFINE n == Len(s)
           d == (c + 1) % BYTES
<1>1. n \in Nat /\ n <= BYTES - 2 /\ BYTES \in Nat /\ BYTES % 2 = 0
  BY Constants, LenProperties
<1>2. d \in 0 .. BYTES - 1 /\ d % 2 = (c + 1) % 2 /\ d = IF c = BYTES - 1 THEN 0 ELSE c + 1
  BY NextCount
<1>3. (c + n) % 2 = 0 /\ \A i \in 1 .. n : s[i] = (c + BYTES + i - 1 - n) % BYTES
  BY DEF Follows
<1> HIDE DEF d, n
<1>4. (d + (n + 1)) % 2 = 0
  BY <1>1, <1>2, <1>3
<1>5. ASSUME NEW i \in 1 .. n + 1 PROVE t[i] = (d + BYTES + i - 1 - (n + 1)) % BYTES
  <2>1. CASE i = n + 1
    <3> DEFINE z == d + BYTES + i - 1 - (n + 1)
    <3>1. z = d + BYTES - 1 /\ z \in 0 .. 2 * BYTES - 1
      BY <1>1, <1>2, <2>1
    <3> HIDE DEF z
    <3>2. z % BYTES = IF z < BYTES THEN z ELSE z - BYTES
      BY <3>1, Turn
    <3>3. z % BYTES = c
      BY <1>1, <1>2, <3>1, <3>2
    <3> QED BY <2>1, <3>3 DEF n, z
  <2>2. CASE i # n + 1
    <3> DEFINE x == c + BYTES + i - 1 - n
               y == d + BYTES + i - 1 - (n + 1)
    <3>1. i \in 1 .. n /\ t[i] = x % BYTES
      BY <1>1, <1>3, <1>5, <2>2 DEF n
    <3>2. x \in 0 .. 2 * BYTES - 1 /\ y \in 0 .. 2 * BYTES - 1 /\ (y = x \/ y = x - BYTES)
      BY <1>1, <1>2, <3>1
    <3> HIDE DEF x, y
    <3>3. /\ x % BYTES = IF x < BYTES THEN x ELSE x - BYTES
          /\ y % BYTES = IF y < BYTES THEN y ELSE y - BYTES
      BY <3>2, Turn
    <3>4. x % BYTES = y % BYTES
      BY <1>1, <3>2, <3>3
    <3> QED BY <3>1, <3>4 DEF y
  <2> QED BY <2>1, <2>2
<1> QED BY <1>4, <1>5 DEF Follows, d, n

LEMMA FollowsLess ==
  ASSUME NEW c \in 0 .. BYTES - 1, NEW s \in Seq(Bytes), NEW t \in Seq(Bytes),
         Len(s) = Len(t) + 2, \A i \in 1 .. Len(t) : t[i] = s[i + 2],
         Follows(c, s)
  PROVE  Follows(c, t)
<1>1. Len(t) \in Nat
  BY LenProperties
<1>2. (c + Len(t)) % 2 = 0
  BY <1>1 DEF Follows
<1>3. ASSUME NEW i \in 1 .. Len(t) PROVE t[i] = (c + BYTES + i - 1 - Len(t)) % BYTES
  <2>1. s[i + 2] = (c + BYTES + (i + 2) - 1 - Len(s)) % BYTES
    BY <1>1 DEF Follows
  <2>2. c + BYTES + (i + 2) - 1 - Len(s) = c + BYTES + i - 1 - Len(t)
    BY <1>1, Constants
  <2> QED BY <2>1, <2>2
<1> QED BY <1>2, <1>3 DEF Follows

-----------------------------------------------------------------------------
(* The part of the invariant that is about time and types. *)
TimeInv == TypeOK /\ Bounded /\ Drained

LEMMA LengthIs ==
  ASSUME NEW s \in Seq(Bytes), Len(s) <= FIFO_SIZE
  PROVE  /\ Len(s) \in Nat /\ (s = << >> <=> Len(s) = 0)
         /\ Looks(Len(s)) \in Nat /\ Looks(Len(s)) <= Looks(FIFO_SIZE)
         /\ s # << >> => /\ Looks(Len(s) - 1) \in Nat
                         /\ Looks(Len(s) - 1) <= Looks(FIFO_SIZE)
<1>1. Len(s) \in Nat /\ (s = << >> <=> Len(s) = 0)
  BY EmptySeq, LenProperties
<1>2. Looks(Len(s)) \in Nat /\ Looks(Len(s)) <= Looks(FIFO_SIZE)
  BY <1>1, LooksIs, LooksGrow, Constants
<1>3. ASSUME s # << >>
      PROVE  Looks(Len(s) - 1) \in Nat /\ Looks(Len(s) - 1) <= Looks(FIFO_SIZE)
  <2>1. Len(s) - 1 \in Nat /\ Len(s) - 1 <= FIFO_SIZE
    BY <1>1, <1>3, Constants
  <2> QED BY <2>1, LooksIs, LooksGrow, Constants
<1> QED BY <1>1, <1>2, <1>3

(* A byte that came, or did not: there is as much to read as ever before.  *)
LEMMA ReceiveTime ==
  ASSUME TimeInv, NEW byte \in Bytes,
         Receive(byte) \/ (UNCHANGED rx /\ astray' = TRUE),
         quiet' = 0, count' \in 0 .. BYTES - 1, UNCHANGED readVars
  PROVE  TimeInv'
<1>1. UNCHANGED << pc, first, late >>
  BY DEF readVars
<1>2. rx' \in Seq(Bytes) /\ Len(rx') <= FIFO_SIZE /\ (rx' = rx \/ rx' # << >>)
  <2>1. CASE rx' = rx
    BY <2>1 DEF TimeInv, TypeOK
  <2>2. CASE rx' = Append(rx, byte) /\ Len(rx) < FIFO_SIZE
    BY <2>2, PushRx, Times DEF TimeInv
  <2> QED BY <2>1, <2>2 DEF Receive
<1>3. astray' \in BOOLEAN
  BY DEF Receive, TimeInv, TypeOK
<1>4. TypeOK'
  BY <1>1, <1>2, <1>3, Times DEF TimeInv, TypeOK
<1>5. Bounded'
  <2>1. pc = "idle" => late <= POLL
    <3>1. late \in Nat /\ (pc = "idle" => late <= IF rx = << >> THEN 0 ELSE POLL)
      BY DEF TimeInv, TypeOK, Bounded
    <3> QED BY <3>1, Times
  <2>2. pc' = "idle" => late' <= IF rx' = << >> THEN 0 ELSE POLL
    BY <1>1, <1>2, <2>1 DEF TimeInv, Bounded
  <2>3. pc' = "second" => late' <= TIMEOUT + 1
    BY <1>1 DEF TimeInv, Bounded
  <2>4. quiet' <= SEND_GAP
    BY Times
  <2> QED BY <2>2, <2>3, <2>4 DEF Bounded
<1>6. Drained'
  <2>1. Looks(FIFO_SIZE) \in Nat
    BY LooksIs, Times
  <2>2. /\ rx' # << >> => Looks(Len(rx' )- 1) \in Nat /\ Looks(Len(rx') - 1) <= Looks(FIFO_SIZE)
        /\ Looks(Len(rx')) \in Nat /\ Looks(Len(rx')) <= Looks(FIFO_SIZE)
    BY <1>2, LengthIs
  <2>3. late \in Nat
    BY DEF TimeInv, TypeOK
  <2>4. Left(pc', rx', late') <= Looks(FIFO_SIZE) + TIMEOUT + 2
    BY <1>1, <2>1, <2>2, <2>3, Times DEF Left
  <2>5. Left(pc', rx', late') \in Int
    BY <1>1, <2>1, <2>2, <2>3, Times DEF Left
  <2>6. Left(pc', rx', late') <= QUIET
    BY <2>1, <2>4, <2>5, Constants
  <2> QED BY <2>5, <2>6 DEF Drained
<1> QED BY <1>4, <1>5, <1>6 DEF TimeInv

LEMMA StaysDrained ==
  ASSUME TimeInv, UNCHANGED quiet, Left(pc, rx, late) \in Int,
         Left(pc', rx', late') \in Int, Left(pc', rx', late') <= Left(pc, rx, late)
  PROVE  Drained'
<1>1. quiet \in Nat /\ quiet + Left(pc, rx, late) <= QUIET
  BY Times DEF TimeInv, TypeOK, Drained
<1>2. quiet' = quiet
  OBVIOUS
<1>3. quiet + Left(pc', rx', late') <= QUIET
  BY <1>1, Times
<1> QED BY <1>2, <1>3 DEF Drained

LEMMA ReadFirstTime == ASSUME TimeInv, ReadFirst PROVE TimeInv'
<1>1. rx \in Seq(Bytes) /\ Len(rx) <= FIFO_SIZE /\ rx # << >> /\ pc = "idle"
  BY DEF TimeInv, TypeOK, ReadFirst
<1>2. /\ rx' \in Seq(Bytes) /\ Len(rx') = Len(rx) - 1 /\ Len(rx) \in Nat \ {0}
      /\ first' \in Bytes /\ (rx' = << >> <=> Len(rx) = 1)
  BY <1>1, PopRx DEF ReadFirst, TimeInv
<1>3. TypeOK'
  BY <1>1, <1>2, Times DEF TimeInv, TypeOK, ReadFirst, sendVars
<1>4. Bounded'
  <2>1. pc' = "second" /\ late' = 0 /\ UNCHANGED << count, quiet >>
    BY DEF ReadFirst, sendVars
  <2> QED BY <2>1, Times DEF TimeInv, Bounded
<1>5. Drained'
  <2>1. Left(pc, rx, late) = TIMEOUT + 2 + Looks(Len(rx)) - late
    BY <1>1 DEF Left
  <2>2. late \in Nat /\ late <= POLL
    BY <1>1 DEF TimeInv, TypeOK, Bounded
  <2>3. CASE Len(rx) = 1
    <3>1. Left(pc', rx', late') = TIMEOUT + 2
      BY <1>2, <2>3, Times DEF Left, ReadFirst
    <3>2. Looks(Len(rx)) = POLL
      BY <2>3, LooksIs
    <3>3. /\ Left(pc, rx, late) \in Int /\ Left(pc', rx', late') \in Int
          /\ Left(pc', rx', late') <= Left(pc, rx, late)
      BY <2>1, <2>2, <3>1, <3>2, Times
    <3> QED BY <3>3, StaysDrained DEF ReadFirst, sendVars
  <2>4. CASE Len(rx) # 1
    <3>1. Left(pc', rx', late') = TIMEOUT + 2 + Looks(Len(rx) - 2)
      <4>1. (Len(rx) - 1) - 1 = Len(rx) - 2
        BY <1>2
      <4> QED BY <1>2, <2>4, <4>1 DEF Left, ReadFirst
    <3>2. Looks(Len(rx)) = Looks(Len(rx) - 2) + POLL /\ Looks(Len(rx) - 2) \in Nat
      <4>1. Len(rx) - 2 \in Nat
        BY <1>2, <2>4
      <4> QED BY <1>2, <2>4, <4>1, LooksIs
    <3>3. /\ Left(pc, rx, late) \in Int /\ Left(pc', rx', late') \in Int
          /\ Left(pc', rx', late') <= Left(pc, rx, late)
      BY <2>1, <2>2, <3>1, <3>2, Times
    <3> QED BY <3>3, StaysDrained DEF ReadFirst, sendVars
  <2> QED BY <2>3, <2>4
<1> QED BY <1>3, <1>4, <1>5 DEF TimeInv

LEMMA ReadSecondTime == ASSUME TimeInv, ReadSecond PROVE TimeInv'
<1>1. rx \in Seq(Bytes) /\ Len(rx) <= FIFO_SIZE /\ rx # << >> /\ pc = "second"
  BY DEF TimeInv, TypeOK, ReadSecond
<1>2. /\ rx' \in Seq(Bytes) /\ Len(rx') = Len(rx) - 1 /\ Len(rx) \in Nat \ {0}
  BY <1>1, PopRx DEF ReadSecond, TimeInv
<1>3. TypeOK'
  BY <1>1, <1>2, Times DEF TimeInv, TypeOK, ReadSecond, sendVars
<1>4. Bounded'
  BY Times DEF TimeInv, Bounded, ReadSecond, sendVars
<1>5. Drained'
  <2>1. Looks(Len(rx) - 1) \in Nat /\ Left(pc, rx, late) = TIMEOUT + 2 + Looks(Len(rx) - 1)
    BY <1>1, LengthIs DEF Left
  <2>2. Left(pc', rx', late') \in Nat /\ Left(pc', rx', late') <= Left(pc, rx, late)
    BY <1>2, <2>1, Times DEF Left, ReadSecond
  <2>3. Left(pc, rx, late) \in Int /\ Left(pc', rx', late') \in Int
    BY <2>1, <2>2, Times
  <2> QED BY <2>2, <2>3, StaysDrained DEF ReadSecond, sendVars
<1> QED BY <1>3, <1>4, <1>5 DEF TimeInv

LEMMA GiveUpTime == ASSUME TimeInv, GiveUp PROVE TimeInv'
<1>1. TypeOK' /\ Bounded'
  BY Times DEF TimeInv, TypeOK, Bounded, GiveUp, sendVars
<1>2. Drained'
  <2>1. Left(pc', rx', late') = 0
    BY DEF Left, GiveUp
  <2>2. quiet' \in Nat /\ quiet' <= QUIET
    BY <1>1, Times DEF TypeOK
  <2>3. quiet' + 0 <= QUIET
    BY <2>2
  <2> QED BY <2>1, <2>3 DEF Drained
<1> QED BY <1>1, <1>2 DEF TimeInv

LEMMA TickTime == ASSUME TimeInv, Tick PROVE TimeInv'
<1>1. /\ quiet \in Nat /\ quiet <= QUIET /\ late \in Nat
      /\ pc \in {"idle", "second"} /\ UNCHANGED << count, rx, pc, first >>
  BY Times DEF TimeInv, TypeOK, Tick
<1>2. Len(rx) \in Nat /\ Looks(Len(rx)) \in Nat
  BY LengthIs DEF TimeInv, TypeOK
<1>3. quiet' \in 0 .. QUIET /\ (quiet' = quiet + 1 \/ (quiet = QUIET /\ quiet' = QUIET))
  BY <1>1, Times DEF Tick
<1>4. late' \in Nat
  BY <1>1 DEF Tick
<1>5. astray' \in BOOLEAN
  BY DEF Tick, TimeInv, TypeOK
<1>6. TypeOK'
  BY <1>1, <1>3, <1>4, <1>5 DEF TimeInv, TypeOK
<1>7. Bounded'
  <2>1. count % 2 = 1 => quiet' <= SEND_GAP
    BY <1>1, <1>3, Times DEF Tick
  <2>2. pc = "second" => late' <= TIMEOUT + 1
    BY <1>1, Times DEF Tick, GivesUp
  <2>3. pc = "idle" => late' <= IF rx = << >> THEN 0 ELSE POLL
    BY <1>1, Times DEF Tick
  <2> QED BY <1>1, <2>1, <2>2, <2>3 DEF Bounded
<1>8. Drained'
  <2>1. CASE pc = "second"
    <3>1. rx = << >> /\ late <= TIMEOUT /\ late' = late + 1
      BY <1>1, <2>1, Times DEF Tick, GivesUp
    <3>2. Left(pc, rx, late) = TIMEOUT + 2 - late /\ Left(pc', rx', late') = TIMEOUT + 1 - late
      BY <1>1, <2>1, <3>1, Times DEF Left
    <3>3. quiet + (TIMEOUT + 2 - late) <= QUIET
      BY <3>2 DEF Drained, TimeInv
    <3>4. quiet' + (TIMEOUT + 1 - late) <= QUIET
      <4>1. CASE quiet' = quiet + 1
        BY <1>1, <3>3, <4>1, Times
      <4>2. CASE quiet = QUIET /\ quiet' = QUIET
        BY <1>1, <3>1, <3>3, <4>2, Times
      <4> QED BY <1>3, <4>1, <4>2
    <3> QED BY <3>2, <3>4 DEF Drained
  <2>2. CASE pc = "idle" /\ rx # << >>
    <3>1. late < POLL /\ late' = late + 1
      BY <1>1, <2>2 DEF Tick
    <3>2. /\ Left(pc, rx, late) = TIMEOUT + 2 + Looks(Len(rx)) - late
          /\ Left(pc', rx', late') = TIMEOUT + 2 + Looks(Len(rx)) - late'
      BY <1>1, <2>2 DEF Left
    <3>3. POLL <= Looks(Len(rx))
      <4>1. Len(rx) # 0
        BY <2>2, LengthIs DEF TimeInv, TypeOK
      <4> QED BY <1>2, <4>1, LooksIs, LooksGrow
    <3>4. quiet + (TIMEOUT + 2 + Looks(Len(rx)) - late) <= QUIET
      BY <3>2 DEF Drained, TimeInv
    <3>5. quiet' + (TIMEOUT + 2 + Looks(Len(rx)) - late') <= QUIET
      BY <1>1, <1>2, <1>3, <3>1, <3>3, <3>4, Times
    <3> QED BY <3>2, <3>5 DEF Drained
  <2>3. CASE pc = "idle" /\ rx = << >>
    <3>1. Left(pc', rx', late') = 0
      BY <1>1, <2>3 DEF Left
    <3>2. quiet' \in Nat /\ quiet' <= QUIET
      BY <1>3, Times
    <3>3. quiet' + 0 <= QUIET
      BY <3>2
    <3> QED BY <3>1, <3>3 DEF Drained
  <2> QED BY <1>1, <2>1, <2>2, <2>3
<1> QED BY <1>6, <1>7, <1>8 DEF TimeInv

LEMMA NextTime == ASSUME TimeInv, [Next]_trrsvars PROVE TimeInv'
<1>1. CASE trrs_send
  <2>1. count \in Bytes /\ count' \in 0 .. BYTES - 1
    BY <1>1, NextCount, Constants DEF trrs_send, TimeInv, TypeOK, Bytes
  <2> QED BY <1>1, <2>1, ReceiveTime DEF trrs_send
<1>2. CASE NoiseByte
  <2>1. Noise \in Bytes /\ count' \in 0 .. BYTES - 1
    BY <1>2, Constants DEF NoiseByte, Noise, TimeInv, TypeOK, Bytes
  <2> QED BY <1>2, <2>1, ReceiveTime DEF NoiseByte
<1>3. CASE ReadFirst \/ ReadSecond \/ GiveUp
  BY <1>3, ReadFirstTime, ReadSecondTime, GiveUpTime
<1>4. CASE Tick
  BY <1>4, TickTime
<1>5. CASE UNCHANGED trrsvars
  BY <1>5 DEF TimeInv, TypeOK, Bounded, Drained, Left, trrsvars, sendVars, readVars
<1> QED BY <1>1, <1>2, <1>3, <1>4, <1>5 DEF Next

-----------------------------------------------------------------------------
(* The part about bytes. *)
StepInv == Recent /\ (~astray => Follows(count, Pending))

LEMMA SentInStep == ASSUME TimeInv, StepInv, trrs_send PROVE StepInv'
<1> SUFFICES ASSUME ~astray' PROVE Recent' /\ Follows(count', Pending')
  BY DEF StepInv, Recent
<1>1. /\ Len(rx) < FIFO_SIZE /\ rx' = Append(rx, count) /\ ~astray
      /\ count' = (count + 1) % BYTES /\ UNCHANGED << pc, first, late >>
  BY DEF trrs_send, Receive, readVars
<1>2. count \in 0 .. BYTES - 1 /\ count \in Bytes /\ count' \in 0 .. BYTES - 1
  BY <1>1, NextCount, Constants DEF TimeInv, TypeOK, Bytes
<1>3. TypeOK /\ TypeOK'
  BY NextTime DEF TimeInv, Next
<1>4. /\ rx' \in Seq(Bytes) /\ Len(rx') = Len(rx) + 1 /\ Len(rx) \in Nat /\ rx' # << >>
      /\ rx'[Len(rx) + 1] = count /\ \A i \in 1 .. Len(rx) : rx'[i] = rx[i]
  BY <1>1, <1>2, <1>3, PushRx
<1>5. Recent'
  BY <1>4 DEF Recent
<1>6. CASE pc = "idle"
  <2>1. Pending = rx /\ Pending' = rx'
    BY <1>1, <1>3, <1>6, PendingIdle
  <2>2. Follows(count, rx) /\ rx \in Seq(Bytes) /\ Len(rx) <= FIFO_SIZE
    BY <1>1, <1>3, <2>1 DEF StepInv, TypeOK
  <2>3. Follows((count + 1) % BYTES, rx')
    BY <1>2, <1>4, <2>2, FollowsMore
  <2> QED BY <1>1, <1>5, <2>1, <2>3
<1>7. CASE pc = "second"
  <2>1. /\ Pending \in Seq(Bytes) /\ Len(Pending) = Len(rx) + 1 /\ Pending[1] = first
        /\ \A i \in 1 .. Len(rx) : Pending[i + 1] = rx[i]
    BY <1>3, <1>7, PendingSecond
  <2>2. /\ Pending' \in Seq(Bytes) /\ Len(Pending') = Len(rx') + 1 /\ Pending'[1] = first
        /\ \A i \in 1 .. Len(rx') : Pending'[i + 1] = rx'[i]
    BY <1>1, <1>3, <1>7, PendingSecond
  <2>3. PICK s \in Seq(Bytes) : s = Pending
    BY <2>1
  <2>4. PICK t \in Seq(Bytes) : t = Pending'
    BY <2>2
  <2>5. Len(s) <= FIFO_SIZE /\ Len(t) = Len(s) + 1 /\ Len(s) = Len(rx) + 1
    BY <1>1, <1>4, <2>1, <2>2, <2>3, <2>4, Times
  <2>6. \A i \in 1 .. Len(s) : t[i] = s[i]
    <3>1. t[1] = first /\ s[1] = first
      BY <2>1, <2>2, <2>3, <2>4
    <3>2. \A i \in 1 .. Len(rx) : s[i + 1] = rx[i] /\ t[i + 1] = rx[i]
      BY <1>4, <2>1, <2>2, <2>3, <2>4
    <3>3. ASSUME NEW i \in 1 .. Len(s), i # 1 PROVE t[i] = s[i]
      <4>1. i - 1 \in 1 .. Len(rx) /\ (i - 1) + 1 = i
        BY <1>4, <2>5, <3>3
      <4> QED BY <3>2, <4>1
    <3> QED BY <3>1, <3>3
  <2>7. t[Len(s) + 1] = count
    <3>1. Len(rx) + 1 \in 1 .. Len(rx')
      BY <1>4
    <3>2. t[(Len(rx) + 1) + 1] = rx'[Len(rx) + 1]
      BY <2>2, <2>4, <3>1
    <3> QED BY <1>4, <2>5, <3>2
  <2>8. Follows(count, s)
    BY <1>1, <2>3 DEF StepInv
  <2>9. Follows((count + 1) % BYTES, t)
    BY <1>2, <2>5, <2>6, <2>7, <2>8, FollowsMore
  <2> QED BY <1>1, <1>5, <2>4, <2>9
<1> QED BY <1>3, <1>6, <1>7 DEF TypeOK

(* Noise always leads astray. *)
LEMMA NoiseInStep == ASSUME TimeInv, NoiseByte PROVE StepInv'
<1>1. astray'
  BY DEF NoiseByte, Receive
<1> QED BY <1>1 DEF StepInv, Recent

LEMMA FirstInStep == ASSUME TimeInv, StepInv, ReadFirst PROVE StepInv'
<1>1. /\ pc = "idle" /\ rx # << >> /\ first' = Head(rx) /\ rx' = Tail(rx) /\ pc' = "second"
      /\ late' = 0 /\ UNCHANGED << count, quiet, astray >>
  BY DEF ReadFirst, sendVars
<1>2. TypeOK /\ TypeOK'
  BY ReadFirstTime DEF TimeInv
<1>3. Recent'
  BY <1>1, <1>2, Times DEF Recent, TypeOK
<1>4. Pending = rx /\ rx \in Seq(Bytes) /\ Len(rx) \in Nat \ {0}
  BY <1>1, <1>2, PendingIdle, PopRx DEF TypeOK
<1>5. Pending' = rx
  <2>1. /\ Pending' \in Seq(Bytes) /\ Len(Pending') = Len(rx') + 1 /\ Pending'[1] = first'
        /\ \A i \in 1 .. Len(rx') : Pending'[i + 1] = rx'[i]
    BY <1>1, <1>2, PendingSecond
  <2>2. /\ first' = rx[1] /\ Len(rx') = Len(rx) - 1
        /\ \A i \in 1 .. Len(rx) - 1 : rx'[i] = rx[i + 1]
    BY <1>1, <1>2, PopRx
  <2>3. Len(Pending') = Len(rx)
    BY <1>4, <2>1, <2>2
  <2>4. ASSUME NEW i \in 1 .. Len(rx) PROVE Pending'[i] = rx[i]
    <3>1. CASE i = 1
      BY <2>1, <2>2, <3>1
    <3>2. CASE i # 1
      <4>1. i - 1 \in 1 .. Len(rx) - 1 /\ (i - 1) + 1 = i
        BY <1>4, <3>2
      <4> QED BY <2>1, <2>2, <4>1
    <3> QED BY <3>1, <3>2
  <2> QED BY <1>4, <2>1, <2>3, <2>4, SeqEqual
<1> QED BY <1>1, <1>3, <1>4, <1>5 DEF StepInv

(* The two bytes that ReadSecond takes are the first ones pending. *)
LEMMA SecondPending ==
  ASSUME TypeOK, pc = "second", rx # << >>
  PROVE  /\ Pending \in Seq(Bytes) /\ Len(Pending) = Len(Tail(rx)) + 2
         /\ Tail(rx) \in Seq(Bytes) /\ Len(Tail(rx)) \in Nat
         /\ Pending[1] = first /\ Pending[2] = Head(rx)
         /\ \A i \in 1 .. Len(Tail(rx)) : Tail(rx)[i] = Pending[i + 2]
<1>1. /\ Pending \in Seq(Bytes) /\ Len(Pending) = Len(rx) + 1 /\ Pending[1] = first
      /\ \A i \in 1 .. Len(rx) : Pending[i + 1] = rx[i]
  BY PendingSecond
<1>2. /\ Len(rx) \in Nat \ {0} /\ Len(Tail(rx)) = Len(rx) - 1 /\ Head(rx) = rx[1]
      /\ Tail(rx) \in Seq(Bytes)
      /\ \A i \in 1 .. Len(rx) - 1 : Tail(rx)[i] = rx[i + 1]
  BY PopRx
<1>3. Pending[1 + 1] = rx[1]
  BY <1>1, <1>2, 1 \in 1 .. Len(rx)
<1>4. ASSUME NEW i \in 1 .. Len(rx) - 1 PROVE Tail(rx)[i] = Pending[i + 2]
  <2>1. i + 1 \in 1 .. Len(rx) /\ (i + 1) + 1 = i + 2
    BY <1>2
  <2> QED BY <1>1, <1>2, <2>1
<1> QED BY <1>1, <1>2, <1>3, <1>4

LEMMA SecondInStep == ASSUME TimeInv, StepInv, ReadSecond PROVE StepInv'
<1> SUFFICES ASSUME ~astray' PROVE Follows(count', Pending')
  BY DEF StepInv, Recent, ReadSecond
<1>1. /\ pc = "second" /\ rx # << >> /\ rx' = Tail(rx) /\ pc' = "idle" /\ ~astray
      /\ count' = count
  BY DEF ReadSecond, sendVars
<1>2. TypeOK /\ TypeOK'
  BY ReadSecondTime DEF TimeInv
<1>3. Pending' = rx'
  BY <1>1, <1>2, PendingIdle
<1>4. PICK s \in Seq(Bytes) : s = Pending
  BY <1>1, <1>2, SecondPending
<1>5. PICK t \in Seq(Bytes) : t = Tail(rx)
  BY <1>1, <1>2, SecondPending
<1>6. Len(s) = Len(t) + 2 /\ \A i \in 1 .. Len(t) : t[i] = s[i + 2]
  BY <1>1, <1>2, <1>4, <1>5, SecondPending
<1>7. Follows(count, s) /\ count \in 0 .. BYTES - 1
  BY <1>1, <1>2, <1>4 DEF StepInv, TypeOK
<1>8. Follows(count, t)
  BY <1>6, <1>7, FollowsLess
<1> QED BY <1>1, <1>3, <1>5, <1>8

(* In step the sender has only been held up when the receiver gives up, so *)
(* it does not.                                                            *)
LEMMA GiveUpInStep == ASSUME TimeInv, StepInv, GiveUp PROVE StepInv'
<1>1. pc = "second" /\ rx = << >> /\ late > TIMEOUT /\ (astray' <=> astray)
  BY DEF GiveUp, GivesUp
<1>2. ASSUME ~astray PROVE FALSE
  <2>1. late <= quiet
    BY <1>1, <1>2 DEF StepInv, Recent
  <2>2. Len(Pending) = 1
    BY <1>1, PendingSecond DEF TimeInv, TypeOK
  <2>3. (count + 1) % 2 = 0
    BY <1>2, <2>2 DEF StepInv, Follows
  <2>4. count % 2 = 1
    BY <2>3, Constants DEF TimeInv, TypeOK
  <2>5. quiet <= SEND_GAP /\ quiet \in Nat /\ late \in Nat
    BY <2>4, Times DEF TimeInv, TypeOK, Bounded
  <2> QED BY <1>1, <2>1, <2>5, Times
<1> QED BY <1>1, <1>2 DEF StepInv, Recent

LEMMA TickInStep == ASSUME TimeInv, StepInv, Tick PROVE StepInv'
<1> SUFFICES ASSUME ~astray' PROVE Recent' /\ Follows(count', Pending')
  BY DEF StepInv, Recent
<1>1. /\ UNCHANGED << count, rx, pc, first >> /\ quiet \in Nat /\ quiet <= QUIET /\ late \in Nat
      /\ pc \in {"idle", "second"}
      /\ (quiet' = quiet + 1 \/ (quiet = QUIET /\ quiet' = QUIET))
  BY Times DEF Tick, TimeInv, TypeOK
<1>2. TypeOK' /\ Bounded' /\ Drained'
  BY TickTime DEF TimeInv
<1>3. CASE ~astray
  <2>1. Follows(count, Pending)
    BY <1>3 DEF StepInv
  <2>2. Pending' = Pending
    BY <1>1 DEF Pending
  <2>3. ASSUME pc = "second", rx = << >> PROVE late' <= quiet'
    <3>1. late <= TIMEOUT /\ late' = late + 1
      BY <1>1, <2>3, Times DEF Tick, GivesUp
    <3>2. late <= quiet
      BY <1>3, <2>3 DEF StepInv, Recent
    <3>3. quiet + (TIMEOUT + 2 - late) <= QUIET
      <4>1. Left(pc, rx, late) = TIMEOUT + 2 - late
        BY <1>1, <2>3, Times DEF Left
      <4> QED BY <4>1 DEF TimeInv, Drained
    <3> QED BY <1>1, <3>1, <3>2, <3>3, Times
  <2>4. Recent'
    BY <1>1, <2>3 DEF Recent
  <2> QED BY <1>1, <2>1, <2>2, <2>4
<1>4. CASE astray
  <2>1. quiet' = QUIET
    <3>1. ~(quiet' < QUIET)
      BY <1>4, Zenon DEF Tick
    <3>2. quiet' \in Nat /\ quiet' <= QUIET
      BY <1>2, Times DEF TypeOK
    <3> QED BY <3>1, <3>2, Times
  <2>2. Left(pc', rx', late') \in Int => Left(pc', rx', late') <= 0
    BY <1>2, <2>1, Times DEF Drained
  <2>3. pc' = "idle" /\ rx' = << >>
    <3>1. CASE pc' = "second"
      <4>1. rx' = << >> /\ late' \in Nat /\ late' <= TIMEOUT + 1
        BY <1>1, <1>2, <3>1 DEF Tick, TypeOK, Bounded
      <4>2. Left(pc', rx', late') = TIMEOUT + 2 - late'
        BY <3>1, <4>1, Times DEF Left
      <4> QED BY <2>2, <4>1, <4>2, Times
    <3>2. CASE pc' = "idle" /\ rx' # << >>
      <4>1. late' \in Nat /\ late' <= POLL
        BY <1>2, <3>2 DEF TypeOK, Bounded
      <4>2. Looks(Len(rx')) \in Nat /\ Len(rx') \in Nat /\ Len(rx') # 0
        BY <1>2, <3>2, LengthIs DEF TypeOK
      <4>3. POLL <= Looks(Len(rx'))
        BY <4>2, LooksIs, LooksGrow
      <4>4. Left(pc', rx', late') = TIMEOUT + 2 + Looks(Len(rx')) - late'
        BY <3>2 DEF Left
      <4> QED BY <2>2, <4>1, <4>2, <4>3, <4>4, Times
    <3> QED BY <1>1, <3>1, <3>2
  <2>4. count' % 2 = 0
    <3>1. count' % 2 = 1 => QUIET <= SEND_GAP
      BY <1>2, <2>1, Zenon DEF Bounded
    <3>2. ~(QUIET <= SEND_GAP)
      <4>1. Looks(FIFO_SIZE) \in Nat
        BY LooksIs, Times
      <4> QED BY <4>1, Constants
    <3>3. count' \in Nat
      BY <1>2, Constants DEF TypeOK
    <3>4. \A c \in Nat : c % 2 = 0 \/ c % 2 = 1
      OBVIOUS
    <3> QED BY <3>1, <3>2, <3>3, <3>4, Zenon
  <2>5. Pending' = << >>
    BY <1>2, <2>3, PendingIdle
  <2>6. Follows(count', << >>)
    <3>1. count' \in Nat
      BY <1>2, Constants DEF TypeOK
    <3>2. ASSUME NEW c \in Nat, c % 2 = 0 PROVE Follows(c, << >>)
      <4>1. Len(<< >>) = 0
        OBVIOUS
      <4> QED BY <3>2, <4>1 DEF Follows
    <3> QED BY <2>4, <3>1, <3>2
  <2>7. Recent'
    BY <2>3 DEF Recent
  <2> QED BY <2>5, <2>6, <2>7
<1> QED BY <1>3, <1>4 DEF TimeInv, TypeOK

LEMMA NextInStep == ASSUME TimeInv, StepInv, [Next]_trrsvars PROVE StepInv'
<1>1. CASE UNCHANGED trrsvars
  BY <1>1 DEF StepInv, Recent, Pending, trrsvars, sendVars, readVars
<1> QED BY <1>1, SentInStep, NoiseInStep, FirstInStep, SecondInStep, GiveUpInStep, TickInStep DEF Next

LEMMA InitLink == ASSUME Init PROVE TimeInv /\ StepInv
<1>1. /\ count = 0 /\ quiet = 0 /\ rx = << >> /\ pc = "idle" /\ first = 0 /\ late = 0
      /\ astray = FALSE
  BY DEF Init
<1>2. TypeOK
  <2>1. << >> \in Seq(Bytes) /\ Len(<< >>) = 0
    OBVIOUS
  <2>2. 0 \in 0 .. BYTES - 1 /\ 0 \in Bytes /\ 0 \in 0 .. QUIET /\ 0 <= FIFO_SIZE
    BY Constants DEF Bytes
  <2> QED BY <1>1, <2>1, <2>2 DEF TypeOK
<1>3. Bounded
  BY <1>1, Times DEF Bounded
<1>4. Drained
  <2>1. Left(pc, rx, late) = 0 /\ 0 + 0 <= QUIET
    BY <1>1, Times DEF Left
  <2> QED BY <1>1, <2>1 DEF Drained
<1>5. Recent
  BY <1>1 DEF Recent
<1>6. Follows(count, Pending)
  <2>1. Pending = << >>
    BY <1>1, <1>2, PendingIdle
  <2>2. Len(<< >>) = 0
    OBVIOUS
  <2> QED BY <1>1, <2>1, <2>2 DEF Follows
<1> QED BY <1>2, <1>3, <1>4, <1>5, <1>6 DEF TimeInv, StepInv

-----------------------------------------------------------------------------
(* The clocks keep to what the delays allow, and nothing is left over      *)
(* after a silence: whatever trrs.c:16-33 had begun to read is read, or    *)
(* given up, by then.                                                      *)
THEOREM LinkCorrect == Spec => [](TypeOK /\ Bounded /\ Drained /\ StepInv)
<1>1. Init => TimeInv /\ StepInv
  BY InitLink
<1>2. TimeInv /\ StepInv /\ [Next]_trrsvars => TimeInv' /\ StepInv'
  BY NextTime, NextInStep
<1>3. TimeInv /\ StepInv => TypeOK /\ Bounded /\ Drained /\ StepInv
  BY DEF TimeInv
<1> QED BY <1>1, <1>2, <1>3, PTL DEF Spec

(* Whatever was lost or came from nowhere, a receiver that has met silence *)
(* since has only the last bytes sent before it, from the beginning of a   *)
(* packet (trrs.c:16-33).                                                  *)
THEOREM InStepCorrect == Spec => []InStep
<1>1. TypeOK /\ StepInv => InStep
  BY InStepIs DEF StepInv
<1> QED BY <1>1, LinkCorrect, PTL

LEMMA SecondFollows ==
  ASSUME TypeOK, StepInv, ReadSecond, ~astray
  PROVE  first % 2 = 0 /\ Head(rx) = first + 1
<1>1. pc = "second" /\ rx # << >>
  BY DEF ReadSecond
<1>2. PICK s \in Seq(Bytes) : s = Pending
  BY <1>1, SecondPending
<1> DEFINE n == Len(s)
<1>3. /\ n \in Nat /\ n >= 2 /\ n <= FIFO_SIZE + 1 /\ s[1] = first /\ s[2] = Head(rx)
  <2>1. Len(Tail(rx)) \in Nat /\ n = Len(Tail(rx)) + 2 /\ n = Len(rx) + 1 /\ Len(rx) <= FIFO_SIZE
    BY <1>1, <1>2, SecondPending, PendingSecond DEF TypeOK
  <2>2. s[1] = first /\ s[2] = Head(rx)
    BY <1>1, <1>2, SecondPending
  <2>3. n \in Nat /\ n >= 2 /\ n <= FIFO_SIZE + 1
    BY <2>1, Times
  <2> QED BY <2>2, <2>3
<1>4. count \in 0 .. BYTES - 1
  BY DEF TypeOK
<1>5. (count + n) % 2 = 0 /\ \A i \in 1 .. n : s[i] = (count + BYTES + i - 1 - n) % BYTES
  BY <1>2 DEF StepInv, Follows
<1>6. 1 \in 1 .. n /\ 2 \in 1 .. n
  BY <1>3
<1>7. first = (count + BYTES + 1 - 1 - n) % BYTES /\ Head(rx) = (count + BYTES + 2 - 1 - n) % BYTES
  BY <1>3, <1>5, <1>6
<1> HIDE DEF n
<1>8. PICK x \in 0 .. 2 * BYTES - 1 : x = count + BYTES - n
  BY <1>3, <1>4, Constants
<1>9. PICK y \in 0 .. 2 * BYTES - 1 : y = x + 1
  BY <1>3, <1>4, <1>8, Constants
<1>10. first = x % BYTES /\ Head(rx) = y % BYTES
  <2>1. count + BYTES + 1 - 1 - n = x /\ count + BYTES + 2 - 1 - n = y
    BY <1>3, <1>4, <1>8, <1>9, Constants
  <2> QED BY <1>7, <2>1
<1>11. /\ first = IF x < BYTES THEN x ELSE x - BYTES
       /\ Head(rx) = IF y < BYTES THEN y ELSE y - BYTES
  BY <1>10, Turn
<1>12. x % 2 = 0
  BY <1>3, <1>4, <1>5, <1>8, Constants
<1>13. x # BYTES - 1
  BY <1>12, Constants
<1>14. Head(rx) = first + 1
  BY <1>9, <1>13, <1>11, Constants
<1>15. first % 2 = 0
  BY <1>12, <1>11, Constants
<1> QED BY <1>14, <1>15

(* A receiver in step returns packets that were sent, with both bytes in   *)
(* their places (trrs.c:25-33).                                            *)
THEOREM WholePacketsCorrect == Spec => WholePackets
<1>1. TypeOK /\ StepInv => [ReadSecond /\ ~astray => first % 2 = 0 /\ Head(rx) = first + 1]_trrsvars
  BY SecondFollows
<1> QED BY <1>1, LinkCorrect, PTL DEF WholePackets
=============================================================================
