------------------------- MODULE MatrixMonitorProofs -------------------------
(***************************************************************************)
(* Proofs about MatrixMonitor, for any number of switches, size of the     *)
(* queue and debounce: the two cores never use the mailbox at the same     *)
(* time, and no event is lost on its way or delivered twice.  And about    *)
(* the timely cores of MCMatrixMonitor: none is dropped or overtaken.      *)
(***************************************************************************)
EXTENDS MCMatrixMonitor, SequenceTheorems, FiniteSetTheorems, TLAPS

LEMMA EventIs == AnEvent \in Events
  BY MatrixAssumption DEF AnEvent, Events, Switches, Actions

LEMMA ActionIs == ASSUME NEW pressed \in BOOLEAN PROVE ActionOf(pressed) \in Actions
  BY DEF ActionOf, Actions

(* What put and pop do to a queue. *)
LEMMA PutIs ==
  ASSUME NEW S, NEW q \in Seq(S), NEW e \in S
  PROVE  Append(q, e) \in Seq(S) /\ Len(Append(q, e)) = Len(q) + 1
  BY AppendProperties

LEMMA PopIs ==
  ASSUME NEW S, NEW q \in Seq(S), q # << >>
  PROVE  /\ q[Len(q)] \in S
         /\ SubSeq(q, 1, Len(q) - 1) \in Seq(S)
         /\ Len(SubSeq(q, 1, Len(q) - 1)) = Len(q) - 1
<1>1. Len(q) \in Nat /\ Len(q) # 0
  BY EmptySeq
<1>2. \A i \in 1 .. Len(q) : q[i] \in S
  BY ElementOfSeq
<1>3. PICK n \in Nat : Len(q) = n + 1
  <2>1. \A k \in Nat : k # 0 => k - 1 \in Nat
    OBVIOUS
  <2>2. \A k \in Nat : k = (k - 1) + 1
    OBVIOUS
  <2> QED BY <1>1, <2>1, <2>2
<1>4. Len(q) - 1 = n
  BY <1>3
<1>5. q[Len(q)] \in S /\ \A i \in 1 .. n : q[i] \in S
  BY <1>2, <1>3
<1>6. SubSeq(q, 1, n) \in Seq(S) /\ Len(SubSeq(q, 1, n)) = IF 1 <= n THEN n - 1 + 1 ELSE 0
  BY <1>5, SubSeqProperties
<1>7. Len(SubSeq(q, 1, n)) = n
  BY <1>6
<1> QED BY <1>4, <1>5, <1>6, <1>7

-----------------------------------------------------------------------------
(* TypeOK and OneAtATime need one another: what the copy holds is an event *)
(* because it is what the mailbox holds.                                   *)
CoresInv == TypeOK /\ OneAtATime

LEMMA InitCores == Init => CoresInv
<1> SUFFICES ASSUME Init PROVE CoresInv
  OBVIOUS
<1>1. at \in Switches /\ 0 \in 0 .. TIMEOUT + 1
  BY MatrixAssumption DEF Init, Switches
<1>2. queue \in Seq(Events) /\ Len(queue) <= queue_size
  BY MatrixAssumption DEF Init
<1>3. NoEvents \in [Events -> Nat]
  BY DEF NoEvents
<1>4. contact \in [Switches -> BOOLEAN] /\ age \in [Switches -> 0 .. TIMEOUT + 1]
  BY <1>1 DEF Init
<1>5. TypeOK
  BY EventIs, <1>1, <1>2, <1>3, <1>4 DEF Init, TypeOK
<1>6. OneAtATime
  BY DEF Init, OneAtATime
<1> QED BY <1>5, <1>6 DEF CoresInv

LEMMA NextSwitchIs ==
  ASSUME at \in Switches, NextSwitch
  PROVE  at' \in Switches /\ scan' \in {"handle", "read"}
  BY MatrixAssumption DEF NextSwitch, Switches

(* The scan: what it reads, and what it does with a change. *)
LEMMA ScanCores == ASSUME CoresInv, ReadSame \/ ReadChange PROVE CoresInv'
<1>1. CASE ReadSame
  BY <1>1, NextSwitchIs DEF CoresInv, TypeOK, OneAtATime, ReadSame, takeVars, mailbox
<1>2. CASE ReadChange
  <2>1. contact[at] \in BOOLEAN
    BY DEF CoresInv, TypeOK
  <2>2. event' \in Events
    BY <1>2, <2>1, ActionIs DEF CoresInv, TypeOK, ReadChange, Events
  <2>3. made' \in [Events -> Nat]
    BY <1>2, <2>2 DEF CoresInv, TypeOK, ReadChange
  <2>4. matrix' \in [Switches -> BOOLEAN] /\ age' \in [Switches -> 0 .. TIMEOUT + 1]
    BY <1>2, <2>1, MatrixAssumption DEF CoresInv, TypeOK, ReadChange
  <2> QED BY <1>2, <2>2, <2>3, <2>4
          DEF CoresInv, TypeOK, OneAtATime, ReadChange, takeVars, mailbox
<1> QED BY <1>1, <1>2

LEMMA OfferCores == ASSUME CoresInv, Queue \/ Fill \/ Raise PROVE CoresInv'
<1>1. CASE Queue
  <2>1. at' \in Switches /\ scan' \in {"handle", "read"}
    BY <1>1, NextSwitchIs DEF CoresInv, TypeOK, Queue
  <2>2. queue' \in Seq(Events) /\ Len(queue') <= queue_size
    <3>1. queue \in Seq(Events) /\ event \in Events /\ Len(queue) \in Nat
      BY LenProperties DEF CoresInv, TypeOK
    <3>2. CASE Room
      <4>1. queue' \in Seq(Events) /\ Len(queue') = Len(queue) + 1
        BY <1>1, <3>1, <3>2, PutIs DEF Queue
      <4> QED BY <3>1, <3>2, <4>1, MatrixAssumption DEF Room
    <3>3. CASE ~Room
      BY <1>1, <3>3 DEF CoresInv, TypeOK, Queue
    <3> QED BY <3>2, <3>3
  <2>3. lost' \in [Events -> Nat]
    <3>1. lost \in [Events -> Nat] /\ event \in Events
      BY DEF CoresInv, TypeOK
    <3>2. lost' = lost \/ lost' = [lost EXCEPT ![event] = @ + 1]
      BY <1>1 DEF Queue
    <3> QED BY <3>1, <3>2
  <2> QED BY <1>1, <2>1, <2>2, <2>3
          DEF CoresInv, TypeOK, OneAtATime, Queue, takeVars, mailbox
<1>2. CASE Fill
  BY <1>2 DEF CoresInv, TypeOK, OneAtATime, Fill, MailboxFree, takeVars
<1>3. CASE Raise
  BY <1>3, NextSwitchIs DEF CoresInv, TypeOK, OneAtATime, Raise, takeVars
<1> QED BY <1>1, <1>2, <1>3

LEMMA HandleCores ==
  ASSUME CoresInv, HandleNone \/ HandleLast \/ RaiseQueued PROVE CoresInv'
<1>1. CASE HandleNone
  BY <1>1 DEF CoresInv, TypeOK, OneAtATime, HandleNone, takeVars, mailbox
<1>2. CASE HandleLast
  <2>1. queue \in Seq(Events) /\ queue # << >> /\ Len(queue) \in Nat
    BY <1>2, LenProperties DEF CoresInv, TypeOK, HandleLast, Waiting
  <2>2. /\ matrix_event' \in Events
        /\ queue' \in Seq(Events) /\ Len(queue') = Len(queue) - 1
    BY <1>2, <2>1, PopIs DEF HandleLast, Popped
  <2>3. Len(queue') <= queue_size
    <3>1. Len(queue) <= queue_size
      BY DEF CoresInv, TypeOK
    <3> QED BY <2>1, <2>2, <3>1, MatrixAssumption
  <2> QED BY <1>2, <2>2, <2>3
          DEF CoresInv, TypeOK, OneAtATime, HandleLast, MailboxFree, takeVars
<1>3. CASE RaiseQueued
  BY <1>3 DEF CoresInv, TypeOK, OneAtATime, RaiseQueued, takeVars
<1> QED BY <1>1, <1>2, <1>3

LEMMA TakeCores == ASSUME CoresInv, Taker PROVE CoresInv'
<1>1. CASE Available
  BY <1>1 DEF CoresInv, TypeOK, OneAtATime, Available, scanVars, mailbox
<1>2. CASE Copy
  BY <1>2 DEF CoresInv, TypeOK, OneAtATime, Copy, scanVars, mailbox
<1>3. CASE Clear
  <2>1. got' \in [Events -> Nat]
    <3>1. got \in [Events -> Nat] /\ taken \in Events
      BY DEF CoresInv, TypeOK
    <3>2. got' = [got EXCEPT ![taken] = @ + 1]
      BY <1>3 DEF Clear
    <3> QED BY <3>1, <3>2
  <2>2. scan \notin {"raise", "raise queued"}
    BY <1>3 DEF CoresInv, OneAtATime, Clear
  <2> QED BY <1>3, <2>1, <2>2 DEF CoresInv, TypeOK, OneAtATime, Clear, scanVars
<1> QED BY <1>1, <1>2, <1>3 DEF Taker

LEMMA EnvCores == ASSUME CoresInv, Contact \/ Tick PROVE CoresInv'
<1>1. CASE Contact
  BY <1>1 DEF CoresInv, TypeOK, OneAtATime, Contact, scanVars, takeVars, mailbox
<1>2. CASE Tick
  <2>1. \A n \in 0 .. TIMEOUT + 1 : (IF n > TIMEOUT THEN n ELSE n + 1) \in 0 .. TIMEOUT + 1
    BY MatrixAssumption
  <2>2. age' \in [Switches -> 0 .. TIMEOUT + 1]
    BY <1>2, <2>1 DEF CoresInv, TypeOK, Tick
  <2> QED BY <1>2, <2>2 DEF CoresInv, TypeOK, OneAtATime, Tick, scanVars, takeVars, mailbox
<1> QED BY <1>1, <1>2

LEMMA NextCores == CoresInv /\ [Next]_vars => CoresInv'
<1> SUFFICES ASSUME CoresInv, [Next]_vars PROVE CoresInv'
  OBVIOUS
<1>1. CASE Scanner
  BY <1>1, ScanCores, OfferCores, HandleCores DEF Scanner
<1>2. CASE Taker
  BY <1>2, TakeCores
<1>3. CASE Contact \/ Tick
  BY <1>3, EnvCores
<1>4. CASE UNCHANGED vars
  BY <1>4 DEF CoresInv, TypeOK, OneAtATime, vars, scanVars, takeVars, mailbox
<1> QED BY <1>1, <1>2, <1>3, <1>4 DEF Next

LEMMA CoresInvHolds == Spec => []CoresInv
  BY InitCores, NextCores, PTL DEF Spec

(* The variables of the two cores keep their types, and the queue its      *)
(* bound (monitor_matrix.c:10-19, 34-39), however fast either core is.     *)
THEOREM MatrixTypeCorrect == Spec => []TypeOK
  <1>1. CoresInv => TypeOK
    BY DEF CoresInv
  <1> QED BY <1>1, CoresInvHolds, PTL

(* The flag alone keeps the cores apart (monitor_matrix.c:25-32, 42-48,    *)
(* 63-67): while the mailbox is being filled the other core does not       *)
(* copy, and what it has copied is what the mailbox holds.                 *)
THEOREM OneAtATimeCorrect == Spec => []OneAtATime
  <1>1. CoresInv => OneAtATime
    BY DEF CoresInv
  <1> QED BY <1>1, CoresInvHolds, PTL

-----------------------------------------------------------------------------
(* Conserved counts the events of a queue; one more at its end counts one. *)
Times(q, e) == Cardinality({i \in DOMAIN q : q[i] = e})

LEMMA TimesIs == ASSUME NEW S, NEW q \in Seq(S), NEW e PROVE Times(q, e) \in Nat
<1> DEFINE W == {i \in DOMAIN q : q[i] = e}
<1>1. Len(q) \in Nat /\ DOMAIN q = 1 .. Len(q)
  BY LenProperties
<1>2. IsFiniteSet(1 .. Len(q)) /\ W \subseteq 1 .. Len(q)
  BY <1>1, FS_Interval
<1>3. IsFiniteSet(W)
  BY <1>2, FS_Subset
<1> QED BY <1>3, FS_CardinalityType DEF Times

LEMMA OneMore ==
  ASSUME NEW S, NEW p \in Seq(S), NEW q \in Seq(S), NEW e,
         Len(q) = Len(p) + 1, \A i \in 1 .. Len(p) : q[i] = p[i]
  PROVE  Times(q, e) = Times(p, e) + One(q[Len(q)] = e)
<1> DEFINE P == {i \in DOMAIN p : p[i] = e}
           Q == {i \in DOMAIN q : q[i] = e}
           n == Len(p)
<1>1. n \in Nat /\ DOMAIN p = 1 .. n /\ DOMAIN q = 1 .. n + 1
  BY LenProperties
<1>2. 1 .. n + 1 = (1 .. n) \cup {n + 1} /\ n + 1 \notin 1 .. n
  BY <1>1
<1>3. IsFiniteSet(P)
  <2>1. IsFiniteSet(1 .. n) /\ P \subseteq 1 .. n
    BY <1>1, FS_Interval
  <2> QED BY <2>1, FS_Subset
<1>4. Cardinality(P) \in Nat
  BY <1>3, FS_CardinalityType
<1>5. CASE q[n + 1] = e
  <2>1. Q = P \cup {n + 1} /\ n + 1 \notin P
    BY <1>1, <1>2, <1>5
  <2>2. Cardinality(Q) = Cardinality(P) + 1
    BY <1>3, <2>1, FS_AddElement
  <2> QED BY <1>5, <2>2 DEF Times, One
<1>6. CASE q[n + 1] # e
  <2>1. Q = P
    BY <1>1, <1>2, <1>6
  <2>2. One(q[Len(q)] = e) = 0
    BY <1>6 DEF One
  <2>3. Times(q, e) = Times(p, e) /\ Times(p, e) \in Nat
    BY <1>4, <2>1 DEF Times
  <2> QED BY <2>2, <2>3
<1> QED BY <1>5, <1>6

LEMMA TimesPut ==
  ASSUME NEW S, NEW q \in Seq(S), NEW f \in S, NEW e
  PROVE  Times(Append(q, f), e) = Times(q, e) + One(f = e)
<1>1. /\ Append(q, f) \in Seq(S) /\ Len(Append(q, f)) = Len(q) + 1
      /\ \A i \in 1 .. Len(q) : Append(q, f)[i] = q[i]
      /\ Append(q, f)[Len(q) + 1] = f
  BY AppendProperties
<1>2. PICK r \in Seq(S) : r = Append(q, f)
  BY <1>1
<1>3. Len(r) = Len(q) + 1 /\ \A i \in 1 .. Len(q) : r[i] = q[i]
  BY <1>1, <1>2
<1>4. Times(r, e) = Times(q, e) + One(r[Len(r)] = e)
  BY <1>3, OneMore
<1>5. r[Len(r)] = f
  BY <1>1, <1>2, <1>3
<1> QED BY <1>2, <1>4, <1>5 DEF One

LEMMA TimesPop ==
  ASSUME NEW S, NEW q \in Seq(S), q # << >>, NEW e
  PROVE  Times(q, e) = Times(SubSeq(q, 1, Len(q) - 1), e) + One(q[Len(q)] = e)
<1> DEFINE p == SubSeq(q, 1, Len(q) - 1)
<1>1. p \in Seq(S) /\ Len(p) = Len(q) - 1 /\ Len(q) \in Nat
  BY PopIs, LenProperties
<1>2. Len(q) = Len(p) + 1
  BY <1>1
<1>3. \A i \in 1 .. Len(p) : q[i] = p[i]
  BY <1>1
<1>4. PICK r \in Seq(S) : r = p
  BY <1>1
<1>5. Len(q) = Len(r) + 1 /\ \A i \in 1 .. Len(r) : q[i] = r[i]
  BY <1>2, <1>3, <1>4
<1>6. Times(q, e) = Times(r, e) + One(q[Len(q)] = e)
  BY <1>5, OneMore
<1> QED BY <1>4, <1>6

-----------------------------------------------------------------------------
(* The account of one event, and the places where it may be on its way.    *)
InHand(e) == scan = "offer" /\ event = e
Account(e) ==
  made[e] = got[e] + lost[e] + Times(queue, e) + One(InMailbox(e)) + One(InHand(e))

LEMMA AccountIs == Conserved <=> \A e \in Events : Account(e)
  BY DEF Conserved, Account, Queued, Times, InHand

LEMMA Numbers ==
  ASSUME CoresInv, NEW e \in Events
  PROVE  /\ made[e] \in Nat /\ got[e] \in Nat /\ lost[e] \in Nat
         /\ Times(queue, e) \in Nat
<1>1. queue \in Seq(Events)
  BY DEF CoresInv, TypeOK
<1> QED BY <1>1, TimesIs DEF CoresInv, TypeOK

(* A step that leaves the history and the queue alone.                     *)
LEMMA SameAccount ==
  ASSUME CoresInv, NEW e \in Events, Account(e), UNCHANGED << made, got, lost, queue >>,
         One(InMailbox(e))' + One(InHand(e))' = One(InMailbox(e)) + One(InHand(e))
  PROVE  Account(e)'
<1>1. One(InMailbox(e)) \in Nat /\ One(InHand(e)) \in Nat
  BY DEF One
<1>2. One(InMailbox(e))' \in Nat /\ One(InHand(e))' \in Nat
  BY DEF One
<1>3. Times(queue, e)' = Times(queue, e)
  OBVIOUS
<1> QED BY <1>1, <1>2, <1>3, Numbers DEF Account

LEMMA StillAccounts ==
  ASSUME CoresInv, NEW e \in Events, Account(e),
         \/ ReadSame \/ Fill \/ Raise \/ HandleNone \/ RaiseQueued
         \/ Available \/ Copy \/ Contact \/ Tick \/ UNCHANGED vars
  PROVE  Account(e)'
<1>1. UNCHANGED << made, got, lost, queue >>
  BY DEF ReadSame, Fill, Raise, HandleNone, RaiseQueued, Available, Copy, Contact, Tick,
         vars, scanVars, takeVars
<1>2. CASE Fill
  <2>1. One(InMailbox(e)) = 0 /\ One(InHand(e)) = One(event = e)
    BY <1>2 DEF Fill, MailboxFree, InMailbox, InHand, One
  <2>2. One(InMailbox(e))' = One(event = e) /\ One(InHand(e))' = 0
    BY <1>2 DEF Fill, InMailbox, InHand, One
  <2>3. One(event = e) \in Nat
    BY DEF One
  <2> QED BY <1>1, <2>1, <2>2, <2>3, SameAccount
<1>3. CASE Raise \/ RaiseQueued
  <2>1. InMailbox(e)' <=> InMailbox(e)
    BY <1>3 DEF Raise, RaiseQueued, InMailbox
  <2>2. ~InHand(e) /\ ~InHand(e)'
    BY <1>3 DEF Raise, RaiseQueued, NextSwitch, InHand
  <2> QED BY <1>1, <2>1, <2>2, SameAccount DEF One
<1>4. CASE ReadSame \/ HandleNone
  <2>1. InMailbox(e)' <=> InMailbox(e)
    <3>1. UNCHANGED << matrix_event, present >>
      BY <1>4 DEF ReadSame, HandleNone, mailbox
    <3>2. scan \in {"read", "handle"} /\ scan' \in {"read", "handle"}
      BY <1>4 DEF ReadSame, HandleNone, NextSwitch
    <3> QED BY <3>1, <3>2 DEF InMailbox
  <2>2. ~InHand(e) /\ ~InHand(e)'
    BY <1>4 DEF ReadSame, HandleNone, NextSwitch, InHand
  <2> QED BY <1>1, <2>1, <2>2, SameAccount DEF One
<1>5. CASE Available \/ Copy \/ Contact \/ Tick \/ UNCHANGED vars
  <2>1. InMailbox(e)' <=> InMailbox(e)
    <3>1. UNCHANGED << matrix_event, present, scan >>
      BY <1>5 DEF Available, Copy, Contact, Tick, vars, mailbox, scanVars
    <3> QED BY <3>1 DEF InMailbox
  <2>2. InHand(e)' <=> InHand(e)
    BY <1>5 DEF Available, Copy, Contact, Tick, vars, InHand, scanVars
  <2> QED BY <1>1, <2>1, <2>2, SameAccount DEF One
<1> QED BY <1>2, <1>3, <1>4, <1>5

LEMMA ReadAccounts ==
  ASSUME CoresInv, NEW e \in Events, Account(e), ReadChange PROVE Account(e)'
<1>1. made \in [Events -> Nat] /\ contact[at] \in BOOLEAN /\ at \in Switches
  BY DEF CoresInv, TypeOK
<1>2. event' \in Events
  BY <1>1, ActionIs DEF ReadChange, Events
<1>3. made' = [made EXCEPT ![event'] = made[event'] + 1]
  BY DEF ReadChange
<1>4. made'[e] = made[e] + One(event' = e)
  BY <1>1, <1>2, <1>3 DEF One
<1>5. One(InHand(e)) = 0 /\ One(InHand(e))' = One(event' = e)
  BY DEF ReadChange, InHand, One
<1>6. One(InMailbox(e))' = One(InMailbox(e))
  <2>1. InMailbox(e)' <=> InMailbox(e)
    BY DEF ReadChange, InMailbox, mailbox
  <2> QED BY <2>1 DEF One
<1>7. UNCHANGED << queue, got, lost >>
  BY DEF ReadChange, takeVars
<1>8. One(InMailbox(e)) \in Nat /\ One(event' = e) \in Nat
  BY DEF One
<1> QED BY <1>4, <1>5, <1>6, <1>7, <1>8, Numbers DEF Account

LEMMA QueueAccounts ==
  ASSUME CoresInv, NEW e \in Events, Account(e), Queue PROVE Account(e)'
<1>1. event \in Events /\ queue \in Seq(Events) /\ lost \in [Events -> Nat]
  BY DEF CoresInv, TypeOK
<1>2. lost'[e] + Times(queue, e)' = lost[e] + Times(queue, e) + One(event = e)
  <2>1. CASE Room
    <3>1. queue' = Append(queue, event) /\ lost' = lost
      BY <2>1 DEF Queue
    <3>2. Times(queue', e) = Times(queue, e) + One(event = e)
      BY <1>1, <3>1, TimesPut
    <3>3. One(event = e) \in Nat
      BY DEF One
    <3> QED BY <3>1, <3>2, <3>3, Numbers
  <2>2. CASE ~Room
    <3>1. queue' = queue /\ lost' = [lost EXCEPT ![event] = lost[event] + 1]
      BY <2>2 DEF Queue
    <3>2. lost'[e] = lost[e] + One(event = e)
      BY <1>1, <3>1 DEF One
    <3>3. One(event = e) \in Nat
      BY DEF One
    <3> QED BY <3>1, <3>2, <3>3, Numbers
  <2> QED BY <2>1, <2>2
<1>3. One(InHand(e)) = One(event = e) /\ One(InHand(e))' = 0
  BY DEF Queue, NextSwitch, InHand, One
<1>4. One(InMailbox(e))' = One(InMailbox(e))
  <2>1. InMailbox(e)' <=> InMailbox(e)
    BY DEF Queue, NextSwitch, MailboxFree, InMailbox, mailbox
  <2> QED BY <2>1 DEF One
<1>5. UNCHANGED << made, got >>
  BY DEF Queue, takeVars
<1>6. One(InMailbox(e)) \in Nat /\ One(event = e) \in Nat
  BY DEF One
<1>7. lost'[e] \in Nat /\ Times(queue, e)' \in Nat
  <2>1. CoresInv'
    BY OfferCores
  <2>2. queue' \in Seq(Events) /\ lost' \in [Events -> Nat]
    BY <2>1 DEF CoresInv, TypeOK
  <2> QED BY <2>2, TimesIs
<1> QED BY <1>2, <1>3, <1>4, <1>5, <1>6, <1>7, Numbers DEF Account

LEMMA HandleAccounts ==
  ASSUME CoresInv, NEW e \in Events, Account(e), HandleLast PROVE Account(e)'
<1>1. queue \in Seq(Events) /\ queue # << >>
  BY DEF CoresInv, TypeOK, HandleLast, Waiting
<1>2. Times(queue, e) = Times(queue, e)' + One(matrix_event' = e)
  <2>1. queue' = SubSeq(queue, 1, Len(queue) - 1) /\ matrix_event' = queue[Len(queue)]
    BY DEF HandleLast, Popped
  <2> QED BY <1>1, <2>1, TimesPop
<1>3. One(InMailbox(e)) = 0 /\ One(InMailbox(e))' = One(matrix_event' = e)
  BY DEF HandleLast, MailboxFree, InMailbox, One
<1>4. One(InHand(e)) = 0 /\ One(InHand(e))' = 0
  BY DEF HandleLast, InHand, One
<1>5. UNCHANGED << made, got, lost >>
  BY DEF HandleLast, takeVars
<1>6. One(matrix_event' = e) \in Nat
  BY DEF One
<1>7. Times(queue, e)' \in Nat
  <2>1. queue' \in Seq(Events)
    BY HandleCores DEF CoresInv, TypeOK
  <2> QED BY <2>1, TimesIs
<1> QED BY <1>2, <1>3, <1>4, <1>5, <1>6, <1>7, Numbers DEF Account

LEMMA ClearAccounts ==
  ASSUME CoresInv, NEW e \in Events, Account(e), Clear PROVE Account(e)'
<1>1. /\ got \in [Events -> Nat] /\ taken \in Events
      /\ present /\ taken = matrix_event /\ scan \notin {"raise", "raise queued"}
  BY DEF CoresInv, TypeOK, OneAtATime, Clear
<1>2. got' = [got EXCEPT ![taken] = got[taken] + 1]
  BY DEF Clear
<1>3. got'[e] = got[e] + One(taken = e)
  <2>1. got \in [Events -> Nat] /\ taken \in Events
    BY <1>1
  <2> QED BY <2>1, <1>2 DEF One
<1>4. One(InMailbox(e)) = One(taken = e) /\ One(InMailbox(e))' = 0
  BY <1>1 DEF Clear, InMailbox, One, scanVars
<1>5. One(InHand(e))' = One(InHand(e)) /\ UNCHANGED << made, lost, queue >>
  BY DEF Clear, InHand, One, scanVars
<1>6. One(taken = e) \in Nat /\ One(InHand(e)) \in Nat
  BY DEF One
<1> QED BY <1>3, <1>4, <1>5, <1>6, Numbers DEF Account

LEMMA NextAccounts ==
  ASSUME CoresInv, NEW e \in Events, Account(e), [Next]_vars PROVE Account(e)'
  BY StillAccounts, ReadAccounts, QueueAccounts, HandleAccounts, ClearAccounts
  DEF Next, Scanner, Taker

LEMMA InitAccounts == ASSUME Init, NEW e \in Events PROVE Account(e)
<1>1. made[e] = 0 /\ got[e] = 0 /\ lost[e] = 0
  BY DEF Init, NoEvents
<1>2. Times(queue, e) = 0
  <2>1. {i \in DOMAIN << >> : << >>[i] = e} = {}
    OBVIOUS
  <2> QED BY <2>1, FS_EmptySet DEF Init, Times
<1>3. One(InMailbox(e)) = 0 /\ One(InHand(e)) = 0
  BY DEF Init, InMailbox, InHand, One
<1> QED BY <1>1, <1>2, <1>3 DEF Account

(* Every event that the debounce lets through is delivered once, still on  *)
(* its way or, if it found the queue full, dropped (monitor_matrix.c:25-   *)
(* 69), whatever the interleaving of the cores and the size of the queue.  *)
THEOREM ConservedCorrect == Spec => []Conserved
<1>1. Init => Conserved
  BY InitAccounts, AccountIs
<1>2. CoresInv /\ Conserved /\ [Next]_vars => Conserved'
  <2> SUFFICES ASSUME CoresInv, Conserved, [Next]_vars PROVE Conserved'
    OBVIOUS
  <2>1. ASSUME NEW e \in Events PROVE Account(e)'
    BY AccountIs, NextAccounts
  <2>2. Conserved' <=> \A e \in Events : Account(e)'
    BY DEF Conserved, Account, Queued, Times, InHand
  <2> QED BY <2>1, <2>2
<1> QED BY <1>1, <1>2, CoresInvHolds, PTL DEF Spec

-----------------------------------------------------------------------------
(* The keys of the events in a queue. *)
KeysOf(q) == {q[i].key : i \in 1 .. Len(q)}

(* They are all different, and each event is the last of its switch.       *)
Different(q) == \A i, j \in 1 .. Len(q) : q[i].key = q[j].key => i = j
IsLast(e, m) == e.action = ActionOf(m[e.key])

LEMMA KeysPut ==
  ASSUME NEW q \in Seq(Events), NEW e \in Events, Different(q), e.key \notin KeysOf(q)
  PROVE  /\ KeysOf(Append(q, e)) = KeysOf(q) \cup {e.key}
         /\ Different(Append(q, e))
         /\ \A i \in 1 .. Len(Append(q, e)) :
              \/ Append(q, e)[i] = e
              \/ \E j \in 1 .. Len(q) : Append(q, e)[i] = q[j]
<1>1. /\ Append(q, e) \in Seq(Events) /\ Len(Append(q, e)) = Len(q) + 1
      /\ \A i \in 1 .. Len(q) : Append(q, e)[i] = q[i]
      /\ Append(q, e)[Len(q) + 1] = e
  BY AppendProperties
<1>2. PICK r : r = Append(q, e)
  OBVIOUS
<1>3. /\ Len(q) \in Nat /\ Len(r) = Len(q) + 1 /\ r[Len(q) + 1] = e
      /\ \A i \in 1 .. Len(q) : r[i] = q[i]
  BY <1>1, <1>2, LenProperties
<1>4. 1 .. Len(r) = (1 .. Len(q)) \cup {Len(q) + 1} /\ Len(q) + 1 \notin 1 .. Len(q)
  BY <1>3
<1>5. KeysOf(r) = KeysOf(q) \cup {e.key}
  BY <1>3, <1>4 DEF KeysOf
<1>6. Different(r)
  BY <1>3, <1>4 DEF KeysOf, Different
<1>7. \A i \in 1 .. Len(r) : r[i] = e \/ \E j \in 1 .. Len(q) : r[i] = q[j]
  BY <1>3, <1>4
<1> QED BY <1>2, <1>5, <1>6, <1>7

(* q is p with e behind it. *)
Extends(q, p, e) ==
  /\ KeysOf(q) = KeysOf(p) \cup {e.key} /\ e.key \notin KeysOf(p) /\ Different(p)
  /\ \A i \in 1 .. Len(p) : \E j \in 1 .. Len(q) : p[i] = q[j]
  /\ \E j \in 1 .. Len(q) : e = q[j]

LEMMA KeysPop ==
  ASSUME NEW q \in Seq(Events), Different(q), q # << >>
  PROVE  Extends(q, SubSeq(q, 1, Len(q) - 1), q[Len(q)])
<1>0. PICK p, e : p = SubSeq(q, 1, Len(q) - 1) /\ e = q[Len(q)]
  OBVIOUS
<1>1. Len(q) \in Nat /\ Len(q) # 0
  BY EmptySeq, LenProperties
<1>2. p \in Seq(Events) /\ Len(p) = Len(q) - 1
  BY <1>0, PopIs
<1>3. \A i \in 1 .. Len(p) : p[i] = q[i]
  BY <1>0, <1>1, <1>2
<1>4. 1 .. Len(q) = (1 .. Len(p)) \cup {Len(q)} /\ Len(q) \notin 1 .. Len(p)
  BY <1>1, <1>2
<1>5. KeysOf(q) = KeysOf(p) \cup {e.key}
  BY <1>0, <1>3, <1>4 DEF KeysOf
<1>6. e.key \notin KeysOf(p)
  <2> SUFFICES ASSUME NEW i \in 1 .. Len(p), p[i].key = e.key PROVE FALSE
    BY DEF KeysOf
  <2>1. q[i].key = q[Len(q)].key /\ i \in 1 .. Len(q) /\ Len(q) \in 1 .. Len(q)
    BY <1>0, <1>3, <1>4
  <2>2. i = Len(q)
    BY <2>1 DEF Different
  <2> QED BY <1>4, <2>2
<1>7. Different(p)
  BY <1>3, <1>4 DEF Different
<1>8. \A i \in 1 .. Len(p) : \E j \in 1 .. Len(q) : p[i] = q[j]
  BY <1>3, <1>4
<1>9. \E j \in 1 .. Len(q) : e = q[j]
  BY <1>0, <1>4
<1>10. Extends(q, p, e)
  BY <1>5, <1>6, <1>7, <1>8, <1>9 DEF Extends
<1> QED BY <1>0, <1>10

LEMMA SwitchesFinite == IsFiniteSet(Switches) /\ Cardinality(Switches) = N /\ N \in Nat \ {0}
<1>1. N \in Nat \ {0} /\ 1 \in Int /\ N \in Int
  BY MatrixAssumption
<1>2. IsFiniteSet(1 .. N) /\ Cardinality(1 .. N) = IF 1 > N THEN 0 ELSE N - 1 + 1
  BY <1>1, FS_Interval
<1> QED BY <1>1, <1>2 DEF Switches

(* Different keys among those of R leave room for two more. *)
LEMMA RoomIs ==
  ASSUME NEW R, R \subseteq Switches, NEW q \in Seq(Events), Different(q), KeysOf(q) \subseteq R,
         NEW j \in R, NEW k \in R, j # k, j \notin KeysOf(q), k \notin KeysOf(q)
  PROVE  Len(q) + 2 <= Cardinality(R)
<1> DEFINE f == [i \in 1 .. Len(q) |-> q[i].key]
           K == KeysOf(q)
<1>1. Len(q) \in Nat /\ \A i \in 1 .. Len(q) : q[i] \in Events
  BY LenProperties, ElementOfSeq
<1>2. IsFiniteSet(R) /\ Cardinality(R) \in Nat
  BY SwitchesFinite, FS_Subset, FS_CardinalityType
<1>3. IsFiniteSet(K)
  BY <1>2, FS_Subset
<1>4. f \in Injection(1 .. Len(q), K) /\ f \in Surjection(1 .. Len(q), K)
  BY DEF Injection, Surjection, IsInjective, KeysOf, Different
<1>5. Cardinality(1 .. Len(q)) = Cardinality(K)
  <2> HIDE DEF f
  <2> QED BY <1>3, <1>4, FS_Injection
<1>6. Cardinality(1 .. Len(q)) = Len(q)
  <2>1. Len(q) \in Int /\ 1 \in Int
    BY <1>1
  <2>2. Cardinality(1 .. Len(q)) = IF 1 > Len(q) THEN 0 ELSE Len(q) - 1 + 1
    BY <2>1, FS_Interval
  <2> QED BY <1>1, <2>2
<1> HIDE DEF K, f
<1>7. j \notin K /\ k \notin K \cup {j}
  BY DEF K
<1>8. IsFiniteSet(K \cup {j}) /\ Cardinality(K \cup {j}) = Len(q) + 1
  BY <1>3, <1>5, <1>6, <1>7, FS_AddElement
<1>9. IsFiniteSet((K \cup {j}) \cup {k}) /\ Cardinality((K \cup {j}) \cup {k}) = Len(q) + 1 + 1
  BY <1>7, <1>8, FS_AddElement
<1>10. (K \cup {j}) \cup {k} \subseteq R
  BY DEF K
<1>11. Cardinality((K \cup {j}) \cup {k}) <= Cardinality(R)
  BY <1>2, <1>10, FS_Subset
<1> QED BY <1>1, <1>2, <1>9, <1>11

-----------------------------------------------------------------------------
(* Time: what n events take. *)
Served(n) == n * (LATE + 1)

LEMMA ServedIs ==
  /\ Served(0) = 0
  /\ \A n \in Nat : Served(n) \in Nat /\ Served(n + 1) = Served(n) + LATE + 1
  /\ \A n \in Nat : n < FINGERS => Served(n) + LATE + 1 <= TIMEOUT
<1>1. LATE \in Nat /\ FINGERS \in Nat /\ TIMEOUT \in Nat /\ TIMEOUT >= FINGERS * (LATE + 1)
  BY TimelyAssumption, MatrixAssumption
<1>2. PICK s \in Nat : s = LATE + 1
  BY <1>1
<1>3. 0 * s = 0
  BY <1>2
<1>4. \A n \in Nat : n * s \in Nat /\ (n + 1) * s = n * s + s
  BY <1>2
<1>5. \A n \in Nat : n < FINGERS => n * s + s <= FINGERS * s
  <2> SUFFICES ASSUME NEW n \in Nat, n < FINGERS PROVE n * s + s <= FINGERS * s
    OBVIOUS
  <2>1. PICK d \in Nat : FINGERS = n + 1 + d
    <3>1. FINGERS - (n + 1) \in Nat /\ FINGERS = n + 1 + (FINGERS - (n + 1))
      BY <1>1
    <3> QED BY <3>1
  <2>2. FINGERS * s = n * s + s + d * s /\ d * s \in Nat /\ n * s \in Nat
    BY <1>2, <2>1
  <2> QED BY <1>2, <2>2
<1>6. \A n \in Nat : Served(n) = n * s /\ TIMEOUT >= FINGERS * s
  BY <1>1, <1>2 DEF Served
<1>7. \A n \in Nat : n < FINGERS => Served(n) + s <= TIMEOUT
  <2> SUFFICES ASSUME NEW n \in Nat, n < FINGERS PROVE Served(n) + s <= TIMEOUT
    OBVIOUS
  <2>1. /\ n * s + s <= FINGERS * s /\ n * s \in Nat /\ FINGERS * s \in Nat
        /\ Served(n) = n * s /\ FINGERS * s <= TIMEOUT
    BY <1>1, <1>4, <1>5, <1>6
  <2> QED BY <1>1, <1>2, <2>1
<1>8. \A n \in Nat : Served(n) \in Nat /\ Served(n + 1) = Served(n) + s
  <2> TAKE n \in Nat
  <2>1. Served(n) = n * s /\ Served(n + 1) = (n + 1) * s
    BY <1>6
  <2> QED BY <1>4, <2>1
<1>9. Served(0) = 0
  BY <1>3, <1>6
<1>10. \A x \in Nat : x + s = x + LATE + 1
  BY <1>1, <1>2
<1> HIDE DEF Served
<1> QED BY <1>2, <1>7, <1>8, <1>9, <1>10

-----------------------------------------------------------------------------
(* A switch's presses and releases alternate as the debounce lets them     *)
(* through.                                                                *)
Down(k) == [key |-> k, action |-> "down"]
Up(k)   == [key |-> k, action |-> "up"]
Detected == \A k \in Switches : made[Down(k)] = made[Up(k)] + One(matrix[k])

LEMMA TwoEvents ==
  ASSUME NEW k \in Switches
  PROVE  /\ Down(k) \in Events /\ Up(k) \in Events /\ Down(k) # Up(k)
         /\ Down(k).key = k /\ Down(k).action = "down" /\ Up(k).key = k /\ Up(k).action = "up"
  BY DEF Down, Up, Events, Actions

LEMMA InitDetected == Init => Detected
<1> SUFFICES ASSUME Init, NEW k \in Switches PROVE made[Down(k)] = made[Up(k)] + One(matrix[k])
  BY DEF Detected
<1>1. made[Down(k)] = 0 /\ made[Up(k)] = 0
  BY TwoEvents DEF Init, NoEvents
<1>2. matrix[k] = FALSE
  BY DEF Init
<1> QED BY <1>1, <1>2 DEF One

LEMMA NextDetected == ASSUME CoresInv, Detected, [Next]_vars PROVE Detected'
<1>1. CASE ReadChange
  <2> SUFFICES ASSUME NEW k \in Switches PROVE made'[Down(k)] = made'[Up(k)] + One(matrix'[k])
    BY DEF Detected
  <2>1. /\ at \in Switches /\ contact[at] \in BOOLEAN /\ matrix \in [Switches -> BOOLEAN]
        /\ made \in [Events -> Nat]
    BY DEF CoresInv, TypeOK
  <2>2. /\ event' = [key |-> at, action |-> ActionOf(contact[at])]
        /\ made' = [made EXCEPT ![event'] = made[event'] + 1]
        /\ matrix' = [matrix EXCEPT ![at] = contact[at]] /\ contact[at] # matrix[at]
    BY <1>1 DEF ReadChange, Changed
  <2>3. made[Down(k)] = made[Up(k)] + One(matrix[k])
    BY DEF Detected
  <2>4. /\ Down(k) \in Events /\ Up(k) \in Events /\ Down(k) # Up(k)
        /\ made[Down(k)] \in Nat /\ made[Up(k)] \in Nat
    BY <2>1, TwoEvents
  <2>5. CASE k # at
    <3>1. event' # Down(k) /\ event' # Up(k)
      BY <2>2, <2>5, TwoEvents
    <3>2. made'[Down(k)] = made[Down(k)] /\ made'[Up(k)] = made[Up(k)] /\ matrix'[k] = matrix[k]
      BY <2>1, <2>2, <2>4, <2>5, <3>1
    <3> QED BY <2>3, <3>2
  <2>6. CASE k = at /\ contact[at] = TRUE
    <3>1. event' = Down(k)
      BY <2>2, <2>6 DEF ActionOf, Down
    <3>2. made'[Down(k)] = made[Down(k)] + 1 /\ made'[Up(k)] = made[Up(k)]
      BY <2>1, <2>2, <2>4, <3>1
    <3>3. matrix'[k] = TRUE /\ matrix[k] = FALSE
      BY <2>1, <2>2, <2>6
    <3> QED BY <2>3, <2>4, <3>2, <3>3 DEF One
  <2>7. CASE k = at /\ contact[at] = FALSE
    <3>1. event' = Up(k)
      BY <2>2, <2>7 DEF ActionOf, Up
    <3>2. made'[Down(k)] = made[Down(k)] /\ made'[Up(k)] = made[Up(k)] + 1
      BY <2>1, <2>2, <2>4, <3>1
    <3>3. matrix'[k] = FALSE /\ matrix[k] = TRUE
      BY <2>1, <2>2, <2>7
    <3> QED BY <2>3, <2>4, <3>2, <3>3 DEF One
  <2> QED BY <2>1, <2>5, <2>6, <2>7
<1>2. CASE ~ReadChange
  <2>1. UNCHANGED << made, matrix >>
    BY <1>2 DEF Next, Scanner, ReadSame, Queue, Fill, Raise, HandleNone, HandleLast, RaiseQueued,
                Taker, Available, Copy, Clear, Contact, Tick, vars, scanVars
  <2> QED BY <2>1 DEF Detected
<1> QED BY <1>1, <1>2

-----------------------------------------------------------------------------
(* The events on their way, by the switches they are about: in the queue,  *)
(* in the scanning core's hand, in the mailbox.                            *)
Boxed    == present \/ scan \in {"raise", "raise queued"}
HandKeys == IF scan = "offer" THEN {event.key} ELSE {}
BoxKeys  == IF Boxed THEN {matrix_event.key} ELSE {}
OnTheWay == KeysOf(queue) \cup HandKeys \cup BoxKeys

(* At most one of each switch, and it is the last one.                     *)
Apart ==
  /\ Different(queue)
  /\ KeysOf(queue) \cap (HandKeys \cup BoxKeys) = {} /\ HandKeys \cap BoxKeys = {}
Lasts ==
  /\ \A i \in 1 .. Len(queue) : IsLast(queue[i], matrix)
  /\ scan = "offer" => IsLast(event, matrix)
  /\ Boxed => IsLast(matrix_event, matrix)

(* What is on its way set out no longer ago than the events taken since    *)
(* then, those of the switches C, and the one in the mailbox have needed.  *)
Waits == waiting \in 0 .. LATE /\ (~present => waiting = 0) /\ scanned \in BOOLEAN
Slack == IF present THEN waiting + 1 ELSE IF scanned THEN 0 ELSE 1
Young(C, a) ==
  /\ C \cap OnTheWay = {}
  /\ \A k \in C \cup OnTheWay : age[k] <= a /\ made[Down(k)] > 0
  /\ a <= TIMEOUT /\ a <= Served(Cardinality(C)) + Slack
Budget == \E C \in SUBSET Switches, a \in Nat : Young(C, a)

Timed == Apart /\ Lasts /\ Waits /\ Budget /\ lost = NoEvents

LEMMA SlackIs == Waits => Slack \in Nat /\ Slack <= LATE + 1
  BY TimelyAssumption DEF Waits, Slack

LEMMA WayIs == CoresInv => OnTheWay \subseteq Switches
<1> SUFFICES ASSUME CoresInv PROVE OnTheWay \subseteq Switches
  OBVIOUS
<1>1. event.key \in Switches /\ matrix_event.key \in Switches
  BY DEF CoresInv, TypeOK, Events
<1>2. \A i \in 1 .. Len(queue) : queue[i].key \in Switches
  <2>1. queue \in Seq(Events)
    BY DEF CoresInv, TypeOK
  <2>2. \A i \in 1 .. Len(queue) : queue[i] \in Events
    BY <2>1, ElementOfSeq
  <2> QED BY <2>2 DEF Events
<1> QED BY <1>1, <1>2 DEF OnTheWay, HandKeys, BoxKeys, KeysOf

(* A step that moves an event along, and one after which nothing but a new *)
(* one is on its way.                                                      *)
LEMMA SameBudget ==
  ASSUME Budget, OnTheWay' = OnTheWay, UNCHANGED << age, made >>,
         Slack \in Nat, Slack' \in Nat, Slack' >= Slack
  PROVE  Budget'
<1>1. PICK C \in SUBSET Switches, a \in Nat : Young(C, a)
  BY DEF Budget
<1>2. Cardinality(C) \in Nat
  BY SwitchesFinite, FS_Subset, FS_CardinalityType
<1>3. PICK s \in Nat : s = Served(Cardinality(C))
  BY <1>2, ServedIs
<1>4. a <= s + Slack' /\ a <= TIMEOUT
  BY <1>1, <1>3 DEF Young
<1>5. C \cap OnTheWay' = {} /\ \A k \in C \cup OnTheWay' : age'[k] <= a /\ made'[Down(k)] > 0
  BY <1>1 DEF Young
<1> QED BY <1>3, <1>4, <1>5 DEF Budget, Young

LEMMA NewBudget ==
  ASSUME \A k \in OnTheWay' : age'[k] = 0 /\ made'[Down(k)] > 0, Slack' \in Nat
  PROVE  Budget'
<1>1. {} \in SUBSET Switches /\ Cardinality({}) = 0 /\ 0 \in Nat
  BY FS_EmptySet
<1>2. Served(Cardinality({})) = 0
  BY <1>1, ServedIs
<1>3. \A k \in {} \cup OnTheWay' : age'[k] <= 0 /\ made'[Down(k)] > 0
  OBVIOUS
<1>4. 0 <= Served(Cardinality({})) + Slack' /\ 0 <= TIMEOUT
  BY <1>2, MatrixAssumption
<1> QED BY <1>1, <1>3, <1>4 DEF Budget, Young

(* What the timely cores do to the clocks in a step of either of them.     *)
Paced ==
  /\ waiting' = IF present' THEN waiting ELSE 0
  /\ scanned' = (scanned \/ (scan \in {"handle", "raise queued"} /\ scan' = "read"))

LEMMA PacedIs ==
  ASSUME Waits, Paced, present' \in BOOLEAN
  PROVE  /\ Waits' /\ Slack \in Nat /\ Slack' \in Nat
         /\ (present' /\ ~present) \/ (UNCHANGED << present, scanned >>) \/ (present /\ present')
            => Slack' >= Slack
<1>1. LATE \in Nat /\ waiting \in 0 .. LATE /\ (~present => waiting = 0)
  BY TimelyAssumption DEF Waits
<1>2. waiting' = IF present' THEN waiting ELSE 0
  BY DEF Paced
<1>3. Waits'
  <2>1. scanned' \in BOOLEAN
    BY DEF Paced
  <2>2. waiting' \in 0 .. LATE /\ (~present' => waiting' = 0)
    BY <1>1, <1>2
  <2> QED BY <2>1, <2>2 DEF Waits
<1>4. /\ (present => Slack = waiting + 1) /\ (present' => Slack' = waiting' + 1)
      /\ (~present => Slack \in {0, 1}) /\ (~present' => Slack' \in {0, 1})
  BY DEF Slack
<1>5. Slack \in Nat /\ Slack' \in Nat
  <2>1. waiting \in Nat /\ waiting' \in Nat
    BY <1>1, <1>2
  <2> QED BY <1>4, <2>1
<1>6. present' /\ ~present => Slack' >= Slack
  BY <1>1, <1>2, <1>4
<1>7. UNCHANGED << present, scanned >> => Slack' >= Slack
  <2> SUFFICES ASSUME UNCHANGED << present, scanned >> PROVE Slack' >= Slack
    OBVIOUS
  <2>1. waiting' = waiting
    BY <1>1, <1>2
  <2>2. Slack' = Slack
    BY <2>1 DEF Slack
  <2> QED BY <1>5, <2>2
<1>8. present /\ present' => Slack' >= Slack
  BY <1>1, <1>2, <1>4
<1> QED BY <1>3, <1>5, <1>6, <1>7, <1>8

(* A step that leaves every event where it is.                             *)
places == << queue, matrix, event, matrix_event, present, lost >>

LEMMA StillWay ==
  ASSUME Apart, Lasts, UNCHANGED places,
         (scan' = "offer") <=> (scan = "offer"),
         (scan' \in {"raise", "raise queued"}) <=> (scan \in {"raise", "raise queued"})
  PROVE  OnTheWay' = OnTheWay /\ Apart' /\ Lasts'
<1>1. HandKeys' = HandKeys /\ Boxed' = Boxed /\ BoxKeys' = BoxKeys
  BY DEF places, HandKeys, BoxKeys, Boxed
<1>2. KeysOf(queue)' = KeysOf(queue) /\ Different(queue)' = Different(queue)
  BY DEF places, KeysOf, Different
<1>3. OnTheWay' = OnTheWay /\ Apart'
  BY <1>1, <1>2 DEF OnTheWay, Apart
<1>4. Lasts'
  BY <1>1 DEF places, Lasts, IsLast
<1> QED BY <1>3, <1>4

LEMMA StillTimed ==
  ASSUME CoresInv, Timed, Paced,
         ReadSame \/ Available \/ Copy \/ Contact \/ (HandleNone /\ present)
  PROVE  Timed'
<1>1. /\ UNCHANGED places /\ UNCHANGED << age, made >> /\ ((scan' = "offer") <=> (scan = "offer"))
      /\ (scan' \in {"raise", "raise queued"}) <=> (scan \in {"raise", "raise queued"})
  BY DEF ReadSame, Available, Copy, Contact, HandleNone, places, NextSwitch,
         mailbox, scanVars, takeVars
<1>2. present' \in BOOLEAN
  BY <1>1 DEF places, CoresInv, TypeOK
<1>3. OnTheWay' = OnTheWay /\ Apart' /\ Lasts'
  BY <1>1, StillWay DEF Timed
<1>4. UNCHANGED << present, scanned >> \/ (present /\ present')
  <2>1. CASE HandleNone /\ present
    BY <1>1, <2>1 DEF places
  <2>2. CASE ~HandleNone
    <3>1. ~(scan \in {"handle", "raise queued"} /\ scan' = "read")
      BY <2>2 DEF ReadSame, Available, Copy, Contact, NextSwitch, scanVars
    <3>2. scanned' = scanned
      BY <3>1 DEF Paced, Timed, Waits
    <3> QED BY <1>1, <3>2 DEF places
  <2>3. CASE HandleNone /\ ~present
    <3>1. ~(ReadSame \/ Copy \/ Available \/ Contact)
      BY <2>3 DEF HandleNone, ReadSame, Copy, Available, Contact, scanVars
    <3> QED BY <2>3, <3>1
  <2> QED BY <2>1, <2>2, <2>3
<1>5. Waits' /\ Slack \in Nat /\ Slack' \in Nat /\ Slack' >= Slack
  BY <1>2, <1>4, PacedIs DEF Timed
<1>6. Budget'
  BY <1>1, <1>3, <1>5, SameBudget DEF Timed, places
<1> QED BY <1>1, <1>3, <1>5, <1>6 DEF Timed, places

LEMMA IdleTimed == ASSUME CoresInv, Timed, Paced, HandleNone, ~present PROVE Timed'
<1>1. /\ UNCHANGED places /\ scan = "handle" /\ scan' = "read" /\ ~present' /\ queue = << >>
  BY DEF HandleNone, MailboxFree, Waiting, places, mailbox
<1>2. OnTheWay' = OnTheWay /\ Apart' /\ Lasts'
  BY <1>1, StillWay DEF Timed
<1>3. OnTheWay = {}
  BY <1>1 DEF OnTheWay, HandKeys, BoxKeys, Boxed, KeysOf
<1>4. Waits' /\ Slack' \in Nat
  <2>1. present' \in BOOLEAN
    BY <1>1 DEF places, CoresInv, TypeOK
  <2> QED BY <2>1, PacedIs DEF Timed
<1>5. Budget'
  BY <1>2, <1>3, <1>4, NewBudget
<1> QED BY <1>1, <1>2, <1>4, <1>5 DEF Timed, places

(* What is on its way is restless, and so are the switches C.              *)
LEMMA YoungRestless ==
  ASSUME CoresInv, NEW C \in SUBSET Switches, NEW a \in Nat, Young(C, a)
  PROVE  C \cup OnTheWay \subseteq Restless /\ Restless \subseteq Switches
<1>1. C \cup OnTheWay \subseteq Switches
  BY WayIs
<1>2. age \in [Switches -> 0 .. TIMEOUT + 1]
  BY DEF CoresInv, TypeOK
<1>3. ASSUME NEW k \in C \cup OnTheWay PROVE age[k] <= TIMEOUT /\ made[Down(k)] > 0
  <2>1. age[k] <= a /\ a <= TIMEOUT /\ made[Down(k)] > 0
    BY DEF Young
  <2> QED BY <1>1, <1>2, <2>1, MatrixAssumption
<1> QED BY <1>1, <1>3 DEF Restless, Down

(* A change sets out: the debounce has lasted longer than all that is on   *)
(* its way, and the same switch is not among it.                           *)
LEMMA SetsOut ==
  ASSUME CoresInv, ReadChange, NEW C \in SUBSET Switches, NEW a \in Nat, Young(C, a)
  PROVE  at \notin C \cup OnTheWay
<1>1. age[at] > TIMEOUT /\ age[at] \in Nat
  BY MatrixAssumption DEF ReadChange, Changed, CoresInv, TypeOK
<1>2. a <= TIMEOUT
  BY DEF Young
<1>3. ~(age[at] <= a)
  BY <1>1, <1>2, MatrixAssumption
<1> QED BY <1>3 DEF Young

LEMMA ChangeTimed == ASSUME CoresInv, Timed, Detected, Paced, ReadChange PROVE Timed'
<1>1. /\ at \in Switches /\ contact[at] \in BOOLEAN
      /\ matrix \in [Switches -> BOOLEAN] /\ age \in [Switches -> 0 .. TIMEOUT + 1]
  BY DEF CoresInv, TypeOK
<1>2. /\ scan = "read" /\ scan' = "offer" /\ UNCHANGED << queue, matrix_event, present, lost >>
      /\ event'.key = at /\ event'.action = ActionOf(contact[at])
      /\ matrix' = [matrix EXCEPT ![at] = contact[at]] /\ age' = [age EXCEPT ![at] = 0]
  BY DEF ReadChange, mailbox
<1>3. HandKeys = {} /\ HandKeys' = {at} /\ Boxed' = Boxed /\ BoxKeys' = BoxKeys
  BY <1>2 DEF HandKeys, BoxKeys, Boxed
<1>4. KeysOf(queue)' = KeysOf(queue) /\ Different(queue)' = Different(queue)
  BY <1>2 DEF KeysOf, Different
<1>5. OnTheWay' = OnTheWay \cup {at}
  BY <1>3, <1>4 DEF OnTheWay
<1>6. Waits' /\ Slack \in Nat /\ Slack' \in Nat /\ Slack' >= Slack
  <2>1. present' \in BOOLEAN
    BY <1>2 DEF CoresInv, TypeOK
  <2>2. UNCHANGED << present, scanned >>
    BY <1>2 DEF Paced, Timed, Waits
  <2> QED BY <2>1, <2>2, PacedIs DEF Timed
<1>7. at \notin OnTheWay
  <2>1. PICK C \in SUBSET Switches, a \in Nat : Young(C, a)
    BY DEF Timed, Budget
  <2> QED BY <2>1, SetsOut
<1>8. Apart'
  BY <1>3, <1>4, <1>7 DEF Timed, Apart, OnTheWay
<1>9. Lasts'
  <2>1. \A f : f.key \in OnTheWay /\ IsLast(f, matrix) => IsLast(f, matrix')
    <3> SUFFICES ASSUME NEW f, f.key \in OnTheWay, IsLast(f, matrix) PROVE IsLast(f, matrix')
      OBVIOUS
    <3>1. f.key \in Switches /\ f.key # at
      BY <1>7, WayIs
    <3>2. matrix'[f.key] = matrix[f.key]
      BY <1>1, <1>2, <3>1
    <3> QED BY <3>2 DEF IsLast
  <2>2. \A i \in 1 .. Len(queue) : IsLast(queue[i], matrix')
    BY <2>1 DEF Timed, Lasts, OnTheWay, KeysOf
  <2>3. Boxed => IsLast(matrix_event, matrix')
    BY <2>1 DEF Timed, Lasts, OnTheWay, BoxKeys
  <2>4. IsLast(event', matrix')
    BY <1>1, <1>2 DEF IsLast
  <2> QED BY <1>2, <1>3, <2>2, <2>3, <2>4 DEF Lasts
<1>11. made'[Down(at)] > 0
  <2>1. made \in [Events -> Nat] /\ made' = [made EXCEPT ![event'] = made[event'] + 1]
    BY DEF CoresInv, TypeOK, ReadChange
  <2>2. made'[Down(at)] = made'[Up(at)] + One(matrix'[at]) /\ matrix'[at] = contact[at]
    BY <1>1, <1>2, NextDetected DEF Next, Scanner, Detected
  <2>3. Down(at) \in Events /\ Up(at) \in Events /\ made'[Up(at)] \in Nat
    BY <1>1, TwoEvents, ScanCores DEF CoresInv, TypeOK
  <2>4. CASE contact[at] = TRUE
    BY <2>2, <2>3, <2>4 DEF One
  <2>5. CASE contact[at] = FALSE
    <3>1. event' = Up(at)
      BY <2>5 DEF ReadChange, ActionOf, Up
    <3>2. made'[Up(at)] = made[Up(at)] + 1 /\ made[Up(at)] \in Nat
      BY <2>1, <2>3, <3>1
    <3> QED BY <2>2, <2>5, <3>2 DEF One
  <2> QED BY <1>1, <2>4, <2>5
<1>10. Budget'
  <2>1. CASE OnTheWay = {}
    <3>1. \A k \in OnTheWay' : age'[k] = 0 /\ made'[Down(k)] > 0
      BY <1>1, <1>2, <1>5, <1>11, <2>1
    <3> QED BY <1>6, <3>1, NewBudget
  <2>2. CASE OnTheWay # {}
    <3>1. PICK C \in SUBSET Switches, a \in Nat : Young(C, a)
      BY DEF Timed, Budget
    <3>2. at \notin C \cup OnTheWay
      BY <3>1, SetsOut
    <3>3. C \cap OnTheWay' = {}
      BY <1>5, <3>1, <3>2 DEF Young
    <3>4. ASSUME NEW k \in C \cup OnTheWay' PROVE age'[k] <= a /\ made'[Down(k)] > 0
      <4>1. k \in Switches
        BY <1>1, <1>5, WayIs
      <4>2. CASE k = at
        BY <1>1, <1>2, <1>11, <4>2
      <4>3. CASE k # at
        <5>1. age'[k] = age[k] /\ age[k] <= a /\ made[Down(k)] > 0
          BY <1>1, <1>2, <1>5, <3>1, <4>1, <4>3 DEF Young
        <5>2. event' # Down(k) /\ Down(k) \in Events
          BY <1>2, <4>1, <4>3, TwoEvents
        <5>3. made'[Down(k)] = made[Down(k)]
          <6>1. made \in [Events -> Nat] /\ made' = [made EXCEPT ![event'] = made[event'] + 1]
            BY DEF CoresInv, TypeOK, ReadChange
          <6> QED BY <5>2, <6>1
        <5> QED BY <5>1, <5>3
      <4> QED BY <4>2, <4>3
    <3>5. PICK s \in Nat : s = Served(Cardinality(C))
      BY ServedIs, SwitchesFinite, FS_Subset, FS_CardinalityType
    <3>6. a <= s + Slack
      BY <3>1, <3>5 DEF Young
    <3>7. a <= s + Slack'
      <4>1. Slack \in Nat /\ Slack' \in Nat /\ Slack' >= Slack
        BY <1>6
      <4> QED BY <3>1, <3>5, <3>6, <4>1
    <3>8. a <= TIMEOUT
      BY <3>1 DEF Young
    <3> QED BY <3>3, <3>4, <3>5, <3>7, <3>8 DEF Budget, Young
  <2> QED BY <2>1, <2>2
<1> QED BY <1>2, <1>6, <1>8, <1>9, <1>10 DEF Timed

(* A step that moves an event: from the hand into the queue, where there   *)
(* is room for it, ...                                                     *)
LEMMA QueueTimed ==
  ASSUME CoresInv, Timed, Cardinality(Restless) <= FINGERS, Paced, Queue
  PROVE  Timed'
<1>1. /\ queue \in Seq(Events) /\ event \in Events /\ matrix_event \in Events
      /\ Len(queue) \in Nat
  BY LenProperties DEF CoresInv, TypeOK
<1>2. /\ scan = "offer" /\ scan' \in {"read", "handle"} /\ present /\ present'
      /\ UNCHANGED << matrix, age, made, event, matrix_event >>
  BY DEF Queue, NextSwitch, MailboxFree, mailbox
<1>3. /\ HandKeys = {event.key} /\ HandKeys' = {} /\ Boxed /\ Boxed'
      /\ BoxKeys = {matrix_event.key} /\ BoxKeys' = {matrix_event.key}
  BY <1>2 DEF HandKeys, BoxKeys, Boxed
<1>4. /\ event.key \in Switches /\ matrix_event.key \in Switches /\ event.key # matrix_event.key
      /\ event.key \notin KeysOf(queue) /\ matrix_event.key \notin KeysOf(queue)
  BY <1>1, <1>3 DEF Timed, Apart, Events
<1>5. Different(queue)
  BY DEF Timed, Apart
<1>6. Len(queue) + 2 <= Cardinality(Restless) /\ Cardinality(Restless) \in Nat
  <2>1. OnTheWay \subseteq Restless /\ Restless \subseteq Switches
    BY YoungRestless DEF Timed, Budget
  <2>2. /\ KeysOf(queue) \subseteq Restless
        /\ event.key \in Restless /\ matrix_event.key \in Restless
    BY <1>3, <2>1 DEF OnTheWay
  <2>3. Cardinality(Restless) \in Nat
    BY <2>1, SwitchesFinite, FS_Subset, FS_CardinalityType
  <2> QED BY <1>1, <1>4, <1>5, <2>1, <2>2, <2>3, RoomIs
<1>7. queue' = Append(queue, event) /\ lost' = lost
  <2>1. queue_size \in Nat /\ FINGERS \in Nat /\ queue_size >= FINGERS - 1
    BY TimelyAssumption, MatrixAssumption
  <2>2. Room
    BY <1>1, <1>6, <2>1 DEF Room
  <2> QED BY <2>2 DEF Queue
<1>8. /\ KeysOf(Append(queue, event)) = KeysOf(queue) \cup {event.key}
      /\ Different(Append(queue, event))
      /\ \A i \in 1 .. Len(Append(queue, event)) :
           \/ Append(queue, event)[i] = event
           \/ \E j \in 1 .. Len(queue) : Append(queue, event)[i] = queue[j]
  BY <1>1, <1>4, <1>5, KeysPut
<1>9. KeysOf(queue)' = KeysOf(queue) \cup {event.key} /\ Different(queue)'
  BY <1>7, <1>8 DEF KeysOf, Different
<1>10. OnTheWay' = OnTheWay
  BY <1>3, <1>9 DEF OnTheWay
<1>11. Apart'
  BY <1>3, <1>4, <1>9 DEF Timed, Apart
<1>12. Lasts'
  <2>1. IsLast(event, matrix) /\ \A j \in 1 .. Len(queue) : IsLast(queue[j], matrix)
    BY <1>2 DEF Timed, Lasts
  <2>2. PICK r : r = queue'
    OBVIOUS
  <2>3. \A i \in 1 .. Len(r) : r[i] = event \/ \E j \in 1 .. Len(queue) : r[i] = queue[j]
    BY <1>7, <1>8, <2>2
  <2>4. \A i \in 1 .. Len(r) : IsLast(r[i], matrix)
    BY <2>1, <2>3
  <2>5. IsLast(matrix_event, matrix)
    BY <1>3 DEF Timed, Lasts
  <2> QED BY <1>2, <2>2, <2>4, <2>5 DEF Lasts, IsLast
<1>13. Waits' /\ Slack \in Nat /\ Slack' \in Nat /\ Slack' >= Slack
  <2>1. present' \in BOOLEAN
    BY OfferCores DEF CoresInv, TypeOK
  <2> QED BY <1>2, <2>1, PacedIs DEF Timed
<1>14. Budget'
  BY <1>2, <1>10, <1>13, SameBudget DEF Timed
<1> QED BY <1>7, <1>11, <1>12, <1>13, <1>14 DEF Timed

(* ... from the hand into the mailbox, ...                                 *)
LEMMA FillTimed == ASSUME CoresInv, Timed, Paced, Fill PROVE Timed'
<1>1. /\ scan = "offer" /\ scan' = "raise" /\ ~present /\ ~present'
      /\ matrix_event' = event /\ UNCHANGED << queue, matrix, age, made, event, present, lost >>
  BY DEF Fill, MailboxFree
<1>2. /\ HandKeys = {event.key} /\ HandKeys' = {} /\ ~Boxed /\ Boxed'
      /\ BoxKeys = {} /\ BoxKeys' = {event.key}
  BY <1>1 DEF HandKeys, BoxKeys, Boxed
<1>3. KeysOf(queue)' = KeysOf(queue) /\ Different(queue)' = Different(queue)
  BY <1>1 DEF KeysOf, Different
<1>4. OnTheWay' = OnTheWay /\ Apart'
  BY <1>2, <1>3 DEF OnTheWay, Timed, Apart
<1>5. Lasts'
  BY <1>1 DEF Timed, Lasts, IsLast
<1>6. Waits' /\ Slack \in Nat /\ Slack' \in Nat /\ Slack' >= Slack
  <2>1. present' \in BOOLEAN
    BY <1>1 DEF CoresInv, TypeOK
  <2>2. UNCHANGED << present, scanned >>
    BY <1>1 DEF Paced, Timed, Waits
  <2> QED BY <2>1, <2>2, PacedIs DEF Timed
<1>7. Budget'
  BY <1>1, <1>4, <1>6, SameBudget DEF Timed
<1> QED BY <1>1, <1>4, <1>5, <1>6, <1>7 DEF Timed

(* ... from the end of the queue into the mailbox, ...                     *)
LEMMA HandleTimed == ASSUME CoresInv, Timed, Paced, HandleLast PROVE Timed'
<1>1. queue \in Seq(Events) /\ queue # << >>
  BY DEF CoresInv, TypeOK, HandleLast, Waiting
<1>2. /\ scan = "handle" /\ scan' = "raise queued" /\ ~present /\ ~present'
      /\ UNCHANGED << matrix, age, made, event, present, lost >>
  BY DEF HandleLast, MailboxFree
<1>3. PICK p, e : p = SubSeq(queue, 1, Len(queue) - 1) /\ e = queue[Len(queue)]
  OBVIOUS
<1>4. queue' = p /\ matrix_event' = e
  BY <1>3 DEF HandleLast, Popped
<1>5. Different(queue)
  BY DEF Timed, Apart
<1>6. Extends(queue, p, e)
  <2>1. Extends(queue, SubSeq(queue, 1, Len(queue) - 1), queue[Len(queue)])
    BY <1>1, <1>5, KeysPop
  <2> QED BY <1>3, <2>1
<1>7. /\ HandKeys = {} /\ HandKeys' = {} /\ ~Boxed /\ Boxed'
      /\ BoxKeys = {} /\ BoxKeys' = {e.key}
  BY <1>2, <1>4 DEF HandKeys, BoxKeys, Boxed
<1>8. KeysOf(queue)' = KeysOf(p) /\ Different(queue)'
  BY <1>4, <1>6 DEF KeysOf, Different, Extends
<1>9. OnTheWay' = OnTheWay /\ Apart'
  BY <1>6, <1>7, <1>8 DEF OnTheWay, Apart, Extends
<1>10. Lasts'
  <2>1. \A j \in 1 .. Len(queue) : IsLast(queue[j], matrix)
    BY DEF Timed, Lasts
  <2>2. IsLast(e, matrix) /\ \A i \in 1 .. Len(p) : IsLast(p[i], matrix)
    BY <1>6, <2>1 DEF Extends
  <2> QED BY <1>2, <1>4, <2>2 DEF Lasts, IsLast
<1>11. Waits' /\ Slack \in Nat /\ Slack' \in Nat /\ Slack' >= Slack
  <2>1. present' \in BOOLEAN
    BY <1>2 DEF CoresInv, TypeOK
  <2>2. UNCHANGED << present, scanned >>
    BY <1>2 DEF Paced, Timed, Waits
  <2> QED BY <2>1, <2>2, PacedIs DEF Timed
<1>12. Budget'
  BY <1>2, <1>9, <1>11, SameBudget DEF Timed
<1> QED BY <1>2, <1>9, <1>10, <1>11, <1>12 DEF Timed

(* ... and the flag that goes up for the mailbox.                          *)
LEMMA RaiseTimed == ASSUME CoresInv, Timed, Paced, Raise \/ RaiseQueued PROVE Timed'
<1>1. /\ scan \in {"raise", "raise queued"} /\ scan' \in {"read", "handle"} /\ ~present /\ present'
      /\ UNCHANGED << queue, matrix, age, made, event, matrix_event, lost >>
  BY DEF Raise, RaiseQueued, NextSwitch, CoresInv, OneAtATime
<1>2. HandKeys = {} /\ HandKeys' = {} /\ Boxed /\ Boxed' /\ BoxKeys' = BoxKeys
  BY <1>1 DEF HandKeys, BoxKeys, Boxed
<1>3. KeysOf(queue)' = KeysOf(queue) /\ Different(queue)' = Different(queue)
  BY <1>1 DEF KeysOf, Different
<1>4. OnTheWay' = OnTheWay /\ Apart'
  BY <1>2, <1>3 DEF OnTheWay, Timed, Apart
<1>5. Lasts'
  BY <1>1, <1>2 DEF Timed, Lasts, IsLast
<1>6. Waits' /\ Slack \in Nat /\ Slack' \in Nat /\ Slack' >= Slack
  <2>1. present' \in BOOLEAN
    BY OfferCores, HandleCores DEF CoresInv, TypeOK
  <2> QED BY <1>1, <2>1, PacedIs DEF Timed
<1>7. Budget'
  BY <1>1, <1>4, <1>6, SameBudget DEF Timed
<1> QED BY <1>1, <1>4, <1>5, <1>6, <1>7 DEF Timed

(* The other core has taken an event: its switch joins those that were     *)
(* served meanwhile.                                                       *)
LEMMA ClearTimed == ASSUME CoresInv, Timed, Paced, Clear PROVE Timed'
<1>1. /\ present /\ ~present' /\ scan \notin {"raise", "raise queued"}
      /\ UNCHANGED << scan, queue, matrix, age, made, event, matrix_event, lost >>
  BY DEF Clear, scanVars, CoresInv, OneAtATime
<1>2. HandKeys' = HandKeys /\ Boxed /\ ~Boxed' /\ BoxKeys = {matrix_event.key} /\ BoxKeys' = {}
  BY <1>1 DEF HandKeys, BoxKeys, Boxed
<1>3. KeysOf(queue)' = KeysOf(queue) /\ Different(queue)' = Different(queue)
  BY <1>1 DEF KeysOf, Different
<1>4. OnTheWay = OnTheWay' \cup {matrix_event.key} /\ matrix_event.key \notin OnTheWay'
  BY <1>2, <1>3 DEF OnTheWay, Timed, Apart
<1>5. Apart'
  BY <1>2, <1>3 DEF Timed, Apart
<1>6. Lasts'
  BY <1>1, <1>2 DEF Timed, Lasts, IsLast
<1>7. Waits' /\ Slack' \in Nat
  <2>1. present' \in BOOLEAN
    BY TakeCores DEF Taker, CoresInv, TypeOK
  <2> QED BY <2>1, PacedIs DEF Timed
<1>8. Budget'
  <2>1. PICK C \in SUBSET Switches, a \in Nat : Young(C, a)
    BY DEF Timed, Budget
  <2>2. PICK D : D = C \cup {matrix_event.key}
    OBVIOUS
  <2>3. matrix_event.key \in Switches /\ matrix_event.key \notin C
    BY <1>4, <2>1 DEF Young, CoresInv, TypeOK, Events
  <2>4. D \in SUBSET Switches
    BY <2>1, <2>2, <2>3
  <2>5. IsFiniteSet(C) /\ Cardinality(C) \in Nat
    BY <2>1, SwitchesFinite, FS_Subset, FS_CardinalityType
  <2>6. Cardinality(D) = Cardinality(C) + 1
    BY <2>2, <2>3, <2>5, FS_AddElement
  <2>7. PICK s \in Nat, t \in Nat : s = Served(Cardinality(C)) /\ t = Served(Cardinality(D))
                                    /\ t = s + LATE + 1
    BY <2>5, <2>6, ServedIs
  <2>8. a <= t + Slack'
    <3>1. LATE \in Nat /\ Slack \in Nat /\ Slack <= LATE + 1
      BY SlackIs, TimelyAssumption DEF Timed
    <3>2. a <= s + Slack
      BY <2>1, <2>7 DEF Young
    <3> QED BY <1>7, <2>1, <2>7, <3>1, <3>2
  <2>9. /\ D \cap OnTheWay' = {}
        /\ \A k \in D \cup OnTheWay' : age'[k] <= a /\ made'[Down(k)] > 0
    <3>1. D \cup OnTheWay' = C \cup OnTheWay
      BY <1>4, <2>2
    <3>2. D \cap OnTheWay' = {}
      BY <1>4, <2>1, <2>2 DEF Young
    <3> QED BY <1>1, <2>1, <3>1, <3>2 DEF Young
  <2>10. a <= TIMEOUT
    BY <2>1 DEF Young
  <2> QED BY <2>1, <2>4, <2>7, <2>8, <2>9, <2>10 DEF Budget, Young
<1> QED BY <1>1, <1>5, <1>6, <1>7, <1>8 DEF Timed

(* A tick: everything is a tick older, and the timely cores have used it.  *)
LEMMA TickTimed ==
  ASSUME CoresInv, Timed, Cardinality(Restless) <= FINGERS,
         Tick, scanned, present => waiting < LATE,
         waiting' = (IF present THEN waiting + 1 ELSE 0), scanned' = FALSE
  PROVE  Timed'
<1>0. age' = [k \in Switches |-> IF age[k] > TIMEOUT THEN age[k] ELSE age[k] + 1]
  BY DEF Tick
<1>1. UNCHANGED places /\ made' = made /\ scan' = scan
  BY DEF Tick, places, mailbox, scanVars
<1>2. OnTheWay' = OnTheWay /\ Apart' /\ Lasts'
  BY <1>1, StillWay DEF Timed
<1>3. LATE \in Nat /\ waiting \in 0 .. LATE /\ (~present => waiting = 0) /\ present' = present
  BY <1>1, TimelyAssumption DEF Timed, Waits, places
<1>4. waiting' \in 0 .. LATE /\ (~present' => waiting' = 0)
  BY <1>3
<1>5. Waits'
  BY <1>4 DEF Waits
<1>6. /\ (present => Slack = waiting + 1) /\ (present' => Slack' = waiting' + 1)
      /\ (~present => Slack = 0) /\ (~present' => Slack' = 1)
  BY DEF Slack
<1>7. Slack \in Nat /\ Slack' = Slack + 1
  <2>1. CASE present
    BY <1>3, <1>6, <2>1
  <2>2. CASE ~present
    BY <1>3, <1>6, <2>2
  <2> QED BY <2>1, <2>2
<1>8. CASE OnTheWay = {}
  <2>1. Slack' \in Nat
    BY <1>7
  <2>2. Budget'
    BY <1>2, <1>8, <2>1, NewBudget
  <2> QED BY <1>1, <1>2, <1>5, <2>2 DEF Timed, places
<1>9. CASE OnTheWay # {}
  <2>1. PICK C \in SUBSET Switches, a \in Nat : Young(C, a)
    BY DEF Timed, Budget
  <2>2. IsFiniteSet(C) /\ Cardinality(C) \in Nat
    BY <2>1, SwitchesFinite, FS_Subset, FS_CardinalityType
  <2>3. Cardinality(C) < FINGERS
    <3>1. PICK k \in OnTheWay : k \notin C
      BY <1>9, <2>1 DEF Young
    <3>2. IsFiniteSet(C \cup {k}) /\ Cardinality(C \cup {k}) = Cardinality(C) + 1
      BY <2>2, <3>1, FS_AddElement
    <3>3. C \cup {k} \subseteq Restless /\ IsFiniteSet(Restless) /\ Cardinality(Restless) \in Nat
      BY <2>1, <3>1, YoungRestless, SwitchesFinite, FS_Subset, FS_CardinalityType
    <3>4. Cardinality(C \cup {k}) <= Cardinality(Restless)
      BY <3>3, FS_Subset
    <3> QED BY <2>2, <3>2, <3>3, <3>4, TimelyAssumption
  <2>4. PICK s \in Nat : s = Served(Cardinality(C)) /\ s + LATE + 1 <= TIMEOUT
    BY <2>2, <2>3, ServedIs
  <2>5. a + 1 \in Nat /\ a + 1 <= s + Slack'
    <3>1. a <= s + Slack
      BY <2>1, <2>4 DEF Young
    <3> QED BY <1>7, <2>1, <2>4, <3>1
  <2>6. a + 1 <= TIMEOUT
    <3>1. Slack' \in Nat /\ Slack' <= LATE + 1
      <4>1. waiting' \in Nat /\ waiting' <= LATE
        BY <1>3, <1>4
      <4> QED BY <1>3, <1>6, <4>1
    <3> QED BY <1>3, <2>1, <2>4, <2>5, <3>1, MatrixAssumption
  <2>7. \A k \in C \cup OnTheWay' : age'[k] <= a + 1 /\ made'[Down(k)] > 0
    <3> SUFFICES ASSUME NEW k \in C \cup OnTheWay' PROVE age'[k] <= a + 1 /\ made'[Down(k)] > 0
      OBVIOUS
    <3>1. k \in Switches
      BY <1>2, <2>1, WayIs
    <3>2. age[k] <= a /\ made[Down(k)] > 0
      BY <1>2, <2>1 DEF Young
    <3>3. age[k] \in Nat
      <4>1. age \in [Switches -> 0 .. TIMEOUT + 1]
        BY DEF CoresInv, TypeOK
      <4> QED BY <3>1, <4>1
    <3>4. age'[k] = age[k] \/ age'[k] = age[k] + 1
      BY <1>0, <3>1
    <3>5. age'[k] <= a + 1
      BY <2>1, <3>2, <3>3, <3>4
    <3> QED BY <1>1, <3>2, <3>5
  <2>8. C \cap OnTheWay' = {}
    BY <1>2, <2>1 DEF Young
  <2>9. Budget'
    BY <2>1, <2>4, <2>5, <2>6, <2>7, <2>8 DEF Budget, Young
  <2> QED BY <1>1, <1>2, <1>5, <2>9 DEF Timed, places
<1> QED BY <1>8, <1>9

LEMMA StutterTimed == ASSUME Timed, UNCHANGED cores PROVE Timed'
<1>1. /\ UNCHANGED places /\ UNCHANGED << age, made >>
      /\ ((scan' = "offer") <=> (scan = "offer"))
      /\ (scan' \in {"raise", "raise queued"}) <=> (scan \in {"raise", "raise queued"})
  BY DEF cores, vars, places, mailbox, scanVars
<1>2. OnTheWay' = OnTheWay /\ Apart' /\ Lasts'
  BY <1>1, StillWay DEF Timed
<1>3. UNCHANGED << waiting, scanned, present >>
  BY DEF cores, vars, mailbox
<1>4. Waits'
  BY <1>3 DEF Timed, Waits
<1>5. Slack' = Slack /\ Slack \in Nat
  BY <1>3, SlackIs DEF Slack, Timed
<1>6. Slack' \in Nat /\ Slack' >= Slack
  BY <1>5
<1>7. Budget'
  BY <1>1, <1>2, <1>5, <1>6, SameBudget DEF Timed
<1> QED BY <1>1, <1>2, <1>4, <1>7 DEF Timed, places

LEMMA StepTimed ==
  ASSUME CoresInv, Timed, Detected, Cardinality(Restless) <= FINGERS, Paced, Step
  PROVE  Timed'
<1>1. CASE HandleNone
  BY <1>1, StillTimed, IdleTimed
<1>2. CASE ReadSame \/ Taker \/ Contact
  BY <1>2, StillTimed, ClearTimed DEF Taker
<1>3. CASE ReadChange \/ Queue \/ Fill \/ Raise \/ HandleLast \/ RaiseQueued
  BY <1>3, ChangeTimed, QueueTimed, FillTimed, RaiseTimed, HandleTimed
<1> QED BY <1>1, <1>2, <1>3 DEF Step, Scanner

LEMMA InitTimed == CoresInit => Timed
<1> SUFFICES ASSUME CoresInit PROVE Timed
  OBVIOUS
<1>1. /\ scan = "read" /\ queue = << >> /\ ~present /\ waiting = 0 /\ ~scanned /\ lost = NoEvents
      /\ scanned \in BOOLEAN
  BY DEF CoresInit, Init
<1>2. HandKeys = {} /\ BoxKeys = {} /\ ~Boxed
  BY <1>1 DEF HandKeys, BoxKeys, Boxed
<1>3. KeysOf(queue) = {} /\ Different(queue) /\ \A i \in 1 .. Len(queue) : FALSE
  BY <1>1 DEF KeysOf, Different
<1>4. Apart /\ Lasts
  BY <1>1, <1>2, <1>3 DEF Apart, Lasts
<1>5. Waits
  BY <1>1, TimelyAssumption DEF Waits
<1>6. Budget
  <2>1. {} \in SUBSET Switches /\ Served(Cardinality({})) = 0 /\ OnTheWay = {}
    BY <1>2, <1>3, FS_EmptySet, ServedIs DEF OnTheWay
  <2>2. 0 <= Served(Cardinality({})) + Slack
    BY <1>5, <2>1, SlackIs
  <2>3. Young({}, 0)
    BY <2>1, <2>2, MatrixAssumption DEF Young
  <2> QED BY <2>1, <2>3 DEF Budget
<1> QED BY <1>1, <1>4, <1>5, <1>6 DEF Timed

-----------------------------------------------------------------------------
(* Of two events of a switch at most one is on its way, and that is the    *)
(* last one.                                                               *)
LEMMA TimesOne ==
  ASSUME NEW q \in Seq(Events), Different(q), NEW e
  PROVE  \/ Times(q, e) = 1 /\ \E i \in 1 .. Len(q) : q[i] = e
         \/ Times(q, e) = 0
<1> DEFINE W == {i \in DOMAIN q : q[i] = e}
<1>1. DOMAIN q = 1 .. Len(q)
  BY LenProperties
<1>2. CASE W = {}
  BY <1>2, FS_EmptySet DEF Times
<1>3. CASE W # {}
  <2>1. PICK i \in W : TRUE
    BY <1>3
  <2>2. W = {i}
    BY <1>1, <2>1 DEF Different
  <2>3. Cardinality({i}) = 1
    BY FS_Singleton
  <2> QED BY <1>1, <2>1, <2>2, <2>3 DEF Times
<1> QED BY <1>2, <1>3

LEMMA OneOnTheWay ==
  ASSUME CoresInv, Timed, NEW e \in Events,
         NEW n, n = Times(queue, e) + One(InMailbox(e)) + One(InHand(e))
  PROVE  n = 0 \/ (n = 1 /\ IsLast(e, matrix))
<1>1. queue \in Seq(Events) /\ Different(queue)
  BY DEF CoresInv, TypeOK, Timed, Apart
<1>2. \/ Times(queue, e) = 1 /\ \E i \in 1 .. Len(queue) : queue[i] = e
      \/ Times(queue, e) = 0
  BY <1>1, TimesOne
<1>3. InMailbox(e) => e.key \in BoxKeys /\ IsLast(e, matrix)
  BY DEF InMailbox, Boxed, BoxKeys, Timed, Lasts
<1>4. InHand(e) => e.key \in HandKeys /\ IsLast(e, matrix)
  BY DEF InHand, HandKeys, Timed, Lasts
<1>5. Times(queue, e) = 1 => e.key \in KeysOf(queue) /\ IsLast(e, matrix)
  BY <1>2 DEF KeysOf, Timed, Lasts
<1>6. PICK t, b, h : t = Times(queue, e) /\ b = One(InMailbox(e)) /\ h = One(InHand(e))
  OBVIOUS
<1>7. /\ t \in {0, 1} /\ b \in {0, 1} /\ h \in {0, 1} /\ n = t + b + h
      /\ b = 1 => InMailbox(e)
      /\ h = 1 => InHand(e)
  BY <1>2, <1>6 DEF One
<1>8. t = 1 \/ b = 1 \/ h = 1 => IsLast(e, matrix)
  BY <1>3, <1>4, <1>5, <1>6, <1>7
<1>9. ~(t = 1 /\ b = 1) /\ ~(t = 1 /\ h = 1) /\ ~(b = 1 /\ h = 1)
  BY <1>3, <1>4, <1>5, <1>6, <1>7 DEF Timed, Apart
<1>10. n = 0 \/ (n = 1 /\ (t = 1 \/ b = 1 \/ h = 1))
  BY <1>7, <1>9
<1> QED BY <1>8, <1>10

LEMMA Ordered ==
  ASSUME CoresInv, Timed, Detected, Conserved, NEW k \in Switches
  PROVE  got[Down(k)] - got[Up(k)] \in {0, 1}
<1>1. Down(k) \in Events /\ Up(k) \in Events
  BY TwoEvents
<1>2. PICK d, u : /\ d = Times(queue, Down(k)) + One(InMailbox(Down(k))) + One(InHand(Down(k)))
                  /\ u = Times(queue, Up(k)) + One(InMailbox(Up(k))) + One(InHand(Up(k)))
  OBVIOUS
<1>3. /\ d = 0 \/ (d = 1 /\ IsLast(Down(k), matrix))
      /\ u = 0 \/ (u = 1 /\ IsLast(Up(k), matrix))
  BY <1>1, <1>2, OneOnTheWay
<1>4. \A e \in Events :
        Times(queue, e) \in Nat /\ One(InMailbox(e)) \in Nat /\ One(InHand(e)) \in Nat
  BY Numbers DEF One
<1>5. \A e \in Events : lost[e] = 0
  BY DEF Timed, NoEvents
<1>6. \A e \in Events :
        made[e] = got[e] + lost[e] + Times(queue, e) + One(InMailbox(e)) + One(InHand(e))
  BY AccountIs DEF Account
<1>7. \A e \in Events : got[e] \in Nat /\ made[e] \in Nat
  BY Numbers
<1>8. made[Down(k)] = got[Down(k)] + d
  BY <1>1, <1>2, <1>4, <1>5, <1>6, <1>7
<1>9. made[Up(k)] = got[Up(k)] + u
  BY <1>1, <1>2, <1>4, <1>5, <1>6, <1>7
<1>10. made[Down(k)] = made[Up(k)] + One(matrix[k])
  BY DEF Detected
<1>11. CASE matrix[k]
  <2>1. One(matrix[k]) = 1 /\ ~IsLast(Up(k), matrix)
    BY <1>11, TwoEvents DEF One, IsLast, ActionOf
  <2> QED BY <1>1, <1>3, <1>7, <1>8, <1>9, <1>10, <2>1
<1>12. CASE ~matrix[k]
  <2>1. One(matrix[k]) = 0 /\ ~IsLast(Down(k), matrix)
    BY <1>12, TwoEvents DEF One, IsLast, ActionOf
  <2> QED BY <1>1, <1>3, <1>7, <1>8, <1>9, <1>10, <2>1
<1> QED BY <1>11, <1>12

-----------------------------------------------------------------------------
(* Fingers are all that makes a switch restless.                           *)
Handled == Cardinality(Restless) <= FINGERS

LEMMA RestlessLess ==
  ASSUME Handled, Restless' \subseteq Restless PROVE Handled'
<1>1. Restless \subseteq Switches /\ IsFiniteSet(Restless) /\ Cardinality(Restless) \in Nat
  BY SwitchesFinite, FS_Subset, FS_CardinalityType DEF Restless
<1>2. /\ IsFiniteSet(Restless') /\ Cardinality(Restless') \in Nat
      /\ Cardinality(Restless') <= Cardinality(Restless)
  BY <1>1, FS_Subset, FS_CardinalityType
<1> QED BY <1>1, <1>2, TimelyAssumption DEF Handled

LEMMA InitHandled == Init => Handled
<1> SUFFICES ASSUME Init PROVE Handled
  OBVIOUS
<1>1. \A k \in Switches : contact[k] = matrix[k]
  BY DEF Init
<1>2. \A k \in Switches : ~(made[Down(k)] > 0)
  BY TwoEvents DEF Init, NoEvents
<1>3. Restless = {}
  BY <1>1, <1>2 DEF Restless, Down
<1>4. Cardinality(Restless) = 0
  BY <1>3, FS_EmptySet
<1> QED BY <1>4, TimelyAssumption DEF Handled

LEMMA NextHandled ==
  ASSUME CoresInv, Handled, [Next]_vars, contact' = contact \/ Handled' PROVE Handled'
<1>1. CASE UNCHANGED << contact, matrix, made >> /\ (age' = age \/ Tick)
  <2>1. ASSUME NEW k \in Switches, age'[k] <= TIMEOUT PROVE age[k] <= TIMEOUT
    <3>1. CASE Tick
      <4>1. age'[k] = IF age[k] > TIMEOUT THEN age[k] ELSE age[k] + 1
        BY <3>1 DEF Tick
      <4>2. age \in [Switches -> 0 .. TIMEOUT + 1]
        BY DEF CoresInv, TypeOK
      <4>3. age[k] \in Nat
        BY <4>2
      <4> QED BY <2>1, <4>1, <4>3, MatrixAssumption
    <3> QED BY <1>1, <2>1, <3>1
  <2>2. Restless' \subseteq Restless
    BY <1>1, <2>1 DEF Restless
  <2> QED BY <2>2, RestlessLess
<1>2. CASE ReadChange
  <2>1. /\ contact' = contact /\ matrix' = [matrix EXCEPT ![at] = contact[at]]
        /\ age' = [age EXCEPT ![at] = 0] /\ made' = [made EXCEPT ![event'] = made[event'] + 1]
        /\ event'.key = at /\ contact[at] # matrix[at]
    BY <1>2 DEF ReadChange, Changed
  <2>2. /\ at \in Switches /\ matrix \in [Switches -> BOOLEAN] /\ made \in [Events -> Nat]
        /\ age \in [Switches -> 0 .. TIMEOUT + 1]
    BY DEF CoresInv, TypeOK
  <2>3. at \in Restless
    BY <2>1, <2>2 DEF Restless
  <2>4. ASSUME NEW k \in Restless', k # at PROVE k \in Restless
    <3>1. k \in Switches
      BY DEF Restless
    <3>2. Down(k) \in Events /\ event' # Down(k)
      BY <2>1, <2>4, <3>1, TwoEvents
    <3>3. matrix'[k] = matrix[k] /\ age'[k] = age[k]
      BY <2>1, <2>2, <2>4, <3>1
    <3>4. made'[Down(k)] = made[Down(k)]
      BY <2>1, <2>2, <3>2
    <3> QED BY <2>1, <3>1, <3>3, <3>4 DEF Restless, Down
  <2>5. Restless' \subseteq Restless
    BY <2>3, <2>4
  <2> QED BY <2>5, RestlessLess
<1>3. CASE Contact
  BY <1>3, <1>1 DEF Contact, scanVars
<1>4. CASE ~ReadChange /\ ~Contact /\ ~Tick
  <2>1. UNCHANGED << contact, matrix, made, age >>
    BY <1>4 DEF Next, Scanner, ReadSame, Queue, Fill, Raise, HandleNone, HandleLast, RaiseQueued,
                Taker, Available, Copy, Clear, vars, scanVars
  <2> QED BY <1>1, <2>1
<1>5. CASE Tick
  BY <1>1, <1>5 DEF Tick, scanVars
<1> QED BY <1>2, <1>3, <1>4, <1>5

-----------------------------------------------------------------------------
TimelyInv == CoresInv /\ Conserved /\ Detected /\ (timely => Timed /\ Handled)

LEMMA InitTimely == CoresInit => TimelyInv
<1> SUFFICES ASSUME CoresInit PROVE TimelyInv
  OBVIOUS
<1>1. Init
  BY DEF CoresInit
<1>2. Conserved
  BY <1>1, InitAccounts, AccountIs
<1> QED BY <1>1, <1>2, InitCores, InitDetected, InitTimed, InitHandled DEF TimelyInv

LEMMA NextTimely == TimelyInv /\ [CoresNext]_cores => TimelyInv'
<1> SUFFICES ASSUME TimelyInv, [CoresNext]_cores PROVE TimelyInv'
  OBVIOUS
<1>1. [Next]_vars /\ timely' = timely
  BY DEF CoresNext, AnyNext, TimelyTick, TimelyStep, Step, Next, cores
<1>2. CoresInv' /\ Detected'
  BY <1>1, NextCores, NextDetected DEF TimelyInv
<1>3. Conserved'
  <2>1. ASSUME NEW e \in Events PROVE Account(e)'
    BY <1>1, AccountIs, NextAccounts DEF TimelyInv
  <2>2. Conserved' <=> \A e \in Events : Account(e)'
    BY DEF Conserved, Account, Queued, Times, InHand
  <2> QED BY <2>1, <2>2
<1>4. ASSUME timely PROVE Timed' /\ Handled'
  <2>1. CoresInv /\ Detected /\ Timed /\ Handled
    BY <1>4 DEF TimelyInv
  <2>2. ~AnyNext
    BY <1>4 DEF AnyNext
  <2>3. Timed'
    <3>1. CASE TimelyTick
      BY <2>1, <3>1, TickTimed DEF TimelyTick, Handled
    <3>2. CASE TimelyStep
      <4>1. Step /\ Paced
        BY <3>2 DEF TimelyStep, Paced
      <4> QED BY <2>1, <4>1, StepTimed DEF Handled
    <3>3. CASE UNCHANGED cores
      BY <2>1, <3>3, StutterTimed
    <3> QED BY <2>2, <3>1, <3>2, <3>3 DEF CoresNext
  <2>4. contact' = contact \/ Handled'
    BY <2>2 DEF CoresNext, TimelyTick, TimelyStep, Tick, cores, vars, Handled
  <2> QED BY <1>1, <2>1, <2>3, <2>4, NextHandled
<1> QED BY <1>1, <1>2, <1>3, <1>4 DEF TimelyInv

LEMMA TimelyInvHolds == CoresSpec => []TimelyInv
  BY InitTimely, NextTimely, PTL DEF CoresSpec

(* When the other core keeps up, no key event is dropped for want of room  *)
(* in the queue (monitor_matrix.c:34-39): by the time a switch comes again *)
(* its last event has been taken, so that the queue, the mailbox and the   *)
(* hand hold events of different switches.                                 *)
THEOREM NoneLostCorrect == CoresSpec => []NoneLost
<1>1. TimelyInv => NoneLost
  BY DEF TimelyInv, Timed, NoneLost
<1> QED BY <1>1, TimelyInvHolds, PTL

(* Then a release is never delivered before its press nor a press before   *)
(* the release that preceded it, although the queue is emptied from the    *)
(* end (monitor_matrix.c:41-49): no two events of a switch ever meet.      *)
THEOREM InOrderCorrect == CoresSpec => []InOrder
<1>1. TimelyInv => InOrder
  <2> SUFFICES ASSUME TimelyInv, timely, NEW k \in Switches
               PROVE  got[Down(k)] - got[Up(k)] \in {0, 1}
    BY DEF InOrder, Down, Up
  <2> QED BY Ordered DEF TimelyInv
<1> QED BY <1>1, TimelyInvHolds, PTL
=============================================================================
