---------------------------- MODULE MatrixMonitor ----------------------------
(***************************************************************************)
(* The key matrix of the split keyboard (code/src/monitor_matrix.c): one   *)
(* core scans the switches for ever and hands each change that passes the  *)
(* debounce to the other core, through a mailbox of one event and, while   *)
(* the mailbox is taken, a queue of its own that it empties from the end.  *)
(*                                                                         *)
(* The reads and writes of matrix_event_data_present, which the cores      *)
(* share, are steps of their own, and so are those of matrix_event.  The   *)
(* flag is _Atomic, so the accesses take effect in program order.          *)
(***************************************************************************)
EXTENDS Integers, Sequences, FiniteSets

CONSTANTS
  N,                    \* number of switches
  queue_size,           \* 30 (line 18)
  TIMEOUT               \* timeout_us (line 10), in ticks

ASSUME MatrixAssumption == N \in Nat \ {0} /\ queue_size \in Nat /\ TIMEOUT \in Nat

Switches == 1 .. N
Actions  == {"down", "up"}
Events   == [key : Switches, action : Actions]
NoEvents == [e \in Events |-> 0]
AnEvent  == [key |-> 1, action |-> "down"]   \* matrix_event before any event

VARIABLES
  contact,              \* which switches conduct at the moment
  matrix, age,          \* debounced state; ticks since it last changed
  scan, at,             \* scanning core: what it does, and at which switch
  event,                \* scanning core: the event in hand
  queue,                \* queue[0 .. queue_index - 1]
  matrix_event,         \* the mailbox ...
  present,              \* ... and matrix_event_data_present
  get, taken,           \* other core: where it is in get_event, and retval
  made, got, lost       \* history: how many of each event were detected,
                        \* delivered and dropped

scanVars == << matrix, scan, at, event, queue >>
takeVars == << get, taken, got >>
mailbox  == << matrix_event, present >>
vars == << contact, age, scanVars, takeVars, mailbox, made, lost >>

-----------------------------------------------------------------------------
(* The scanning core. *)

ActionOf(pressed) == IF pressed THEN "down" ELSE "up"
NextSwitch == /\ at' = IF at = N THEN 1 ELSE at + 1
              /\ scan' = IF at = N THEN "handle" ELSE "read"

(* Mutants: there is no debounce; its comparison is turned round. *)
ChangedAny   == contact[at] # matrix[at]
ChangedYoung == contact[at] # matrix[at] /\ age[at] < TIMEOUT

(* Lines 100-101. *)
Changed == contact[at] # matrix[at] /\ age[at] > TIMEOUT

(* Mutants: the bound of the queue is off by one, either way; the mailbox  *)
(* is written without a look at the flag; the last event is never moved,   *)
(* or moved and kept.                                                      *)
RoomLong   == Len(queue) < queue_size + 1
RoomShort  == Len(queue) < queue_size - 1
MailboxAny == TRUE
Several    == Len(queue) > 1
Kept       == queue

Room        == Len(queue) < queue_size                  \* line 35
MailboxFree == ~present                                 \* lines 42, 63
Waiting     == queue # << >>                            \* line 43
Popped      == SubSeq(queue, 1, Len(queue) - 1)         \* lines 44-45

(* Lines 98-101: nothing to report. *)
ReadSame ==
  /\ scan = "read" /\ ~Changed
  /\ NextSwitch
  /\ UNCHANGED << contact, matrix, age, event, queue, mailbox, made, lost, takeVars >>

(* Lines 102-105: a change that passes the debounce. *)
ReadChange ==
  /\ scan = "read" /\ Changed
  /\ matrix' = [matrix EXCEPT ![at] = contact[at]]
  /\ age' = [age EXCEPT ![at] = 0]
  /\ event' = [key |-> at, action |-> ActionOf(contact[at])]
  /\ made' = [made EXCEPT ![event'] = @ + 1]
  /\ scan' = "offer"
  /\ UNCHANGED << contact, at, queue, mailbox, lost, takeVars >>

(* Lines 63-64 and queue_put: the mailbox is taken.  A full queue drops    *)
(* the event.                                                              *)
Queue ==
  /\ scan = "offer" /\ ~MailboxFree
  /\ IF Room
       THEN queue' = Append(queue, event) /\ UNCHANGED lost
       ELSE UNCHANGED queue /\ lost' = [lost EXCEPT ![event] = @ + 1]
  /\ NextSwitch
  /\ UNCHANGED << contact, matrix, age, event, mailbox, made, takeVars >>

(* Lines 65-66: it is free. *)
Fill ==
  /\ scan = "offer" /\ MailboxFree
  /\ matrix_event' = event
  /\ scan' = "raise"
  /\ UNCHANGED << contact, matrix, age, at, event, queue, present, made, lost, takeVars >>

(* Line 67. *)
Raise ==
  /\ scan = "raise"
  /\ present' = TRUE
  /\ NextSwitch
  /\ UNCHANGED << contact, matrix, age, event, queue, matrix_event, made, lost, takeVars >>

(* queue_handle after each scan: nothing to move, or no room. *)
HandleNone ==
  /\ scan = "handle" /\ ~(MailboxFree /\ Waiting)
  /\ scan' = "read"
  /\ UNCHANGED << contact, matrix, age, at, event, queue, mailbox, made, lost, takeVars >>

(* Lines 44-45: the event that was queued last goes to the mailbox. *)
HandleLast ==
  /\ scan = "handle" /\ MailboxFree /\ Waiting
  /\ matrix_event' = queue[Len(queue)]
  /\ queue' = Popped
  /\ scan' = "raise queued"
  /\ UNCHANGED << contact, matrix, age, at, event, present, made, lost, takeVars >>

(* Line 46. *)
RaiseQueued ==
  /\ scan = "raise queued"
  /\ present' = TRUE
  /\ scan' = "read"
  /\ UNCHANGED << contact, matrix, age, at, event, queue, matrix_event, made, lost, takeVars >>

Scanner == \/ ReadSame \/ ReadChange \/ Queue \/ Fill \/ Raise
           \/ HandleNone \/ HandleLast \/ RaiseQueued

-----------------------------------------------------------------------------
(* The other core, in matrix_monitor_get_event.                            *)

Available ==
  /\ get = "idle" /\ present
  /\ get' = "copy"
  /\ UNCHANGED << contact, age, mailbox, taken, made, got, lost, scanVars >>

Copy ==
  /\ get = "copy"
  /\ taken' = matrix_event
  /\ get' = "clear"
  /\ UNCHANGED << contact, age, mailbox, made, got, lost, scanVars >>

Clear ==
  /\ get = "clear"
  /\ present' = FALSE
  /\ got' = [got EXCEPT ![taken] = @ + 1]
  /\ get' = "idle"
  /\ UNCHANGED << contact, age, matrix_event, taken, made, lost, scanVars >>

Taker == Available \/ Copy \/ Clear

-----------------------------------------------------------------------------
(* The hand on the keys, the bounce of the contacts, and time.             *)

Contact ==
  /\ \E k \in Switches : contact' = [contact EXCEPT ![k] = ~@]
  /\ UNCHANGED << age, mailbox, made, lost, scanVars, takeVars >>

Tick ==
  /\ age' = [k \in Switches |-> IF age[k] > TIMEOUT THEN age[k] ELSE age[k] + 1]
  /\ UNCHANGED << contact, mailbox, made, lost, scanVars, takeVars >>

Init ==
  /\ contact = [k \in Switches |-> FALSE] /\ matrix = contact
  /\ age = [k \in Switches |-> 0]
  /\ scan = "read" /\ at = 1 /\ event = AnEvent /\ queue = << >>
  /\ matrix_event = AnEvent /\ present = FALSE
  /\ get = "idle" /\ taken = AnEvent
  /\ made = NoEvents /\ got = NoEvents /\ lost = NoEvents

Next == Scanner \/ Taker \/ Contact \/ Tick

Spec == Init /\ [][Next]_vars

-----------------------------------------------------------------------------
TypeOK ==
  /\ contact \in [Switches -> BOOLEAN] /\ matrix \in [Switches -> BOOLEAN]
  /\ age \in [Switches -> 0 .. TIMEOUT + 1]
  /\ scan \in {"read", "offer", "raise", "handle", "raise queued"} /\ at \in Switches
  /\ event \in Events /\ matrix_event \in Events /\ taken \in Events
  /\ queue \in Seq(Events) /\ Len(queue) <= queue_size
  /\ present \in BOOLEAN /\ get \in {"idle", "copy", "clear"}
  /\ made \in [Events -> Nat] /\ got \in [Events -> Nat] /\ lost \in [Events -> Nat]

(* The cores never use the mailbox at the same time: while one fills it    *)
(* the other is not copying, and the copy is what the mailbox holds.       *)
OneAtATime ==
  /\ scan \in {"raise", "raise queued"} => ~present
  /\ get # "idle" => present
  /\ get = "clear" => taken = matrix_event

One(yes) == IF yes THEN 1 ELSE 0
Queued(e) == Cardinality({i \in DOMAIN queue : queue[i] = e})
InMailbox(e) == /\ matrix_event = e
                /\ present \/ scan \in {"raise", "raise queued"}

(* Every event that the debounce lets through is delivered exactly once,   *)
(* or still on its way, or one that found the queue full                   *)
(* (monitor_matrix.c:25-69): none is overwritten or delivered twice by an  *)
(* unlucky interleaving of the cores.                                      *)
Conserved ==
  \A e \in Events :
    made[e] = got[e] + lost[e] + Queued(e)
              + One(InMailbox(e)) + One(scan = "offer" /\ event = e)
=============================================================================
