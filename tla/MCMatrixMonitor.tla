--------------------------- MODULE MCMatrixMonitor ---------------------------
(***************************************************************************)
(* MatrixMonitor for TLC: with cores that run at any speed, and with time. *)
(***************************************************************************)
EXTENDS MatrixMonitor, Functions

CONSTANTS
  MAX_EVENTS,           \* no switch moves after that many events ...
  TIMELY_EVENTS,        \* ... and after that many when the cores are timely
  LATE,                 \* ticks the timely core takes for an event, at most
  FINGERS               \* switches that move within one debounce, at most

(* A timely core takes as many events as there are fingers in less time    *)
(* than one switch needs to change again, and all of them but the one in   *)
(* the mailbox fit the queue.  With ten fingers, 10 ms and a queue of 30   *)
(* (lines 10, 18) the core may need almost a millisecond for each.         *)
ASSUME TimelyAssumption ==
  /\ LATE \in Nat /\ FINGERS \in Nat
  /\ TIMEOUT >= FINGERS * (LATE + 1)
  /\ queue_size >= FINGERS - 1

VARIABLES
  timely,               \* the cores keep up with time
  waiting,              \* ticks that the event in the mailbox has been there
  scanned               \* a scan has been completed since the last tick

cores == << vars, timely, waiting, scanned >>

Moving == FoldFunction(+, 0, made) < IF timely THEN TIMELY_EVENTS ELSE MAX_EVENTS

(* The switches that fingers are busy with: they are about to change, or   *)
(* have done so a moment ago.                                              *)
Restless == {k \in Switches :
  \/ contact[k] # matrix[k]
  \/ made[[key |-> k, action |-> "down"]] > 0 /\ age[k] <= TIMEOUT}

Step == Scanner \/ Taker \/ (Moving /\ Contact)

(* Cores of any speed. *)
AnyNext == ~timely /\ (Step \/ Tick) /\ UNCHANGED << waiting, scanned >>

(* At least one scan in every tick, a core that takes each event in LATE   *)
(* ticks, and no more than FINGERS at the switches.                        *)
TimelyTick ==
  /\ timely /\ Tick
  /\ scanned /\ (present => waiting < LATE)
  /\ waiting' = IF present THEN waiting + 1 ELSE 0
  /\ scanned' = FALSE

TimelyStep ==
  /\ timely /\ Step
  /\ contact' # contact => Cardinality(Restless') <= FINGERS
  /\ waiting' = IF present' THEN waiting ELSE 0
  /\ scanned' = (scanned \/ (scan \in {"handle", "raise queued"} /\ scan' = "read"))

CoresInit == Init /\ timely \in BOOLEAN /\ waiting = 0 /\ scanned = FALSE

CoresNext == (AnyNext \/ TimelyTick \/ TimelyStep) /\ UNCHANGED timely

(* Both cores keep running, and time passes. *)
CoresSpec ==
  /\ CoresInit /\ [][CoresNext]_cores
  /\ WF_vars(Scanner) /\ WF_vars(Taker) /\ WF_vars(Tick)

-----------------------------------------------------------------------------
(* When the other core keeps up, a release is never delivered before the   *)
(* press it belongs to, nor a press before the release that preceded it,   *)
(* although the queue is emptied from the end (monitor_matrix.c:41-49):    *)
(* the other core would take a released key to be down from then on.       *)
InOrder ==
  timely => \A k \in Switches :
    got[[key |-> k, action |-> "down"]] - got[[key |-> k, action |-> "up"]] \in {0, 1}

(* Then no key event is dropped for want of room in the queue              *)
(* (monitor_matrix.c:34-39).                                               *)
NoneLost == timely => lost = NoEvents

(* When the contacts have come to rest, what the debounce put off is       *)
(* noticed after all, and every event leaves the queue without the help of *)
(* another one (monitor_matrix.c:41-49,100-101).                           *)
AtRest  == <>[][FALSE]_contact
Settles == AtRest => <>[](matrix = contact)
Drains  == AtRest => <>[](\A e \in Events : made[e] = got[e] + lost[e])
=============================================================================
