--------------------------- MODULE MCProcessInput ---------------------------
(***************************************************************************)
(* Two typists at the keyboard of ProcessInput: any one, and a careful     *)
(* one.                                                                    *)
(***************************************************************************)
EXTENDS ProcessInput

CONSTANTS
  AnyKeys,      \* the keys that any typist uses
  MAX_DOWN      \* most keys that are down at a time

VARIABLE careful

Letters == down \cap Plain

AnyNext ==
  \E key \in AnyKeys :
    \/ Cardinality(down) < MAX_DOWN /\ Press(key)
    \/ Release(key)

(* She changes the mode with no other key down, presses and releases       *)
(* modifiers with no ordinary key down, and no more keys at a time than    *)
(* the report has slots.                                                   *)
ModeKeys == IF current_mode = "vim" THEN {"I", "VIM", "FN"} ELSE {"VIM", "FN"}

CarefulPress(key) ==
  /\ Cardinality(down) < MAX_DOWN
  /\ Cardinality(Letters) < MAX_DEPRESSED_KEYS
  /\ key \in ModeKeys => down = {}
  /\ key \in ModKeys => Letters = {}
  /\ Press(key)

CarefulRelease(key) ==
  /\ key \in ModKeys => Letters = {}
  /\ Release(key)

CarefulNext == \E key \in Keys : CarefulPress(key) \/ CarefulRelease(key)

TypistsNext == (~careful /\ AnyNext) \/ (careful /\ CarefulNext)

TypistsInit == Init /\ careful \in BOOLEAN
AnyInit     == Init /\ careful = FALSE

TypistsSpec ==
  /\ TypistsInit
  /\ [][TypistsNext /\ UNCHANGED careful]_<< vars, careful >>

AnySpec ==
  /\ AnyInit
  /\ [][AnyNext /\ UNCHANGED careful]_<< vars, careful >>

-----------------------------------------------------------------------------
(* Nothing is stuck behind a careful typist: when she has let go of all    *)
(* keys the report holds none, and no modifier but that of a selection.    *)
NothingStuck ==
  careful /\ down = {} =>
    /\ \A k \in OutKeys : hid.keys[k] = 0
    /\ hid.mods = IF shift_down THEN {"SHIFT_LEFT"} ELSE {}

(* Two of the three keys that vim mode sends as delete are down: x, d and  *)
(* the delete key itself (process_input.c:76-92, 114-124).                 *)
TwoDeletes ==
  /\ current_mode = "vim" /\ current_modifiers = {}
  /\ \E j, k \in down \cap {"X", "D", "DELETE"} : j # k

(* She sees one diagnostic only, that of pressing delete twice at the same *)
(* time.  Every release finds its press, except that of the I that left    *)
(* vim mode, which is not reported (send_over_hid.c:36-41, 62-66).         *)
NoDiagnostics ==
  careful /\ said # {} => said = {"key down twice"} /\ TwoDeletes

(* "modifier received an up event but wasn't pressed down"                 *)
(* (send_over_hid.c:27) is printed when that happens.                      *)
UnpairedModifierReported ==
  [][\A key \in ModKeys :
       (key \in down /\ key \notin down' /\ current_mode = "normal" /\ key \notin hid.mods)
         => said' # {}]_vars
=============================================================================
