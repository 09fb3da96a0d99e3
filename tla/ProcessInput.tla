---------------------------- MODULE ProcessInput ----------------------------
(***************************************************************************)
(* The key processing of the split keyboard that the firmware grew out of  *)
(* (code/src/process_input.c, code/src/send_over_hid.c): key events pass   *)
(* through a normal, a vim and a function mode and end up in the six key   *)
(* slots and the modifier byte of the keyboard report.  The files are      *)
(* built into the firmware; its main() does not call them.                 *)
(*                                                                         *)
(* The order of the slots does not matter to anyone, so they are a bag:    *)
(* how many slots hold each key.                                           *)
(***************************************************************************)
EXTENDS Naturals, FiniteSets, Functions

CONSTANTS
  Keys,                 \* codes of the keys of the keyboard
  Plain,                \* those that are ordinary keys
  MAX_DEPRESSED_KEYS    \* slots of the report: 6 (send_over_hid.c:8)

Shifts     == {"SHIFT_LEFT", "SHIFT_RIGHT"}
Controls   == {"CONTROL_LEFT", "CONTROL_RIGHT"}
ModKeys    == Shifts \cup Controls \cup {"ALT_LEFT", "ALT_RIGHT", "GUI_LEFT", "GUI_RIGHT"}
VimKeys    == {"HOME", "END", "PAGE_UP", "PAGE_DOWN", "ARROW_LEFT", "ARROW_DOWN",
               "ARROW_UP", "ARROW_RIGHT", "DELETE"}
FunctionKeys == {"F1", "F2"}
OutKeys    == Plain \cup VimKeys \cup FunctionKeys

(* Of the keys that vim mode sends, delete alone is on the keyboard, too   *)
(* (defines.c:10-14, 26-30).                                               *)
ASSUME KeysAssumption ==
  /\ IsFiniteSet(Keys)
  /\ Plain \subseteq Keys
  /\ Keys \subseteq Plain \cup ModKeys \cup {"VIM", "FN"}
  /\ Plain \cap (ModKeys \cup FunctionKeys \cup {"VIM", "FN"}) = {}
  /\ Plain \cap VimKeys \subseteq {"DELETE"}
  /\ MAX_DEPRESSED_KEYS \in Nat \ {0}

VARIABLES
  down,                 \* the keys that are pressed, as the matrix reports them
  current_mode,         \* "normal", "vim" or "function"
  current_modifiers,    \* subset of {"shift", "ctrl"}
  shift_down,           \* vim mode has pressed shift
  hid,                  \* depressed_keys, modifiers: the report last sent
  said                  \* the diagnostics printed for the last event

vars == << down, current_mode, current_modifiers, shift_down, hid, said >>

-----------------------------------------------------------------------------
(* send_over_hid.c: the report after an event, and what it prints.         *)

SlotsUsed(h) == FoldFunction(+, 0, h.keys)

(* Mutant: a press is entered whether a slot is free or not. *)
NoBound(h) == TRUE

FreeSlot(h) == SlotsUsed(h) < MAX_DEPRESSED_KEYS

KeyDown(h, key) == IF FreeSlot(h) THEN [h EXCEPT !.keys[key] = @ + 1] ELSE h
KeyUp(h, key)   == IF h.keys[key] > 0 THEN [h EXCEPT !.keys[key] = @ - 1] ELSE h

send_over_hid(h, action, key) ==
  IF key \in ModKeys
    THEN [h EXCEPT !.mods = IF action = "down" THEN @ \cup {key} ELSE @ \ {key}]
    ELSE IF action = "down" THEN KeyDown(h, key) ELSE KeyUp(h, key)

(* Line 26 tests modifiers & (bit == 0), which is never true: the release  *)
(* of a modifier that is not pressed goes unreported.                      *)
Diagnostics(h, action, key) ==
  IF action = "down"
    THEN IF key \in ModKeys
           THEN IF key \in h.mods THEN {"modifier down twice"} ELSE {}
           ELSE IF h.keys[key] > 0 THEN {"key down twice"} ELSE {}
    ELSE IF key \notin ModKeys /\ h.keys[key] = 0 /\ key # "I"
           THEN {"key up unpaired"} ELSE {}

Send(action, key) ==
  /\ hid' = send_over_hid(hid, action, key)
  /\ said' = Diagnostics(hid, action, key)

SendBoth(action, key, action2, key2) ==
  LET h == send_over_hid(hid, action, key)
  IN  /\ hid' = send_over_hid(h, action2, key2)
      /\ said' = Diagnostics(hid, action, key) \cup Diagnostics(h, action2, key2)

Silent == hid' = hid /\ said' = {}

-----------------------------------------------------------------------------
(* process_input.c. *)

(* Mutant: a flag, once set, stays. *)
TrackKept(flag, keys, action, key, m) ==
  IF key \in keys /\ action = "down" THEN m \cup {flag} ELSE m

(* Lines 128-143: the modifier flags as the rest of the call sees them.    *)
Track(flag, keys, action, key, m) ==
  IF key \notin keys THEN m ELSE IF action = "down" THEN m \cup {flag} ELSE m \ {flag}

Modifiers(action, key) ==
  Track("ctrl", Controls, action, key, Track("shift", Shifts, action, key, current_modifiers))

(* Lines 43-74: keys that vim mode maps to another key. *)
VimTable(m) ==
  CASE m = {} -> [k \in {"0", "H", "J", "K", "L"} |->
                    CASE k = "0" -> "HOME"      [] k = "H" -> "ARROW_LEFT"
                      [] k = "J" -> "ARROW_DOWN" [] k = "K" -> "ARROW_UP"
                      [] k = "L" -> "ARROW_RIGHT"]
    [] m = {"shift"} -> [k \in {"4", "H", "L"} |->
                    CASE k = "4" -> "END" [] k = "H" -> "PAGE_UP" [] k = "L" -> "PAGE_DOWN"]
    [] OTHER -> [k \in {} |-> k]

VimMove(action, key, m) ==
  /\ key \in DOMAIN VimTable(m)
  /\ Send(action, VimTable(m)[key])
  /\ UNCHANGED << current_mode, shift_down >>

(* Mutants: the end of a selection is forgotten, its shift is not released; *)
(* modifiers are passed on, as in the other modes.                         *)
NotEnded  == shift_down
NoShift   == FALSE
Passed(key) == TRUE

(* Lines 84, 110: the selection is over, and was there one (79, 107).      *)
Ended     == FALSE
Selection == shift_down
PassedOn(key) == key \notin Shifts \cup Controls

(* Lines 76-92: delete, and end the selection. *)
VimDelete(action, key, m) ==
  /\ m = {} /\ key \in {"X", "D"}
  /\ IF Selection THEN SendBoth(action, "DELETE", "up", "SHIFT_LEFT")
                  ELSE Send(action, "DELETE")
  /\ shift_down' = Ended
  /\ UNCHANGED current_mode

(* Lines 94-104: begin or end a selection. *)
VimSelect(action, key, m) ==
  /\ m = {} /\ key = "V"
  /\ IF action = "down"
       THEN /\ Send(IF shift_down THEN "up" ELSE "down", "SHIFT_LEFT")
            /\ shift_down' = ~shift_down
       ELSE Silent /\ UNCHANGED shift_down
  /\ UNCHANGED current_mode

(* Lines 106-112. *)
VimExit(action, key, m) ==
  /\ m = {} /\ key = "I"
  /\ IF Selection THEN Send("up", "SHIFT_LEFT") ELSE Silent
  /\ shift_down' = Ended
  /\ current_mode' = "normal"

(* Lines 114-125: everything else but shift and control is passed on. *)
VimOther(action, key, m) ==
  /\ key \notin DOMAIN VimTable(m)
  /\ ~(m = {} /\ key \in {"X", "D", "V", "I"})
  /\ IF PassedOn(key) THEN Send(action, key) ELSE Silent
  /\ UNCHANGED << current_mode, shift_down >>

vim_process_input(action, key, m) ==
  \/ VimMove(action, key, m) \/ VimDelete(action, key, m) \/ VimSelect(action, key, m)
  \/ VimExit(action, key, m) \/ VimOther(action, key, m)

(* Lines 26-38; two of the twelve keys stand for them all. *)
FunctionKey(key) == CASE key = "1" -> "F1" [] key = "2" -> "F2" [] OTHER -> key

NormalInput(action, key) ==
  /\ current_mode = "normal"
  /\ IF key \notin {"VIM", "FN"}
       THEN Send(action, key) /\ UNCHANGED current_mode
       ELSE /\ Silent
            /\ current_mode' = IF action = "up" THEN "normal"
                               ELSE IF key = "VIM" THEN "vim" ELSE "function"
  /\ UNCHANGED shift_down

VimInput(action, key) ==
  /\ current_mode = "vim"
  /\ IF key \notin {"VIM", "FN"}
       THEN vim_process_input(action, key, Modifiers(action, key))
       ELSE Silent /\ UNCHANGED << current_mode, shift_down >>

FunctionInput(action, key) ==
  /\ current_mode = "function"
  /\ IF key \notin {"VIM", "FN"}
       THEN Send(action, FunctionKey(key)) /\ UNCHANGED current_mode
       ELSE /\ Silent
            /\ current_mode' = IF key = "FN" /\ action = "down" THEN "normal" ELSE "function"
  /\ UNCHANGED shift_down

process_input(action, key) ==
  /\ current_modifiers' = Modifiers(action, key)
  /\ NormalInput(action, key) \/ VimInput(action, key) \/ FunctionInput(action, key)

-----------------------------------------------------------------------------
(* The typist: every key goes down and up by turns.                        *)

Press(key)   == key \notin down /\ down' = down \cup {key} /\ process_input("down", key)
Release(key) == key \in down    /\ down' = down \ {key}    /\ process_input("up", key)

Init ==
  /\ down = {}
  /\ current_mode = "normal" /\ current_modifiers = {} /\ shift_down = FALSE
  /\ hid = [keys |-> [k \in OutKeys |-> 0], mods |-> {}]
  /\ said = {}

Next == \E key \in Keys : Press(key) \/ Release(key)

Spec == Init /\ [][Next]_vars

-----------------------------------------------------------------------------
TypeOK ==
  /\ down \subseteq Keys
  /\ current_mode \in {"normal", "vim", "function"}
  /\ current_modifiers \subseteq {"shift", "ctrl"}
  /\ shift_down \in BOOLEAN
  /\ hid.keys \in [OutKeys -> 0 .. MAX_DEPRESSED_KEYS]
  /\ SlotsUsed(hid) <= MAX_DEPRESSED_KEYS
  /\ hid.mods \subseteq ModKeys

(* The shift that vim mode holds down for a selection is in the report and *)
(* ends with vim mode, whatever the user types (process_input.c:76-112).   *)
SelectionHeld ==
  shift_down => current_mode = "vim" /\ "SHIFT_LEFT" \in hid.mods

(* A shift or control flag is never left over from a key that was          *)
(* released (process_input.c:129-143).                                     *)
FlagsHeld ==
  /\ "shift" \in current_modifiers => down \cap Shifts # {}
  /\ "ctrl" \in current_modifiers => down \cap Controls # {}
=============================================================================
