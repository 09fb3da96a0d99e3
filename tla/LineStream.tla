----------------------------- MODULE LineStream -----------------------------
(***************************************************************************)
(* What the serial port promises to the program (abstract specification    *)
(* of CdcInput): the text that the host writes arrives as lines, one after *)
(* the other.  The last one waits to be fetched, the line Command enters   *)
(* the boot ROM instead.  Only while the host is not connected the end of  *)
(* what is still on its way may be cut off, at any character.              *)
(***************************************************************************)
EXTENDS Text

CONSTANTS
  Packets,        \* sequences of characters that the host may write at once
  Command         \* "reset"

VARIABLES
  connected,      \* the host has the port
  coming,         \* on its way: whole lines, and the text after them
  received,       \* the line to fetch, << >> if there is none
  rebooted

streamvars == << connected, coming, received, rebooted >>

-----------------------------------------------------------------------------
Write ==
  /\ connected
  /\ \E text \in Packets : coming' = Written(coming, text)
  /\ UNCHANGED << connected, received, rebooted >>

Arrive ==
  /\ coming.lines # << >>
  /\ coming' = [coming EXCEPT !.lines = Tail(@)]
  /\ IF CString(Head(coming.lines)) = Command
       THEN rebooted' = TRUE /\ UNCHANGED received
       ELSE received' = CString(Head(coming.lines)) /\ UNCHANGED rebooted
  /\ UNCHANGED connected

Fetch ==
  /\ received # << >>
  /\ received' = << >>
  /\ UNCHANGED << connected, coming, rebooted >>

Connection == connected' = ~connected /\ UNCHANGED << coming, received, rebooted >>

(* The beginning of a line may stay in front of what is written next. *)
Lose ==
  /\ ~connected
  /\ LET texts == Append(coming.lines, coming.typed)
     IN  \E n \in DOMAIN texts : \E length \in 0 .. Len(texts[n]) :
           coming' = [lines |-> SubSeq(texts, 1, n - 1),
                      typed |-> SubSeq(texts[n], 1, length)]
  /\ UNCHANGED << connected, received, rebooted >>

Init == connected = FALSE /\ coming = NoText /\ received = << >> /\ rebooted = FALSE

Next == ~rebooted /\ (Write \/ Arrive \/ Fetch \/ Connection \/ Lose)

Spec == Init /\ [][Next]_streamvars
=============================================================================
