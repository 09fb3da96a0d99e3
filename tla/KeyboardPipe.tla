---------------------------- MODULE KeyboardPipe ----------------------------
(***************************************************************************)
(* What the USB keyboard promises to the program (abstract specification   *)
(* of UsbHid as MainLoop uses it): the reports reach the host one by one,  *)
(* none overtakes or overwrites another.  The bus may be reset at any      *)
(* time.  That lets go of all keys, and only then can a report be lost.    *)
(***************************************************************************)
EXTENDS Sequences

CONSTANTS Reports, Released

VARIABLES
  sent,         \* the last report given to the keyboard
  way,          \* the report on its way to the host, if there is one
  host          \* what the host has down

pipevars == << sent, way, host >>

Give ==
  /\ way = << >>
  /\ sent' \in Reports
  /\ way' = << sent' >> \/ (host = Released /\ way' = << >>)
  /\ UNCHANGED host

Reach ==
  /\ way # << >>
  /\ host' = way[1]
  /\ way' = << >>
  /\ UNCHANGED sent

Reset ==
  /\ host' = Released
  /\ way' = << >>
  /\ UNCHANGED sent

PipeInit == sent = Released /\ way = << >> /\ host = Released

PipeNext == Give \/ Reach \/ Reset

PipeSpec == PipeInit /\ [][PipeNext]_pipevars
=============================================================================
