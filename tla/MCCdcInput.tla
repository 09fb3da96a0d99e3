----------------------------- MODULE MCCdcInput -----------------------------
(***************************************************************************)
(* CdcInput for TLC, with a host that at some moment types what            *)
(* code/build.sh sends to put the firmware into the boot ROM: a newline,   *)
(* the command and a newline, each with the carriage return that a         *)
(* terminal puts in front of it.                                           *)
(***************************************************************************)
EXTENDS CdcInput

VARIABLE script     \* what the host has left to type; None when it does not

None   == << "none" >>
Script == << CR, LF >> \o Command \o << CR, LF >>

MCCommand == << "a", "b" >>
MCPackets == { << "a" >>, << "b" >>, << LF >>, << CR >>, << "a", "b" >>, << "b", LF >>,
               << LF, "a" >>, << CR, LF >>, << NUL, "a" >>, << LF, LF >> }

CdcInit == Init /\ script = None

(* A packet of the script, or of anything before it. *)
Types ==
  /\ script # None
  /\ \E n \in 1 .. Min({EP_SIZE, Len(script)}) :
       HostWrites(SubSeq(script, 1, n)) /\ script' = SubSeq(script, n + 1, Len(script))

Scribbles == script = None /\ (\E text \in Packets : HostWrites(text)) /\ UNCHANGED script

StartScript == script = None /\ script' = Script /\ UNCHANGED cdcvars

(* A bus reset interrupts the script. *)
Interrupt == (BusReset /\ script' = None) \/ (HostConfigure /\ UNCHANGED script)

CdcNext ==
  /\ pc # "bootrom"
  /\ \/ Program /\ UNCHANGED script
     \/ Types \/ Scribbles \/ StartScript \/ Interrupt

Gone == pc = "bootrom" /\ UNCHANGED << cdcvars, script >>

(* The program keeps running, in and out of usb_task (main.c:232), the     *)
(* host configures the device and goes on typing.                          *)
CdcSpec ==
  /\ CdcInit /\ [][CdcNext \/ Gone]_<<cdcvars, script>>
  /\ WF_cdcvars(usb_task) /\ WF_cdcvars(Read \/ Store \/ Return \/ EndLine \/ Reboot)
  /\ WF_cdcvars(HostConfigure) /\ WF_cdcvars(Types)

(* The command of build.sh, behind a newline of its own, enters the boot   *)
(* ROM whatever an earlier terminal left in the line buffer, unless the    *)
(* bus is reset meanwhile (usb.c:52-67, build.sh:18).                      *)
ScriptObeyed == script # None ~> (pc = "bootrom" \/ script = None)
=============================================================================
