----------------------------- MODULE MCMainLive -----------------------------
(***************************************************************************)
(* MainLoop when the world calms down: at some moment, in any state, the   *)
(* user lets go of everything and the host stops resetting and suspending  *)
(* the bus.  A sleep takes any number of ticks here.                       *)
(***************************************************************************)
EXTENDS MCMainLoop

VARIABLES
  calm,         \* nothing more comes from outside
  rest,         \* the level at which the encoder has come to rest
  source        \* who disturbs beyond pins and bus: "remote" or "terminal"

livevars == << mainvars, calm, rest, source >>

Disturbed ==
  /\ ~calm /\ MainNext
  /\ active' => source = "remote"
  /\ cdc' => source = "terminal"
  /\ UNCHANGED << calm, rest, source >>

CalmDown ==
  /\ ~calm
  /\ calm' = TRUE /\ rest' \in {0, 1}
  /\ UNCHANGED << mainvars, source >>

(* Two looks at the clock are less than one turn of it apart: it stands    *)
(* still where the next tick would wrap it around.                         *)
CalmTick == (wait > 0 \/ since < CLOCK_MOD - 1) /\ Tick

CalmHost ==
  /\ HostPoll \/ HostResume \/ HostConfigure
  /\ UNCHANGED << program, time, cdc, irvars >>

CalmReceive == IrFinish /\ UNCHANGED << program, time, cdc, usbvars >>

Calm ==
  /\ calm /\ Alive
  /\ \/ ReadEncoder(rest)
     \/ \E level \in {0, 1} : ReadDirection(level)
     \/ ReadMute(1)
     \/ Compute \/ CalmTick \/ CalmHost \/ CalmReceive
  /\ UNCHANGED << calm, rest, source >>

AtRest == calm /\ Ended /\ UNCHANGED << calm, rest, source >>

LiveInit ==
  /\ MainInit /\ calm = FALSE /\ rest = 0
  /\ source \in {"remote", "terminal"}
LiveNext == Disturbed \/ CalmDown \/ Calm \/ AtRest

(* The clock ticks, too. *)
LiveSpec ==
  /\ LiveInit /\ [][LiveNext]_livevars
  /\ Fairness /\ WF_mainvars(calm /\ Alive /\ CalmTick)

(* Once the world is calm the host soon sees no key down, for good: the    *)
(* key of whatever was pressed or received last, however its reports were  *)
(* delayed or lost, is released (main.c:156-190, usb.c:79-84).             *)
QuietMeansReleased ==
  [](calm => <>[](host = Released \/ pc = "bootrom"))

(* A "reset" that the host writes is obeyed, or lost in a reset of the     *)
(* bus: no wait for the host keeps the program from usb_task for good      *)
(* (usb.c:57-59, 79-82, main.c:232).  The exception is a report that the   *)
(* driver does not survive, after a reset of the bus that tud_task has not *)
(* seen.                                                                   *)
ResetObeyed == calm /\ cdc ~> ~cdc \/ (pc = "halted" /\ bus = "reset")
=============================================================================
