---------------------------- MODULE MCIrReceiver ----------------------------
(***************************************************************************)
(* Instances of IrReceiver for TLC.                                        *)
(***************************************************************************)
EXTENDS IrReceiver

CONSTANT POLL_EVERY   \* longest time between two polls of main(), in samples

(* The silence between two frames lasts through the time-out behind a      *)
(* frame, which began half a bit before its end, until main() looks, and   *)
(* through its poll.                                                       *)
ASSUME PollAssumption ==
  /\ POLL_EVERY \in Nat
  /\ 4 * IR_SAMPLE_COUNT + 1 + POLL_EVERY + POLL_TICKS <= GAP + HALF_MIN

VARIABLE late         \* samples since main() last looked at ir.active

(* Every frame of FRAME_BITS bits. *)
AllFrames == [1 .. FRAME_BITS -> {0, 1}]

(* Four 13-bit frames: volume up with either value of the toggle bit, an   *)
(* alternating word and a constant one, so that all the edge patterns of   *)
(* the code (half-bit edges everywhere, and nowhere) occur.                *)
SomeFrames ==
  { << 1, 0,  1, 1, 0, 0, 0,  0, 1, 0, 0, 1, 1 >>,
    << 1, 1,  1, 1, 0, 0, 0,  0, 1, 0, 0, 1, 1 >>,
    << 0, 1, 0, 1, 0, 1, 0, 1, 0, 1, 0, 1, 0 >>,
    << 1, 1, 1, 1, 1, 1, 1, 1, 1, 1, 1, 1, 1 >> }

FreeInit == Init /\ late = 0
FreeNext == Next /\ UNCHANGED late
FreeSpec ==
  /\ FreeInit /\ [][FreeNext]_<< vars, late >>
  /\ WF_vars(Tick) /\ WF_vars(PollBits \/ PollValue \/ PollClear)

(* There is no noise, and main() looks at ir.active at least every         *)
(* POLL_EVERY samples: it is not sleeping for the mute button, nor waiting *)
(* for the host.                                                           *)
TimelyTick ==
  /\ late < POLL_EVERY
  /\ Tick /\ flips' = 0
  /\ late' = late + 1

TimelyPoll == Poll /\ late' = 0

(* Line 170 with a reception going on: main() looks and passes on. *)
PollWhileActive ==
  /\ pc = "idle" /\ active
  /\ late' = 0
  /\ UNCHANGED vars

TimelySpec ==
  FreeInit /\ [][TimelyTick \/ TimelyPoll \/ PollWhileActive]_<< vars, late >>

(* Every frame reaches main() when it polls in time: by the time the next  *)
(* frame is on the air, the one before was taken (main.c:57-58 resets what *)
(* main() has not taken).                                                  *)
NoFrameLost == sending => ~fresh
=============================================================================
