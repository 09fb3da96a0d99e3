------------------------------ MODULE MCTimed ------------------------------
(***************************************************************************)
(* MainLoop in real time: the program takes no time but in its sleeps and  *)
(* its waits for the host, so that every tick outside of those sees at     *)
(* least one whole round of the loop; the host polls the keyboard every    *)
(* HOST_LAG ticks and leaves the bus alone.                                *)
(*                                                                         *)
(* Two users of the device: one that holds down buttons of the remote      *)
(* control, one that turns the encoder, whose contacts bounce.  The phases *)
(* of the encoder are on pin 16, whose edges main() looks for, and on pin  *)
(* 17, which tells the direction.                                          *)
(***************************************************************************)
EXTENDS MCMainLoop

CONSTANTS
  HOST_LAG,     \* longest time that a report waits in the endpoint
  FRAME_TIME,   \* from the first edge of a frame to the time-out behind it
  PERIOD,       \* from one frame to the next while a button is held
  RELEASE_TIME, \* from the end of the last frame to the release, at most
  BOUNCE,       \* longest bouncing of an edge of the encoder
  STABLE,       \* shortest rest between the edges on pin 16
  APART         \* pin 17 does not change that long after an edge on pin 16

(* What the durations must be.  The key of the remote control: its frame   *)
(* is dealt with before the next one, the reports of one frame are out     *)
(* before the silence is noticed, which is not before the next frame of a  *)
(* held button, and presses are told apart.  The encoder: an edge stops    *)
(* bouncing while the program sleeps, and two services of an edge with the *)
(* last report in front of them are over before two edges and a rest.      *)
ASSUME TimingAssumption ==
  /\ HOST_LAG \in Nat /\ FRAME_TIME \in Nat /\ PERIOD \in Nat /\ RELEASE_TIME \in Nat
  /\ BOUNCE \in Nat /\ STABLE \in Nat /\ APART \in Nat
  /\ 0 < FRAME_TIME /\ FRAME_TIME + 1 + 2 * HOST_LAG + IR_SLEEP < PERIOD
  /\ 3 * HOST_LAG + IR_SLEEP <= RC5_TIMEOUT
  /\ PERIOD <= RC5_TIMEOUT + FRAME_TIME + 1
  /\ RC5_TIMEOUT < RELEASE_TIME
  /\ \A f, g \in Frames : rc5_decode(f) = rc5_decode(g) => f = g
  /\ 0 < BOUNCE /\ BOUNCE <= ENC_SLEEP /\ BOUNCE < APART
  /\ 2 * ENC_SLEEP + HOST_LAG < 2 * (BOUNCE + STABLE)
  /\ 3 * HOST_LAG < 2 * (BOUNCE + STABLE)

VARIABLES
  user,         \* "remote" or "encoder"
  looped,       \* a round of the loop has ended since the last tick
  lag,          \* age of the report in the endpoint
  button,       \* the frame of the remote control button, << >> before any
  held,         \* that button is held down
  phase,        \* ticks since the frame began
  gone,         \* ticks since a frame was last received, to RELEASE_TIME + 1
  level, other, \* pins 16 and 17, or where they are going
  settle,       \* ticks since its last edge, to BOUNCE + STABLE
  owed,         \* rising edges minus taps sent
  meant         \* the key for the direction of the last rising edge

pace    == << looped, lag >>
remote  == << button, held, phase, gone >>
encoder == << level, other, settle, owed, meant >>
timedvars == << user, mainvars, pace, remote, encoder >>

(* The tick comes in a sleep, in a wait, or after a round of the loop. *)
MayTick ==
  /\ \/ pc \in {"enc_sleep", "mute_sleep", "ir_sleep"} /\ wait > 0
     \/ pc \in UpdatePcs /\ ~HidReady /\ ~done /\ lag < HOST_LAG
     \/ pc = "top" /\ looped /\ lag < HOST_LAG

PacedTick ==
  /\ MayTick
  /\ looped' = FALSE
  /\ lag' = IF ep = << >> THEN 0 ELSE IF lag < HOST_LAG THEN lag + 1 ELSE lag

PacedHost ==
  /\ HostPoll
  /\ lag' = 0
  /\ UNCHANGED << program, time, cdc, irvars, looped, remote, encoder >>

PacedCompute ==
  /\ Compute \/ ReadMute(1)
  /\ looped' = (looped \/ pc = "bottom")
  /\ owed' = IF pc = "enc_press" /\ pc' # pc THEN owed - 1 ELSE owed
  /\ UNCHANGED << lag, remote, level, other, settle, meant >>

(* Configured, with nothing going on. *)
TimedInit ==
  /\ pc = "top" /\ wait = 0 /\ since = 0
  /\ last_state = 0 /\ new_state = 0
  /\ clear = FALSE /\ rc5_data = NoData /\ rc5_new = FALSE /\ key = NoKey
  /\ cdc = FALSE /\ IrInit
  /\ mounted = TRUE /\ suspended = FALSE /\ busy = FALSE /\ done = FALSE
  /\ bus = "up" /\ ep = << >> /\ host = Released /\ sent = Released
  /\ looped = FALSE /\ lag = 0
  /\ button = << >> /\ held = FALSE /\ phase = PERIOD /\ gone = RELEASE_TIME + 1
  /\ level = 0 /\ other \in {0, 1} /\ settle = BOUNCE + STABLE
  /\ owed = 0 /\ meant = NoKey
  /\ user \in {"remote", "encoder"}

-----------------------------------------------------------------------------
(* The remote control. *)

(* A button is pressed or let go of between two frames. *)
Press ==
  /\ ~held /\ phase = PERIOD
  /\ held' = TRUE
  /\ button' \in Frames \ {button}
  /\ UNCHANGED << mainvars, pace, phase, gone, encoder >>

LetGo ==
  /\ held /\ FRAME_TIME < phase /\ phase < PERIOD
  /\ held' = FALSE
  /\ UNCHANGED << mainvars, pace, button, phase, gone, encoder >>

RemoteTick ==
  /\ PacedTick
  /\ IF phase = PERIOD
       THEN IF held THEN phase' = 1 /\ IrBegin ELSE UNCHANGED << phase, irvars >>
       ELSE /\ phase' = phase + 1
            /\ IF phase = FRAME_TIME
                 THEN IrFinish /\ value_bits' = FRAME_BITS /\ value' = button
                 ELSE UNCHANGED irvars
  /\ gone' = IF phase = FRAME_TIME THEN 0
             ELSE IF gone <= RELEASE_TIME THEN gone + 1 ELSE gone
  /\ wait' = IF wait = 0 THEN 0 ELSE wait - 1
  /\ since' = (since + 1) % CLOCK_MOD
  /\ UNCHANGED << program, cdc, usbvars, button, held, encoder >>

RemoteRead ==
  /\ ReadEncoder(level)
  /\ UNCHANGED << pace, remote, encoder >>

RemoteNext ==
  RemoteTick \/ Press \/ LetGo \/ RemoteRead \/ PacedCompute \/ PacedHost

(* A button that is held down keeps its key down: between the frames that  *)
(* repeat it every 114 ms the key is not released by the time-out of       *)
(* 100 ms, which runs while the next frame is being received               *)
(* (main.c:170-183).                                                       *)
HeldKeyStaysDown ==
  [][held /\ held' /\ rc5_data = rc5_decode(button) => rc5_data' = rc5_data]_timedvars

(* A button that was let go of releases its key in time, unless the next   *)
(* frame is on its way (main.c:178-183).                                   *)
LetGoReleases == user = "remote" /\ gone > RELEASE_TIME /\ ~active => sent = Released

-----------------------------------------------------------------------------
(* The encoder. *)

(* On a rising edge the phases are equal when it is turned up.             *)
Turn ==
  /\ settle = BOUNCE + STABLE
  /\ level' = 1 - level
  /\ settle' = 0
  /\ IF level = 0
       THEN /\ owed' = owed + 1
            /\ meant' = IF other = 1 THEN "VOLUME_UP" ELSE "VOLUME_DOWN"
       ELSE UNCHANGED << owed, meant >>
  /\ UNCHANGED << mainvars, pace, remote, other >>

TurnOther ==
  /\ settle >= APART
  /\ other' = 1 - other
  /\ UNCHANGED << mainvars, pace, remote, level, settle, owed, meant >>

TurnTick ==
  /\ PacedTick
  /\ settle' = IF settle < BOUNCE + STABLE THEN settle + 1 ELSE settle
  /\ Tick
  /\ UNCHANGED << remote, level, other, owed, meant >>

(* An edge reads as either level while it bounces. *)
TurnRead ==
  /\ \E seen \in {0, 1} :
       /\ settle >= BOUNCE => seen = level
       /\ ReadEncoder(seen)
  /\ UNCHANGED << pace, remote, encoder >>

TurnDirection ==
  /\ ReadDirection(other)
  /\ UNCHANGED << pace, remote, encoder >>

TurnNext ==
  Turn \/ TurnOther \/ TurnTick \/ TurnRead \/ TurnDirection \/ PacedCompute \/ PacedHost

TimedNext ==
  /\ (user = "remote" /\ RemoteNext) \/ (user = "encoder" /\ TurnNext)
  /\ UNCHANGED user

TimedSpec == TimedInit /\ [][TimedNext]_timedvars

(* Every rising edge of the encoder is one tap of a volume key: it bounces *)
(* without a second tap, and the tap is out before the next rising edge    *)
(* (main.c:145-158).                                                       *)
OneTapPerEdge == owed \in {0, 1}

(* The tap is the one for the direction in which the encoder was turned,   *)
(* although main() reads the other phase when it gets to it, and not when  *)
(* the edge was (main.c:147-153).                                          *)
RightDirection == pc = "enc_press" => key = meant
=============================================================================
