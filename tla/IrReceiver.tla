----------------------------- MODULE IrReceiver -----------------------------
(***************************************************************************)
(* The infrared receiver of code/src/main.c at the resolution of one run   *)
(* of the 100 us timer interrupt: irq_sample_ir, a remote control that     *)
(* sends Manchester-coded RC-5 frames on the line (gpio 28), line noise    *)
(* between frames, and the accesses by which main() takes a frame out of   *)
(* the shared, unlocked struct ir.                                         *)
(*                                                                         *)
(* Time is counted in runs of the interrupt.  A Tick is one run: the line  *)
(* takes its level for this sample and irq_sample_ir handles it.  Each     *)
(* access of main() to struct ir is a step of its own, so the interrupt    *)
(* can run between any two of them.                                        *)
(***************************************************************************)
EXTENDS Naturals, Sequences

CONSTANTS
  IR_SAMPLE_COUNT,  \* samples in 800 us: 8 in the code (main.c:17)
  FRAME_BITS,       \* bits of a frame after its start bit: 13 (main.c:173)
  Frames,           \* the frames that the remote control can send
  HALF_MIN,         \* a half bit (889 us) lasts HALF_MIN..HALF_MAX samples
  HALF_MAX,
  GAP,              \* silent samples before a frame (89 ms in RC-5)
  MAX_FLIPS,        \* bound: changes of the line by noise between frames
  POLL_TICKS        \* interrupts that can hit one poll of main()

ASSUME ReceiverAssumption ==
  /\ IR_SAMPLE_COUNT \in Nat /\ FRAME_BITS \in Nat /\ HALF_MIN \in Nat
  /\ HALF_MAX \in Nat /\ GAP \in Nat /\ MAX_FLIPS \in Nat /\ POLL_TICKS \in Nat
  /\ Frames # {}
  /\ Frames \subseteq [1 .. FRAME_BITS -> {0, 1}]
  /\ 0 < HALF_MIN /\ HALF_MIN <= HALF_MAX
  /\ 2 * (HALF_MAX + 1) < 3 * IR_SAMPLE_COUNT
  /\ 3 * IR_SAMPLE_COUNT <= 4 * HALF_MIN
  /\ 4 * IR_SAMPLE_COUNT + 2 <= GAP
  /\ MAX_FLIPS < FRAME_BITS
  /\ POLL_TICKS < HALF_MIN

VARIABLES
  \* struct ir (main.c:39-46)
  active, last, count, value, value_bits,
  \* the line, and the remote control that drives it
  line,         \* level of gpio 28; idle is 1
  sending,      \* a frame is on the air
  frame,        \* the frame on the air
  pos, half,    \* bit of the frame (0 is the start bit) and half of that bit
  age,          \* samples since this half began
  quiet,        \* silent samples since the last change of an idle line
  flips,        \* changes of the line by noise since the last frame
  \* main() polling struct ir (main.c:169-192)
  pc,           \* next access to struct ir
  raced,        \* interrupts since this poll began
  got,          \* words taken by this poll: at most one
  \* history of the conversation, read by the properties only
  sent,         \* the last frame sent to its end
  fresh         \* it was not taken by main() yet

isr    == << active, last, count, value, value_bits >>
remote == << line, sending, frame, pos, half, age, quiet, flips >>
poller == << pc, raced, got >>
vars   == << isr, remote, poller, sent, fresh >>

-----------------------------------------------------------------------------
(* irq_sample_ir (main.c:48-85), as its four outcomes for a sample new.    *)

(* Mutants of the definitions below: lines 57 and 58 dropped, and a        *)
(* time-out twice as long.                                                 *)
ValueKept   == value
BitsKept    == value_bits
LateTimeOut == (IF active THEN count ELSE 0) > IR_SAMPLE_COUNT * 8

(* Samples counted, word and bit count as the code past line 60 sees them. *)
Count == IF active THEN count ELSE 0
Value == IF active THEN value ELSE << >>
Bits  == IF active THEN value_bits ELSE 0

TimedOut     == Count > IR_SAMPLE_COUNT * 4
LongEnough   == 2 * (Count + 1) >= 3 * IR_SAMPLE_COUNT

(* Line 53: inactive and no change. *)
IsrIdle(new) ==
  /\ ~active /\ new = last
  /\ UNCHANGED isr

(* Mutant: the receiver stays active. *)
IsrNoTimeOut(new) ==
  /\ active \/ new # last
  /\ TimedOut
  /\ active' = TRUE
  /\ count' = Count + 1
  /\ value' = Value /\ value_bits' = Bits
  /\ UNCHANGED last

(* Mutant: the reception starts over instead of ending. *)
IsrStartOver(new) ==
  /\ active \/ new # last
  /\ TimedOut
  /\ active' = TRUE
  /\ count' = 0 /\ value' = << >> /\ value_bits' = 0
  /\ UNCHANGED last

(* Lines 63-66: too long since the last bit.  ir.last is not updated. *)
IsrTimeOut(new) ==
  /\ active \/ new # last
  /\ TimedOut
  /\ active' = FALSE
  /\ count' = Count + 1
  /\ value' = Value /\ value_bits' = Bits
  /\ UNCHANGED last

(* Lines 69-73: no change, or one too soon after the last bit. *)
IsrNoBit(new) ==
  /\ active \/ new # last
  /\ ~TimedOut
  /\ new = last \/ ~LongEnough
  /\ active' = TRUE
  /\ last' = new
  /\ count' = Count + 1
  /\ value' = Value /\ value_bits' = Bits

(* Mutant: the bits are shifted in from the wrong end. *)
IsrBitReversed(new) ==
  /\ active \/ new # last
  /\ ~TimedOut
  /\ new # last /\ LongEnough
  /\ active' = TRUE
  /\ last' = new
  /\ count' = 0
  /\ value' = << 1 - new >> \o Value
  /\ value_bits' = Bits + 1

(* Lines 76-82: a bit, the inverse of the level after the change. *)
IsrBit(new) ==
  /\ active \/ new # last
  /\ ~TimedOut
  /\ new # last /\ LongEnough
  /\ active' = TRUE
  /\ last' = new
  /\ count' = 0
  /\ value' = Append(Value, 1 - new)
  /\ value_bits' = Bits + 1

irq_sample_ir(new) ==
  IsrIdle(new) \/ IsrTimeOut(new) \/ IsrNoBit(new) \/ IsrBit(new)

-----------------------------------------------------------------------------
(* The remote control, external to the firmware.  Each action gives the    *)
(* level line' that the next run of the interrupt samples.                 *)

BitSent(p) == IF p = 0 THEN 1 ELSE frame[p]

(* Manchester code seen through the inverting demodulator: a 1 is high     *)
(* then low, a 0 is low then high.                                         *)
Level(p, h) == IF h = 1 THEN BitSent(p) ELSE 1 - BitSent(p)

(* The first half of the start bit equals the idle level, so a frame shows *)
(* on the line from the second half of its start bit.                      *)
StartFrame ==
  /\ ~sending /\ line = 1 /\ quiet >= GAP
  /\ frame' \in Frames
  /\ sending' = TRUE
  /\ pos' = 0 /\ half' = 2 /\ age' = 1
  /\ line' = 0
  /\ quiet' = 0 /\ flips' = 0
  /\ UNCHANGED << sent, fresh >>

HoldLevel ==
  /\ sending /\ age < HALF_MAX
  /\ age' = age + 1
  /\ UNCHANGED << line, sending, frame, pos, half, quiet, flips, sent, fresh >>

NextHalf ==
  /\ sending /\ age >= HALF_MIN
  /\ ~(pos = FRAME_BITS /\ half = 2)
  /\ pos' = IF half = 2 THEN pos + 1 ELSE pos
  /\ half' = 3 - half
  /\ age' = 1
  /\ line' = Level(pos', half')
  /\ UNCHANGED << sending, frame, quiet, flips, sent, fresh >>

EndFrame ==
  /\ sending /\ age >= HALF_MIN
  /\ pos = FRAME_BITS /\ half = 2
  /\ sending' = FALSE
  /\ line' = 1
  /\ sent' = frame
  /\ fresh' = TRUE
  /\ UNCHANGED << frame, pos, half, age, quiet, flips >>

(* An idle line that stays as it is; only a high line counts as silent. *)
Silence ==
  /\ ~sending
  /\ quiet' = IF line = 1 /\ quiet < GAP THEN quiet + 1 ELSE quiet
  /\ UNCHANGED << line, sending, frame, pos, half, age, flips, sent, fresh >>

Noise ==
  /\ ~sending /\ flips < MAX_FLIPS
  /\ line' = 1 - line
  /\ flips' = flips + 1
  /\ quiet' = 0
  /\ UNCHANGED << sending, frame, pos, half, age, sent, fresh >>

RemoteStep ==
  StartFrame \/ HoldLevel \/ NextHalf \/ EndFrame \/ Silence \/ Noise

(* One run of the timer interrupt.  The accesses of one poll take a few    *)
(* microseconds, so at most POLL_TICKS runs come in between them.          *)
Tick ==
  /\ pc # "idle" => raced < POLL_TICKS
  /\ RemoteStep
  /\ irq_sample_ir(line')
  /\ raced' = IF pc = "idle" THEN raced ELSE raced + 1
  /\ UNCHANGED << pc, got >>

-----------------------------------------------------------------------------
(* main() taking a word out of struct ir (main.c:169-192).                 *)

(* Mutant: the test is dropped. *)
PollAlways ==
  /\ pc = "idle"
  /\ pc' = "bits" /\ raced' = 0 /\ got' = << >>
  /\ UNCHANGED << isr, remote, sent, fresh >>

(* Line 170: the test of ir.active. *)
PollActive ==
  /\ pc = "idle" /\ ~active
  /\ pc' = "bits" /\ raced' = 0 /\ got' = << >>
  /\ UNCHANGED << isr, remote, sent, fresh >>

(* Line 173: the test of ir.value_bits. *)
PollBits ==
  /\ pc = "bits"
  /\ pc' = IF value_bits = FRAME_BITS THEN "value" ELSE "clear"
  /\ UNCHANGED << isr, remote, raced, got, sent, fresh >>

(* Line 176: the read of ir.value that is decoded. *)
PollValue ==
  /\ pc = "value"
  /\ got' = << value >>
  /\ fresh' = FALSE
  /\ pc' = "clear"
  /\ UNCHANGED << isr, remote, raced, sent >>

(* Mutant: the bits are cleared only when there was no frame. *)
PollClearNoise ==
  /\ pc = "clear"
  /\ value_bits' = IF got = << >> THEN 0 ELSE value_bits
  /\ pc' = "idle" /\ raced' = 0 /\ got' = << >>
  /\ UNCHANGED << active, last, count, value, remote, sent, fresh >>

(* Line 191: the write of ir.value_bits. *)
PollClear ==
  /\ pc = "clear"
  /\ value_bits' = 0
  /\ pc' = "idle" /\ raced' = 0 /\ got' = << >>
  /\ UNCHANGED << active, last, count, value, remote, sent, fresh >>

Poll == PollActive \/ PollBits \/ PollValue \/ PollClear

-----------------------------------------------------------------------------
(* struct ir is zero-initialised, so ir.last differs from the idle line    *)
(* and the first run of the interrupt starts a reception of nothing.       *)
Init ==
  /\ active = FALSE /\ last = 0 /\ count = 0
  /\ value = << >> /\ value_bits = 0
  /\ line = 1 /\ sending = FALSE
  /\ frame \in Frames /\ sent = frame /\ fresh = FALSE
  /\ pos = 0 /\ half = 2 /\ age = 1
  /\ quiet = 0 /\ flips = 0
  /\ pc = "idle" /\ raced = 0 /\ got = << >>

Next == Tick \/ Poll

Spec == Init /\ [][Next]_vars

(* The timer interrupt keeps firing, and main() ends a poll it has begun   *)
(* (there is no wait between lines 170 and 191).  That it begins one again *)
(* is not assumed.                                                         *)
FairSpec == Spec /\ WF_vars(Tick) /\ WF_vars(PollBits \/ PollValue \/ PollClear)

-----------------------------------------------------------------------------
TypeOK ==
  /\ active \in BOOLEAN /\ last \in {0, 1} /\ count \in 0 .. 4 * IR_SAMPLE_COUNT + 2
  /\ value \in Seq({0, 1}) /\ value_bits \in Nat
  /\ line \in {0, 1} /\ sending \in BOOLEAN
  /\ frame \in Frames /\ sent \in Frames /\ fresh \in BOOLEAN
  /\ pos \in 0 .. FRAME_BITS /\ half \in {1, 2} /\ age \in 1 .. HALF_MAX
  /\ quiet \in 0 .. GAP /\ flips \in 0 .. MAX_FLIPS
  /\ pc \in {"idle", "bits", "value", "clear"}
  /\ raced \in 0 .. POLL_TICKS
  /\ got = << >> \/ (Len(got) = 1 /\ got[1] \in Seq({0, 1}))

(* A word that main() takes and decodes is the last frame that the remote  *)
(* control sent, bit for bit, or the empty word that a reception starting  *)
(* between the reads of ir.value_bits and ir.value leaves (main.c:173-176):*)
(* never a mixture of two frames, a frame shifted by a half bit, or noise. *)
TakenWordIsSent == pc = "clear" /\ got # << >> => got[1] \in {sent, << >>}

(* main() takes a frame at most once: when it has found FRAME_BITS bits    *)
(* (main.c:173) the last frame sent is one it has not taken before.        *)
TakenOnce == pc = "value" => fresh

-----------------------------------------------------------------------------
(* The inductive invariant behind the safety properties, in parts.         *)

(* ir.last is the level of the line, except from a time-out that coincides *)
(* with noise (or the start of the program) until the next sample.         *)
LineSeen ==
  /\ active => last = line
  /\ ~active /\ last # line => quiet = 0 /\ ~sending

(* A reception times out, and silence is counted while it lasts. *)
CountBounded   == active => count <= 4 * IR_SAMPLE_COUNT + 1
SilenceCounted == active /\ ~sending => quiet <= count

(* A reception that begins during a poll is younger than the poll. *)
PollIsShort == active /\ pc # "idle" => count <= raced

(* While a frame is on the air the receiver holds its bits so far, and     *)
(* ir.count tells how far the frame is past the middle of its last bit.    *)
InFrame ==
  sending =>
    /\ active /\ quiet = 0
    /\ line = Level(pos, half)
    /\ half = 1 => 0 < pos
    /\ value_bits = Len(value)
    /\ Len(value) = IF half = 2 THEN pos ELSE pos - 1
    /\ \A i \in 1 .. Len(value) : value[i] = frame[i]
    /\ IF half = 1
         THEN age + HALF_MIN <= count + 1 /\ count <= age + HALF_MAX
         ELSE count = IF pos = 0 THEN age ELSE age - 1
    /\ pc # "idle" => pos = 0 /\ half = 2

(* The register holds the last frame sent. *)
HoldsSent ==
  /\ Len(value) = FRAME_BITS
  /\ \A i \in 1 .. FRAME_BITS : value[i] = sent[i]
  /\ value_bits \in {0, FRAME_BITS}
  /\ active => pc = "idle"
  /\ value_bits = FRAME_BITS /\ pc # "clear" => fresh

(* Between frames it holds the last frame, or too few bits (noise), or too *)
(* many (noise right behind a frame).                                      *)
BetweenFrames ==
  ~sending => HoldsSent \/ value_bits <= flips \/ value_bits > FRAME_BITS

(* main() is about to read ir.value. *)
Taking ==
  pc = "value" => /\ fresh
                  /\ value = << >> \/ (~active /\ ~sending /\ HoldsSent)

NotTakenYet == pc # "clear" => got = << >>

IInv ==
  /\ TypeOK /\ NotTakenYet
  /\ LineSeen /\ CountBounded /\ SilenceCounted /\ PollIsShort
  /\ InFrame /\ BetweenFrames /\ Taking /\ TakenWordIsSent
-----------------------------------------------------------------------------
(* Every reception ends, so main() gets to look at struct ir again and     *)
(* again (main.c:63-66, 170).                                              *)
ReceptionEnds == []<>(~active)

(* The receiver implements the channel that main() is written against:     *)
(* while a reception is going on, a late read by main() sees zeros.        *)
Channel == INSTANCE IrChannel WITH
  Words      <- Seq({0, 1}),
  BitCounts  <- Nat,
  value      <- IF active THEN << >> ELSE value,
  value_bits <- IF active THEN 0 ELSE value_bits,
  polling    <- pc # "idle"

ImplementsChannel == Channel!IrSpec
=============================================================================
