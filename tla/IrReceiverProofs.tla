-------------------------- MODULE IrReceiverProofs --------------------------
(***************************************************************************)
(* Proofs that the receiver is correct for every frame, every duration of  *)
(* a half bit within the tolerance that ReceiverAssumption states, and any *)
(* interleaving of the interrupt with main().                              *)
(***************************************************************************)
EXTENDS MCIrReceiver, SequenceTheorems, TLAPS

USE DEF Count, Value, Bits, TimedOut, LongEnough

(* One run of the interrupt, case by case, at the moments that matter.     *)

(* A sample equal to the last one, in the middle of a reception. *)
LEMMA NoEdge ==
  ASSUME TypeOK, NEW new \in {0, 1}, irq_sample_ir(new),
         active, new = last, count <= 4 * IR_SAMPLE_COUNT
  PROVE  /\ active' /\ last' = last /\ count' = count + 1
         /\ value' = value /\ value_bits' = value_bits
  BY ReceiverAssumption
  DEF irq_sample_ir, IsrIdle, IsrTimeOut, IsrNoBit, IsrBit, TypeOK

(* A change too soon after the last bit. *)
LEMMA EarlyEdge ==
  ASSUME TypeOK, NEW new \in {0, 1}, irq_sample_ir(new),
         active, 2 * (count + 1) < 3 * IR_SAMPLE_COUNT
  PROVE  /\ active' /\ last' = new /\ count' = count + 1
         /\ value' = value /\ value_bits' = value_bits
  BY ReceiverAssumption
  DEF irq_sample_ir, IsrIdle, IsrTimeOut, IsrNoBit, IsrBit, TypeOK

(* A change in the middle of a bit. *)
LEMMA BitEdge ==
  ASSUME TypeOK, NEW new \in {0, 1}, irq_sample_ir(new),
         active, new # last, count <= 4 * IR_SAMPLE_COUNT,
         2 * (count + 1) >= 3 * IR_SAMPLE_COUNT
  PROVE  /\ active' /\ last' = new /\ count' = 0
         /\ value' = Append(value, 1 - new) /\ value_bits' = value_bits + 1
  BY ReceiverAssumption
  DEF irq_sample_ir, IsrIdle, IsrTimeOut, IsrNoBit, IsrBit, TypeOK

(* A change while the receiver is inactive. *)
LEMMA FirstEdge ==
  ASSUME TypeOK, NEW new \in {0, 1}, irq_sample_ir(new),
         ~active, new # last
  PROVE  /\ active' /\ last' = new /\ count' = 1
         /\ value' = << >> /\ value_bits' = 0
  BY ReceiverAssumption
  DEF irq_sample_ir, IsrIdle, IsrTimeOut, IsrNoBit, IsrBit, TypeOK

(* No change while the receiver is inactive. *)
LEMMA StayIdle ==
  ASSUME TypeOK, NEW new \in {0, 1}, irq_sample_ir(new), ~active, new = last
  PROVE  UNCHANGED isr
  BY ReceiverAssumption
  DEF irq_sample_ir, IsrIdle, IsrTimeOut, IsrNoBit, IsrBit, TypeOK

(* Too long since the last bit. *)
LEMMA TimeOut ==
  ASSUME TypeOK, NEW new \in {0, 1}, irq_sample_ir(new),
         active, count > 4 * IR_SAMPLE_COUNT
  PROVE  /\ active' = FALSE /\ last' = last /\ count' = count + 1
         /\ value' = value /\ value_bits' = value_bits
  BY ReceiverAssumption
  DEF irq_sample_ir, IsrIdle, IsrTimeOut, IsrNoBit, IsrBit, TypeOK

-----------------------------------------------------------------------------
(* Every action preserves the invariant.  TickRest is what a run of the    *)
(* interrupt does besides the line and struct ir.                          *)

TickRest ==
  /\ pc # "idle" => raced < POLL_TICKS
  /\ raced' = IF pc = "idle" THEN raced ELSE raced + 1
  /\ UNCHANGED << pc, got >>

LEMMA InitIInv == ASSUME Init PROVE IInv
  <1> USE ReceiverAssumption
  <1>1. TypeOK
    <2>1. << >> \in Seq({0, 1})
      OBVIOUS
    <2>2. 1 \in 1 .. HALF_MAX /\ 0 \in 0 .. 4 * IR_SAMPLE_COUNT + 2
      OBVIOUS
    <2>3. 0 \in 0 .. FRAME_BITS /\ 0 \in 0 .. GAP /\ 0 \in 0 .. MAX_FLIPS
          /\ 0 \in 0 .. POLL_TICKS
      OBVIOUS
    <2> QED BY <2>1, <2>2, <2>3 DEF Init, TypeOK
  <1>2. LineSeen /\ CountBounded /\ SilenceCounted /\ PollIsShort
    BY DEF Init, LineSeen, CountBounded, SilenceCounted, PollIsShort
  <1>3. InFrame /\ BetweenFrames /\ Taking /\ TakenWordIsSent /\ NotTakenYet
    BY DEF Init, NotTakenYet, InFrame, BetweenFrames, Taking, TakenWordIsSent
  <1> QED BY <1>1, <1>2, <1>3 DEF IInv

(* The remote control starts a frame only when the receiver is inactive.   *)
LEMMA StartFrameIInv ==
  ASSUME IInv, StartFrame, irq_sample_ir(line'), TickRest
  PROVE  IInv'
  <1> USE ReceiverAssumption
  <1>1. ~active /\ last = 1 /\ line' = 0
    BY DEF IInv, StartFrame, TypeOK, LineSeen, CountBounded, SilenceCounted
  <1>2. /\ active' /\ last' = line' /\ count' = 1
        /\ value' = << >> /\ value_bits' = 0
    BY <1>1, FirstEdge DEF IInv
  <1>3. TypeOK'
    BY <1>1, <1>2 DEF IInv, TypeOK, StartFrame, TickRest
  <1>4. LineSeen' /\ CountBounded' /\ SilenceCounted' /\ PollIsShort'
    BY <1>2, <1>3 DEF LineSeen, CountBounded, SilenceCounted, PollIsShort,
       StartFrame, TickRest, IInv, TypeOK
  <1>5. InFrame'
    BY <1>1, <1>2 DEF InFrame, StartFrame, Level, BitSent
  <1>6. BetweenFrames' /\ Taking' /\ TakenWordIsSent' /\ NotTakenYet'
    BY <1>2 DEF NotTakenYet, BetweenFrames, Taking, TakenWordIsSent, StartFrame, TickRest, IInv
  <1> QED BY <1>3, <1>4, <1>5, <1>6 DEF IInv

LEMMA HoldLevelIInv ==
  ASSUME IInv, HoldLevel, irq_sample_ir(line'), TickRest
  PROVE  IInv'
  <1> USE ReceiverAssumption
  <1>1. active /\ line' = last /\ count + 1 <= 4 * IR_SAMPLE_COUNT
    BY DEF IInv, HoldLevel, TypeOK, InFrame, LineSeen
  <1>2. /\ active' /\ last' = last /\ count' = count + 1
        /\ value' = value /\ value_bits' = value_bits
    BY <1>1, NoEdge DEF IInv, TypeOK
  <1>3. TypeOK'
    BY <1>1, <1>2 DEF IInv, TypeOK, HoldLevel, TickRest
  <1>4. LineSeen' /\ CountBounded' /\ SilenceCounted' /\ PollIsShort'
    BY <1>1, <1>2, <1>3 DEF LineSeen, CountBounded, SilenceCounted, PollIsShort,
       HoldLevel, TickRest, IInv, TypeOK
  <1>5. InFrame'
    BY <1>1, <1>2 DEF IInv, TypeOK, InFrame, HoldLevel, Level, BitSent, TickRest
  <1>6. BetweenFrames' /\ Taking' /\ TakenWordIsSent' /\ NotTakenYet'
    BY <1>2 DEF NotTakenYet, BetweenFrames, Taking, TakenWordIsSent, HoldLevel, TickRest, IInv
  <1> QED BY <1>3, <1>4, <1>5, <1>6 DEF IInv

(* From the second half of a bit to the first half of the next one: the    *)
(* line may change, but too soon to count as a bit.                        *)
LEMMA NextBitIInv ==
  ASSUME IInv, NextHalf, half = 2, irq_sample_ir(line'), TickRest
  PROVE  IInv'
  <1> USE ReceiverAssumption
  <1>1. pc = "idle"
    BY DEF IInv, NextHalf, TypeOK, InFrame, PollIsShort
  <1>2. pos' = pos + 1 /\ half' = 1 /\ age' = 1 /\ pos' \in 1 .. FRAME_BITS
    BY DEF NextHalf, IInv, TypeOK
  <1>3. line' \in {0, 1} /\ line' = frame[pos']
    BY <1>2 DEF NextHalf, IInv, TypeOK, Level, BitSent
  <1>4. active /\ 2 * (count + 1) < 3 * IR_SAMPLE_COUNT
    BY DEF IInv, NextHalf, TypeOK, InFrame
  <1>5. /\ active' /\ last' = line' /\ count' = count + 1
        /\ value' = value /\ value_bits' = value_bits
    BY <1>3, <1>4, EarlyEdge DEF IInv
  <1>6. TypeOK'
    BY <1>2, <1>3, <1>4, <1>5 DEF IInv, TypeOK, NextHalf, TickRest
  <1>7. LineSeen' /\ CountBounded' /\ SilenceCounted' /\ PollIsShort'
    BY <1>1, <1>4, <1>5, <1>6 DEF LineSeen, CountBounded, SilenceCounted, PollIsShort,
       NextHalf, TickRest, IInv, TypeOK
  <1>8. InFrame'
    BY <1>1, <1>2, <1>3, <1>5
    DEF IInv, TypeOK, InFrame, NextHalf, Level, BitSent, TickRest
  <1>9. BetweenFrames' /\ Taking' /\ TakenWordIsSent' /\ NotTakenYet'
    BY <1>1 DEF NotTakenYet, BetweenFrames, Taking, TakenWordIsSent, NextHalf, TickRest, IInv
  <1> QED BY <1>6, <1>7, <1>8, <1>9 DEF IInv

(* From the first half of a bit to the second: the line changes, late      *)
(* enough to count as a bit, and the level gives the bit that was sent.    *)
LEMMA MidBitIInv ==
  ASSUME IInv, NextHalf, half = 1, irq_sample_ir(line'), TickRest
  PROVE  IInv'
  <1> USE ReceiverAssumption
  <1>1. pc = "idle" /\ 0 < pos
    BY DEF IInv, NextHalf, InFrame
  <1>2. pos' = pos /\ half' = 2 /\ age' = 1
    BY DEF NextHalf, IInv, TypeOK
  <1>3. line' \in {0, 1} /\ line' = 1 - frame[pos] /\ line = frame[pos]
    BY <1>1, <1>2 DEF NextHalf, IInv, TypeOK, Level, BitSent, InFrame
  <1>4. /\ active /\ line' # last
        /\ count <= 4 * IR_SAMPLE_COUNT /\ 2 * (count + 1) >= 3 * IR_SAMPLE_COUNT
    BY <1>3 DEF IInv, NextHalf, TypeOK, InFrame, LineSeen
  <1>5. /\ active' /\ last' = line' /\ count' = 0
        /\ value' = Append(value, frame[pos]) /\ value_bits' = value_bits + 1
    BY <1>3, <1>4, BitEdge DEF IInv, TypeOK
  <1>6. TypeOK'
    BY <1>2, <1>3, <1>5 DEF IInv, TypeOK, NextHalf, TickRest
  <1>7. LineSeen' /\ CountBounded' /\ SilenceCounted' /\ PollIsShort'
    BY <1>1, <1>5, <1>6 DEF LineSeen, CountBounded, SilenceCounted, PollIsShort,
       NextHalf, TickRest, IInv, TypeOK
  <1>8. InFrame'
    <2>1. Len(value) = pos - 1 /\ value_bits = pos - 1
      BY DEF IInv, TypeOK, InFrame, NextHalf
    <2>2. Len(value') = pos /\ value_bits' = pos
      BY <1>5, <2>1 DEF IInv, TypeOK
    <2>3. \A i \in 1 .. Len(value') : value'[i] = frame[i]
      BY <1>5, <2>1, <2>2 DEF IInv, TypeOK, InFrame, NextHalf
    <2> QED
      BY <1>1, <1>2, <1>3, <1>5, <2>2, <2>3
      DEF IInv, TypeOK, InFrame, NextHalf, Level, BitSent, TickRest
  <1>9. BetweenFrames' /\ Taking' /\ TakenWordIsSent' /\ NotTakenYet'
    BY <1>1 DEF NotTakenYet, BetweenFrames, Taking, TakenWordIsSent, NextHalf, TickRest, IInv
  <1> QED BY <1>6, <1>7, <1>8, <1>9 DEF IInv

(* The end of a frame leaves all of its bits in the register. *)
LEMMA EndFrameIInv ==
  ASSUME IInv, EndFrame, irq_sample_ir(line'), TickRest
  PROVE  IInv'
  <1> USE ReceiverAssumption
  <1>1. pc = "idle" /\ 0 < FRAME_BITS /\ line' = 1
    BY DEF IInv, EndFrame, InFrame
  <1>2. active /\ 2 * (count + 1) < 3 * IR_SAMPLE_COUNT
    BY <1>1 DEF IInv, EndFrame, TypeOK, InFrame
  <1>3. /\ active' /\ last' = line' /\ count' = count + 1
        /\ value' = value /\ value_bits' = value_bits
    BY <1>1, <1>2, EarlyEdge DEF IInv
  <1>4. TypeOK'
    <2>1. count' \in 0 .. 4 * IR_SAMPLE_COUNT + 2
      BY <1>2, <1>3 DEF IInv, TypeOK
    <2>2. sent' \in Frames /\ fresh' \in BOOLEAN /\ raced' \in 0 .. POLL_TICKS
      BY <1>1 DEF IInv, TypeOK, EndFrame, TickRest
    <2>3. value' \in Seq({0, 1}) /\ value_bits' \in Nat
      BY <1>3 DEF IInv, TypeOK
    <2> QED BY <1>1, <1>3, <2>1, <2>2, <2>3 DEF IInv, TypeOK, EndFrame, TickRest
  <1>5. quiet = 0
    BY DEF IInv, InFrame, EndFrame
  <1>6. LineSeen' /\ CountBounded' /\ SilenceCounted' /\ PollIsShort'
    BY <1>1, <1>2, <1>3, <1>4, <1>5 DEF LineSeen, CountBounded, SilenceCounted,
       PollIsShort, EndFrame, TickRest, IInv, TypeOK
  <1>7. HoldsSent'
    BY <1>1, <1>3 DEF IInv, TypeOK, InFrame, EndFrame, TickRest, HoldsSent
  <1>8. InFrame' /\ BetweenFrames' /\ Taking' /\ TakenWordIsSent' /\ NotTakenYet'
    BY <1>1, <1>7 DEF NotTakenYet, InFrame, BetweenFrames, Taking, TakenWordIsSent,
       EndFrame, TickRest, IInv
  <1> QED BY <1>4, <1>6, <1>8 DEF IInv

(* Between frames.  The cases are those of irq_sample_ir; in each of them  *)
(* the parts of the invariant follow from its outcome.                     *)
BetweenParts ==
  /\ LineSeen /\ CountBounded /\ SilenceCounted /\ PollIsShort
  /\ BetweenFrames /\ Taking

LEMMA BetweenIInv ==
  ASSUME IInv, ~sending', UNCHANGED << frame, pos, half, age, sent, fresh, pc, got >>,
         count' \in 0 .. 4 * IR_SAMPLE_COUNT + 2, last' \in {0, 1}, line' \in {0, 1},
         active' \in BOOLEAN, value' \in Seq({0, 1}), value_bits' \in Nat,
         sending' \in BOOLEAN, quiet' \in 0 .. GAP, flips' \in 0 .. MAX_FLIPS,
         raced' \in 0 .. POLL_TICKS, BetweenParts'
  PROVE  IInv'
  <1>1. TypeOK'
    BY DEF IInv, TypeOK
  <1>2. InFrame' /\ TakenWordIsSent' /\ NotTakenYet'
    BY DEF NotTakenYet, IInv, InFrame, TakenWordIsSent
  <1> QED BY <1>1, <1>2 DEF IInv, BetweenParts

LEMMA SilenceIInv ==
  ASSUME IInv, Silence, irq_sample_ir(line'), TickRest
  PROVE  IInv'
  <1> USE ReceiverAssumption
  <1>1. /\ ~sending' /\ sending' \in BOOLEAN /\ line' = line /\ line' \in {0, 1}
        /\ flips' = flips /\ quiet' \in 0 .. GAP /\ quiet' <= quiet + 1
        /\ flips' \in 0 .. MAX_FLIPS /\ raced' \in 0 .. POLL_TICKS
        /\ UNCHANGED << frame, pos, half, age, sent, fresh, pc, got >>
    BY DEF IInv, TypeOK, Silence, TickRest
  <1>2. CASE active /\ count <= 4 * IR_SAMPLE_COUNT
    <2>1. /\ active' /\ last' = last /\ count' = count + 1
          /\ value' = value /\ value_bits' = value_bits
      BY <1>1, <1>2, NoEdge DEF IInv, LineSeen
    <2>2. LineSeen' /\ CountBounded' /\ SilenceCounted' /\ PollIsShort'
      BY <1>1, <1>2, <2>1 DEF IInv, TypeOK, LineSeen, CountBounded, SilenceCounted,
         PollIsShort, TickRest, Silence
    <2>3. BetweenFrames' /\ Taking'
      BY <1>1, <1>2, <2>1 DEF IInv, BetweenFrames, Taking, HoldsSent, Silence
    <2> QED BY <1>1, <1>2, <2>1, <2>2, <2>3, BetweenIInv DEF BetweenParts, IInv, TypeOK
  <1>3. CASE active /\ count > 4 * IR_SAMPLE_COUNT
    <2>1. /\ active' = FALSE /\ last' = last /\ count' = count + 1
          /\ value' = value /\ value_bits' = value_bits
      BY <1>1, <1>3, TimeOut DEF IInv
    <2>2. LineSeen' /\ CountBounded' /\ SilenceCounted' /\ PollIsShort'
      BY <1>1, <1>3, <2>1 DEF IInv, LineSeen, CountBounded, SilenceCounted, PollIsShort
    <2>3. BetweenFrames' /\ Taking'
      BY <1>1, <1>3, <2>1 DEF IInv, BetweenFrames, Taking, HoldsSent, Silence
    <2>4. count' \in 0 .. 4 * IR_SAMPLE_COUNT + 2
      BY <1>3, <2>1 DEF IInv, TypeOK, CountBounded
    <2> QED BY <1>1, <2>1, <2>2, <2>3, <2>4, BetweenIInv DEF BetweenParts, IInv, TypeOK
  <1>4. CASE ~active /\ last = line
    <2>1. UNCHANGED isr
      BY <1>1, <1>4, StayIdle DEF IInv
    <2>2. BetweenParts'
      BY <1>1, <1>4, <2>1 DEF IInv, isr, BetweenParts, LineSeen, CountBounded,
         SilenceCounted, PollIsShort, BetweenFrames, Taking, HoldsSent, Silence
    <2> QED BY <1>1, <2>1, <2>2, BetweenIInv DEF isr, IInv, TypeOK
  <1>5. CASE ~active /\ last # line
    <2>1. /\ active' /\ last' = line /\ count' = 1
          /\ value' = << >> /\ value_bits' = 0
      BY <1>1, <1>5, FirstEdge DEF IInv
    <2>2. LineSeen' /\ CountBounded' /\ SilenceCounted' /\ PollIsShort'
      BY <1>1, <1>5, <2>1 DEF IInv, TypeOK, LineSeen, CountBounded, SilenceCounted,
         PollIsShort, TickRest
    <2>3. BetweenFrames' /\ Taking'
      BY <1>1, <2>1 DEF IInv, TypeOK, BetweenFrames, Taking
    <2>4. count' \in 0 .. 4 * IR_SAMPLE_COUNT + 2 /\ value' \in Seq({0, 1})
      BY <2>1
    <2> QED BY <1>1, <2>1, <2>2, <2>3, <2>4, BetweenIInv DEF BetweenParts, IInv, TypeOK
  <1> QED BY <1>2, <1>3, <1>4, <1>5 DEF IInv, TypeOK

LEMMA NoiseIInv ==
  ASSUME IInv, Noise, irq_sample_ir(line'), TickRest
  PROVE  IInv'
  <1> USE ReceiverAssumption
  <1>1. /\ ~sending' /\ sending' \in BOOLEAN /\ line' = 1 - line /\ line' \in {0, 1}
        /\ flips' = flips + 1 /\ quiet' = 0
        /\ flips' \in 0 .. MAX_FLIPS /\ raced' \in 0 .. POLL_TICKS
        /\ UNCHANGED << frame, pos, half, age, sent, fresh, pc, got >>
    BY DEF IInv, TypeOK, Noise, TickRest
  <1>2. quiet' \in 0 .. GAP
    BY <1>1
  <1>3. CASE active /\ count > 4 * IR_SAMPLE_COUNT
    <2>1. /\ active' = FALSE /\ last' = last /\ count' = count + 1
          /\ value' = value /\ value_bits' = value_bits
      BY <1>1, <1>3, TimeOut DEF IInv
    <2>2. LineSeen' /\ CountBounded' /\ SilenceCounted' /\ PollIsShort'
      BY <1>1, <1>3, <2>1 DEF IInv, LineSeen, CountBounded, SilenceCounted, PollIsShort
    <2>3. BetweenFrames' /\ Taking'
      BY <1>1, <1>3, <2>1 DEF IInv, TypeOK, BetweenFrames, Taking, HoldsSent, Noise
    <2>4. count' \in 0 .. 4 * IR_SAMPLE_COUNT + 2
      BY <1>3, <2>1 DEF IInv, TypeOK, CountBounded
    <2> QED BY <1>1, <1>2, <2>1, <2>2, <2>3, <2>4, BetweenIInv DEF BetweenParts, IInv, TypeOK
  <1>4. CASE active /\ 2 * (count + 1) < 3 * IR_SAMPLE_COUNT
    <2>1. /\ active' /\ last' = line' /\ count' = count + 1
          /\ value' = value /\ value_bits' = value_bits
      BY <1>1, <1>4, EarlyEdge DEF IInv
    <2>2. LineSeen' /\ CountBounded' /\ SilenceCounted' /\ PollIsShort'
      BY <1>1, <1>4, <2>1 DEF IInv, TypeOK, LineSeen, CountBounded, SilenceCounted,
         PollIsShort, TickRest
    <2>3. BetweenFrames' /\ Taking'
      BY <1>1, <1>4, <2>1 DEF IInv, TypeOK, BetweenFrames, Taking, HoldsSent, Noise
    <2>4. count' \in 0 .. 4 * IR_SAMPLE_COUNT + 2
      BY <1>4, <2>1 DEF IInv, TypeOK
    <2> QED BY <1>1, <1>2, <2>1, <2>2, <2>3, <2>4, BetweenIInv DEF BetweenParts, IInv, TypeOK
  <1>5. CASE /\ active /\ count <= 4 * IR_SAMPLE_COUNT
             /\ 2 * (count + 1) >= 3 * IR_SAMPLE_COUNT
    <2>1. line' # last /\ pc = "idle"
      BY <1>1, <1>5 DEF IInv, TypeOK, LineSeen, PollIsShort
    <2>2. /\ active' /\ last' = line' /\ count' = 0
          /\ value' = Append(value, 1 - line') /\ value_bits' = value_bits + 1
      BY <1>1, <1>5, <2>1, BitEdge DEF IInv
    <2>3. LineSeen' /\ CountBounded' /\ SilenceCounted' /\ PollIsShort'
      BY <1>1, <2>1, <2>2 DEF LineSeen, CountBounded, SilenceCounted, PollIsShort
    <2>4. BetweenFrames' /\ Taking'
      BY <1>1, <2>1, <2>2 DEF IInv, TypeOK, BetweenFrames, Taking, HoldsSent, Noise
    <2>5. /\ count' \in 0 .. 4 * IR_SAMPLE_COUNT + 2
          /\ value' \in Seq({0, 1}) /\ value_bits' \in Nat
      BY <1>1, <2>2 DEF IInv, TypeOK
    <2> QED BY <1>1, <1>2, <2>2, <2>3, <2>4, <2>5, BetweenIInv DEF BetweenParts, IInv, TypeOK
  <1>6. CASE ~active /\ last = line'
    <2>1. UNCHANGED isr
      BY <1>1, <1>6, StayIdle DEF IInv
    <2>2. BetweenParts'
      BY <1>1, <1>6, <2>1 DEF IInv, TypeOK, isr, BetweenParts, LineSeen, CountBounded,
         SilenceCounted, PollIsShort, BetweenFrames, Taking, HoldsSent, Noise
    <2> QED BY <1>1, <1>2, <2>1, <2>2, BetweenIInv DEF isr, IInv, TypeOK
  <1>7. CASE ~active /\ last # line'
    <2>1. /\ active' /\ last' = line' /\ count' = 1
          /\ value' = << >> /\ value_bits' = 0
      BY <1>1, <1>7, FirstEdge DEF IInv
    <2>2. LineSeen' /\ CountBounded' /\ SilenceCounted' /\ PollIsShort'
      BY <1>1, <1>7, <2>1 DEF IInv, TypeOK, LineSeen, CountBounded, SilenceCounted,
         PollIsShort, TickRest
    <2>3. BetweenFrames' /\ Taking'
      BY <1>1, <2>1 DEF IInv, TypeOK, BetweenFrames, Taking
    <2>4. count' \in 0 .. 4 * IR_SAMPLE_COUNT + 2 /\ value' \in Seq({0, 1})
      BY <2>1
    <2> QED BY <1>1, <1>2, <2>1, <2>2, <2>3, <2>4, BetweenIInv DEF BetweenParts, IInv, TypeOK
  <1> QED BY <1>3, <1>4, <1>5, <1>6, <1>7 DEF IInv, TypeOK

-----------------------------------------------------------------------------
(* main() takes a word.                                                    *)

LEMMA PollActiveIInv == ASSUME IInv, PollActive PROVE IInv'
  <1> USE ReceiverAssumption DEF isr, remote
  <1>1. TypeOK'
    BY DEF IInv, TypeOK, PollActive
  <1>2. LineSeen' /\ CountBounded' /\ SilenceCounted' /\ PollIsShort'
    BY DEF IInv, LineSeen, CountBounded, SilenceCounted, PollIsShort, PollActive
  <1>3. InFrame' /\ BetweenFrames' /\ Taking' /\ TakenWordIsSent' /\ NotTakenYet'
    BY DEF NotTakenYet, IInv, InFrame, BetweenFrames, HoldsSent, Taking, TakenWordIsSent,
       PollActive, Level, BitSent
  <1> QED BY <1>1, <1>2, <1>3 DEF IInv

(* When main() finds FRAME_BITS bits the register holds the last frame. *)
LEMMA PollBitsIInv == ASSUME IInv, PollBits PROVE IInv'
  <1> USE ReceiverAssumption DEF isr, remote
  <1>1. TypeOK'
    BY DEF IInv, TypeOK, PollBits
  <1>2. LineSeen' /\ CountBounded' /\ SilenceCounted' /\ PollIsShort'
    BY DEF IInv, LineSeen, CountBounded, SilenceCounted, PollIsShort, PollBits
  <1>3. InFrame' /\ BetweenFrames'
    BY DEF IInv, TypeOK, InFrame, BetweenFrames, HoldsSent, PollBits, Level, BitSent
  <1>4. Taking'
    BY DEF IInv, TypeOK, InFrame, BetweenFrames, HoldsSent, Taking, PollBits
  <1>5. TakenWordIsSent' /\ NotTakenYet'
    BY DEF NotTakenYet, IInv, TypeOK, TakenWordIsSent, PollBits
  <1> QED BY <1>1, <1>2, <1>3, <1>4, <1>5 DEF IInv

(* A word with the bits of the last frame is the last frame. *)
LEMMA HoldsSentValue == ASSUME TypeOK, HoldsSent PROVE value = sent
  <1> USE ReceiverAssumption
  <1>1. value \in [1 .. Len(value) -> {0, 1}]
    BY LenProperties DEF TypeOK
  <1>2. Len(value) = FRAME_BITS /\ \A i \in 1 .. FRAME_BITS : value[i] = sent[i]
    BY DEF HoldsSent
  <1>3. sent \in [1 .. FRAME_BITS -> {0, 1}]
    BY DEF TypeOK
  <1> QED BY <1>1, <1>2, <1>3

LEMMA PollValueIInv == ASSUME IInv, PollValue PROVE IInv'
  <1> USE ReceiverAssumption DEF isr, remote
  <1>1. TypeOK'
    BY DEF IInv, TypeOK, PollValue
  <1>2. LineSeen' /\ CountBounded' /\ SilenceCounted' /\ PollIsShort'
    BY DEF IInv, LineSeen, CountBounded, SilenceCounted, PollIsShort, PollValue
  <1>3. InFrame' /\ BetweenFrames' /\ Taking'
    BY DEF IInv, TypeOK, InFrame, BetweenFrames, HoldsSent, Taking, PollValue,
       Level, BitSent
  <1>4. TakenWordIsSent' /\ NotTakenYet'
    <2>1. value = << >> \/ value = sent
      BY HoldsSentValue DEF IInv, Taking, PollValue
    <2> QED BY <2>1 DEF NotTakenYet, TakenWordIsSent, PollValue
  <1> QED BY <1>1, <1>2, <1>3, <1>4 DEF IInv

(* Line 191 destroys no bit of a frame that came in during the poll. *)
LEMMA PollClearIInv == ASSUME IInv, PollClear PROVE IInv'
  <1> USE ReceiverAssumption DEF remote
  <1>1. TypeOK'
    BY DEF IInv, TypeOK, PollClear
  <1>2. LineSeen' /\ CountBounded' /\ SilenceCounted' /\ PollIsShort'
    BY DEF IInv, LineSeen, CountBounded, SilenceCounted, PollIsShort, PollClear
  <1>3. InFrame' /\ BetweenFrames'
    BY DEF IInv, TypeOK, InFrame, BetweenFrames, HoldsSent, PollClear, Level, BitSent
  <1>4. Taking' /\ TakenWordIsSent' /\ NotTakenYet'
    BY DEF NotTakenYet, Taking, TakenWordIsSent, PollClear
  <1> QED BY <1>1, <1>2, <1>3, <1>4 DEF IInv

LEMMA TickIInv == ASSUME IInv, Tick PROVE IInv'
  <1>1. TickRest /\ irq_sample_ir(line') /\ RemoteStep
    BY DEF Tick, TickRest
  <1>2. CASE NextHalf
    <2>1. half = 1 \/ half = 2
      BY DEF IInv, TypeOK
    <2> QED BY <1>1, <1>2, <2>1, NextBitIInv, MidBitIInv
  <1> QED
    BY <1>1, <1>2, StartFrameIInv, HoldLevelIInv, EndFrameIInv, SilenceIInv, NoiseIInv
    DEF RemoteStep

LEMMA StutterIInv == ASSUME IInv, UNCHANGED vars PROVE IInv'
  BY DEF vars, isr, remote, poller, IInv, TypeOK, LineSeen, CountBounded, SilenceCounted,
     PollIsShort, InFrame, BetweenFrames, HoldsSent, Taking, TakenWordIsSent, NotTakenYet, Level, BitSent

(* The invariant holds in every behaviour of the receiver. *)
THEOREM IInvHolds == Spec => []IInv
  <1>1. Init => IInv
    BY InitIInv
  <1>2. IInv /\ [Next]_vars => IInv'
    BY TickIInv, PollActiveIInv, PollBitsIInv, PollValueIInv, PollClearIInv, StutterIInv
    DEF Next, Poll
  <1> QED BY <1>1, <1>2, PTL DEF Spec

(* Every variable keeps its type; in particular ir.count never passes      *)
(* 4 * IR_SAMPLE_COUNT + 2.                                                *)
THEOREM TypeCorrect == Spec => []TypeOK
  <1>1. IInv => TypeOK
    BY DEF IInv
  <1> QED BY <1>1, IInvHolds, PTL

(* What main() takes is the last frame sent, or the empty word of a        *)
(* reception that began during the poll (main.c:173-176).                  *)
THEOREM TakenWordCorrect == Spec => []TakenWordIsSent
  <1>1. IInv => TakenWordIsSent
    BY DEF IInv
  <1> QED BY <1>1, IInvHolds, PTL

(* No frame is taken twice (main.c:173, 191). *)
THEOREM TakenOnceCorrect == Spec => []TakenOnce
  <1>1. IInv => TakenOnce
    BY DEF IInv, Taking, TakenOnce
  <1> QED BY <1>1, IInvHolds, PTL

-----------------------------------------------------------------------------
(* The receiver implements the channel of module IrChannel.                *)

(* What an inactive receiver shows as a whole frame is one. *)
WholeIsFrame == ~active /\ value_bits = FRAME_BITS => value \in Frames

LEMMA WholeWord == ASSUME IInv PROVE WholeIsFrame
  <1> USE ReceiverAssumption
  <1> SUFFICES ASSUME ~active, value_bits = FRAME_BITS PROVE value \in Frames
    BY DEF WholeIsFrame
  <1>1. HoldsSent
    BY DEF IInv, TypeOK, InFrame, BetweenFrames
  <1> QED BY <1>1, HoldsSentValue DEF IInv, TypeOK

LEMMA ChannelTick ==
  ASSUME IInv, IInv', WholeIsFrame', Tick
  PROVE  [Channel!IrNext]_(Channel!irvars)
  <1> USE ReceiverAssumption
  <1>1. line' \in {0, 1} /\ irq_sample_ir(line')
    BY DEF IInv, TypeOK, Tick
  <1>0. pc' = pc
    BY DEF Tick
  <1>2. CASE active /\ active'
    BY <1>0, <1>2 DEF Channel!irvars
  <1>3. CASE active /\ ~active'
    <2>1. active' = FALSE /\ value' \in Seq({0, 1}) /\ value_bits' \in Nat
      BY <1>3 DEF IInv, TypeOK
    <2>2. pc = "idle"
      <3>1. count > 4 * IR_SAMPLE_COUNT
        BY <1>1, <1>3, NoEdge, EarlyEdge, BitEdge DEF IInv, TypeOK
      <3> QED BY <1>3, <3>1 DEF IInv, TypeOK, PollIsShort
    <2> QED BY <1>0, <1>3, <2>1, <2>2 DEF Channel!IrNext, Channel!IrFinish, WholeIsFrame
  <1>4. CASE ~active /\ line' = last
    BY <1>0, <1>1, <1>4, StayIdle DEF IInv, isr, Channel!irvars
  <1>5. CASE ~active /\ line' # last
    <2>1. active' = TRUE
      BY <1>1, <1>5, FirstEdge DEF IInv, TypeOK
    <2> QED BY <1>0, <1>5, <2>1 DEF Channel!IrNext, Channel!IrBegin
  <1> QED BY <1>2, <1>3, <1>4, <1>5 DEF IInv, TypeOK

LEMMA ChannelPoll ==
  ASSUME IInv, IInv', Poll \/ UNCHANGED vars
  PROVE  [Channel!IrNext]_(Channel!irvars)
  <1>1. CASE PollClear
    BY <1>1 DEF PollClear, Channel!IrNext, Channel!IrClear, Channel!irvars
  <1>2. CASE PollActive
    BY <1>2 DEF PollActive, isr, Channel!IrNext, Channel!IrLook, Channel!irvars
  <1>3. CASE PollBits \/ PollValue \/ UNCHANGED vars
    BY <1>3 DEF PollBits, PollValue, vars, isr, poller, Channel!irvars
  <1> QED BY <1>1, <1>2, <1>3 DEF Poll

(* Seen by main(), the interrupt at work in struct ir is a channel that    *)
(* delivers frames: every step of the receiver is a step of IrChannel or   *)
(* does not show (main.c:48-85, 169-192).                                  *)
THEOREM ChannelImplemented == Spec => ImplementsChannel
  <1>1. Init => Channel!IrInit
    BY DEF Init, Channel!IrInit
  <1>2. IInv /\ IInv' /\ WholeIsFrame' /\ [Next]_vars => [Channel!IrNext]_(Channel!irvars)
    BY ChannelTick, ChannelPoll DEF Next
  <1>3. IInv => WholeIsFrame
    BY WholeWord
  <1> QED BY <1>1, <1>2, <1>3, IInvHolds, PTL DEF Spec, ImplementsChannel, Channel!IrSpec
-----------------------------------------------------------------------------
(* No frame is lost while main() polls in time and the line is free of     *)
(* noise (TimelySpec).                                                     *)

(* A frame that main() has not taken lies whole in the register, and the   *)
(* silence behind it is bounded by what there was to wait for: the         *)
(* time-out, which ir.count measures from the middle of the last bit, then *)
(* main()'s next look at ir.active, then the poll.                         *)
Waiting ==
  ~sending /\ fresh =>
    /\ line = 1 /\ HoldsSent /\ value_bits = FRAME_BITS /\ pc # "clear"
    /\ active => pc = "idle" /\ quiet + HALF_MIN <= count
    /\ ~active /\ pc = "idle" => quiet + HALF_MIN <= 4 * IR_SAMPLE_COUNT + 1 + late
    /\ pc # "idle" =>
         ~active /\ quiet + HALF_MIN <= 4 * IR_SAMPLE_COUNT + 1 + POLL_EVERY + raced

TimelyInv ==
  /\ late \in 0 .. POLL_EVERY /\ flips = 0
  /\ Waiting /\ NoFrameLost
  /\ ~active /\ fresh => last = line

(* The next frame starts after the last one was taken: otherwise the       *)
(* silence is too short.                                                   *)
LEMMA StartFrameTimely ==
  ASSUME IInv, TimelyInv, TimelyTick, StartFrame
  PROVE  TimelyInv'
  <1> USE ReceiverAssumption, PollAssumption
  <1>1. ~active
    BY DEF IInv, StartFrame, TypeOK, CountBounded, SilenceCounted
  <1>2. ~fresh
    <2> SUFFICES ASSUME fresh PROVE FALSE
      OBVIOUS
    <2>1. CASE pc = "idle"
      BY <1>1, <2>1 DEF IInv, TypeOK, TimelyInv, Waiting, TimelyTick, StartFrame
    <2>2. CASE pc # "idle"
      BY <2>2 DEF IInv, TypeOK, TimelyInv, Waiting, TimelyTick, Tick, StartFrame
    <2> QED BY <2>1, <2>2
  <1>3. late' \in 0 .. POLL_EVERY
    BY DEF TimelyInv, TimelyTick
  <1>4. sending' /\ ~fresh' /\ flips' = 0
    BY <1>2 DEF StartFrame
  <1> QED BY <1>3, <1>4 DEF TimelyInv, Waiting, NoFrameLost

LEMMA InFrameTimely ==
  ASSUME IInv, TimelyInv, TimelyTick, HoldLevel \/ NextHalf
  PROVE  TimelyInv'
  <1> USE ReceiverAssumption, PollAssumption
  <1>1. late' \in 0 .. POLL_EVERY
    BY DEF TimelyInv, TimelyTick
  <1>2. sending' /\ ~fresh' /\ flips' = 0
    BY DEF TimelyInv, TimelyTick, NoFrameLost, HoldLevel, NextHalf
  <1> QED BY <1>1, <1>2 DEF TimelyInv, Waiting, NoFrameLost

(* A frame ends half a bit after its last bit, and the reception goes on.  *)
LEMMA EndFrameTimely ==
  ASSUME IInv, IInv', TimelyInv, TimelyTick, EndFrame
  PROVE  TimelyInv'
  <1> USE ReceiverAssumption, PollAssumption
  <1>1. late' \in 0 .. POLL_EVERY /\ flips' = 0
    BY DEF TimelyInv, TimelyTick
  <1>2. pc = "idle" /\ 0 < FRAME_BITS /\ line' = 1 /\ pc' = pc
    BY DEF IInv, EndFrame, InFrame, TimelyTick, Tick
  <1>3. active /\ 2 * (count + 1) < 3 * IR_SAMPLE_COUNT
    BY <1>2 DEF IInv, EndFrame, TypeOK, InFrame
  <1>4. /\ active' /\ last' = line' /\ count' = count + 1
        /\ value' = value /\ value_bits' = value_bits
    BY <1>2, <1>3, EarlyEdge DEF IInv, TimelyTick, Tick
  <1>5. value_bits' = FRAME_BITS
    BY <1>2, <1>4 DEF IInv, TypeOK, InFrame, EndFrame
  <1>6. HoldsSent'
    BY <1>1, <1>2, <1>5 DEF IInv, BetweenFrames, EndFrame
  <1>7. quiet' + HALF_MIN <= count'
    BY <1>2, <1>4 DEF IInv, TypeOK, InFrame, EndFrame
  <1>8. Waiting'
    BY <1>2, <1>4, <1>5, <1>6, <1>7 DEF Waiting
  <1> QED BY <1>1, <1>4, <1>8 DEF TimelyInv, NoFrameLost, EndFrame

(* The arithmetic of the bound: silence and its bound grow together. *)
LEMMA SilenceGrows ==
  ASSUME NEW q \in Nat, NEW q1 \in Nat, NEW h \in Nat, NEW b \in Nat, NEW b1 \in Nat,
         q + h <= b, q1 <= q + 1, b + 1 <= b1
  PROVE  q1 + h <= b1
  OBVIOUS

(* A silent sample behind a frame that waits to be taken. *)
LEMMA SilenceTimely ==
  ASSUME IInv, IInv', TimelyInv, TimelyTick, Silence
  PROVE  TimelyInv'
  <1>0. IR_SAMPLE_COUNT \in Nat /\ HALF_MIN \in Nat /\ POLL_EVERY \in Nat
    BY ReceiverAssumption, PollAssumption
  <1>1. /\ late' \in 0 .. POLL_EVERY /\ late' = late + 1 /\ flips' = 0
        /\ ~sending' /\ fresh' = fresh /\ line' = line /\ pc' = pc
    BY <1>0 DEF TimelyInv, TimelyTick, Tick, Silence
  <1>2. CASE ~fresh
    BY <1>1, <1>2 DEF TimelyInv, Waiting, NoFrameLost
  <1>3. CASE fresh
    <2>1. /\ ~sending /\ line = 1 /\ HoldsSent
          /\ value_bits = FRAME_BITS /\ pc # "clear"
      BY <1>3 DEF TimelyInv, Waiting, Silence
    <2>2. irq_sample_ir(line) /\ line \in {0, 1}
      BY <1>1, <2>1 DEF TimelyTick, Tick
    <2>3. /\ quiet' <= quiet + 1 /\ quiet' \in Nat /\ quiet \in Nat /\ count \in Nat
          /\ late \in Nat /\ raced \in Nat
      BY DEF IInv, TypeOK, Silence, TimelyInv
    <2>5. CASE active /\ count <= 4 * IR_SAMPLE_COUNT
      <3>1. /\ active' /\ last' = last /\ count' = count + 1
            /\ value' = value /\ value_bits' = value_bits
        BY <2>2, <2>5, NoEdge DEF IInv, LineSeen
      <3>2. pc = "idle" /\ quiet + HALF_MIN <= count
        BY <1>3, <2>1, <2>5 DEF TimelyInv, Waiting
      <3>3. HoldsSent'
        BY <1>1, <2>1, <2>5, <3>1, <3>2 DEF HoldsSent, Silence
      <3>4. quiet' + HALF_MIN <= count'
        <4>1. count' \in Nat /\ count + 1 <= count'
          BY <2>3, <3>1
        <4> QED BY <1>0, <2>3, <3>2, <4>1, SilenceGrows
      <3>5. Waiting'
        BY <1>1, <2>1, <3>1, <3>2, <3>3, <3>4 DEF Waiting
      <3> QED BY <1>1, <3>1, <3>5 DEF TimelyInv, NoFrameLost
    <2>6. CASE active /\ count > 4 * IR_SAMPLE_COUNT
      <3>1. /\ active' = FALSE /\ last' = last /\ count' = count + 1
            /\ value' = value /\ value_bits' = value_bits
        BY <2>2, <2>6, TimeOut DEF IInv
      <3>2. pc = "idle" /\ quiet + HALF_MIN <= count /\ count <= 4 * IR_SAMPLE_COUNT + 1
        BY <1>3, <2>1, <2>6 DEF TimelyInv, Waiting, IInv, CountBounded
      <3>3. HoldsSent'
        BY <1>1, <2>1, <3>1, <3>2 DEF HoldsSent, Silence
      <3>4. quiet' + HALF_MIN <= 4 * IR_SAMPLE_COUNT + 1 + late'
        <4>1. 4 * IR_SAMPLE_COUNT + 1 + late' \in Nat
              /\ count + 1 <= 4 * IR_SAMPLE_COUNT + 1 + late'
          BY <1>0, <1>1, <2>3, <3>2
        <4> QED BY <1>0, <2>3, <3>2, <4>1, SilenceGrows
      <3>5. Waiting'
        BY <1>1, <2>1, <3>1, <3>2, <3>3, <3>4 DEF Waiting
      <3>6. last' = line'
        BY <1>1, <2>6, <3>1 DEF IInv, LineSeen
      <3> QED BY <1>1, <3>5, <3>6 DEF TimelyInv, NoFrameLost
    <2>7. CASE ~active
      <3>1. last = line
        BY <1>3, <2>7 DEF TimelyInv
      <3>2. UNCHANGED isr
        BY <2>2, <2>7, <3>1, StayIdle DEF IInv
      <3>3. HoldsSent'
        BY <1>1, <2>1, <2>7, <3>2 DEF isr, HoldsSent, Silence
      <3>4. pc = "idle" => quiet' + HALF_MIN <= 4 * IR_SAMPLE_COUNT + 1 + late'
        <4> SUFFICES ASSUME pc = "idle"
                     PROVE  quiet' + HALF_MIN <= 4 * IR_SAMPLE_COUNT + 1 + late'
          OBVIOUS
        <4>1. quiet + HALF_MIN <= 4 * IR_SAMPLE_COUNT + 1 + late
          BY <1>3, <2>1, <2>7 DEF TimelyInv, Waiting
        <4>2. /\ 4 * IR_SAMPLE_COUNT + 1 + late \in Nat
              /\ 4 * IR_SAMPLE_COUNT + 1 + late' \in Nat
              /\ 4 * IR_SAMPLE_COUNT + 1 + late + 1 <= 4 * IR_SAMPLE_COUNT + 1 + late'
          BY <1>0, <1>1, <2>3
        <4> QED BY <1>0, <2>3, <4>1, <4>2, SilenceGrows
      <3>5. pc # "idle" =>
              quiet' + HALF_MIN <= 4 * IR_SAMPLE_COUNT + 1 + POLL_EVERY + raced'
        <4> SUFFICES ASSUME pc # "idle"
                     PROVE  quiet' + HALF_MIN
                              <= 4 * IR_SAMPLE_COUNT + 1 + POLL_EVERY + raced'
          OBVIOUS
        <4>1. raced' = raced + 1
          BY DEF TimelyTick, Tick
        <4>2. quiet + HALF_MIN <= 4 * IR_SAMPLE_COUNT + 1 + POLL_EVERY + raced
          BY <1>3, <2>1 DEF TimelyInv, Waiting
        <4>3. /\ 4 * IR_SAMPLE_COUNT + 1 + POLL_EVERY + raced \in Nat
              /\ 4 * IR_SAMPLE_COUNT + 1 + POLL_EVERY + raced' \in Nat
              /\ 4 * IR_SAMPLE_COUNT + 1 + POLL_EVERY + raced + 1
                   <= 4 * IR_SAMPLE_COUNT + 1 + POLL_EVERY + raced'
          BY <1>0, <2>3, <4>1
        <4> QED BY <1>0, <2>3, <4>2, <4>3, SilenceGrows
      <3>6. Waiting'
        BY <1>1, <2>1, <2>7, <3>2, <3>3, <3>4, <3>5 DEF isr, Waiting
      <3>7. last' = line'
        BY <1>1, <3>1, <3>2 DEF isr
      <3> QED BY <1>1, <3>6, <3>7 DEF TimelyInv, NoFrameLost
    <2> QED BY <1>0, <2>3, <2>5, <2>6, <2>7
  <1> QED BY <1>2, <1>3 DEF IInv, TypeOK

LEMMA TimelyTickInv ==
  ASSUME IInv, IInv', TimelyInv, TimelyTick
  PROVE  TimelyInv'
  <1>1. ~Noise
    BY DEF TimelyInv, TimelyTick, Noise
  <1> QED
    BY <1>1, StartFrameTimely, InFrameTimely, EndFrameTimely, SilenceTimely
    DEF TimelyTick, Tick, RemoteStep

LEMMA TimelyPollInv ==
  ASSUME IInv, TimelyInv, TimelyPoll
  PROVE  TimelyInv'
  <1> USE ReceiverAssumption, PollAssumption DEF isr, remote
  <1>1. late' = 0 /\ late' \in 0 .. POLL_EVERY
    BY DEF TimelyPoll
  <1>2. CASE PollActive
    <2>1. HoldsSent => HoldsSent'
      BY <1>2 DEF PollActive, HoldsSent
    <2>2. Waiting'
      BY <1>2, <2>1 DEF PollActive, IInv, TypeOK, TimelyInv, Waiting
    <2> QED BY <1>1, <1>2, <2>2 DEF PollActive, TimelyInv, NoFrameLost
  <1>3. CASE PollBits
    <2>1. ~sending /\ fresh => pc' = "value"
      BY <1>3 DEF PollBits, TimelyInv, Waiting
    <2>2. HoldsSent /\ pc' = "value" /\ ~active /\ fresh => HoldsSent'
      BY <1>3 DEF PollBits, HoldsSent
    <2>3. Waiting'
      BY <1>3, <2>1, <2>2 DEF PollBits, TimelyInv, Waiting
    <2> QED BY <1>1, <1>3, <2>3 DEF PollBits, TimelyInv, NoFrameLost
  <1>4. CASE PollValue
    BY <1>1, <1>4 DEF PollValue, TimelyInv, Waiting, NoFrameLost
  <1>5. CASE PollClear
    <2>1. ~fresh
      BY <1>5 DEF PollClear, TimelyInv, Waiting, NoFrameLost
    <2> QED BY <1>1, <1>5, <2>1 DEF PollClear, TimelyInv, Waiting, NoFrameLost
  <1> QED BY <1>2, <1>3, <1>4, <1>5 DEF TimelyPoll, Poll

(* A look at ir.active during a reception, or nothing at all. *)
LEMMA TimelyRestInv ==
  ASSUME TimelyInv, PollWhileActive \/ UNCHANGED << vars, late >>
  PROVE  TimelyInv'
  <1> USE PollAssumption
  <1>1. UNCHANGED vars
    BY DEF PollWhileActive
  <1>2. late' \in 0 .. POLL_EVERY /\ (active \/ late' = late)
    BY DEF PollWhileActive, TimelyInv
  <1>3. HoldsSent => HoldsSent'
    BY <1>1 DEF vars, isr, remote, poller, HoldsSent
  <1>4. Waiting'
    BY <1>1, <1>2, <1>3 DEF vars, isr, remote, poller, TimelyInv, Waiting
  <1> QED BY <1>1, <1>2, <1>4 DEF vars, isr, remote, poller, TimelyInv, NoFrameLost

(* No frame is lost: by the time the next frame is on the air main() has   *)
(* taken the one before, for every POLL_EVERY that PollAssumption allows   *)
(* (main.c:57-58, 169-192).                                                *)
THEOREM NoFrameLostCorrect == TimelySpec => []NoFrameLost
  <1> USE PollAssumption
  <1>1. FreeInit => IInv /\ TimelyInv
    <2> SUFFICES ASSUME FreeInit PROVE IInv /\ TimelyInv
      OBVIOUS
    <2>1. IInv
      BY InitIInv DEF FreeInit
    <2>2. TimelyInv
      BY DEF FreeInit, Init, TimelyInv, Waiting, NoFrameLost
    <2> QED BY <2>1, <2>2
  <1>2. IInv /\ TimelyInv /\ [TimelyTick \/ TimelyPoll \/ PollWhileActive]_<< vars, late >>
          => IInv' /\ TimelyInv'
    <2> SUFFICES ASSUME IInv, TimelyInv,
                        [TimelyTick \/ TimelyPoll \/ PollWhileActive]_<< vars, late >>
                 PROVE  IInv' /\ TimelyInv'
      OBVIOUS
    <2>1. IInv'
      BY TickIInv, PollActiveIInv, PollBitsIInv, PollValueIInv, PollClearIInv, StutterIInv
      DEF TimelyTick, TimelyPoll, PollWhileActive, Poll
    <2> QED BY <2>1, TimelyTickInv, TimelyPollInv, TimelyRestInv
  <1>3. IInv /\ TimelyInv => NoFrameLost
    BY DEF TimelyInv
  <1> QED BY <1>1, <1>2, <1>3, PTL DEF TimelySpec
=============================================================================
