\* Exhaustive over the frames: 3 bits, a half bit of 3 or 4 samples.
CONSTANTS
  IR_SAMPLE_COUNT = 4
  FRAME_BITS = 3
  Frames <- AllFrames
  HALF_MIN = 3
  HALF_MAX = 4
  GAP = 18
  MAX_FLIPS = 2
  POLL_TICKS = 1
  POLL_EVERY = 1
SPECIFICATION FreeSpec
INVARIANTS TakenOnce IInv
PROPERTIES ReceptionEnds ImplementsChannel
