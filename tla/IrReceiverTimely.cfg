\* The numbers of the code and of RC-5; main() polls in time and the line is
\* free of noise.
CONSTANTS
  IR_SAMPLE_COUNT = 8
  FRAME_BITS = 13
  Frames <- SomeFrames
  HALF_MIN = 8
  HALF_MAX = 10
  GAP = 43
  MAX_FLIPS = 0
  POLL_TICKS = 1
  POLL_EVERY = 17
SPECIFICATION TimelySpec
INVARIANTS NoFrameLost TakenWordIsSent
