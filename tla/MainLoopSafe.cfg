\* Two infrared keys, every interleaving with the inputs, the bus and the host.
CONSTANTS
  FRAME_BITS = 13
  Frames <- SomeFrames
  Words <- SomeWords
  BitCounts <- SomeCounts
  Reports <- SomeReports
  Released = "NONE"
  ENC_SLEEP = 1
  MUTE_SLEEP = 1
  IR_SLEEP = 1
  RC5_TIMEOUT = 1
  CLOCK_MOD = 3
SPECIFICATION MainSpec
INVARIANTS NoPhantomKey HostKeyOwned IrPressFindsHostReleased MInv
PROPERTY ImplementsPipe
