\* One tick is 2 ms.  Remote control: time-out 100 ms, frame 25 ms and its time-out
\* 3.2 ms, repeated every 114 ms.  Encoder: an edge bounces as long as the program
\* sleeps, 10 ms, and the next one is 6 ms behind; the other phase then rests for 12 ms.
CONSTANTS
  FRAME_BITS = 13
  Frames <- TwoPresses
  Words <- PressWords
  BitCounts <- CleanCounts
  Reports <- SomeReports
  Released = "NONE"
  ENC_SLEEP = 5
  MUTE_SLEEP = 50
  IR_SLEEP = 1
  RC5_TIMEOUT = 50
  CLOCK_MOD = 64
  HOST_LAG = 5
  FRAME_TIME = 14
  PERIOD = 57
  RELEASE_TIME = 51
  BOUNCE = 5
  STABLE = 3
  APART = 6
SPECIFICATION TimedSpec
INVARIANTS LetGoReleases OneTapPerEdge RightDirection
PROPERTY HeldKeyStaysDown
