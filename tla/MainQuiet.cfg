\* Pins, bus, and remote control or terminal disturb the loop in any order, then
\* all is calm.
CONSTANTS
  FRAME_BITS = 13
  Frames <- OneFrame
  Words <- CleanWords
  BitCounts <- CleanCounts
  Reports <- SomeReports
  Released = "NONE"
  ENC_SLEEP = 0
  MUTE_SLEEP = 0
  IR_SLEEP = 0
  RC5_TIMEOUT = 0
  CLOCK_MOD = 2
SPECIFICATION LiveSpec
PROPERTIES QuietMeansReleased ResetObeyed
