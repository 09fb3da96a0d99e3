\* A command of two characters, lines of three, packets of two.
CONSTANTS
  Command <- MCCommand
  Packets <- MCPackets
  INPUT_MAX_LEN = 3
  FIFO_SIZE = 2
  EP_SIZE = 2
SPECIFICATION CdcSpec
INVARIANT InputInv
PROPERTIES ImplementsLines ScriptObeyed
