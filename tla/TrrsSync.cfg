\* A FIFO of four bytes, a time-out of two ticks, a receiver that looks every tick.
CONSTANTS
  BYTES = 6
  FIFO_SIZE = 4
  TIMEOUT = 2
  SEND_GAP = 2
  POLL = 1
  QUIET = 6
SPECIFICATION Spec
INVARIANT InStep
PROPERTY WholePackets
