\* A FIFO and a packet of three characters, messages of up to four, nine in all.
CONSTANTS
  DEPTH = 3
  EP_SIZE = 3
  MAX_MESSAGE = 4
  MAX_TEXT = 9
SPECIFICATION Spec
INVARIANT InOrder
PROPERTIES KeptForTerminal SentInTime
