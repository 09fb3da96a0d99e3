\* A modifier released that the report does not hold.
CONSTANTS
  Plain = {"I"}
  Keys = {"I", "SHIFT_LEFT", "SHIFT_RIGHT", "VIM"}
  AnyKeys = {"I", "SHIFT_LEFT", "SHIFT_RIGHT", "VIM"}
  MAX_DEPRESSED_KEYS = 6
  MAX_DOWN = 3
SPECIFICATION AnySpec
PROPERTY UnpairedModifierReported
