\* A report of two slots; any typist has nine keys, the careful one every key
\* that a mode treats differently.
CONSTANTS
  Plain = {"0", "1", "4", "H", "J", "L", "X", "D", "V", "I", "DELETE"}
  Keys = {"0", "1", "4", "H", "J", "L", "X", "D", "V", "I", "DELETE",
          "SHIFT_LEFT", "SHIFT_RIGHT", "CONTROL_LEFT", "ALT_LEFT", "VIM", "FN"}
  AnyKeys = {"4", "X", "V", "I", "SHIFT_LEFT", "SHIFT_RIGHT", "CONTROL_LEFT", "VIM", "FN"}
  MAX_DEPRESSED_KEYS = 2
  MAX_DOWN = 3
SPECIFICATION TypistsSpec
INVARIANTS TypeOK SelectionHeld FlagsHeld NothingStuck NoDiagnostics
