----------------------------- MODULE MCMainLoop -----------------------------
(***************************************************************************)
(* Instances of MainLoop for TLC.                                          *)
(***************************************************************************)
EXTENDS MainLoop

(* Frames of 13 bits: field bit, toggle bit, address, command.  Two of one *)
(* button, one of another, one of a button without a key.                  *)
VolumeUp  == << 1, 0,  1, 1, 0, 0, 0,  0, 1, 0, 0, 1, 1 >>
VolumeUp2 == << 1, 1,  1, 1, 0, 0, 0,  0, 1, 0, 0, 1, 1 >>
Enter     == << 1, 0,  1, 1, 0, 0, 0,  1, 0, 0, 0, 0, 0 >>
Home      == << 1, 0,  1, 1, 0, 0, 0,  0, 0, 0, 0, 0, 1 >>

(* Noise: fourteen bits of which the last thirteen read as the mute key.   *)
Noise14   == << 0, 1, 0,  1, 1, 0, 0, 0,  1, 1, 0, 0, 1, 0 >>

OneFrame   == { VolumeUp }
SomeFrames == { VolumeUp, Enter }
SomeWords  == SomeFrames \cup { << >>, Noise14 }
OneWords   == OneFrame \cup { << >>, Noise14 }
TwoPresses == { VolumeUp, VolumeUp2, Enter, Home }
PressWords == TwoPresses \cup { << >> }
CleanWords == OneFrame \cup { << >> }
CleanCounts == { 0, 13 }
SomeCounts == { 0, 13, 14 }

SomeReports == { NoKey, "VOLUME_UP", "VOLUME_DOWN", "MUTE", "ENTER" }
=============================================================================
