----------------------------- MODULE IrChannel -----------------------------
(***************************************************************************)
(* What the infrared receiver promises to main(): the view that main() has *)
(* of the shared struct ir (code/src/main.c:39-46) through the three       *)
(* fields it reads and the one it writes, with all timing abstracted away. *)
(*                                                                         *)
(* While a transmission is being received (active) the two data fields     *)
(* read as zero; when the receiver goes inactive it leaves a word and the  *)
(* number of bits in it, and a word that counts exactly FRAME_BITS bits is *)
(* a frame that some remote control really sent.  A reception does not end *)
(* while main() is in the middle of a poll: it takes milliseconds, a poll  *)
(* microseconds.  IrReceiver is shown to implement this module; MainLoop   *)
(* is built on it.                                                         *)
(***************************************************************************)
EXTENDS Naturals, Sequences

CONSTANTS
  FRAME_BITS,   \* bits of a frame after its start bit: 13 (main.c:173)
  Frames,       \* the frames that the remote control can send
  Words,        \* what can be in the shift register
  BitCounts     \* what the bit counter can be

ASSUME ChannelAssumption ==
  /\ FRAME_BITS \in BitCounts
  /\ 0 \in BitCounts
  /\ 0 # FRAME_BITS
  /\ << >> \in Words
  /\ Frames \subseteq Words

VARIABLES
  active,       \* ir.active
  value,        \* ir.value
  value_bits,   \* ir.value_bits
  polling       \* main() is between its test of ir.active and line 191

irvars == << active, value, value_bits, polling >>

IrInit ==
  /\ active = FALSE
  /\ value = << >>
  /\ value_bits = 0
  /\ polling = FALSE

(* The line changes while the receiver is inactive: reception starts. *)
IrBegin ==
  /\ ~active
  /\ active' = TRUE
  /\ value' = << >>
  /\ value_bits' = 0
  /\ UNCHANGED polling

(* The receiver times out and leaves what it sampled. *)
IrFinish ==
  /\ active /\ ~polling
  /\ active' = FALSE
  /\ value' \in Words
  /\ value_bits' \in BitCounts
  /\ value_bits' = FRAME_BITS => value' \in Frames
  /\ UNCHANGED polling

(* main() finds the receiver inactive and starts to poll. *)
IrLook ==
  /\ ~active /\ ~polling
  /\ polling' = TRUE
  /\ UNCHANGED << active, value, value_bits >>

(* main() marks the word as consumed: ir.value_bits = 0. *)
IrClear ==
  /\ polling
  /\ polling' = FALSE
  /\ value_bits' = 0
  /\ UNCHANGED << active, value >>

IrNext == IrBegin \/ IrFinish \/ IrLook \/ IrClear

IrSpec == IrInit /\ [][IrNext]_irvars
=============================================================================
