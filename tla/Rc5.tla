-------------------------------- MODULE Rc5 --------------------------------
(***************************************************************************)
(* The pure part of code/src/main.c: the shift register of the infrared    *)
(* receiver, rc5_decode and the table from remote control buttons to HID   *)
(* keys.                                                                   *)
(*                                                                         *)
(* The unsigned word ir.value is represented by the sequence of the bits   *)
(* shifted into it, oldest first; bits never shifted in are 0.  Only the   *)
(* low 13 bits are ever looked at, so the width of the word (32) does not  *)
(* show.                                                                   *)
(***************************************************************************)
EXTENDS Naturals, Sequences

Bit == {0, 1}

(* Bit number i of the word v, 0 the least significant: (v >> i) & 1. *)
BitOf(v, i) == IF i < Len(v) THEN v[Len(v) - i] ELSE 0

(* The n bits of v above bit number lo: (v >> lo) & ((1 << n) - 1), for    *)
(* the three widths that rc5_decode uses.                                  *)
Field1(v, lo) == BitOf(v, lo)
Field5(v, lo) == BitOf(v, lo) + 2 * BitOf(v, lo + 1) + 4 * BitOf(v, lo + 2)
                   + 8 * BitOf(v, lo + 3) + 16 * BitOf(v, lo + 4)
Field6(v, lo) == Field5(v, lo) + 32 * BitOf(v, lo + 5)

(* Mutant: the toggle bit is not shifted out before the field bit is read. *)
rc5_decode_noshift(v) ==
  [control |-> Field1(v, 11),
   address |-> Field5(v, 6),
   command |-> Field6(v, 0) + (IF Field1(v, 11) = 0 THEN 64 ELSE 0)]

rc5_decode(v) ==
  [control |-> Field1(v, 11),
   address |-> Field5(v, 6),
   command |-> Field6(v, 0) + (IF Field1(v, 12) = 0 THEN 64 ELSE 0)]

(* struct rc5_data {0}: what main() holds when no button is down. *)
NoData == [control |-> 0, address |-> 0, command |-> 0]

NoKey == "NONE"

(* The switch over rc5_data.command under address 0x18. *)
KeyOf(d) ==
  IF d.address # 24 THEN NoKey
  ELSE CASE d.command = 19 -> "VOLUME_UP"
         [] d.command = 3  -> "VOLUME_DOWN"
         [] d.command = 50 -> "MUTE"
         [] d.command = 16 -> "ARROW_UP"
         [] d.command = 8  -> "ARROW_DOWN"
         [] d.command = 21 -> "ARROW_LEFT"
         [] d.command = 13 -> "ARROW_RIGHT"
         [] d.command = 32 -> "ENTER"
         [] OTHER          -> NoKey
=============================================================================
