------------------------------ MODULE Hamming ------------------------------
(***************************************************************************)
(* The extended Hamming code of the link between the keyboard halves       *)
(* (code/src/hamming.h and hamming.c): eleven bits of data in a packet of  *)
(* sixteen.  A word is represented by the set of the positions of its 1s.  *)
(***************************************************************************)
EXTENDS Naturals, FiniteSets

Data    == SUBSET (0 .. 10)
Packets == SUBSET (0 .. 15)

(* The exclusive or of the bits of w at the given positions. *)
Parity(w, positions) == Cardinality(w \cap positions) % 2

Bit(value, position) == IF value = 1 THEN {position} ELSE {}

-----------------------------------------------------------------------------
(* hamming.h: P1 to P4 and PX are computed from the data.                  *)

P1(data) == Parity(data, {0, 2, 4, 6, 7, 9, 10})
P2(data) == Parity(data, {0, 1, 4, 5, 7, 8, 10})
P3(data) == Parity(data, {0, 1, 2, 3, 7, 8, 9})
P4(data) == Parity(data, {0, 1, 2, 3, 4, 5, 6})
PX(data) == (Parity(data, 0 .. 10) + P1(data) + P2(data) + P3(data) + P4(data)) % 2

hamming_16_11_encode(data) ==
  UNION { Bit(PX(data), 15), Bit(P1(data), 14), Bit(P2(data), 13),
          Bit(P3(data), 11), Bit(P4(data), 7),
          data \cap 0 .. 6,
          { i + 1 : i \in data \cap 7 .. 9 },
          { i + 2 : i \in data \cap {10} } }

-----------------------------------------------------------------------------
(* hamming.c: the checks are taken over the packet.                        *)

P1_check(packet) == Parity(packet, {0, 2, 4, 6, 8, 10, 12, 14})
P2_check(packet) == Parity(packet, {0, 1, 4, 5, 8, 9, 12, 13})
P3_check(packet) == Parity(packet, {0, 1, 2, 3, 8, 9, 10, 11})
P4_check(packet) == Parity(packet, 0 .. 7)
PX_check(packet) == Parity(packet, 0 .. 15)

(* Mutant: not complemented, as other implementations count. *)
error_pos_plain(packet) ==
  P1_check(packet) + 2 * P2_check(packet) + 4 * P3_check(packet) + 8 * P4_check(packet)

(* The complement of four bits: 15 stands for no error. *)
hamming_error_pos(packet) ==
  15 - (P1_check(packet) + 2 * P2_check(packet) + 4 * P3_check(packet) + 8 * P4_check(packet))

hamming_extract_data(packet) ==
  UNION { packet \cap 0 .. 6,
          { i - 1 : i \in packet \cap 8 .. 10 },
          { i - 2 : i \in packet \cap {12} } }

Flip(packet, positions) == (packet \ positions) \cup (positions \ packet)

(* Mutant: the overall parity is not looked at. *)
NeverUncorrectable(packet) == FALSE

Uncorrectable(packet) == hamming_error_pos(packet) # 15 /\ PX_check(packet) = 0

(* An uncorrectable packet gives 0; a wrong overall parity alone is only   *)
(* reported.                                                               *)
hamming_16_11_decode(packet) ==
  IF Uncorrectable(packet) THEN {}
  ELSE hamming_extract_data(Flip(packet, {hamming_error_pos(packet)} \ {15}))
=============================================================================
