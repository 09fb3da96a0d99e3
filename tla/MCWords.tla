------------------------------ MODULE MCWords ------------------------------
(***************************************************************************)
(* The pure functions on words, each against a reference: rc5_decode over  *)
(* every word that the receiver can have shifted in, and the Hamming code  *)
(* over every word of data and every error in one or two of its bits.      *)
(***************************************************************************)
EXTENDS Rc5

H == INSTANCE Hamming

CONSTANT MAX_BITS   \* longest word shifted in

VARIABLE word

Init == word = << >>
Shift == Len(word) < MAX_BITS /\ \E bit \in Bit : word' = Append(word, bit)
Next == Shift \/ (Len(word) = MAX_BITS /\ word' = << >>)
Spec == Init /\ [][Next]_word

-----------------------------------------------------------------------------
Binary(n, width) == [i \in 1 .. width |-> (n \div 2^(width - i)) % 2]

(* A frame of extended RC-5 behind its start bit: the field bit (command   *)
(* bit 6 inverted), the toggle bit, five bits of address and six of        *)
(* command, the most significant first.                                    *)
Encode(d) ==
  << 1 - d.command \div 64, d.control >>
    \o Binary(d.address, 5) \o Binary(d.command % 64, 6)

Last13(v) == SubSeq(v, Len(v) - 12, Len(v))

(* No two frames decode to the same data: encoding what rc5_decode returns *)
(* gives the last 13 bits back (main.c:94-109).                            *)
DecodeInverts == Len(word) >= 13 => Encode(rc5_decode(word)) = Last13(word)

-----------------------------------------------------------------------------
(* The word as eleven bits of data, and the packet for it.                 *)
data == { i \in 0 .. 10 : BitOf(word, i) = 1 }
packet == H!hamming_16_11_encode(data)

(* Whichever bit of a packet is wrong, one of the data, a check or the     *)
(* overall parity, or none, the data is recovered (hamming.c:36-52 against *)
(* hamming.h:11-35).                                                       *)
SingleErrorsCorrected ==
  Len(word) = 11 =>
    /\ H!hamming_16_11_decode(packet) = data
    /\ \A i \in 0 .. 15 : H!hamming_16_11_decode(H!Flip(packet, {i})) = data

(* Two wrong bits, wherever they are, are never taken for other data       *)
(* (hamming.c:41-48).                                                      *)
DoubleErrorsRejected ==
  Len(word) = 11 =>
    \A i, j \in 0 .. 15 : i # j => H!hamming_16_11_decode(H!Flip(packet, {i, j})) = {}
=============================================================================
