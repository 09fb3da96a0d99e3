-------------------------------- MODULE Trrs --------------------------------
(***************************************************************************)
(* The link between the keyboard halves (code/src/trrs.c): packets of two  *)
(* bytes over a UART that can lose a byte or read one where there is none. *)
(* Nothing marks where a packet begins; a receiver that has got out of     *)
(* step finds back when a packet it has begun to read does not go on.      *)
(*                                                                         *)
(* The bytes are numbered in the order in which they are sent, modulo      *)
(* BYTES: those of a packet are an even number and the next.  The time a   *)
(* byte is on the wire is the same for all and is left out.                *)
(***************************************************************************)
EXTENDS Integers, Sequences

CONSTANTS
  BYTES,        \* numbers of bytes
  FIFO_SIZE,    \* of the receiving UART, 32
  TIMEOUT,      \* 1000 us (line 28), in ticks
  SEND_GAP,     \* ticks that an interrupt may hold up trrs_send, at most
  POLL,         \* ticks before the receiver looks at a byte, at most
  QUIET         \* silence that brings it back into step, in ticks

(* The receiver looks at the link this often while it reads n bytes, of    *)
(* packets or of what it takes for packets.                                *)
Looks(n) == ((n + 1) \div 2) * POLL

(* A silence is long enough to read a full FIFO and to give up the wait    *)
(* for a byte that does not come.                                          *)
ASSUME TrrsAssumption ==
  /\ BYTES \in Nat /\ BYTES % 2 = 0 /\ BYTES > FIFO_SIZE + 1
  /\ {FIFO_SIZE, TIMEOUT, SEND_GAP, POLL, QUIET} \subseteq Nat
  /\ SEND_GAP <= TIMEOUT
  /\ QUIET >= Looks(FIFO_SIZE) + TIMEOUT + 2

Noise == BYTES  \* a byte that was not sent

VARIABLES
  count,        \* number of the next byte to send
  quiet,        \* ticks since the last byte, to QUIET
  rx,           \* the FIFO of the receiving UART
  pc,           \* "idle", or "second": trrs_read waits for the second byte
  first,        \* the byte that it has read
  late,         \* ticks in "second", or with a byte that was not looked at
  astray        \* a byte was lost or came from nowhere, and no silence since

sendVars == << count, quiet >>
readVars == << pc, first, late >>
trrsvars == << sendVars, rx, readVars, astray >>

-----------------------------------------------------------------------------
(* A byte into the FIFO, which drops it when it is full. *)
Receive(byte) ==
  IF Len(rx) < FIFO_SIZE
    THEN rx' = Append(rx, byte) /\ astray' = (astray \/ byte = Noise)
    ELSE UNCHANGED rx /\ astray' = TRUE

(* One of the two uart_putc_raw of trrs_send, and its way to the receiver. *)
trrs_send ==
  /\ count' = (count + 1) % BYTES
  /\ quiet' = 0
  /\ \/ Receive(count)
     \/ UNCHANGED rx /\ astray' = TRUE
  /\ UNCHANGED readVars

NoiseByte ==
  /\ Receive(Noise)
  /\ quiet' = 0
  /\ UNCHANGED << count, readVars >>

-----------------------------------------------------------------------------
(* trrs_data_available and the first byte (lines 21-26). *)
ReadFirst ==
  /\ pc = "idle" /\ rx # << >>
  /\ first' = Head(rx)
  /\ rx' = Tail(rx)
  /\ pc' = "second" /\ late' = 0
  /\ UNCHANGED << sendVars, astray >>

(* Line 31: the packet is first with Head(rx) above it. *)
ReadSecond ==
  /\ pc = "second" /\ rx # << >>
  /\ rx' = Tail(rx)
  /\ pc' = "idle" /\ late' = 0
  /\ UNCHANGED << sendVars, first, astray >>

(* Mutants: the wait is not bounded; it does not last until the timeout.   *)
NeverGivesUp == FALSE
GivesUpAtOnce == late > 0

(* uart_is_readable_within_us looks at the FIFO before the clock. *)
GivesUp == late > TIMEOUT

(* Lines 28-29: the result is 0x0000, and the byte is dropped. *)
GiveUp ==
  /\ pc = "second" /\ rx = << >> /\ GivesUp
  /\ pc' = "idle" /\ late' = 0
  /\ UNCHANGED << sendVars, rx, first, astray >>

(* Time passes unless the sender is held up for too long, the receiver is  *)
(* about to look, or trrs_read has something to do.                        *)
Tick ==
  /\ count % 2 = 1 => quiet < SEND_GAP
  /\ IF pc = "second" THEN rx = << >> /\ ~GivesUp ELSE rx # << >> => late < POLL
  /\ quiet' = IF quiet < QUIET THEN quiet + 1 ELSE QUIET
  /\ late' = IF pc = "second" \/ rx # << >> THEN late + 1 ELSE 0
  /\ astray' = (astray /\ quiet' < QUIET)
  /\ UNCHANGED << count, rx, pc, first >>

Init ==
  /\ count = 0 /\ quiet = 0 /\ rx = << >>
  /\ pc = "idle" /\ first = 0 /\ late = 0 /\ astray = FALSE

Next == trrs_send \/ NoiseByte \/ ReadFirst \/ ReadSecond \/ GiveUp \/ Tick

Spec == Init /\ [][Next]_trrsvars

-----------------------------------------------------------------------------
(* What the receiver has not made a packet of yet. *)
Pending == (IF pc = "second" THEN << first >> ELSE << >>) \o rx

(* The receiver is in step with the sender: what it has yet to read are    *)
(* the last bytes sent, from the beginning of a packet.  Lost bytes, bytes *)
(* from nowhere and an overflow put it out of step, and a silence brings   *)
(* it back, whatever was left over (trrs.c:16-33).                         *)
InStep ==
  ~astray =>
    /\ (count + Len(Pending)) % 2 = 0
    /\ \A i \in DOMAIN Pending :
         Pending[i] = (count + BYTES + i - 1 - Len(Pending)) % BYTES

(* While it is in step every packet that trrs_read returns is one that was *)
(* sent, with its bytes in their places (trrs.c:25-33).                    *)
WholePackets ==
  [][ReadSecond /\ ~astray => first % 2 = 0 /\ Head(rx) = first + 1]_trrsvars
=============================================================================
