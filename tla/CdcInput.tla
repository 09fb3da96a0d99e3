------------------------------ MODULE CdcInput ------------------------------
(***************************************************************************)
(* The serial port from the host to the program: usb_task,                 *)
(* handle_cdc_input and cdc_get_line of code/src/tinyusb/usb.c, over the   *)
(* receiving half of TinyUSB's CDC driver (class/cdc/cdc_device.c).        *)
(*                                                                         *)
(* The host sends packets, which cut the text anywhere, whenever the       *)
(* endpoint is armed; the interrupt only notes the arrival.  tud_task puts *)
(* the packet into the FIFO, and the program reads the FIFO in usb_task,   *)
(* character by character into a static line buffer that outlives packets  *)
(* and bus resets.                                                         *)
(***************************************************************************)
EXTENDS Text

CONSTANTS
  Packets,        \* what the host may send at once
  Command,        \* "reset" (line 57)
  FIFO_SIZE,      \* 64, CFG_TUD_CDC_RX_BUFSIZE
  EP_SIZE         \* 64, the buffer of the endpoint

ASSUME CdcAssumption ==
  /\ INPUT_MAX_LEN \in Nat /\ FIFO_SIZE \in Nat /\ EP_SIZE \in Nat
  /\ EP_SIZE <= FIFO_SIZE
  /\ Len(Command) < INPUT_MAX_LEN
  /\ Packets \subseteq Seq(STRING)
  /\ \A p \in Packets : p # << >> /\ Len(p) <= EP_SIZE

VARIABLES
  bus,            \* "up"; "reset", "conf": waiting for tud_task; "enum"erating
  armed,          \* the endpoint takes a packet
  packet,         \* a packet whose arrival waits for tud_task
  fifo,           \* rx_ff
  pc,             \* "main"; "usb": in usb_task, past tud_task; "bootrom"
  inbuf,          \* what handle_cdc_input has left to look at
  buffer,         \* its line buffer up to ind
  received_data   \* the line to fetch, as a C string

stack == << bus, armed, packet, fifo >>
cdcvars == << stack, pc, inbuf, buffer, received_data >>

-----------------------------------------------------------------------------
(* TinyUSB. *)

(* Mutant: with any room. *)
SomeRoom(queued) == FIFO_SIZE > Len(queued)

(* _prep_out_transaction: only with room for a whole packet. *)
Room(queued) == FIFO_SIZE - Len(queued) >= EP_SIZE

(* tud_task: the packet goes to the FIFO (cdcd_xfer_cb), which does not    *)
(* overflow; a bus reset empties everything (cdcd_reset); a configured     *)
(* device is ready for a packet (cdcd_open).                               *)
tud_task ==
  LET filled == IF bus = "reset" THEN << >>
                ELSE SubSeq(fifo \o packet, 1, Min({FIFO_SIZE, Len(fifo \o packet)}))
  IN  /\ fifo' = filled
      /\ packet' = << >>
      /\ armed' = (armed \/ bus = "conf" \/ (packet # << >> /\ bus = "up" /\ Room(filled)))
      /\ bus' = CASE bus = "reset" -> "enum" [] bus = "conf" -> "up" [] OTHER -> bus

-----------------------------------------------------------------------------
(* The program. *)

(* Line 19. *)
usb_task ==
  /\ pc = "main"
  /\ tud_task
  /\ pc' = "usb"
  /\ UNCHANGED << inbuf, buffer, received_data >>

(* The loop in keyboard_update calls tud_task, too, but reads nothing. *)
AwaitHost ==
  /\ pc = "main"
  /\ tud_task
  /\ UNCHANGED << pc, inbuf, buffer, received_data >>

(* Lines 21-26 and 46-47: the whole FIFO is read, and a packet may come.   *)
(* A device that is not connected has nothing in the FIFO.  After a bus    *)
(* reset that tud_task has not seen arming the endpoint does nothing, or   *)
(* halts the processor (UsbHid!DriverHalts); the halt is left out.         *)
Read ==
  /\ pc = "usb" /\ inbuf = << >>
  /\ IF fifo = << >>
       THEN pc' = "main" /\ UNCHANGED << inbuf, stack >>
       ELSE /\ inbuf' = fifo
            /\ fifo' = << >>
            /\ armed' = (armed \/ (bus = "up" /\ packet = << >>))
            /\ UNCHANGED << pc, bus, packet >>
  /\ UNCHANGED << buffer, received_data >>

(* One round of the loop of handle_cdc_input (lines 52-67). *)
Handle(char) ==
  /\ pc = "usb" /\ inbuf # << >> /\ Head(inbuf) = char
  /\ inbuf' = Tail(inbuf)
  /\ UNCHANGED stack

(* Mutants: the bound is that of the array; the index is not set back.     *)
MayStoreLast == Len(buffer) <= INPUT_MAX_LEN
LeftOver == buffer

MayStore == Len(buffer) < INPUT_MAX_LEN

(* After a newline the buffer is filled from its start. *)
NextLine == << >>

Store ==
  /\ \E char \in (UNION { Range(p) : p \in Packets }) \ {LF, CR} : Handle(char)
  /\ buffer' = IF MayStore THEN Append(buffer, Head(inbuf)) ELSE buffer
  /\ pc' = IF inbuf' = << >> THEN "main" ELSE pc
  /\ UNCHANGED received_data

Return ==
  /\ Handle(CR)
  /\ pc' = IF inbuf' = << >> THEN "main" ELSE pc
  /\ UNCHANGED << buffer, received_data >>

(* Lines 54-62: the line replaces one that was not fetched, even when it   *)
(* is empty.                                                               *)
EndLine ==
  /\ Handle(LF)
  /\ CString(buffer) # Command
  /\ received_data' = CString(buffer)
  /\ buffer' = NextLine
  /\ pc' = IF inbuf' = << >> THEN "main" ELSE pc

(* Lines 57-59: reset_usb_boot does not return. *)
Reboot ==
  /\ Handle(LF)
  /\ CString(buffer) = Command
  /\ pc' = "bootrom"
  /\ buffer' = << >>
  /\ UNCHANGED received_data

(* Lines 36-43, for a program that fetches lines. *)
cdc_get_line ==
  /\ pc = "main" /\ received_data # << >>
  /\ received_data' = << >>
  /\ UNCHANGED << stack, pc, inbuf, buffer >>

Program == usb_task \/ AwaitHost \/ Read \/ Store \/ Return \/ EndLine \/ Reboot \/ cdc_get_line

-----------------------------------------------------------------------------
(* The host. *)

HostWrites(text) ==
  /\ bus = "up" /\ armed
  /\ packet' = text
  /\ armed' = FALSE
  /\ UNCHANGED << bus, fifo, pc, inbuf, buffer, received_data >>

BusReset ==
  /\ bus # "reset"
  /\ bus' = "reset"
  /\ armed' = FALSE
  /\ UNCHANGED << packet, fifo, pc, inbuf, buffer, received_data >>

HostConfigure ==
  /\ bus = "enum"
  /\ bus' = "conf"
  /\ UNCHANGED << armed, packet, fifo, pc, inbuf, buffer, received_data >>

Init ==
  /\ bus = "enum" /\ armed = FALSE /\ packet = << >> /\ fifo = << >>
  /\ pc = "main" /\ inbuf = << >> /\ buffer = << >> /\ received_data = << >>

Next ==
  /\ pc # "bootrom"
  /\ \/ Program \/ BusReset \/ HostConfigure
     \/ \E text \in Packets : HostWrites(text)

Spec == Init /\ [][Next]_cdcvars

-----------------------------------------------------------------------------
(* Every index stays inside its array: the line with its final NUL in      *)
(* buffer and received_data (101 characters), the FIFO in inbuf.           *)
TypeOK ==
  /\ bus \in {"up", "reset", "enum", "conf"} /\ armed \in BOOLEAN
  /\ pc \in {"main", "usb", "bootrom"}
  /\ {packet, fifo, inbuf, buffer, received_data} \subseteq Seq(STRING)
  /\ Len(packet) <= EP_SIZE /\ Len(fifo) <= FIFO_SIZE /\ Len(inbuf) <= FIFO_SIZE
  /\ Len(buffer) <= INPUT_MAX_LEN /\ Len(received_data) <= INPUT_MAX_LEN

(* An endpoint that takes a packet is free, and the FIFO has room for it.  *)
Armed == armed => bus = "up" /\ packet = << >> /\ Room(fifo)

(* What a device that is not configured has got was handed on or dropped.  *)
Detached == bus \in {"enum", "conf"} => packet = << >> /\ fifo = << >>

(* Although packets are put into the FIFO later than they arrive, and in   *)
(* three places a decision is made to take one more, nothing overflows: no *)
(* character is cut off a packet and no line is longer than its array      *)
(* (cdc_device.c:81-106,434, usb.c:33-67).                                 *)
InputInv ==
  /\ TypeOK /\ Armed /\ Detached
  /\ Len(fifo) + Len(packet) <= FIFO_SIZE

(* However the packets cut the text, and whenever the program gets to read *)
(* it, what it fetches are the lines that were written, in order, none     *)
(* dropped but one overtaken by the next, and no character is lost or      *)
(* added except at the end by a bus reset (usb.c:18-68,                    *)
(* cdc_device.c:81-106).                                                   *)
Lines == INSTANCE LineStream WITH
  connected <- bus = "up",
  coming    <- Written([NoText EXCEPT !.typed = buffer], inbuf \o fifo \o packet),
  received  <- received_data,
  rebooted  <- pc = "bootrom"

ImplementsLines == Lines!Spec
=============================================================================
