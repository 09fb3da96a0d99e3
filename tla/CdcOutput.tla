------------------------------ MODULE CdcOutput ------------------------------
(***************************************************************************)
(* The serial port from the program to the host: cdc_printf of             *)
(* code/src/tinyusb/usb.c over the sending half of TinyUSB's CDC driver    *)
(* (class/cdc/cdc_device.c).                                               *)
(*                                                                         *)
(* What is printed goes to a FIFO, which is flushed to the one packet of   *)
(* the endpoint: by the print itself, when the packet before it has been   *)
(* read, and when input comes.  Until a terminal is there the FIFO         *)
(* overwrites itself; then what does not fit is dropped.                   *)
(*                                                                         *)
(* The characters are numbered in the order in which they are printed.     *)
(***************************************************************************)
EXTENDS Fifo

CONSTANTS
  EP_SIZE,        \* 64, the size of a packet
  MAX_MESSAGE,    \* characters in one call of cdc_printf, at most
  MAX_TEXT        \* characters that the program prints

ASSUME OutputAssumption ==
  EP_SIZE \in Nat \ {0} /\ MAX_MESSAGE \in Nat /\ MAX_TEXT \in Nat

VARIABLES
  bus,            \* "up"; "reset", "conf": waiting for tud_task; "enum"erating
  mounted, suspended,
  busy,           \* the endpoint is claimed
  ep,             \* the packet in the endpoint, if any
  done,           \* "short" or "full": a packet was read, tud_task does not know
  fifo,           \* tx_ff
  printed,        \* the last character printed
  terminal,       \* the host has opened the port: it sets DTR, and reads
  shown           \* the last character that the terminal has read

usb == << bus, mounted, suspended, terminal >>
outvars == << usb, busy, ep, done, fifo, printed, shown >>

-----------------------------------------------------------------------------
(* Mutants: only whole packets are sent; the endpoint is not claimed.      *)
CanSendFull(f) == mounted /\ ~suspended /\ Items(f) >= EP_SIZE
FreeAny == TRUE

(* tud_cdc_write_flush: it is ready with something to send. *)
CanSend(f) == mounted /\ ~suspended /\ Items(f) > 0
Free == ~busy

(* A packet sent after a bus reset that tud_task has not seen goes to a    *)
(* cleared endpoint and is lost, or halts the processor                    *)
(* (UsbHid!DriverHalts).  The halt is left out: it ends what is printed    *)
(* and shown, when the terminal is already gone.                           *)
Send(f) ==
  /\ ep' = IF bus = "up" THEN << Peek(f, EP_SIZE) >> ELSE << >>
  /\ fifo' = AfterRead(f, EP_SIZE)
  /\ busy' = TRUE

Flush(f) ==
  \/ CanSend(f) /\ Free /\ Send(f)
  \/ ~(CanSend(f) /\ Free) /\ fifo' = f /\ UNCHANGED << ep, busy >>

(* tud_cdc_write_str and the flush behind it (usb.c:123-124). *)
cdc_printf(length) ==
  /\ printed' = printed + length
  /\ Flush(AfterWrite(fifo, [i \in 1 .. length |-> printed + i]))
  /\ UNCHANGED << usb, done, shown >>

(* Line 23 of usb_task, when there is input. *)
FlushOnInput ==
  /\ mounted
  /\ Flush(fifo)
  /\ UNCHANGED << usb, done, printed, shown >>

(* cdcd_xfer_cb: the next packet, or an empty one behind a full one. *)
NextPacket(f) ==
  \/ CanSend(f) /\ Send(f)
  \/ /\ ~CanSend(f)
     /\ fifo' = f
     /\ busy' = (done = "full" /\ Items(f) = 0)
     /\ ep' = IF busy' THEN << << >> >> ELSE << >>

(* tud_task handles what the interrupt handler has queued: a reset         *)
(* (cdcd_reset), SET_CONFIGURATION, or DTR and the packet that was read.   *)
TaskReset ==
  /\ bus = "reset"
  /\ bus' = "enum" /\ mounted' = FALSE /\ suspended' = FALSE
  /\ busy' = FALSE /\ done' = "no"
  /\ fifo' = SetOverwritable(Cleared(fifo), TRUE)
  /\ UNCHANGED << ep, printed, terminal, shown >>

TaskConfigure ==
  /\ bus = "conf"
  /\ bus' = "up" /\ mounted' = TRUE
  /\ UNCHANGED << suspended, busy, ep, done, fifo, printed, terminal, shown >>

TaskTransfers ==
  /\ bus = "up"
  /\ LET f == SetOverwritable(fifo, ~terminal)
     IN  IF done # "no" THEN NextPacket(f) ELSE fifo' = f /\ UNCHANGED << busy, ep >>
  /\ done' = "no"
  /\ UNCHANGED << usb, printed, shown >>

tud_task == TaskReset \/ TaskConfigure \/ TaskTransfers

-----------------------------------------------------------------------------
(* The host. *)

HostReads ==
  /\ bus = "up" /\ ~suspended /\ terminal /\ ep # << >>
  /\ shown' = IF ep[1] = << >> THEN shown ELSE ep[1][Len(ep[1])]
  /\ done' = IF Len(ep[1]) = EP_SIZE THEN "full" ELSE "short"
  /\ ep' = << >>
  /\ UNCHANGED << usb, busy, fifo, printed >>

OpenClose ==
  /\ bus = "up" /\ ~suspended
  /\ terminal' = ~terminal
  /\ UNCHANGED << bus, mounted, suspended, busy, ep, done, fifo, printed, shown >>

SuspendResume ==
  /\ bus = "up"
  /\ suspended' = ~suspended
  /\ UNCHANGED << bus, mounted, terminal, busy, ep, done, fifo, printed, shown >>

BusReset ==
  /\ bus # "reset"
  /\ bus' = "reset" /\ terminal' = FALSE /\ ep' = << >>
  /\ UNCHANGED << mounted, suspended, busy, done, fifo, printed, shown >>

HostConfigure ==
  /\ bus = "enum"
  /\ bus' = "conf"
  /\ UNCHANGED << mounted, suspended, terminal, busy, ep, done, fifo, printed, shown >>

Init ==
  /\ bus = "enum" /\ mounted = FALSE /\ suspended = FALSE /\ terminal = FALSE
  /\ busy = FALSE /\ ep = << >> /\ done = "no" /\ fifo = NewFifo
  /\ printed = 0 /\ shown = 0

Next ==
  \/ \E length \in 1 .. Least(MAX_MESSAGE, MAX_TEXT - printed) : cdc_printf(length)
  \/ FlushOnInput \/ tud_task
  \/ HostReads \/ OpenClose \/ SuspendResume \/ BusReset \/ HostConfigure

(* The main loop calls tud_task (main.c:232), and a terminal reads.  *)
Spec ==
  /\ Init /\ [][Next]_outvars
  /\ WF_outvars(tud_task) /\ WF_outvars(HostReads)

-----------------------------------------------------------------------------
(* What is on its way to the terminal. *)
Coming == (IF ep = << >> THEN << >> ELSE ep[1]) \o Peek(fifo, DEPTH)
Waits(c) == \E i \in DOMAIN Coming : Coming[i] = c

(* The terminal sees characters in the order in which they were printed,   *)
(* and none twice, however often the FIFO overflowed while no one read it  *)
(* and wherever packets, resets and terminals began and ended              *)
(* (tusb_fifo.c:392-548, cdc_device.c:166-210).                            *)
InOrder ==
  \A i \in DOMAIN Coming : Coming[i] > IF i = 1 THEN shown ELSE Coming[i - 1]

(* While the driver knows of the terminal, a character that was taken into *)
(* the FIFO leaves only for the terminal: no print overwrites it, neither  *)
(* in the FIFO nor in the endpoint (cdc_device.c:181-210,391).             *)
KeptForTerminal ==
  [][~fifo.overwritable /\ ~fifo'.overwritable =>
       \A c \in 1 .. printed : Waits(c) => Waits(c)' \/ c <= shown' \/ bus' # "up"]_outvars

(* A character that waits behind a packet is sent after it without another *)
(* print, unless the terminal goes or the bus rests (cdc_device.c:464).    *)
Connected == bus = "up" /\ ~suspended /\ terminal
SentInTime ==
  \A c \in 1 .. MAX_TEXT : busy /\ Waits(c) /\ Connected ~> ~Waits(c) \/ ~Connected
=============================================================================
