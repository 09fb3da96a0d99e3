------------------------------- MODULE UsbHid -------------------------------
(***************************************************************************)
(* The way of a keyboard report from keyboard_update (code/src/tinyusb/    *)
(* usb.c:70-85) to the host: the part of the USB device stack that         *)
(* keyboard_update depends on, the one-report buffer of the interrupt      *)
(* endpoint, and the host that polls it, suspends and resumes the bus, and *)
(* resets and configures the device.                                       *)
(*                                                                         *)
(* The interrupt handler of the stack only queues what happens on the bus; *)
(* tud_task, called by the program, acts on it.  What the program sees of  *)
(* the bus is therefore late, except for suspend and resume, which the     *)
(* interrupt handler records at once.                                      *)
(***************************************************************************)
EXTENDS Naturals, Sequences

CONSTANTS
  Reports,      \* keyboard reports
  Released      \* the report with no key and no modifier

ASSUME UsbAssumption == Released \in Reports

VARIABLES
  mounted,      \* tud_mounted: tud_task has seen SET_CONFIGURATION
  suspended,    \* tud_suspended
  busy,         \* the endpoint is claimed for a report
  done,         \* the completion of a report waits for tud_task
  bus,          \* "up"; or "reset", waiting for tud_task; "enum"erating; or
                \* "conf"igured by the host, waiting for tud_task
  ep,           \* the report that waits in the endpoint, if any
  host,         \* the keys that are down, as the host sees it
  sent          \* the last report given to the stack

usbvars == << mounted, suspended, busy, done, bus, ep, host, sent >>

(* tud_hid_ready. *)
MountedReady == mounted /\ ~suspended   \* mutant: the endpoint may be busy
HidReady == mounted /\ ~suspended /\ ~busy

(* tud_hid_keyboard_report.  Between the reset of the bus and tud_task the *)
(* stack still looks ready, but its endpoints are gone: if the processor   *)
(* survives the call (DriverHalts), the report is lost.                    *)
Submit(r) ==
  /\ busy' = TRUE
  /\ ep' = IF bus = "up" THEN << r >> ELSE << >>
  /\ sent' = r
  /\ UNCHANGED << mounted, suspended, done, bus, host >>

(* tud_task handles everything that the interrupt handler has queued. *)
tud_task ==
  /\ mounted' = ((mounted /\ bus # "reset") \/ bus = "conf")
  /\ suspended' = (suspended /\ bus # "reset")
  /\ busy' = (busy /\ bus # "reset" /\ ~done)
  /\ done' = FALSE
  /\ bus' = CASE bus = "reset" -> "enum"
              [] bus = "conf"  -> "up"
              [] OTHER         -> bus
  /\ UNCHANGED << ep, host, sent >>

(* keyboard_update(modifiers, key_codes), past its loop and in it.  The    *)
(* wake-up of a suspended host (usb.c:72-76) has no effect: the            *)
(* configuration descriptor does not offer remote wake-up.                 *)
(* The interrupt of a bus reset clears the driver's table of endpoints     *)
(* (rp2040/dcd_rp2040.c:240), and a report that follows before tud_task    *)
(* goes through its null pointers (rp2040/rp2040_usb.c:107-135, 173-213):  *)
(* what they read and write decides whether the driver panics, faults, or  *)
(* comes back.                                                             *)
keyboard_update(r) == HidReady /\ Submit(r)
DriverHalts == HidReady /\ bus = "reset" /\ UNCHANGED usbvars
IdleWait == ~HidReady /\ UNCHANGED usbvars   \* mutant: no tud_task in the loop
KeyboardWait == ~HidReady /\ tud_task

-----------------------------------------------------------------------------
(* The host, external to the firmware. *)

HostPoll ==
  /\ bus = "up" /\ ~suspended /\ ep # << >>
  /\ host' = ep[1]
  /\ ep' = << >>
  /\ done' = TRUE
  /\ UNCHANGED << mounted, suspended, busy, bus, sent >>

HostSuspend ==
  /\ bus = "up" /\ ~suspended
  /\ suspended' = TRUE
  /\ UNCHANGED << mounted, busy, done, bus, ep, host, sent >>

HostResume ==
  /\ bus = "up" /\ suspended
  /\ suspended' = FALSE
  /\ UNCHANGED << mounted, busy, done, bus, ep, host, sent >>

(* A reset drops the report in the endpoint, and the host lets go of the   *)
(* keys of the device.                                                     *)
BusReset ==
  /\ bus # "reset"
  /\ bus' = "reset"
  /\ ep' = << >>
  /\ host' = Released
  /\ UNCHANGED << mounted, suspended, busy, done, sent >>

HostConfigure ==
  /\ bus = "enum"
  /\ bus' = "conf"
  /\ UNCHANGED << mounted, suspended, busy, done, ep, host, sent >>

UsbEnv == HostPoll \/ HostSuspend \/ HostResume \/ BusReset \/ HostConfigure

UsbInit ==
  /\ mounted = FALSE /\ suspended = FALSE
  /\ busy = FALSE /\ done = FALSE
  /\ bus = "enum"
  /\ ep = << >>
  /\ host = Released /\ sent = Released

-----------------------------------------------------------------------------
UsbTypeOK ==
  /\ mounted \in BOOLEAN /\ suspended \in BOOLEAN
  /\ busy \in BOOLEAN /\ done \in BOOLEAN
  /\ bus \in {"up", "reset", "enum", "conf"}
  /\ ep = << >> \/ (ep[1] \in Reports /\ Len(ep) = 1)
  /\ host \in Reports /\ sent \in Reports

(* The endpoint is claimed while a report or its completion is on the way, *)
(* the stack is configured whenever the bus is up, and otherwise the host  *)
(* sees no key.                                                            *)
EndpointClaimed ==
  /\ ep # << >> => busy /\ bus = "up" /\ ~done
  /\ done => busy
  /\ bus = "up" => mounted
  /\ bus \in {"enum", "conf"} => ~mounted /\ ~busy
  /\ bus # "up" => host = Released

(* The host holds down the keys of the last report given to the stack, or  *)
(* none after a reset, as soon as no report is left in the endpoint.       *)
HostFollows ==
  IF ep = << >> THEN host \in {Released, sent} ELSE ep[1] = sent
=============================================================================
