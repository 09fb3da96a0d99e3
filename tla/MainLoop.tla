------------------------------ MODULE MainLoop ------------------------------
(***************************************************************************)
(* main() of code/src/main.c: the loop that polls the rotary encoder, the  *)
(* mute button and the infrared receiver and turns them into the reports   *)
(* of one keyboard, together with the receiver (IrChannel) and the USB     *)
(* stack and host (UsbHid) that run beside it.                             *)
(*                                                                         *)
(* The three inputs share the one report: whichever writes last decides    *)
(* which key is down.  A step of the program is what it does up to its     *)
(* next sleep, USB call or access to a variable shared with an interrupt;  *)
(* the levels of the input pins are arbitrary at each read.                *)
(***************************************************************************)
EXTENDS IrChannel, Rc5, UsbHid

CONSTANTS
  ENC_SLEEP,    \* sleep after an edge of the encoder: 10 ms (main.c:156)
  MUTE_SLEEP,   \* sleep of the mute button: 100 ms (main.c:162)
  IR_SLEEP,     \* sleep between release and press: 1 ms (main.c:224)
  RC5_TIMEOUT,  \* silence that releases an infrared key: 100 ms (main.c:178)
  CLOCK_MOD     \* time_us_32 wraps around

ASSUME MainAssumption ==
  /\ ENC_SLEEP \in Nat /\ MUTE_SLEEP \in Nat /\ IR_SLEEP \in Nat
  /\ RC5_TIMEOUT \in Nat /\ CLOCK_MOD \in Nat
  /\ RC5_TIMEOUT + 1 < CLOCK_MOD
  /\ Released = NoKey
  /\ {"VOLUME_UP", "VOLUME_DOWN", "MUTE"} \subseteq Reports
  /\ \A f \in Frames : KeyOf(rc5_decode(f)) \in Reports

VARIABLES
  pc,           \* what main() does next
  wait,         \* ticks left of the sleep it is in
  last_state, new_state, clear, rc5_data, rc5_new, key,  \* its variables
  since,        \* time_us_32() - rc5_last
  cdc           \* the line "reset" waits in the receive buffer of the stack

program  == << pc, last_state, new_state, clear, rc5_data, rc5_new, key >>
time     == << wait, since >>
mainvars == << program, time, cdc, irvars, usbvars >>

(* Go to l, leaving alone what is not named in the action. *)
Goto(l) == pc' = l

Sleep(l, ticks) == pc' = l /\ wait' = ticks

-----------------------------------------------------------------------------
(* The rotary encoder (lines 145-158).                                     *)

ReadEncoder(level) ==
  /\ pc = "top"
  /\ new_state' = level
  /\ IF level = last_state THEN Goto("mute") /\ UNCHANGED wait
     ELSE IF level = 1 THEN Goto("enc_dir") /\ UNCHANGED wait
     ELSE Sleep("enc_sleep", ENC_SLEEP)
  /\ UNCHANGED << last_state, clear, rc5_data, rc5_new, key, since, cdc, irvars, usbvars >>

(* Line 149: the level of the other phase gives the direction. *)
ReadDirection(level) ==
  /\ pc = "enc_dir"
  /\ key' = IF level # new_state THEN "VOLUME_DOWN" ELSE "VOLUME_UP"
  /\ Goto("enc_press")
  /\ UNCHANGED << last_state, new_state, clear, rc5_data, rc5_new, time, cdc, irvars, usbvars >>

EncoderPress ==
  /\ pc = "enc_press"
  /\ keyboard_update(key)
  /\ Sleep("enc_sleep", ENC_SLEEP)
  /\ UNCHANGED << last_state, new_state, clear, rc5_data, rc5_new, key, since, cdc, irvars >>

(* Mutant: no sleep. *)
EncoderNoSleep ==
  /\ pc = "enc_sleep"
  /\ Goto("enc_release")
  /\ UNCHANGED << last_state, new_state, clear, rc5_data, rc5_new, key, time, cdc,
                  irvars, usbvars >>

EncoderWake ==
  /\ pc = "enc_sleep" /\ wait = 0
  /\ Goto("enc_release")
  /\ UNCHANGED << last_state, new_state, clear, rc5_data, rc5_new, key, time, cdc,
                  irvars, usbvars >>

EncoderRelease ==
  /\ pc = "enc_release"
  /\ keyboard_update(NoKey)
  /\ Goto("mute")
  /\ UNCHANGED << last_state, new_state, clear, rc5_data, rc5_new, key, time, cdc, irvars >>

(* The mute button (lines 160-167); the pin is low while it is held.       *)

ReadMute(level) ==
  /\ pc = "mute"
  /\ clear' = (clear /\ level = 0)
  /\ Goto(IF level = 0 THEN "mute_press" ELSE IF clear THEN "mute_release" ELSE "ir")
  /\ UNCHANGED << last_state, new_state, rc5_data, rc5_new, key, time, cdc, irvars, usbvars >>

MutePress ==
  /\ pc = "mute_press"
  /\ keyboard_update("MUTE")
  /\ Sleep("mute_sleep", MUTE_SLEEP)
  /\ UNCHANGED << last_state, new_state, clear, rc5_data, rc5_new, key, since, cdc, irvars >>

(* Mutant: clear is not set. *)
MuteForgotten ==
  /\ pc = "mute_sleep" /\ wait = 0
  /\ Goto("ir")
  /\ UNCHANGED << last_state, new_state, clear, rc5_data, rc5_new, key, time, cdc,
                  irvars, usbvars >>

MuteWake ==
  /\ pc = "mute_sleep" /\ wait = 0
  /\ clear' = TRUE
  /\ Goto("ir")
  /\ UNCHANGED << last_state, new_state, rc5_data, rc5_new, key, time, cdc, irvars, usbvars >>

MuteRelease ==
  /\ pc = "mute_release"
  /\ keyboard_update(NoKey)
  /\ Goto("ir")
  /\ UNCHANGED << last_state, new_state, clear, rc5_data, rc5_new, key, time, cdc, irvars >>

-----------------------------------------------------------------------------
(* Polling the infrared receiver (lines 169-192).                          *)

(* Lines 185-190. *)
NewData(d) ==
  /\ rc5_data' = d
  /\ rc5_new' = (rc5_new \/ d # rc5_data)

PollActive ==
  /\ pc = "ir"
  /\ IF active THEN Goto("send") /\ UNCHANGED irvars
               ELSE Goto("ir_bits") /\ IrLook
  /\ UNCHANGED << last_state, new_state, clear, rc5_data, rc5_new, key, time, cdc, usbvars >>

(* Mutants of the tests below: a word that is too long passes, the time-out *)
(* is tested first, its unit is wrong, it is late.                         *)
AtLeastFrame == value_bits >= FRAME_BITS
FrameInTime  == value_bits = FRAME_BITS /\ since <= RC5_TIMEOUT
NeverSilent  == since > CLOCK_MOD
LateSilence  == since > RC5_TIMEOUT + 8

(* Lines 173 and 178. *)
WholeFrame == value_bits = FRAME_BITS
Silent     == since > RC5_TIMEOUT

(* Lines 173-175, 178-183: a frame, or silence for too long.  The bits are *)
(* tested first.                                                           *)
PollBits ==
  /\ pc = "ir_bits"
  /\ \/ /\ WholeFrame
        /\ since' = 0
        /\ Goto("ir_value")
        /\ UNCHANGED << rc5_data, rc5_new >>
     \/ /\ ~WholeFrame /\ Silent
        /\ since' = 0
        /\ NewData(NoData)
        /\ Goto("ir_clear")
     \/ /\ ~WholeFrame /\ ~Silent
        /\ Goto("ir_clear")
        /\ UNCHANGED << since, rc5_data, rc5_new >>
  /\ UNCHANGED << last_state, new_state, clear, key, wait, cdc, irvars, usbvars >>

(* Line 176. *)
PollValue ==
  /\ pc = "ir_value"
  /\ NewData(rc5_decode(value))
  /\ Goto("ir_clear")
  /\ UNCHANGED << last_state, new_state, clear, key, time, cdc, irvars, usbvars >>

(* Line 191. *)
PollClear ==
  /\ pc = "ir_clear"
  /\ IrClear
  /\ Goto("send")
  /\ UNCHANGED << last_state, new_state, clear, rc5_data, rc5_new, key, time, cdc, usbvars >>

-----------------------------------------------------------------------------
(* Sending the infrared key (lines 194-228).                               *)

(* Mutant: no release before a press. *)
ChooseAndSend ==
  /\ pc = "send"
  /\ IF rc5_new
       THEN /\ key' = KeyOf(rc5_data)
            /\ Goto("ir_send")
       ELSE Goto("bottom") /\ UNCHANGED key
  /\ UNCHANGED << last_state, new_state, clear, rc5_data, rc5_new, time, cdc, irvars, usbvars >>

ChooseKey ==
  /\ pc = "send"
  /\ IF rc5_new
       THEN /\ key' = KeyOf(rc5_data)
            /\ Goto(IF key' # NoKey THEN "ir_release" ELSE "ir_send")
       ELSE Goto("bottom") /\ UNCHANGED key
  /\ UNCHANGED << last_state, new_state, clear, rc5_data, rc5_new, time, cdc, irvars, usbvars >>

IrRelease ==
  /\ pc = "ir_release"
  /\ keyboard_update(NoKey)
  /\ Sleep("ir_sleep", IR_SLEEP)
  /\ UNCHANGED << last_state, new_state, clear, rc5_data, rc5_new, key, since, cdc, irvars >>

IrWake ==
  /\ pc = "ir_sleep" /\ wait = 0
  /\ Goto("ir_send")
  /\ UNCHANGED << last_state, new_state, clear, rc5_data, rc5_new, key, time, cdc,
                  irvars, usbvars >>

IrSend ==
  /\ pc = "ir_send"
  /\ keyboard_update(key)
  /\ rc5_new' = FALSE
  /\ Goto("bottom")
  /\ UNCHANGED << last_state, new_state, clear, rc5_data, key, time, cdc, irvars >>

-----------------------------------------------------------------------------
(* Lines 230-232: usb_task handles the bus, then a line from the host.  A  *)
(* reset of the bus empties the receive buffer; "reset" enters the boot    *)
(* ROM and does not come back (usb.c:18-27, 57-59).  A bus reset between   *)
(* tud_task and the read of the line is taken to come after both.          *)
LoopBottom ==
  /\ pc = "bottom"
  /\ last_state' = new_state
  /\ tud_task
  /\ Goto(IF cdc /\ bus # "reset" THEN "bootrom" ELSE "top")
  /\ cdc' = FALSE
  /\ UNCHANGED << new_state, clear, rc5_data, rc5_new, key, time, irvars >>

(* The loop inside every keyboard_update (usb.c:79-82). *)
UpdatePcs == {"enc_press", "enc_release", "mute_press", "mute_release",
              "ir_release", "ir_send"}

AwaitHost ==
  /\ pc \in UpdatePcs
  /\ KeyboardWait
  /\ cdc' = (cdc /\ bus # "reset")
  /\ UNCHANGED << program, time, irvars >>

(* The driver does not survive a report after a bus reset.  Interrupts are *)
(* dead from then on, the one of the USB controller among them.            *)
Fault ==
  /\ pc \in UpdatePcs
  /\ DriverHalts
  /\ Goto("halted")
  /\ UNCHANGED << last_state, new_state, clear, rc5_data, rc5_new, key, time, cdc, irvars >>

(* One read of an input pin, at whatever level it has. *)
ReadPin == \E level \in {0, 1} :
             ReadEncoder(level) \/ ReadDirection(level) \/ ReadMute(level)

Compute ==
  \/ EncoderPress \/ EncoderWake \/ EncoderRelease
  \/ MutePress \/ MuteWake \/ MuteRelease
  \/ PollActive \/ PollBits \/ PollValue \/ PollClear
  \/ ChooseKey \/ IrRelease \/ IrWake \/ IrSend
  \/ LoopBottom \/ AwaitHost \/ Fault

-----------------------------------------------------------------------------
(* What goes on beside the program. *)

(* Mutant: a clock that does not wrap around. *)
TickOn ==
  /\ wait' = IF wait = 0 THEN 0 ELSE wait - 1
  /\ since' = since + 1
  /\ UNCHANGED << program, cdc, irvars, usbvars >>

Tick ==
  /\ wait' = IF wait = 0 THEN 0 ELSE wait - 1
  /\ since' = (since + 1) % CLOCK_MOD
  /\ UNCHANGED << program, cdc, irvars, usbvars >>

Receive == (IrBegin \/ IrFinish) /\ UNCHANGED << program, time, cdc, usbvars >>

Host == UsbEnv /\ UNCHANGED << program, time, cdc, irvars >>

(* The host writes the line "reset" (code/build.sh:18). *)
HostWrites ==
  /\ bus = "up" /\ ~suspended
  /\ cdc' = TRUE
  /\ UNCHANGED << program, time, irvars, usbvars >>

MainInit ==
  /\ pc = "top" /\ wait = 0 /\ since = 0
  /\ last_state \in {0, 1} /\ new_state = last_state
  /\ clear = FALSE /\ rc5_data = NoData /\ rc5_new = FALSE /\ key = NoKey
  /\ cdc = FALSE
  /\ IrInit /\ UsbInit

Running == ReadPin \/ Compute \/ Tick \/ Receive \/ Host \/ HostWrites

(* In the boot ROM the program is gone, and nothing wakes a halted one. *)
Alive == pc \notin {"bootrom", "halted"}
Ended == ~Alive /\ UNCHANGED mainvars

MainNext == (Alive /\ Running) \/ Ended

MainSpec == MainInit /\ [][MainNext]_mainvars

-----------------------------------------------------------------------------
Decodings == { rc5_decode(v) : v \in Frames \cup { << >> } } \cup { NoData }

TypeOK ==
  /\ pc \in UpdatePcs \cup { "top", "enc_dir", "enc_sleep", "mute", "mute_sleep",
                             "ir", "ir_bits", "ir_value", "ir_clear", "send",
                             "ir_sleep", "bottom", "bootrom", "halted" }
  /\ wait \in Nat /\ since \in 0 .. CLOCK_MOD - 1
  /\ last_state \in {0, 1} /\ new_state \in {0, 1}
  /\ clear \in BOOLEAN /\ rc5_new \in BOOLEAN /\ cdc \in BOOLEAN
  /\ key \in Reports
  /\ active \in BOOLEAN /\ polling \in BOOLEAN
  /\ value \in Words /\ value_bits \in BitCounts
  /\ UsbTypeOK

(* A key comes from the remote control only if a button that stands for it *)
(* was pressed: what main() holds is a frame that was sent, silence, or    *)
(* the empty word of a read that a new reception cut in two, which stands  *)
(* for no key (main.c:173-190).                                            *)
NoPhantomKey == rc5_data \in Decodings

(* The key that the last report holds down has an owner that will let go   *)
(* of it: the encoder or the mute button on its way to the release, the    *)
(* mute button's clear flag, or the infrared data (main.c:145-228).  No    *)
(* interleaving of the three inputs leaves a key down that none of them    *)
(* remembers, unless the program has halted in a reset of the bus.         *)
Owned ==
  \/ pc \in {"enc_sleep", "enc_release", "mute_sleep", "mute_release"}
  \/ clear
  \/ rc5_new
  \/ KeyOf(rc5_data) = sent

NoOrphanKey == sent # NoKey /\ pc # "halted" => Owned

(* So it is for the host: with no report on its way, a key that the host   *)
(* sees down is that of the last report, and has an owner.                 *)
HostKeyOwned ==
  ep = << >> /\ host # Released => host = sent /\ Owned

(* "Release the key before making a new press" (main.c:221): when the      *)
(* infrared press goes out, the release before it has reached the host, or *)
(* a reset has let go of the key.                                          *)
IrPressFindsHostReleased ==
  pc = "ir_send" /\ key # NoKey /\ HidReady => host = Released

(* The reports of main() reach the host in order, none overwritten in the  *)
(* endpoint by the next, and one that a reset of the bus takes away is     *)
(* lost only when the host has let go of everything (usb.c:70-85).         *)
Pipe == INSTANCE KeyboardPipe WITH way <- ep
ImplementsPipe == Pipe!PipeSpec

-----------------------------------------------------------------------------
(* The inductive invariant behind the safety properties, in parts.         *)

UsbInv == UsbTypeOK /\ EndpointClaimed /\ HostFollows

(* main() is polling where IrChannel says so, and decodes a frame or, when *)
(* a reception has begun since it looked at the bit count, nothing.        *)
IrInv ==
  /\ polling <=> pc \in {"ir_bits", "ir_value", "ir_clear"}
  /\ value_bits = FRAME_BITS => value \in Frames
  /\ pc = "ir_value" => value \in Frames \cup { << >> }

(* On its way out the infrared key is still that of the data, and the      *)
(* release goes before it.                                                 *)
KeyInv ==
  /\ pc \in {"ir_release", "ir_sleep", "ir_send"} => rc5_new /\ key = KeyOf(rc5_data)
  /\ pc \in {"ir_sleep", "ir_send"} /\ key # NoKey => sent = NoKey

(* The program halts only where the host has just let go of every key.     *)
HaltedInReset == pc = "halted" => bus = "reset"

MInv ==
  TypeOK /\ UsbInv /\ IrInv /\ KeyInv /\ NoPhantomKey /\ NoOrphanKey /\ HaltedInReset

-----------------------------------------------------------------------------
(* What is assumed of the scheduling: the processor runs, the receiver    *)
(* times out (IrReceiver), and the host polls the keyboard, configures the *)
(* device after a reset and in the end resumes the bus.                    *)
Fairness ==
  /\ WF_mainvars(Alive /\ (ReadPin \/ Compute))
  /\ WF_mainvars(Alive /\ IrFinish /\ UNCHANGED << program, time, cdc, usbvars >>)
  /\ \A step \in {"poll", "resume", "configure"} :
       WF_mainvars(/\ Alive
                   /\ CASE step = "poll" -> HostPoll
                        [] step = "resume" -> HostResume
                        [] step = "configure" -> HostConfigure
                   /\ UNCHANGED << program, time, cdc, irvars >>)
=============================================================================
