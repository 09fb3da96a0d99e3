--------------------------- MODULE MainLoopProofs ---------------------------
(***************************************************************************)
(* Proofs that the main loop leaves no key without an owner, whatever the  *)
(* remote control sends, for every interleaving with the receiver, the     *)
(* bus and the host, and for all durations; and that with the durations of *)
(* TimingAssumption the two users of MCTimed get the keys that they mean.  *)
(***************************************************************************)
EXTENDS MCTimed, TLAPS

(* The reports on their way to the host. *)

LEMMA UpdateUsbInv ==
  ASSUME UsbInv, NEW r \in Reports, keyboard_update(r)
  PROVE  UsbInv'
  <1> USE DEF keyboard_update, Submit, HidReady
  <1>1. ep = << >> /\ ~done /\ bus \in {"up", "reset"}
    BY DEF UsbInv, UsbTypeOK, EndpointClaimed
  <1>2. ep' = << r >> \/ ep' = << >>
    OBVIOUS
  <1>3. UsbTypeOK'
    BY <1>2 DEF UsbInv, UsbTypeOK
  <1>4. EndpointClaimed'
    BY <1>1 DEF UsbInv, EndpointClaimed
  <1>5. HostFollows'
    <2>1. CASE bus = "up"
      BY <2>1 DEF HostFollows
    <2>2. CASE bus = "reset"
      BY <1>1, <2>2 DEF UsbInv, HostFollows, EndpointClaimed
    <2> QED BY <1>1, <2>1, <2>2
  <1> QED BY <1>3, <1>4, <1>5 DEF UsbInv

LEMMA TaskUsbInv == ASSUME UsbInv, tud_task PROVE UsbInv'
  <1> USE DEF tud_task
  <1>1. UsbTypeOK'
    BY DEF UsbInv, UsbTypeOK
  <1>2. EndpointClaimed'
    <2>1. CASE bus = "up"
      BY <2>1 DEF UsbInv, UsbTypeOK, EndpointClaimed
    <2>2. CASE bus = "reset"
      BY <2>2 DEF UsbInv, UsbTypeOK, EndpointClaimed
    <2>3. CASE bus = "enum"
      BY <2>3 DEF UsbInv, UsbTypeOK, EndpointClaimed
    <2>4. CASE bus = "conf"
      BY <2>4 DEF UsbInv, UsbTypeOK, EndpointClaimed
    <2> QED BY <2>1, <2>2, <2>3, <2>4 DEF UsbInv, UsbTypeOK
  <1>3. HostFollows'
    BY DEF UsbInv, HostFollows
  <1> QED BY <1>1, <1>2, <1>3 DEF UsbInv

LEMMA EnvUsbInv == ASSUME UsbInv, UsbEnv PROVE UsbInv'
  <1> USE DEF UsbInv, UsbTypeOK, EndpointClaimed, HostFollows
  <1>1. CASE HostPoll
    BY <1>1 DEF HostPoll
  <1>2. CASE HostSuspend
    BY <1>2 DEF HostSuspend
  <1>3. CASE HostResume
    BY <1>3 DEF HostResume
  <1>4. CASE BusReset
    BY <1>4, UsbAssumption DEF BusReset
  <1>5. CASE HostConfigure
    BY <1>5 DEF HostConfigure
  <1> QED BY <1>1, <1>2, <1>3, <1>4, <1>5 DEF UsbEnv

LEMMA StutterUsbInv == ASSUME UsbInv, UNCHANGED usbvars PROVE UsbInv'
  BY DEF UsbInv, UsbTypeOK, EndpointClaimed, HostFollows, usbvars

(* What main() decodes has a key that can be reported; no data and the     *)
(* empty word have none.                                                   *)
LEMMA EmptyHasNoKey == KeyOf(NoData) = NoKey /\ KeyOf(rc5_decode(<< >>)) = NoKey
  BY DEF KeyOf, NoData, rc5_decode, Field5, BitOf

LEMMA DecodedKey == ASSUME NoPhantomKey PROVE KeyOf(rc5_data) \in Reports
  BY EmptyHasNoKey, MainAssumption, UsbAssumption DEF NoPhantomKey, Decodings

-----------------------------------------------------------------------------
(* What each action leaves to prove of the invariant.  The conjuncts about *)
(* the USB stack come from the lemmas above.                               *)

USE DEF program, time, irvars, Goto, Sleep

LEMMA UsbTyped == ASSUME UsbInv PROVE UsbTypeOK
  BY DEF UsbInv

(* The encoder and the mute button read their pins. *)
LEMMA ReadPinMInv == ASSUME MInv, ReadPin PROVE MInv'
  <1> USE MainAssumption
  <1>1. PICK pin \in {0, 1} : ReadEncoder(pin) \/ ReadDirection(pin) \/ ReadMute(pin)
    BY DEF ReadPin
  <1>2. UsbInv' /\ UNCHANGED << usbvars, irvars, rc5_data, rc5_new >>
    BY <1>1, StutterUsbInv DEF ReadEncoder, ReadDirection, ReadMute, MInv
  <1>3. CASE ReadEncoder(pin)
    BY <1>2, <1>3 DEF ReadEncoder, MInv, TypeOK, UpdatePcs, UsbInv, IrInv, KeyInv,
       NoPhantomKey, Decodings, NoOrphanKey, Owned, HaltedInReset, usbvars
  <1>4. CASE ReadDirection(pin)
    BY <1>2, <1>4 DEF ReadDirection, MInv, TypeOK, UpdatePcs, UsbInv, IrInv, KeyInv,
       NoPhantomKey, Decodings, NoOrphanKey, Owned, HaltedInReset, usbvars
  <1>5. CASE ReadMute(pin)
    BY <1>2, <1>5 DEF ReadMute, MInv, TypeOK, UpdatePcs, UsbInv, IrInv, KeyInv,
       NoPhantomKey, Decodings, NoOrphanKey, Owned, HaltedInReset, usbvars
  <1> QED BY <1>1, <1>3, <1>4, <1>5

(* Each report is one of the reports, and leaves UsbInv alone. *)

LEMMA EncoderPressMInv == ASSUME MInv, EncoderPress PROVE MInv'
  <1> USE MainAssumption, UsbAssumption
  <1>1. UsbInv' /\ sent' = key
    BY UpdateUsbInv, DecodedKey DEF EncoderPress, keyboard_update, Submit, MInv, TypeOK
  <1> QED
    BY <1>1 DEF EncoderPress, MInv, TypeOK, UpdatePcs, UsbInv, IrInv, KeyInv,
       NoPhantomKey, Decodings, NoOrphanKey, Owned, HaltedInReset

LEMMA EncoderReleaseMInv == ASSUME MInv, EncoderRelease PROVE MInv'
  <1> USE MainAssumption, UsbAssumption
  <1>1. UsbInv' /\ sent' = NoKey
    BY UpdateUsbInv, DecodedKey DEF EncoderRelease, keyboard_update, Submit, MInv, TypeOK
  <1> QED
    BY <1>1 DEF EncoderRelease, MInv, TypeOK, UpdatePcs, UsbInv, IrInv, KeyInv,
       NoPhantomKey, Decodings, NoOrphanKey, Owned, HaltedInReset

LEMMA MutePressMInv == ASSUME MInv, MutePress PROVE MInv'
  <1> USE MainAssumption, UsbAssumption
  <1>1. UsbInv' /\ sent' = "MUTE"
    BY UpdateUsbInv, DecodedKey DEF MutePress, keyboard_update, Submit, MInv, TypeOK
  <1> QED
    BY <1>1 DEF MutePress, MInv, TypeOK, UpdatePcs, UsbInv, IrInv, KeyInv,
       NoPhantomKey, Decodings, NoOrphanKey, Owned, HaltedInReset

LEMMA MuteReleaseMInv == ASSUME MInv, MuteRelease PROVE MInv'
  <1> USE MainAssumption, UsbAssumption
  <1>1. UsbInv' /\ sent' = NoKey
    BY UpdateUsbInv, DecodedKey DEF MuteRelease, keyboard_update, Submit, MInv, TypeOK
  <1> QED
    BY <1>1 DEF MuteRelease, MInv, TypeOK, UpdatePcs, UsbInv, IrInv, KeyInv,
       NoPhantomKey, Decodings, NoOrphanKey, Owned, HaltedInReset

LEMMA IrReleaseMInv == ASSUME MInv, IrRelease PROVE MInv'
  <1> USE MainAssumption, UsbAssumption
  <1>1. UsbInv' /\ sent' = NoKey
    BY UpdateUsbInv, DecodedKey DEF IrRelease, keyboard_update, Submit, MInv, TypeOK
  <1> QED
    BY <1>1 DEF IrRelease, MInv, TypeOK, UpdatePcs, UsbInv, IrInv, KeyInv,
       NoPhantomKey, Decodings, NoOrphanKey, Owned, HaltedInReset

LEMMA IrSendMInv == ASSUME MInv, IrSend PROVE MInv'
  <1> USE MainAssumption, UsbAssumption
  <1>1. UsbInv' /\ sent' = key
    BY UpdateUsbInv, DecodedKey DEF IrSend, keyboard_update, Submit, MInv, TypeOK
  <1>2. TypeOK'
    BY <1>1 DEF IrSend, MInv, TypeOK, UpdatePcs, UsbInv
  <1>3. IrInv' /\ KeyInv'
    BY DEF IrSend, MInv, IrInv, KeyInv
  <1>4. NoPhantomKey'
    BY DEF IrSend, MInv, NoPhantomKey, Decodings
  <1>5. NoOrphanKey'
    BY <1>1 DEF IrSend, MInv, KeyInv, NoOrphanKey, Owned
  <1>6. HaltedInReset'
    BY DEF IrSend, HaltedInReset
  <1> QED BY <1>1, <1>2, <1>3, <1>4, <1>5, <1>6 DEF MInv

(* The ends of the sleeps. *)

LEMMA EncoderWakeMInv == ASSUME MInv, EncoderWake PROVE MInv'
  <1> USE MainAssumption, UsbAssumption, ChannelAssumption
  <1>1. UsbInv' /\ UNCHANGED usbvars
    BY StutterUsbInv DEF EncoderWake, MInv
  <1> QED
    BY <1>1 DEF EncoderWake, usbvars, MInv, TypeOK, UpdatePcs, UsbInv, IrInv, KeyInv,
       NoPhantomKey, Decodings, NoOrphanKey, Owned, HaltedInReset

LEMMA MuteWakeMInv == ASSUME MInv, MuteWake PROVE MInv'
  <1> USE MainAssumption, UsbAssumption, ChannelAssumption
  <1>1. UsbInv' /\ UNCHANGED usbvars
    BY StutterUsbInv DEF MuteWake, MInv
  <1> QED
    BY <1>1 DEF MuteWake, usbvars, MInv, TypeOK, UpdatePcs, UsbInv, IrInv, KeyInv,
       NoPhantomKey, Decodings, NoOrphanKey, Owned, HaltedInReset

LEMMA IrWakeMInv == ASSUME MInv, IrWake PROVE MInv'
  <1> USE MainAssumption, UsbAssumption, ChannelAssumption
  <1>1. UsbInv' /\ UNCHANGED usbvars
    BY StutterUsbInv DEF IrWake, MInv
  <1> QED
    BY <1>1 DEF IrWake, usbvars, MInv, TypeOK, UpdatePcs, UsbInv, IrInv, KeyInv,
       NoPhantomKey, Decodings, NoOrphanKey, Owned, HaltedInReset

(* Polling the receiver. *)

LEMMA PollActiveMInv == ASSUME MInv, PollActive PROVE MInv'
  <1> USE MainAssumption, UsbAssumption, ChannelAssumption
  <1>1. UsbInv' /\ UNCHANGED usbvars
    BY StutterUsbInv DEF PollActive, MInv
  <1>2. CASE active
    BY <1>1, <1>2 DEF PollActive, usbvars, MInv, TypeOK, UpdatePcs, UsbInv, IrInv, KeyInv,
       NoPhantomKey, Decodings, NoOrphanKey, Owned, HaltedInReset
  <1>3. CASE ~active
    BY <1>1, <1>3 DEF PollActive, usbvars, IrLook, MInv, TypeOK, UpdatePcs, UsbInv, IrInv,
       KeyInv, NoPhantomKey, Decodings, NoOrphanKey, Owned, HaltedInReset
  <1> QED BY <1>2, <1>3

LEMMA PollBitsMInv == ASSUME MInv, PollBits PROVE MInv'
  <1> USE MainAssumption, UsbAssumption, ChannelAssumption
  <1>1. UsbInv' /\ UNCHANGED usbvars
    BY StutterUsbInv DEF PollBits, MInv
  <1>2. TypeOK'
    <2>1. since' \in 0 .. CLOCK_MOD - 1
      BY DEF PollBits, MInv, TypeOK
    <2>2. rc5_new' \in BOOLEAN
      BY DEF PollBits, WholeFrame, NewData, MInv, TypeOK
    <2> QED BY <1>1, <2>1, <2>2 DEF PollBits, MInv, TypeOK, UpdatePcs, UsbInv, usbvars
  <1>3. IrInv' /\ KeyInv'
    BY DEF PollBits, WholeFrame, NewData, MInv, IrInv, KeyInv
  <1>4. NoPhantomKey'
    BY DEF PollBits, WholeFrame, NewData, MInv, NoPhantomKey, Decodings
  <1>5. NoOrphanKey'
    BY <1>1 DEF PollBits, WholeFrame, NewData, MInv, NoOrphanKey, Owned, usbvars, UpdatePcs, TypeOK
  <1>6. HaltedInReset'
    BY DEF PollBits, HaltedInReset
  <1> QED BY <1>1, <1>2, <1>3, <1>4, <1>5, <1>6 DEF MInv

LEMMA PollValueMInv == ASSUME MInv, PollValue PROVE MInv'
  <1> USE MainAssumption, UsbAssumption, ChannelAssumption
  <1>1. UsbInv' /\ UNCHANGED usbvars
    BY StutterUsbInv DEF PollValue, MInv
  <1>2. TypeOK'
    BY <1>1 DEF PollValue, NewData, MInv, TypeOK, UpdatePcs, UsbInv, usbvars
  <1>3. IrInv' /\ KeyInv'
    BY DEF PollValue, NewData, MInv, IrInv, KeyInv
  <1>4. NoPhantomKey'
    BY DEF PollValue, NewData, MInv, IrInv, NoPhantomKey, Decodings
  <1>5. NoOrphanKey'
    BY <1>1 DEF PollValue, NewData, MInv, NoOrphanKey, Owned, usbvars, UpdatePcs, TypeOK
  <1>6. HaltedInReset'
    BY DEF PollValue, HaltedInReset
  <1> QED BY <1>1, <1>2, <1>3, <1>4, <1>5, <1>6 DEF MInv

LEMMA PollClearMInv == ASSUME MInv, PollClear PROVE MInv'
  <1> USE MainAssumption, UsbAssumption, ChannelAssumption
  <1>1. UsbInv' /\ UNCHANGED usbvars
    BY StutterUsbInv DEF PollClear, MInv
  <1>2. TypeOK'
    BY <1>1 DEF PollClear, IrClear, MInv, TypeOK, UpdatePcs, UsbInv, usbvars
  <1>3. IrInv'
    <2>1. polling' = FALSE /\ pc' = "send" /\ value_bits' = 0
      BY DEF PollClear, IrClear
    <2> QED BY <2>1 DEF IrInv
  <1>4. KeyInv' /\ NoPhantomKey' /\ NoOrphanKey'
    BY <1>1 DEF PollClear, MInv, KeyInv, NoPhantomKey, Decodings, NoOrphanKey, Owned, usbvars
  <1>5. HaltedInReset'
    BY DEF PollClear, HaltedInReset
  <1> QED BY <1>1, <1>2, <1>3, <1>4, <1>5 DEF MInv

LEMMA ChooseKeyMInv == ASSUME MInv, ChooseKey PROVE MInv'
  <1> USE MainAssumption, UsbAssumption, ChannelAssumption
  <1>1. UsbInv' /\ UNCHANGED usbvars
    BY StutterUsbInv DEF ChooseKey, MInv
  <1>2. KeyOf(rc5_data) \in Reports
    BY DecodedKey DEF MInv
  <1>3. TypeOK'
    BY <1>1, <1>2 DEF ChooseKey, MInv, TypeOK, UpdatePcs, UsbInv, usbvars
  <1>4. IrInv' /\ KeyInv'
    BY DEF ChooseKey, MInv, IrInv, KeyInv
  <1>5. NoPhantomKey' /\ NoOrphanKey'
    BY <1>1 DEF ChooseKey, MInv, NoPhantomKey, Decodings, NoOrphanKey, Owned, usbvars
  <1>6. HaltedInReset'
    BY DEF ChooseKey, HaltedInReset
  <1> QED BY <1>1, <1>3, <1>4, <1>5, <1>6 DEF MInv

-----------------------------------------------------------------------------
(* The bottom of the loop, the wait for the host, and everything outside. *)

LEMMA LoopBottomMInv == ASSUME MInv, LoopBottom PROVE MInv'
  <1>1. UsbInv' /\ sent' = sent
    BY TaskUsbInv DEF LoopBottom, tud_task, MInv
  <1>2. TypeOK'
    BY <1>1 DEF LoopBottom, MInv, TypeOK, UpdatePcs, UsbInv
  <1>3. IrInv' /\ KeyInv' /\ NoPhantomKey' /\ NoOrphanKey'
    BY <1>1 DEF LoopBottom, MInv, IrInv, KeyInv, NoPhantomKey, Decodings,
       NoOrphanKey, Owned
  <1>4. HaltedInReset'
    BY DEF LoopBottom, HaltedInReset
  <1> QED BY <1>1, <1>2, <1>3, <1>4 DEF MInv

LEMMA AwaitHostMInv == ASSUME MInv, AwaitHost PROVE MInv'
  <1>1. UsbInv' /\ sent' = sent
    BY TaskUsbInv DEF AwaitHost, KeyboardWait, tud_task, MInv
  <1>2. TypeOK'
    BY <1>1 DEF AwaitHost, MInv, TypeOK, UsbInv
  <1>3. IrInv' /\ KeyInv' /\ NoPhantomKey' /\ NoOrphanKey'
    BY <1>1 DEF AwaitHost, MInv, IrInv, KeyInv, NoPhantomKey, Decodings,
       NoOrphanKey, Owned
  <1>4. HaltedInReset'
    BY DEF AwaitHost, UpdatePcs, HaltedInReset
  <1> QED BY <1>1, <1>2, <1>3, <1>4 DEF MInv

LEMMA FaultMInv == ASSUME MInv, Fault PROVE MInv'
  <1>1. UsbInv' /\ UNCHANGED usbvars
    BY StutterUsbInv DEF Fault, DriverHalts, MInv
  <1>2. TypeOK'
    BY <1>1 DEF Fault, MInv, TypeOK, UsbInv
  <1>3. IrInv' /\ KeyInv' /\ NoPhantomKey' /\ NoOrphanKey'
    BY DEF Fault, UpdatePcs, MInv, IrInv, KeyInv, NoPhantomKey, Decodings, NoOrphanKey
  <1>4. HaltedInReset'
    BY <1>1 DEF Fault, DriverHalts, HaltedInReset, usbvars
  <1> QED BY <1>1, <1>2, <1>3, <1>4 DEF MInv

LEMMA TickMInv == ASSUME MInv, Tick PROVE MInv'
  <1> USE MainAssumption
  <1>1. UsbInv'
    BY StutterUsbInv DEF Tick, MInv
  <1>2. wait' \in Nat
    BY DEF Tick, MInv, TypeOK
  <1>3. since' \in 0 .. CLOCK_MOD - 1
    BY DEF Tick, MInv, TypeOK
  <1>4. TypeOK'
    BY <1>1, <1>2, <1>3 DEF Tick, MInv, TypeOK, UsbInv
  <1>5. IrInv' /\ KeyInv' /\ NoPhantomKey' /\ NoOrphanKey'
    BY DEF Tick, MInv, IrInv, KeyInv, NoPhantomKey, Decodings, NoOrphanKey, Owned, usbvars
  <1>6. HaltedInReset'
    BY DEF Tick, MInv, HaltedInReset, usbvars
  <1> QED BY <1>1, <1>4, <1>5, <1>6 DEF MInv

(* A reception ends only outside of a poll, and a whole frame is one. *)
LEMMA ReceiveMInv == ASSUME MInv, Receive PROVE MInv'
  <1> USE ChannelAssumption
  <1>1. UsbInv'
    BY StutterUsbInv DEF Receive, MInv
  <1>2. TypeOK'
    BY <1>1 DEF Receive, IrBegin, IrFinish, MInv, TypeOK, UsbInv
  <1>3. IrInv'
    BY DEF Receive, IrBegin, IrFinish, MInv, IrInv
  <1>4. KeyInv' /\ NoPhantomKey' /\ NoOrphanKey'
    BY DEF Receive, MInv, KeyInv, NoPhantomKey, Decodings, NoOrphanKey, Owned, usbvars
  <1>5. HaltedInReset'
    BY DEF Receive, MInv, HaltedInReset, usbvars
  <1> QED BY <1>1, <1>2, <1>3, <1>4, <1>5 DEF MInv

LEMMA HostMInv == ASSUME MInv, pc # "halted", Host \/ HostWrites PROVE MInv'
  <1>1. UsbInv' /\ sent' = sent
    BY EnvUsbInv, StutterUsbInv DEF Host, HostWrites, UsbEnv, HostPoll, HostSuspend,
       HostResume, BusReset, HostConfigure, MInv, usbvars
  <1>2. TypeOK'
    BY <1>1 DEF Host, HostWrites, MInv, TypeOK, UsbInv
  <1>3. IrInv' /\ KeyInv' /\ NoPhantomKey' /\ NoOrphanKey'
    BY <1>1 DEF Host, HostWrites, MInv, IrInv, KeyInv, NoPhantomKey, Decodings,
       NoOrphanKey, Owned
  <1>4. HaltedInReset'
    BY DEF Host, HostWrites, HaltedInReset
  <1> QED BY <1>1, <1>2, <1>3, <1>4 DEF MInv

LEMMA StutterMInv == ASSUME MInv, UNCHANGED mainvars PROVE MInv'
  <1>1. UsbInv'
    BY StutterUsbInv DEF mainvars, MInv
  <1>2. TypeOK'
    BY <1>1 DEF mainvars, MInv, TypeOK, UsbInv
  <1>3. IrInv' /\ KeyInv' /\ NoPhantomKey' /\ NoOrphanKey'
    BY DEF mainvars, usbvars, MInv, IrInv, KeyInv, NoPhantomKey, Decodings,
       NoOrphanKey, Owned
  <1>4. HaltedInReset'
    BY DEF mainvars, usbvars, MInv, HaltedInReset
  <1> QED BY <1>1, <1>2, <1>3, <1>4 DEF MInv

LEMMA InitMInv == ASSUME MainInit PROVE MInv
  <1> USE MainAssumption, UsbAssumption, ChannelAssumption
  <1>1. UsbInv
    BY DEF MainInit, UsbInit, UsbInv, UsbTypeOK, EndpointClaimed, HostFollows
  <1>2. TypeOK
    <2>1. 0 \in 0 .. CLOCK_MOD - 1
      OBVIOUS
    <2> QED BY <1>1, <2>1 DEF MainInit, IrInit, TypeOK, UpdatePcs, UsbInv
  <1>3. KeyInv /\ NoPhantomKey /\ NoOrphanKey /\ HaltedInReset
    BY DEF MainInit, UsbInit, KeyInv, NoPhantomKey, Decodings, NoOrphanKey, Owned,
       HaltedInReset
  <1>4. IrInv
    <2>1. polling = FALSE /\ pc = "top" /\ value_bits = 0
      BY DEF MainInit, IrInit
    <2> QED BY <2>1 DEF IrInv
  <1> QED BY <1>1, <1>2, <1>3, <1>4 DEF MInv

-----------------------------------------------------------------------------
LEMMA NextMInv == ASSUME MInv, [MainNext]_mainvars PROVE MInv'
  <1>1. CASE Compute
    BY <1>1, EncoderPressMInv, EncoderWakeMInv, EncoderReleaseMInv, MutePressMInv,
       MuteWakeMInv, MuteReleaseMInv, PollActiveMInv, PollBitsMInv, PollValueMInv,
       PollClearMInv, ChooseKeyMInv, IrReleaseMInv, IrWakeMInv, IrSendMInv,
       LoopBottomMInv, AwaitHostMInv, FaultMInv
    DEF Compute
  <1> QED
    BY <1>1, ReadPinMInv, TickMInv, ReceiveMInv, HostMInv, StutterMInv
    DEF MainNext, Running, Alive, Ended

(* The invariant holds in every behaviour of the main loop. *)
THEOREM MInvHolds == MainSpec => []MInv
  <1>1. MainInit => MInv
    BY InitMInv
  <1>2. MInv /\ [MainNext]_mainvars => MInv'
    BY NextMInv
  <1> QED BY <1>1, <1>2, PTL DEF MainSpec

(* Every variable keeps its type. *)
THEOREM MainTypeCorrect == MainSpec => []TypeOK
  <1>1. MInv => TypeOK
    BY DEF MInv
  <1> QED BY <1>1, MInvHolds, PTL

(* A key that the host sees down is that of the last report and has an     *)
(* owner that will release it.                                             *)
THEOREM HostKeyOwnedCorrect == MainSpec => []HostKeyOwned
  <1>1. MInv => HostKeyOwned
    BY MainAssumption
    DEF MInv, UsbInv, EndpointClaimed, HostFollows, NoOrphanKey, HaltedInReset, HostKeyOwned
  <1> QED BY <1>1, MInvHolds, PTL

(* What main() takes for a button of the remote control was sent by it.    *)
THEOREM NoPhantomKeyCorrect == MainSpec => []NoPhantomKey
  <1>1. MInv => NoPhantomKey
    BY DEF MInv
  <1> QED BY <1>1, MInvHolds, PTL

(* The release before an infrared press has reached the host when the      *)
(* press goes out (main.c:221-226).                                        *)
THEOREM IrPressCorrect == MainSpec => []IrPressFindsHostReleased
  <1>1. MInv => IrPressFindsHostReleased
    BY MainAssumption
    DEF MInv, UsbInv, KeyInv, EndpointClaimed, HostFollows, HidReady,
        IrPressFindsHostReleased
  <1> QED BY <1>1, MInvHolds, PTL

-----------------------------------------------------------------------------
(* The keyboard implements its abstract specification. *)

LEMMA UpdatePipe ==
  ASSUME UsbInv, NEW r \in Reports, keyboard_update(r)
  PROVE  Pipe!Give
  BY DEF UsbInv, EndpointClaimed, keyboard_update, HidReady, Submit, Pipe!Give

LEMMA TaskPipe == ASSUME tud_task PROVE UNCHANGED << sent, ep, host >>
  BY DEF tud_task

LEMMA EnvPipe ==
  ASSUME UsbInv, UsbEnv
  PROVE  Pipe!Reach \/ Pipe!Reset \/ UNCHANGED << sent, ep, host >>
  BY DEF UsbEnv, HostPoll, HostSuspend, HostResume, BusReset, HostConfigure,
     Pipe!Reach, Pipe!Reset

(* The six calls of keyboard_update. *)
LEMMA ReportPipe ==
  ASSUME MInv,
         \/ EncoderPress \/ EncoderRelease \/ MutePress \/ MuteRelease
         \/ IrRelease \/ IrSend
  PROVE  Pipe!Give
  <1>1. PICK r \in {key, NoKey, "MUTE"} : keyboard_update(r)
    BY DEF EncoderPress, EncoderRelease, MutePress, MuteRelease, IrRelease, IrSend
  <1>2. r \in Reports
    BY MainAssumption, UsbAssumption DEF MInv, TypeOK
  <1> QED BY <1>1, <1>2, UpdatePipe DEF MInv

LEMMA StepPipe ==
  ASSUME MInv, [MainNext]_mainvars
  PROVE  [Pipe!PipeNext]_(Pipe!pipevars)
  <1>1. CASE UNCHANGED usbvars
    BY <1>1 DEF usbvars, Pipe!pipevars
  <1>2. CASE tud_task
    BY <1>2, TaskPipe DEF Pipe!pipevars
  <1>3. CASE UsbEnv
    BY <1>3, EnvPipe DEF MInv, Pipe!PipeNext, Pipe!pipevars
  <1>4. CASE \/ EncoderPress \/ EncoderRelease \/ MutePress \/ MuteRelease
             \/ IrRelease \/ IrSend
    BY <1>4, ReportPipe DEF Pipe!PipeNext
  <1>5. ReadPin => UNCHANGED usbvars
    BY DEF ReadPin, ReadEncoder, ReadDirection, ReadMute
  <1>6. Compute => \/ UNCHANGED usbvars \/ tud_task
                   \/ EncoderPress \/ EncoderRelease \/ MutePress \/ MuteRelease
                   \/ IrRelease \/ IrSend
    BY DEF Compute, EncoderWake, MuteWake, PollActive, PollBits, PollValue, PollClear,
       ChooseKey, IrWake, LoopBottom, AwaitHost, KeyboardWait, Fault, DriverHalts
  <1>7. Tick \/ Receive \/ Host \/ HostWrites => UNCHANGED usbvars \/ UsbEnv
    BY DEF Tick, Receive, Host, HostWrites
  <1> QED
    BY <1>1, <1>2, <1>3, <1>4, <1>5, <1>6, <1>7 DEF MainNext, Running, Ended, mainvars

(* Reports reach the host in order, whatever the bus does, and only a      *)
(* reset, after which no key is down, can lose one.                        *)
THEOREM PipeImplemented == MainSpec => ImplementsPipe
  <1>1. MainInit => Pipe!PipeInit
    BY DEF MainInit, UsbInit, Pipe!PipeInit
  <1>2. MInv /\ [MainNext]_mainvars => [Pipe!PipeNext]_(Pipe!pipevars)
    BY StepPipe
  <1> QED BY <1>1, <1>2, MInvHolds, PTL DEF MainSpec, ImplementsPipe, Pipe!PipeSpec

-----------------------------------------------------------------------------
(* The two users of MCTimed, in real time. *)

USE DEF pace, remote, encoder

(* How long the report in the endpoint may still stay there. *)
Slack == IF ep = << >> THEN 0 ELSE HOST_LAG - lag

(* The host leaves the bus alone, writes nothing, and polls in time; nobody*)
(* touches the mute button.                                                *)
Calm ==
  /\ mounted /\ ~suspended /\ bus = "up" /\ ~cdc /\ ~clear
  /\ busy => ep # << >> \/ done
  /\ lag \in 0 .. HOST_LAG
  /\ ep = << >> => lag = 0

(* Arithmetic: what one tick does to sums. *)
LEMMA SumTick ==
  ASSUME NEW a \in Nat, NEW a1 \in Nat, NEW b \in Nat, NEW b1 \in Nat, NEW c \in Nat,
         a1 <= a + 1, b1 + 1 <= b, a + b <= c
  PROVE  a1 + b1 <= c
  OBVIOUS

LEMMA SumLess ==
  ASSUME NEW a \in Nat, NEW a1 \in Nat, NEW b \in Nat, NEW b1 \in Nat,
         a1 <= a, b1 <= b, a1 + 1 <= a \/ b1 + 1 <= b
  PROVE  (a1 + b1) + 1 <= a + b
  OBVIOUS

LEMMA SumLater ==
  ASSUME NEW a \in Nat, NEW a1 \in Nat, NEW b \in Nat, NEW c \in Nat,
         a <= a1, a + b + 1 >= c
  PROVE  a1 + b + 1 >= c
  OBVIOUS

LEMMA SumKept ==
  ASSUME NEW a \in Nat, NEW a1 \in Nat, NEW b \in Nat, NEW b1 \in Nat, NEW c \in Nat,
         a1 = a + 1 \/ c <= a1, b1 + 1 = b, c <= a + b
  PROVE  c <= a1 + b1
  OBVIOUS

LEMMA NextIs ==
  ASSUME NEW a \in Nat, NEW b \in Nat, b + 1 = a PROVE b + 1 <= a
  OBVIOUS

LEMMA LagTyped == HOST_LAG \in Nat
  BY TimingAssumption

LEMMA SlackIs ==
  ASSUME Calm
  PROVE  /\ Slack \in Nat /\ Slack <= HOST_LAG
         /\ 0 < Slack => ep # << >> /\ lag < HOST_LAG
         /\ ep # << >> /\ lag < HOST_LAG => 0 < Slack
  BY LagTyped DEF Calm, Slack

LEMMA SlackSame == ASSUME UNCHANGED << ep, lag >> PROVE Slack' = Slack
  BY DEF Slack

(* Things that leave the report alone leave the calm alone. *)
LEMMA CalmSame ==
  ASSUME Calm, UNCHANGED << usbvars, lag >>, ~clear', ~cdc'
  PROVE  Calm'
  BY DEF Calm, usbvars

(* A report goes out when the endpoint is free. *)
LEMMA CalmUpdate ==
  ASSUME Calm, MInv, NEW r, keyboard_update(r), UNCHANGED << lag, clear, cdc >>
  PROVE  Calm' /\ Slack = 0 /\ Slack' = HOST_LAG
  <1>1. ep = << >> /\ lag = 0
    BY DEF Calm, MInv, UsbInv, EndpointClaimed, keyboard_update, HidReady
  <1>2. ep' = << r >> /\ lag' = 0 /\ UNCHANGED << mounted, suspended, bus, clear, cdc >>
    BY <1>1 DEF keyboard_update, Submit, Calm
  <1>3. << r >> # << >>
    OBVIOUS
  <1>4. Slack = 0 /\ Slack' = HOST_LAG
    BY <1>1, <1>2, <1>3, LagTyped DEF Slack
  <1>5. Calm'
    BY <1>2, <1>3, LagTyped DEF Calm
  <1> QED BY <1>4, <1>5

LEMMA CalmTask ==
  ASSUME Calm, tud_task, UNCHANGED << lag, clear >>, ~cdc'
  PROVE  Calm' /\ Slack' = Slack
  BY DEF Calm, tud_task, Slack

LEMMA CalmNoFault == ASSUME Calm PROVE ~Fault
  BY DEF Calm, Fault, DriverHalts

LEMMA CalmHost ==
  ASSUME Calm, PacedHost
  PROVE  Calm' /\ Slack' = 0
  BY LagTyped DEF Calm, PacedHost, HostPoll, Slack

LEMMA CalmTick ==
  ASSUME Calm, PacedTick, UNCHANGED << usbvars, cdc, clear >>
  PROVE  /\ Calm' /\ Slack' \in Nat /\ Slack' <= Slack
         /\ 0 < Slack => Slack' + 1 = Slack
  <1>1. Calm'
    BY LagTyped DEF Calm, PacedTick, usbvars
  <1>2. CASE ep = << >>
    BY <1>2, LagTyped DEF PacedTick, usbvars, Slack, Calm
  <1>3. CASE ep # << >>
    <2>1. lag' = IF lag < HOST_LAG THEN lag + 1 ELSE lag
      BY <1>3 DEF PacedTick
    <2>2. Slack = HOST_LAG - lag /\ Slack' = HOST_LAG - lag'
      BY <1>3 DEF Slack, usbvars
    <2> QED BY <1>1, <2>1, <2>2, LagTyped DEF Calm
  <1> QED BY <1>1, <1>2, <1>3

(* The tick comes at rest, in a sleep, or while the host is waited for. *)
LEMMA TickWhen ==
  ASSUME Calm, MayTick
  PROVE  \/ pc = "top" /\ looped
         \/ pc \in {"enc_sleep", "mute_sleep", "ir_sleep"} /\ wait > 0
         \/ pc \in UpdatePcs /\ 0 < Slack
  BY SlackIs DEF MayTick, HidReady, Calm

(* MInv holds in real time, too. *)

LEMMA RunningMInv == ASSUME MInv, Alive, Running PROVE MInv'
  BY NextMInv DEF MainNext

LEMMA RemoteTickMInv ==
  ASSUME MInv, RemoteTick, phase = FRAME_TIME => button \in Frames
  PROVE  MInv'
  <1> USE MainAssumption, ChannelAssumption
  <1>1. UsbInv'
    BY StutterUsbInv DEF RemoteTick, MInv
  <1>2. wait' \in Nat /\ since' \in 0 .. CLOCK_MOD - 1
    BY DEF RemoteTick, MInv, TypeOK
  <1>3. /\ active' \in BOOLEAN /\ polling' \in BOOLEAN /\ polling' = polling
        /\ value' \in Words /\ value_bits' \in BitCounts
        /\ value_bits' = FRAME_BITS => value' \in Frames
    BY DEF RemoteTick, IrBegin, IrFinish, MInv, TypeOK, IrInv
  <1>4. pc = "ir_value" => value' \in Frames \cup { << >> }
    BY <1>3 DEF RemoteTick, IrBegin, IrFinish, MInv, IrInv
  <1>5. TypeOK'
    BY <1>1, <1>2, <1>3 DEF RemoteTick, MInv, TypeOK, UsbInv
  <1>6. IrInv'
    BY <1>3, <1>4 DEF RemoteTick, MInv, IrInv
  <1>7. KeyInv' /\ NoPhantomKey' /\ NoOrphanKey' /\ HaltedInReset'
    BY DEF RemoteTick, MInv, KeyInv, NoPhantomKey, Decodings, NoOrphanKey, Owned,
       HaltedInReset, usbvars
  <1> QED BY <1>1, <1>5, <1>6, <1>7 DEF MInv

LEMMA TimedInitMInv == ASSUME TimedInit PROVE MInv
  <1> USE MainAssumption, UsbAssumption, ChannelAssumption
  <1>1. UsbInv
    BY DEF TimedInit, UsbInv, UsbTypeOK, EndpointClaimed, HostFollows
  <1>2. TypeOK
    <2>1. 0 \in 0 .. CLOCK_MOD - 1
      OBVIOUS
    <2> QED BY <1>1, <2>1 DEF TimedInit, IrInit, TypeOK, UpdatePcs, UsbInv
  <1>3. KeyInv /\ NoPhantomKey /\ NoOrphanKey /\ HaltedInReset
    BY DEF TimedInit, KeyInv, NoPhantomKey, Decodings, NoOrphanKey, Owned, HaltedInReset
  <1>4. IrInv
    <2>1. polling = FALSE /\ pc = "top" /\ value_bits = 0
      BY DEF TimedInit, IrInit
    <2> QED BY <2>1 DEF IrInv
  <1> QED BY <1>1, <1>2, <1>3, <1>4 DEF MInv

-----------------------------------------------------------------------------
(* The remote control. *)

Pending == value_bits = FRAME_BITS

(* From a frame to the report of its key: a release, a sleep, a press. *)
SendTime == 2 * HOST_LAG + IR_SLEEP

(* The pins rest, and main() is nowhere but in the parts that deal with    *)
(* the receiver.  During a reception it passes them by.                    *)
RemoteAlone ==
  /\ pc \in {"top", "mute", "ir", "ir_bits", "ir_value", "ir_clear", "send", "ir_release",
             "ir_sleep", "ir_send", "bottom"}
  /\ last_state = 0 /\ new_state = 0 /\ level = 0
  /\ phase \in 1 .. PERIOD /\ gone \in 0 .. RELEASE_TIME + 1
  /\ active <=> phase <= FRAME_TIME
  /\ held => button \in Frames
  /\ active => /\ pc \in {"top", "mute", "ir", "send", "bottom"} /\ ~rc5_new
               /\ button \in Frames /\ ~Pending

(* How long the last frame is gone, by the phase of the next. *)
GoneByPhase ==
  /\ FRAME_TIME < phase /\ phase < PERIOD => gone + FRAME_TIME + 1 = phase
  /\ phase <= FRAME_TIME \/ phase = PERIOD => gone + FRAME_TIME + 1 >= PERIOD

(* A frame is taken in the round of the loop in which it arrives. *)
TakenAtOnce ==
  /\ Pending =>
       /\ ~active /\ gone = 0 /\ value = button /\ button \in Frames
       /\ phase = FRAME_TIME + 1 /\ ~looped
       /\ pc \in {"top", "mute", "ir", "ir_bits", "ir_value", "ir_clear"}
  /\ Pending /\ pc \in {"ir_value", "ir_clear"} => since = 0
  /\ pc = "ir_value" => Pending

(* Silence is noticed in the round of the loop in which it is long enough. *)
SilenceNoticed ==
  /\ ~active /\ ~Pending => since <= RC5_TIMEOUT + 1
  /\ ~active /\ looped /\ pc = "top" => since <= RC5_TIMEOUT
  /\ ~active /\ pc \in {"ir_clear", "send", "ir_release", "ir_sleep", "ir_send", "bottom"}
       => since <= RC5_TIMEOUT

(* As long as there is data, rc5_last is when the last frame came.         *)
ClockIsGone ==
  rc5_data # NoData /\ ~active /\ ~(Pending /\ pc \in {"top", "mute", "ir", "ir_bits"})
    => since = gone

(* A report is sent in time, or at once if it is due to silence. *)
KeyInTime ==
  rc5_new =>
    /\ pc \in {"ir_clear", "send", "ir_release", "ir_sleep", "ir_send"}
    /\ gone <= RELEASE_TIME
    /\ gone = since \/ (rc5_data = NoData /\ Slack = 0)
    /\ pc \in {"ir_clear", "send"} => since = 0
    /\ pc \in {"ir_release", "ir_sleep"} => gone = since
    /\ pc = "ir_release" => since + Slack <= HOST_LAG
    /\ pc = "ir_sleep" => since + (wait + Slack) <= SendTime
    /\ pc = "ir_send" => since + Slack <= SendTime

(* No report is left in the endpoint when silence is noticed. *)
NoneLeft == 0 < Slack => since + Slack <= SendTime + HOST_LAG

(* The data is that of the button, but while a new press is on its way.    *)
InFlight == (held /\ phase = PERIOD) \/ active \/ (Pending /\ pc # "ir_clear")

DataIsButton ==
  rc5_data # NoData /\ ~InFlight => button \in Frames /\ rc5_data = rc5_decode(button)

HeldInTime ==
  held /\ phase = PERIOD /\ rc5_data # NoData /\ rc5_data = rc5_decode(button)
    => gone <= RC5_TIMEOUT

RemoteInv ==
  /\ Calm /\ RemoteAlone /\ GoneByPhase /\ TakenAtOnce /\ SilenceNoticed
  /\ ClockIsGone /\ KeyInTime /\ NoneLeft /\ DataIsButton /\ HeldInTime

LEMMA RemoteTimes ==
  /\ HOST_LAG \in Nat /\ FRAME_TIME \in Nat /\ PERIOD \in Nat /\ RELEASE_TIME \in Nat
  /\ IR_SLEEP \in Nat /\ RC5_TIMEOUT \in Nat /\ CLOCK_MOD \in Nat
  /\ SendTime \in Nat /\ SendTime = HOST_LAG + HOST_LAG + IR_SLEEP
  /\ 0 < FRAME_TIME /\ FRAME_TIME + 1 + SendTime < PERIOD
  /\ SendTime + HOST_LAG <= RC5_TIMEOUT
  /\ PERIOD <= RC5_TIMEOUT + FRAME_TIME + 1
  /\ RC5_TIMEOUT < RELEASE_TIME /\ RC5_TIMEOUT + 1 < CLOCK_MOD
  BY TimingAssumption, MainAssumption DEF SendTime

LEMMA RemoteTyped ==
  ASSUME MInv
  PROVE  /\ wait \in Nat /\ since \in Nat /\ since < CLOCK_MOD
         /\ active \in BOOLEAN /\ rc5_new \in BOOLEAN
  BY MainAssumption DEF MInv, TypeOK

(* Steps of the program that are not about the receiver, and the host.     *)
LEMMA HostRemote ==
  ASSUME MInv, RemoteInv, PacedHost
  PROVE  RemoteInv'
  <1>1. Calm' /\ Slack' = 0 /\ Slack \in Nat
    BY CalmHost, SlackIs DEF RemoteInv
  <1>2. UNCHANGED << program, time, cdc, irvars, looped, remote, encoder >>
    BY DEF PacedHost
  <1>3. RemoteAlone' /\ GoneByPhase'
    BY <1>2 DEF RemoteInv, RemoteAlone, GoneByPhase, Pending
  <1>4. TakenAtOnce' /\ SilenceNoticed' /\ ClockIsGone'
    BY <1>2 DEF RemoteInv, TakenAtOnce, SilenceNoticed, ClockIsGone, Pending
  <1>5. KeyInTime' /\ NoneLeft'
    BY <1>1, <1>2, RemoteTyped, RemoteTimes DEF RemoteInv, KeyInTime, NoneLeft
  <1>6. DataIsButton' /\ HeldInTime'
    BY <1>2 DEF RemoteInv, DataIsButton, HeldInTime, InFlight, Pending
  <1> QED BY <1>1, <1>3, <1>4, <1>5, <1>6 DEF RemoteInv

(* The user presses a button, and lets go of it. *)
LEMMA PressRemote ==
  ASSUME MInv, RemoteInv, Press \/ LetGo
  PROVE  RemoteInv'
  <1>0. UNCHANGED << mainvars, pace, phase, gone, encoder >>
    BY DEF Press, LetGo
  <1>1. Calm' /\ Slack' = Slack
    BY <1>0, CalmSame, SlackSame DEF RemoteInv, mainvars, usbvars, Calm
  <1>2. ~active /\ (Press => ~Pending)
    BY RemoteTimes DEF Press, LetGo, RemoteInv, RemoteAlone, TakenAtOnce
  <1>3. RemoteAlone' /\ GoneByPhase'
    BY <1>0, <1>2 DEF Press, LetGo, RemoteInv, RemoteAlone, GoneByPhase, Pending, mainvars
  <1>4. TakenAtOnce' /\ SilenceNoticed' /\ ClockIsGone'
    BY <1>0, <1>2
    DEF Press, LetGo, mainvars, RemoteInv, TakenAtOnce, SilenceNoticed, ClockIsGone, Pending
  <1>5. KeyInTime' /\ NoneLeft'
    BY <1>0, <1>1 DEF mainvars, RemoteInv, KeyInTime, NoneLeft
  <1>6. CASE Press
    <2>1. rc5_data' # NoData => button \in Frames /\ rc5_data' = rc5_decode(button)
      BY <1>0, <1>2, <1>6
      DEF mainvars, Press, RemoteInv, DataIsButton, InFlight
    <2>2. button' \in Frames /\ button' # button /\ held' /\ phase' = PERIOD
      BY <1>6 DEF Press
    <2>3. rc5_data' # NoData => rc5_data' # rc5_decode(button')
      BY <2>1, <2>2, TimingAssumption
    <2>4. DataIsButton' /\ HeldInTime'
      BY <2>2, <2>3 DEF DataIsButton, HeldInTime, InFlight
    <2> QED BY <1>1, <1>3, <1>4, <1>5, <2>4 DEF RemoteInv
  <1>7. CASE LetGo
    <2>1. DataIsButton' /\ HeldInTime'
      BY <1>0, <1>2, <1>7, RemoteTimes
      DEF LetGo, mainvars, RemoteInv, RemoteAlone, DataIsButton, HeldInTime, InFlight, Pending
    <2> QED BY <1>1, <1>3, <1>4, <1>5, <2>1 DEF RemoteInv
  <1> QED BY <1>6, <1>7

(* When time passes main() is at rest, or it is sending a report and the   *)
(* next frame is far.                                                      *)
LEMMA RemoteTickWhen ==
  ASSUME MInv, RemoteInv, MayTick
  PROVE  \/ /\ pc = "top" /\ looped
            /\ ~active => ~Pending /\ since <= RC5_TIMEOUT
         \/ /\ pc \in {"ir_release", "ir_sleep", "ir_send"} /\ rc5_new
            /\ ~active /\ ~Pending
            /\ gone = since /\ since < SendTime
            /\ FRAME_TIME < phase /\ phase < PERIOD
            /\ 0 < Slack \/ (pc = "ir_sleep" /\ 0 < wait)
            /\ pc # "ir_sleep" => 0 < Slack
  <1>0. Calm /\ Slack \in Nat /\ Slack <= HOST_LAG
    BY SlackIs DEF RemoteInv
  <1>1. \/ pc = "top" /\ looped
        \/ pc = "ir_sleep" /\ wait > 0
        \/ pc \in {"ir_release", "ir_send"} /\ 0 < Slack
    BY <1>0, TickWhen DEF RemoteInv, RemoteAlone, UpdatePcs
  <1>2. CASE pc = "top"
    BY <1>1, <1>2 DEF RemoteInv, TakenAtOnce, SilenceNoticed
  <1>3. CASE pc # "top"
    <2>1. rc5_new
      BY <1>1, <1>3 DEF MInv, KeyInv
    <2>2. ~active /\ ~Pending
      BY <1>1, <1>3, <2>1 DEF RemoteInv, RemoteAlone, TakenAtOnce
    <2>3. gone = since
      BY <1>0, <1>1, <1>3, <2>1 DEF RemoteInv, KeyInTime
    <2>4. since < SendTime
      <3>1. CASE pc = "ir_release"
        BY <1>0, <1>1, <2>1, <3>1, RemoteTyped, RemoteTimes DEF RemoteInv, KeyInTime
      <3>2. CASE pc = "ir_sleep"
        BY <1>0, <1>1, <2>1, <3>2, RemoteTyped, RemoteTimes DEF RemoteInv, KeyInTime
      <3>3. CASE pc = "ir_send"
        BY <1>0, <1>1, <2>1, <3>3, RemoteTyped, RemoteTimes DEF RemoteInv, KeyInTime
      <3> QED BY <1>1, <1>3, <3>1, <3>2, <3>3
    <2>5. FRAME_TIME < phase /\ phase < PERIOD
      BY <2>2, <2>3, <2>4, RemoteTyped, RemoteTimes DEF RemoteInv, RemoteAlone, GoneByPhase
    <2> QED BY <1>1, <1>3, <2>1, <2>2, <2>3, <2>4, <2>5
  <1> QED BY <1>2, <1>3

(* What time does to the counters, and what it leaves alone. *)
LEMMA SlackTick ==
  ASSUME Calm, PacedTick, UNCHANGED << usbvars, cdc, clear >>
  PROVE  /\ Slack \in Nat /\ Slack' \in Nat /\ Slack' <= Slack
         /\ 0 < Slack => Slack' + 1 <= Slack
  <1>1. Slack \in Nat /\ Slack' \in Nat
    BY SlackIs, CalmTick
  <1>2. Slack' <= Slack
    BY CalmTick
  <1>3. ASSUME 0 < Slack PROVE Slack' + 1 <= Slack
    <2>1. Slack' + 1 = Slack
      BY <1>3, CalmTick
    <2> QED BY <1>1, <2>1, NextIs
  <1> QED BY <1>1, <1>2, <1>3

LEMMA RemoteTickSlack ==
  ASSUME MInv, RemoteInv, RemoteTick
  PROVE  /\ Slack \in Nat /\ Slack' \in Nat /\ Slack' <= Slack
         /\ 0 < Slack => Slack' + 1 <= Slack
  BY SlackTick DEF RemoteTick, RemoteInv

LEMMA RemoteTickWait ==
  ASSUME MInv, RemoteInv, RemoteTick
  PROVE  /\ wait \in Nat /\ wait' \in Nat /\ wait' <= wait
         /\ 0 < wait => wait' + 1 <= wait
  BY RemoteTyped DEF RemoteTick

LEMMA RemoteTickSince ==
  ASSUME MInv, RemoteInv, RemoteTick, since + 1 < CLOCK_MOD
  PROVE  since' = since + 1
  BY RemoteTyped, RemoteTimes DEF RemoteTick

LEMMA RemoteTickRest ==
  ASSUME MInv, RemoteInv, RemoteTick
  PROVE  /\ Calm' /\ looped' = FALSE
         /\ UNCHANGED << program, usbvars, cdc, button, held, encoder >>
  <1>1. PacedTick /\ UNCHANGED << program, usbvars, cdc, button, held, encoder >>
    BY DEF RemoteTick
  <1>2. Calm'
    BY <1>1, CalmTick DEF RemoteInv
  <1> QED BY <1>1, <1>2 DEF PacedTick

LEMMA NoneLeftTick ==
  ASSUME MInv, RemoteInv, RemoteTick
  PROVE  NoneLeft'
  <1>1. Slack' \in Nat /\ Slack \in Nat /\ since \in Nat /\ SendTime + HOST_LAG \in Nat
    BY RemoteTickSlack, RemoteTyped, RemoteTimes
  <1>2. CASE 0 < Slack
    <2>1. Slack' + 1 <= Slack
      BY <1>2, RemoteTickSlack
    <2>2. since + Slack <= SendTime + HOST_LAG
      BY <1>2 DEF RemoteInv, NoneLeft
    <2>3. since + 1 < CLOCK_MOD
      <3>1. since <= SendTime + HOST_LAG
        BY <1>1, <1>2, <2>2
      <3> QED BY <1>1, <3>1, RemoteTimes
    <2>4. since' = since + 1 /\ since' \in Nat /\ since' <= since + 1
      BY <1>1, <2>3, RemoteTickSince
    <2>5. since' + Slack' <= SendTime + HOST_LAG
      BY <1>1, <2>1, <2>2, <2>4, SumTick
    <2> QED BY <2>5 DEF NoneLeft
  <1>3. CASE ~(0 < Slack)
    <2>1. ~(0 < Slack')
      BY <1>1, <1>3, RemoteTickSlack
    <2> QED BY <2>1 DEF NoneLeft
  <1> QED BY <1>2, <1>3

(* A frame begins. *)
LEMMA BeginRemote ==
  ASSUME MInv, RemoteInv, RemoteTick, phase = PERIOD, held
  PROVE  RemoteInv'
  <1> USE RemoteTimes, RemoteTyped
  <1>0. /\ Calm' /\ looped' = FALSE
        /\ UNCHANGED << program, usbvars, cdc, button, held, encoder >>
    BY RemoteTickRest
  <1>1. phase' = 1 /\ active' = TRUE /\ value_bits' = 0 /\ ~active
    BY DEF RemoteTick, IrBegin
  <1>2. pc = "top" /\ ~Pending /\ since <= RC5_TIMEOUT
    BY <1>1, RemoteTickWhen DEF RemoteTick, PacedTick
  <1>3. ~Pending' /\ ~rc5_new
    BY <1>1, <1>2, ChannelAssumption DEF Pending, RemoteInv, KeyInTime
  <1>4. gone' \in 0 .. RELEASE_TIME + 1 /\ gone' >= gone
    BY DEF RemoteTick, RemoteInv, RemoteAlone
  <1>5. RemoteAlone'
    BY <1>0, <1>1, <1>2, <1>3, <1>4 DEF RemoteInv, RemoteAlone
  <1>6. GoneByPhase'
    <2>1. gone \in Nat /\ gone' \in Nat /\ gone + FRAME_TIME + 1 >= PERIOD
      BY <1>4 DEF RemoteInv, RemoteAlone, GoneByPhase
    <2>2. gone' + FRAME_TIME + 1 >= PERIOD
      BY <1>4, <2>1, SumLater
    <2> QED BY <1>1, <2>2 DEF GoneByPhase
  <1>7. TakenAtOnce' /\ SilenceNoticed' /\ ClockIsGone' /\ KeyInTime'
    BY <1>0, <1>1, <1>2, <1>3 DEF TakenAtOnce, SilenceNoticed, ClockIsGone, KeyInTime
  <1>8. NoneLeft'
    BY NoneLeftTick
  <1>9. DataIsButton' /\ HeldInTime'
    BY <1>1 DEF DataIsButton, HeldInTime, InFlight
  <1> QED BY <1>0, <1>5, <1>6, <1>7, <1>8, <1>9 DEF RemoteInv

(* A frame ends; main() is at rest and takes it before the next tick.      *)
LEMMA FinishRemote ==
  ASSUME MInv, RemoteInv, RemoteTick, phase = FRAME_TIME
  PROVE  RemoteInv'
  <1> USE RemoteTimes, RemoteTyped
  <1>0. /\ Calm' /\ looped' = FALSE
        /\ UNCHANGED << program, usbvars, cdc, button, held, encoder >>
    BY RemoteTickRest
  <1>1. /\ phase' = FRAME_TIME + 1 /\ active' = FALSE /\ value_bits' = FRAME_BITS
        /\ value' = button /\ active /\ gone' = 0
    BY DEF RemoteTick, IrFinish
  <1>2. pc = "top" /\ button \in Frames /\ ~rc5_new
    BY <1>1, RemoteTickWhen DEF RemoteTick, PacedTick, RemoteInv, RemoteAlone
  <1>3. Pending'
    BY <1>1 DEF Pending
  <1>4. RemoteAlone'
    BY <1>0, <1>1, <1>2 DEF RemoteInv, RemoteAlone
  <1>5. GoneByPhase'
    BY <1>1 DEF GoneByPhase
  <1>6. TakenAtOnce'
    BY <1>0, <1>1, <1>2, <1>3 DEF TakenAtOnce
  <1>7. SilenceNoticed' /\ ClockIsGone' /\ KeyInTime'
    BY <1>0, <1>1, <1>2, <1>3 DEF SilenceNoticed, ClockIsGone, KeyInTime
  <1>8. NoneLeft'
    BY NoneLeftTick
  <1>9. DataIsButton' /\ HeldInTime'
    BY <1>0, <1>1, <1>2, <1>3 DEF DataIsButton, HeldInTime, InFlight
  <1> QED BY <1>0, <1>4, <1>5, <1>6, <1>7, <1>8, <1>9 DEF RemoteInv

(* Time passes between the ends of a frame, between two frames, or with no *)
(* button down.                                                            *)
LEMMA PassRemote ==
  ASSUME MInv, RemoteInv, RemoteTick, phase # FRAME_TIME, ~(phase = PERIOD /\ held)
  PROVE  RemoteInv'
  <1> USE RemoteTimes, RemoteTyped
  <1>0. /\ Calm' /\ looped' = FALSE
        /\ UNCHANGED << program, usbvars, cdc, button, held, encoder >>
    BY RemoteTickRest
  <1>1. /\ UNCHANGED irvars
        /\ gone' = IF gone <= RELEASE_TIME THEN gone + 1 ELSE gone
        /\ phase = PERIOD => phase' = PERIOD
        /\ phase # PERIOD => phase' = phase + 1
    BY DEF RemoteTick
  <1>2. gone \in 0 .. RELEASE_TIME + 1 /\ phase \in 1 .. PERIOD /\ (active <=> phase <= FRAME_TIME)
    BY DEF RemoteInv, RemoteAlone
  <1>3. /\ \/ pc = "top"
           \/ /\ pc \in {"ir_release", "ir_sleep", "ir_send"} /\ rc5_new
              /\ gone = since /\ since < SendTime
        /\ ~active => ~Pending /\ since <= RC5_TIMEOUT
    BY RemoteTickWhen DEF RemoteTick, PacedTick
  <1>4. ~Pending /\ ~Pending'
    BY <1>1, <1>3 DEF RemoteInv, RemoteAlone, Pending
  <1>5. RemoteAlone'
    BY <1>0, <1>1, <1>2, <1>4 DEF RemoteInv, RemoteAlone
  <1>6. GoneByPhase'
    BY <1>1, <1>2 DEF RemoteInv, GoneByPhase
  <1>7. TakenAtOnce'
    BY <1>0, <1>1, <1>4 DEF RemoteInv, TakenAtOnce
  <1>8. SilenceNoticed'
    BY <1>0, <1>1, <1>3, RemoteTickSince DEF SilenceNoticed
  <1>9. ClockIsGone'
    <2> SUFFICES ASSUME rc5_data # NoData, ~active PROVE since' = gone'
      BY <1>0, <1>1 DEF ClockIsGone
    <2>1. since = gone
      BY <1>4 DEF RemoteInv, ClockIsGone
    <2>2. since <= RC5_TIMEOUT
      BY <1>3
    <2> QED BY <1>1, <1>2, <2>1, <2>2, RemoteTickSince
  <1>10. NoneLeft'
    BY NoneLeftTick
  <1>11. DataIsButton'
    BY <1>0, <1>1, <1>2, <1>4 DEF RemoteInv, DataIsButton, InFlight
  <1>12. HeldInTime'
    BY <1>0, <1>1, <1>2 DEF RemoteInv, GoneByPhase, HeldInTime
  <1>13. KeyInTime'
    <2> SUFFICES ASSUME rc5_new PROVE KeyInTime'
      BY <1>0 DEF KeyInTime
    <2>1. /\ pc \in {"ir_release", "ir_sleep", "ir_send"} /\ pc' = pc
          /\ gone = since /\ since < SendTime
          /\ 0 < Slack \/ (pc = "ir_sleep" /\ 0 < wait)
      BY <1>0, RemoteTickWhen DEF RemoteTick, PacedTick, RemoteInv, KeyInTime
    <2>2. since' = since + 1 /\ gone' = gone + 1 /\ gone' = since' /\ gone' <= RELEASE_TIME
      BY <1>1, <1>2, <2>1, RemoteTickSince
    <2>3. since \in Nat /\ since' \in Nat /\ since' <= since + 1
      BY <2>2
    <2>4. pc \in {"ir_release", "ir_send"} => Slack' + 1 <= Slack
      BY <2>1, RemoteTickSlack
    <2>5. pc = "ir_release" => since' + Slack' <= HOST_LAG
      <3> SUFFICES ASSUME pc = "ir_release" PROVE since' + Slack' <= HOST_LAG
        OBVIOUS
      <3>1. since + Slack <= HOST_LAG
        BY DEF RemoteInv, KeyInTime
      <3> QED BY <2>3, <2>4, <3>1, RemoteTickSlack, SumTick
    <2>6. pc = "ir_send" => since' + Slack' <= SendTime
      <3> SUFFICES ASSUME pc = "ir_send" PROVE since' + Slack' <= SendTime
        OBVIOUS
      <3>1. since + Slack <= SendTime
        BY DEF RemoteInv, KeyInTime
      <3> QED BY <2>3, <2>4, <3>1, RemoteTickSlack, SumTick
    <2>7. pc = "ir_sleep" => since' + (wait' + Slack') <= SendTime
      <3> SUFFICES ASSUME pc = "ir_sleep" PROVE since' + (wait' + Slack') <= SendTime
        OBVIOUS
      <3>1. wait + Slack \in Nat /\ wait' + Slack' \in Nat
        BY RemoteTickSlack, RemoteTickWait
      <3>2. (wait' + Slack') + 1 <= wait + Slack
        BY <2>1, RemoteTickSlack, RemoteTickWait, SumLess
      <3>3. since + (wait + Slack) <= SendTime
        BY DEF RemoteInv, KeyInTime
      <3> QED BY <2>3, <3>1, <3>2, <3>3, SumTick
    <2> QED BY <2>1, <2>2, <2>5, <2>6, <2>7 DEF KeyInTime
  <1> QED BY <1>0, <1>5, <1>6, <1>7, <1>8, <1>9, <1>10, <1>11, <1>12, <1>13 DEF RemoteInv

(* What no step of the program touches. *)
Paced ==
  /\ UNCHANGED << lag, button, held, phase, gone, level, other, settle, meant >>
  /\ looped' => looped \/ pc = "bottom"

(* Between the polls. *)
LEMMA ReadRemote ==
  ASSUME MInv, RemoteInv, ReadEncoder(level) \/ ReadMute(1), Paced
  PROVE  RemoteInv'
  <1>1. /\ UNCHANGED << last_state, rc5_data, rc5_new, key, since, cdc, irvars, usbvars >>
        /\ ~clear' /\ new_state' = 0 /\ (looped' => looped)
        /\ (pc = "top" /\ pc' = "mute") \/ (pc = "mute" /\ pc' = "ir")
    <2>0. ~clear /\ last_state = 0 /\ new_state = 0 /\ level = 0
      BY DEF RemoteInv, RemoteAlone, Calm
    <2>1. CASE ReadEncoder(level)
      BY <2>0, <2>1 DEF ReadEncoder, Paced
    <2>2. CASE ReadMute(1)
      <3>1. /\ pc = "mute" /\ clear' = (clear /\ 1 = 0)
            /\ pc' = IF 1 = 0 THEN "mute_press" ELSE IF clear THEN "mute_release" ELSE "ir"
            /\ UNCHANGED << last_state, new_state, rc5_data, rc5_new, key, time, cdc,
                            irvars, usbvars >>
        BY <2>2 DEF ReadMute
      <3>2. 1 # 0
        OBVIOUS
      <3>3. ~clear'
        BY <2>0, <3>1
      <3>4. pc' = "ir"
        BY <2>0, <3>1, <3>2
      <3> QED BY <2>0, <3>1, <3>3, <3>4 DEF Paced
    <2> QED BY <2>1, <2>2
  <1>2. Calm' /\ Slack' = Slack
    BY <1>1, CalmSame, SlackSame DEF RemoteInv, Calm, usbvars, Paced
  <1>3. RemoteAlone' /\ GoneByPhase'
    BY <1>1 DEF Paced, RemoteInv, RemoteAlone, GoneByPhase, Pending
  <1>4. TakenAtOnce' /\ SilenceNoticed' /\ ClockIsGone'
    BY <1>1 DEF Paced, RemoteInv, TakenAtOnce, SilenceNoticed, ClockIsGone, Pending
  <1>5. KeyInTime' /\ NoneLeft'
    BY <1>1, <1>2 DEF Paced, RemoteInv, KeyInTime, NoneLeft
  <1>6. DataIsButton' /\ HeldInTime'
    BY <1>1 DEF Paced, RemoteInv, DataIsButton, HeldInTime, InFlight, Pending
  <1> QED BY <1>2, <1>3, <1>4, <1>5, <1>6 DEF RemoteInv

LEMMA PollActiveRemote ==
  ASSUME MInv, RemoteInv, PollActive, Paced
  PROVE  RemoteInv'
  <1>1. /\ UNCHANGED << last_state, new_state, clear, rc5_data, rc5_new, key, time, cdc, usbvars >>
        /\ UNCHANGED << active, value, value_bits >>
        /\ pc = "ir" /\ pc' = IF active THEN "send" ELSE "ir_bits"
        /\ (looped' => looped) /\ ~rc5_new
    BY DEF PollActive, IrLook, Paced, RemoteInv, KeyInTime
  <1>2. Calm' /\ Slack' = Slack
    BY <1>1, CalmSame, SlackSame DEF RemoteInv, Calm, usbvars, Paced
  <1>3. RemoteAlone' /\ GoneByPhase'
    BY <1>1 DEF Paced, RemoteInv, RemoteAlone, GoneByPhase, Pending
  <1>4. TakenAtOnce' /\ SilenceNoticed' /\ ClockIsGone'
    BY <1>1 DEF Paced, RemoteInv, TakenAtOnce, SilenceNoticed, ClockIsGone, Pending
  <1>5. KeyInTime' /\ NoneLeft'
    BY <1>1, <1>2 DEF Paced, RemoteInv, KeyInTime, NoneLeft
  <1>6. DataIsButton' /\ HeldInTime'
    BY <1>1 DEF Paced, RemoteInv, DataIsButton, HeldInTime, InFlight, Pending
  <1> QED BY <1>2, <1>3, <1>4, <1>5, <1>6 DEF RemoteInv

LEMMA PollBitsRemote ==
  ASSUME MInv, RemoteInv, PollBits, Paced
  PROVE  RemoteInv'
  <1> USE RemoteTimes, RemoteTyped
  <1>1. /\ UNCHANGED << last_state, new_state, clear, key, wait, cdc, irvars, usbvars >>
        /\ pc = "ir_bits" /\ (looped' => looped) /\ ~rc5_new /\ ~active
    BY DEF PollBits, Paced, RemoteInv, KeyInTime, RemoteAlone
  <1>2. Calm' /\ Slack' = Slack /\ Slack \in Nat /\ Slack <= HOST_LAG
    BY <1>1, CalmSame, SlackSame, SlackIs DEF RemoteInv, Calm, usbvars, Paced
  <1>3. pc' \in {"ir_value", "ir_clear"}
    BY DEF PollBits
  <1>4. RemoteAlone' /\ GoneByPhase'
    BY <1>1, <1>3 DEF Paced, RemoteInv, RemoteAlone, GoneByPhase, Pending
  <1>5. CASE Pending
    <2>1. since' = 0 /\ pc' = "ir_value" /\ UNCHANGED << rc5_data, rc5_new >> /\ Pending'
      BY <1>1, <1>5 DEF PollBits, WholeFrame, Pending
    <2>2. gone = 0
      BY <1>5 DEF RemoteInv, TakenAtOnce
    <2>3. TakenAtOnce' /\ SilenceNoticed' /\ ClockIsGone'
      BY <1>1, <1>5, <2>1, <2>2
      DEF Paced, RemoteInv, TakenAtOnce, SilenceNoticed, ClockIsGone
    <2>4. KeyInTime' /\ NoneLeft'
      BY <1>1, <1>2, <2>1 DEF KeyInTime, NoneLeft
    <2>5. DataIsButton' /\ HeldInTime'
      BY <2>1 DEF Paced, RemoteInv, DataIsButton, HeldInTime, InFlight
    <2> QED BY <1>2, <1>4, <2>3, <2>4, <2>5 DEF RemoteInv
  <1>6. CASE ~Pending /\ since > RC5_TIMEOUT
    <2>1. /\ since' = 0 /\ pc' = "ir_clear" /\ rc5_data' = NoData
          /\ rc5_new' => rc5_data # NoData
          /\ ~Pending' /\ ~active'
      BY <1>1, <1>6 DEF PollBits, WholeFrame, Silent, Pending, NewData
    <2>2. Slack' = 0
      <3>1. ~(0 < Slack)
        BY <1>2, <1>6 DEF RemoteInv, NoneLeft
      <3> QED BY <1>2, <3>1
    <2>3. rc5_new' => gone' <= RELEASE_TIME
      BY <1>1, <1>6, <2>1 DEF Paced, RemoteInv, ClockIsGone, SilenceNoticed
    <2>4. TakenAtOnce' /\ SilenceNoticed' /\ ClockIsGone'
      BY <2>1 DEF TakenAtOnce, SilenceNoticed, ClockIsGone
    <2>5. KeyInTime' /\ NoneLeft'
      BY <2>1, <2>2, <2>3 DEF KeyInTime, NoneLeft
    <2>6. DataIsButton' /\ HeldInTime'
      BY <2>1 DEF DataIsButton, HeldInTime
    <2> QED BY <1>2, <1>4, <2>4, <2>5, <2>6 DEF RemoteInv
  <1>7. CASE ~Pending /\ ~(since > RC5_TIMEOUT)
    <2>1. /\ UNCHANGED << since, rc5_data, rc5_new >> /\ pc' = "ir_clear" /\ ~Pending'
          /\ since <= RC5_TIMEOUT
      BY <1>1, <1>7 DEF PollBits, WholeFrame, Silent, Pending
    <2>2. TakenAtOnce' /\ SilenceNoticed' /\ ClockIsGone'
      BY <1>1, <1>7, <2>1
      DEF Paced, RemoteInv, TakenAtOnce, SilenceNoticed, ClockIsGone
    <2>3. KeyInTime' /\ NoneLeft'
      BY <1>1, <1>2, <2>1 DEF RemoteInv, KeyInTime, NoneLeft
    <2>4. DataIsButton' /\ HeldInTime'
      BY <1>1, <1>7, <2>1 DEF Paced, RemoteInv, DataIsButton, HeldInTime, InFlight
    <2> QED BY <1>2, <1>4, <2>2, <2>3, <2>4 DEF RemoteInv
  <1> QED BY <1>5, <1>6, <1>7

LEMMA PollValueRemote ==
  ASSUME MInv, RemoteInv, PollValue, Paced
  PROVE  RemoteInv'
  <1> USE RemoteTimes, RemoteTyped
  <1>1. /\ UNCHANGED << last_state, new_state, clear, key, time, cdc, irvars, usbvars >>
        /\ pc = "ir_value" /\ pc' = "ir_clear" /\ (looped' => looped)
        /\ rc5_data' = rc5_decode(value)
    BY DEF PollValue, Paced, NewData
  <1>2. /\ Pending /\ ~active /\ gone = 0 /\ since = 0
        /\ value = button /\ button \in Frames /\ ~looped /\ phase = FRAME_TIME + 1
    BY <1>1 DEF RemoteInv, TakenAtOnce
  <1>3. Pending'
    BY <1>1, <1>2 DEF Pending
  <1>4. Calm' /\ Slack' = Slack
    BY <1>1, CalmSame, SlackSame DEF RemoteInv, Calm, usbvars, Paced
  <1>5. RemoteAlone' /\ GoneByPhase'
    BY <1>1, <1>2 DEF Paced, RemoteInv, RemoteAlone, GoneByPhase, Pending
  <1>6. TakenAtOnce' /\ SilenceNoticed' /\ ClockIsGone' /\ KeyInTime'
    BY <1>1, <1>2, <1>3 DEF Paced, TakenAtOnce, SilenceNoticed, ClockIsGone, KeyInTime
  <1>7. NoneLeft'
    BY <1>1, <1>4 DEF RemoteInv, NoneLeft
  <1>8. DataIsButton' /\ HeldInTime'
    BY <1>1, <1>2 DEF Paced, DataIsButton, HeldInTime
  <1> QED BY <1>4, <1>5, <1>6, <1>7, <1>8 DEF RemoteInv

LEMMA PollClearRemote ==
  ASSUME MInv, RemoteInv, PollClear, Paced
  PROVE  RemoteInv'
  <1> USE RemoteTimes, RemoteTyped
  <1>1. /\ UNCHANGED << last_state, new_state, clear, rc5_data, rc5_new, key, time, cdc, usbvars >>
        /\ UNCHANGED << active, value >> /\ value_bits' = 0
        /\ pc = "ir_clear" /\ pc' = "send" /\ (looped' => looped) /\ ~active
    BY DEF PollClear, IrClear, Paced, RemoteInv, RemoteAlone
  <1>2. ~Pending'
    BY <1>1, ChannelAssumption DEF Pending
  <1>3. since <= RC5_TIMEOUT
    BY <1>1 DEF RemoteInv, SilenceNoticed
  <1>4. Calm' /\ Slack' = Slack
    BY <1>1, CalmSame, SlackSame DEF RemoteInv, Calm, usbvars, Paced
  <1>5. RemoteAlone' /\ GoneByPhase'
    BY <1>1, <1>2 DEF Paced, RemoteInv, RemoteAlone, GoneByPhase
  <1>6. TakenAtOnce' /\ SilenceNoticed' /\ ClockIsGone'
    BY <1>1, <1>2, <1>3 DEF Paced, RemoteInv, TakenAtOnce, SilenceNoticed, ClockIsGone
  <1>7. KeyInTime' /\ NoneLeft'
    BY <1>1, <1>4 DEF Paced, RemoteInv, KeyInTime, NoneLeft
  <1>8. DataIsButton' /\ HeldInTime'
    BY <1>1, <1>2 DEF Paced, RemoteInv, DataIsButton, HeldInTime, InFlight
  <1> QED BY <1>4, <1>5, <1>6, <1>7, <1>8 DEF RemoteInv

LEMMA ChooseRemote ==
  ASSUME MInv, RemoteInv, ChooseKey, Paced
  PROVE  RemoteInv'
  <1> USE RemoteTimes, RemoteTyped
  <1>1. /\ UNCHANGED << last_state, new_state, clear, rc5_data, rc5_new, time, cdc >>
        /\ UNCHANGED << irvars, usbvars >>
        /\ pc = "send" /\ (looped' => looped)
        /\ ~rc5_new => pc' = "bottom"
        /\ rc5_new => pc' \in {"ir_release", "ir_send"}
        /\ pc' = "ir_release" => rc5_data # NoData
    BY EmptyHasNoKey DEF ChooseKey, Paced
  <1>2. ~Pending /\ ~Pending' /\ (rc5_new => ~active)
    BY <1>1 DEF Pending, RemoteInv, TakenAtOnce, RemoteAlone
  <1>3. Calm' /\ Slack' = Slack /\ Slack \in Nat /\ Slack <= HOST_LAG
    BY <1>1, CalmSame, SlackSame, SlackIs DEF RemoteInv, Calm, usbvars, Paced
  <1>4. RemoteAlone' /\ GoneByPhase'
    BY <1>1, <1>2 DEF Paced, RemoteInv, RemoteAlone, GoneByPhase
  <1>5. TakenAtOnce' /\ SilenceNoticed' /\ ClockIsGone'
    BY <1>1, <1>2 DEF Paced, RemoteInv, TakenAtOnce, SilenceNoticed, ClockIsGone
  <1>6. NoneLeft'
    BY <1>1, <1>3 DEF RemoteInv, NoneLeft
  <1>7. KeyInTime'
    <2> SUFFICES ASSUME rc5_new PROVE KeyInTime'
      BY <1>1 DEF KeyInTime
    <2>1. /\ since' = 0 /\ gone' <= RELEASE_TIME
          /\ gone' = since' \/ (rc5_data' = NoData /\ Slack' = 0)
      BY <1>1, <1>3 DEF Paced, RemoteInv, KeyInTime
    <2>2. Slack' <= HOST_LAG /\ Slack' <= SendTime
      BY <1>3
    <2> QED BY <1>1, <1>3, <2>1, <2>2 DEF KeyInTime
  <1>8. DataIsButton' /\ HeldInTime'
    BY <1>1, <1>2 DEF Paced, RemoteInv, DataIsButton, HeldInTime, InFlight
  <1> QED BY <1>3, <1>4, <1>5, <1>6, <1>7, <1>8 DEF RemoteInv

LEMMA IrReleaseRemote ==
  ASSUME MInv, RemoteInv, IrRelease, Paced
  PROVE  RemoteInv'
  <1> USE RemoteTimes, RemoteTyped
  <1>1. /\ UNCHANGED << last_state, new_state, clear, rc5_data, rc5_new, key, since, cdc, irvars >>
        /\ pc = "ir_release" /\ pc' = "ir_sleep" /\ wait' = IR_SLEEP /\ (looped' => looped)
    BY DEF IrRelease, Paced
  <1>2. rc5_new /\ ~active /\ ~Pending /\ ~Pending'
    BY <1>1 DEF Pending, MInv, KeyInv, RemoteInv, TakenAtOnce, RemoteAlone
  <1>3. Calm' /\ Slack = 0 /\ Slack' = HOST_LAG
    BY <1>1, CalmUpdate DEF RemoteInv, IrRelease, Paced
  <1>4. since <= HOST_LAG /\ gone = since /\ gone <= RELEASE_TIME
    BY <1>1, <1>2, <1>3 DEF RemoteInv, KeyInTime
  <1>5. RemoteAlone' /\ GoneByPhase'
    BY <1>1, <1>2 DEF Paced, RemoteInv, RemoteAlone, GoneByPhase
  <1>6. TakenAtOnce' /\ SilenceNoticed' /\ ClockIsGone'
    BY <1>1, <1>2 DEF Paced, RemoteInv, TakenAtOnce, SilenceNoticed, ClockIsGone
  <1>7. NoneLeft'
    <2>1. since + HOST_LAG <= SendTime + HOST_LAG
      BY <1>4
    <2> QED BY <1>1, <1>3, <2>1 DEF NoneLeft
  <1>8. KeyInTime'
    <2>1. since + (IR_SLEEP + HOST_LAG) <= SendTime
      BY <1>4
    <2> QED BY <1>1, <1>2, <1>3, <1>4, <2>1 DEF Paced, KeyInTime
  <1>9. DataIsButton' /\ HeldInTime'
    BY <1>1, <1>2 DEF Paced, RemoteInv, DataIsButton, HeldInTime, InFlight
  <1> QED BY <1>3, <1>5, <1>6, <1>7, <1>8, <1>9 DEF RemoteInv

LEMMA IrWakeRemote ==
  ASSUME MInv, RemoteInv, IrWake, Paced
  PROVE  RemoteInv'
  <1> USE RemoteTimes, RemoteTyped
  <1>1. /\ UNCHANGED << last_state, new_state, clear, rc5_data, rc5_new, key, time, cdc >>
        /\ UNCHANGED << irvars, usbvars >>
        /\ pc = "ir_sleep" /\ pc' = "ir_send" /\ wait = 0 /\ (looped' => looped)
    BY DEF IrWake, Paced
  <1>2. rc5_new /\ ~active /\ ~Pending /\ ~Pending'
    BY <1>1 DEF Pending, MInv, KeyInv, RemoteInv, TakenAtOnce, RemoteAlone
  <1>3. Calm' /\ Slack' = Slack /\ Slack \in Nat
    BY <1>1, CalmSame, SlackSame, SlackIs DEF RemoteInv, Calm, usbvars, Paced
  <1>4. RemoteAlone' /\ GoneByPhase'
    BY <1>1, <1>2 DEF Paced, RemoteInv, RemoteAlone, GoneByPhase
  <1>5. TakenAtOnce' /\ SilenceNoticed' /\ ClockIsGone'
    BY <1>1, <1>2 DEF Paced, RemoteInv, TakenAtOnce, SilenceNoticed, ClockIsGone
  <1>6. NoneLeft'
    BY <1>1, <1>3 DEF RemoteInv, NoneLeft
  <1>7. KeyInTime'
    <2>1. since + Slack <= SendTime /\ gone = since /\ gone <= RELEASE_TIME
      BY <1>1, <1>2, <1>3 DEF RemoteInv, KeyInTime
    <2> QED BY <1>1, <1>2, <1>3, <2>1 DEF Paced, KeyInTime
  <1>8. DataIsButton' /\ HeldInTime'
    BY <1>1, <1>2 DEF Paced, RemoteInv, DataIsButton, HeldInTime, InFlight
  <1> QED BY <1>3, <1>4, <1>5, <1>6, <1>7, <1>8 DEF RemoteInv

LEMMA IrSendRemote ==
  ASSUME MInv, RemoteInv, IrSend, Paced
  PROVE  RemoteInv'
  <1> USE RemoteTimes, RemoteTyped
  <1>1. /\ UNCHANGED << last_state, new_state, clear, rc5_data, key, time, cdc, irvars >>
        /\ pc = "ir_send" /\ pc' = "bottom" /\ ~rc5_new' /\ (looped' => looped)
    BY DEF IrSend, Paced
  <1>2. rc5_new /\ ~active /\ ~Pending /\ ~Pending'
    BY <1>1 DEF Pending, MInv, KeyInv, RemoteInv, TakenAtOnce, RemoteAlone
  <1>3. Calm' /\ Slack = 0 /\ Slack' = HOST_LAG
    BY <1>1, CalmUpdate DEF RemoteInv, IrSend, Paced
  <1>4. RemoteAlone' /\ GoneByPhase'
    BY <1>1, <1>2 DEF Paced, RemoteInv, RemoteAlone, GoneByPhase
  <1>5. TakenAtOnce' /\ SilenceNoticed' /\ ClockIsGone' /\ KeyInTime'
    BY <1>1, <1>2 DEF Paced, RemoteInv, TakenAtOnce, SilenceNoticed, ClockIsGone, KeyInTime
  <1>6. NoneLeft'
    <2>1. since <= SendTime
      BY <1>1, <1>2, <1>3 DEF RemoteInv, KeyInTime
    <2>2. since + HOST_LAG <= SendTime + HOST_LAG
      BY <2>1
    <2> QED BY <1>1, <1>3, <2>2 DEF NoneLeft
  <1>7. DataIsButton' /\ HeldInTime'
    BY <1>1, <1>2 DEF Paced, RemoteInv, DataIsButton, HeldInTime, InFlight
  <1> QED BY <1>3, <1>4, <1>5, <1>6, <1>7 DEF RemoteInv

LEMMA TaskRemote ==
  ASSUME MInv, RemoteInv, LoopBottom \/ AwaitHost, Paced
  PROVE  RemoteInv'
  <1>1. /\ UNCHANGED << new_state, clear, rc5_data, rc5_new, key, time, irvars >>
        /\ tud_task /\ ~cdc' /\ last_state' = 0
        /\ \/ pc = "bottom" /\ pc' = "top"
           \/ pc \in {"ir_release", "ir_send"} /\ pc' = pc /\ (looped' => looped)
    BY DEF LoopBottom, AwaitHost, KeyboardWait, UpdatePcs, Paced, RemoteInv, RemoteAlone, Calm
  <1>2. Calm' /\ Slack' = Slack
    BY <1>1, CalmTask DEF RemoteInv, Paced
  <1>3. pc \in {"bottom", "ir_release", "ir_send"} => ~Pending
    BY DEF RemoteInv, TakenAtOnce
  <1>4. ~Pending /\ ~Pending'
    BY <1>1, <1>3 DEF Pending
  <1>5. RemoteAlone' /\ GoneByPhase'
    BY <1>1, <1>4 DEF Paced, RemoteInv, RemoteAlone, GoneByPhase
  <1>6. TakenAtOnce' /\ SilenceNoticed' /\ ClockIsGone'
    BY <1>1, <1>4 DEF Paced, RemoteInv, TakenAtOnce, SilenceNoticed, ClockIsGone
  <1>7. KeyInTime' /\ NoneLeft'
    BY <1>1, <1>2 DEF Paced, RemoteInv, KeyInTime, NoneLeft
  <1>8. DataIsButton' /\ HeldInTime'
    BY <1>1, <1>4 DEF Paced, RemoteInv, DataIsButton, HeldInTime, InFlight
  <1> QED BY <1>2, <1>5, <1>6, <1>7, <1>8 DEF RemoteInv

LEMMA ComputeRemote ==
  ASSUME MInv, RemoteInv, PacedCompute
  PROVE  RemoteInv' /\ owed' = owed
  <1>1. Paced
    BY DEF PacedCompute, Paced
  <1>2. pc \notin {"enc_dir", "enc_press", "enc_sleep", "enc_release",
                   "mute_press", "mute_sleep", "mute_release"}
    BY DEF RemoteInv, RemoteAlone
  <1>3. \/ ReadMute(1) \/ PollActive \/ PollBits \/ PollValue \/ PollClear
        \/ ChooseKey \/ IrRelease \/ IrWake \/ IrSend \/ LoopBottom \/ AwaitHost
    BY <1>2, CalmNoFault
    DEF RemoteInv, PacedCompute, Compute, EncoderPress, EncoderWake, EncoderRelease,
        MutePress, MuteWake, MuteRelease
  <1>4. RemoteInv'
    BY <1>1, <1>3, ReadRemote, PollActiveRemote, PollBitsRemote, PollValueRemote,
       PollClearRemote, ChooseRemote, IrReleaseRemote, IrWakeRemote, IrSendRemote, TaskRemote
  <1>5. owed' = owed
    BY <1>2 DEF PacedCompute
  <1> QED BY <1>4, <1>5

LEMMA RemoteStep ==
  ASSUME MInv, RemoteInv, RemoteNext
  PROVE  MInv' /\ RemoteInv' /\ owed' = owed
  <1>0. Alive /\ level = 0
    BY DEF RemoteInv, RemoteAlone, Alive
  <1>1. CASE RemoteTick
    <2>1. phase = FRAME_TIME => button \in Frames
      BY RemoteTimes DEF RemoteInv, RemoteAlone
    <2>2. MInv'
      BY <1>1, <2>1, RemoteTickMInv
    <2>3. RemoteInv'
      BY <1>1, BeginRemote, FinishRemote, PassRemote
    <2> QED BY <1>1, <2>2, <2>3 DEF RemoteTick
  <1>2. CASE Press \/ LetGo
    BY <1>2, PressRemote, StutterMInv DEF Press, LetGo
  <1>3. CASE RemoteRead
    <2>1. ReadEncoder(level) /\ Paced /\ owed' = owed
      BY <1>0, <1>3 DEF RemoteRead, Paced, ReadEncoder
    <2>2. ReadPin
      BY <1>0, <2>1 DEF ReadPin
    <2>3. MInv'
      BY <2>2, ReadPinMInv
    <2> QED BY <2>1, <2>3, ReadRemote
  <1>4. CASE PacedCompute
    <2>1. ReadMute(1) => ReadPin
      BY DEF ReadPin
    <2>2. Running
      BY <1>4, <2>1 DEF PacedCompute, Running
    <2> QED BY <1>0, <1>4, <2>2, RunningMInv, ComputeRemote
  <1>5. CASE PacedHost
    <2>1. Host
      BY <1>5 DEF PacedHost, Host, UsbEnv
    <2> QED BY <1>0, <1>5, <2>1, HostMInv, HostRemote DEF PacedHost, Alive
  <1> QED BY <1>1, <1>2, <1>3, <1>4, <1>5 DEF RemoteNext

LEMMA RemoteInit == ASSUME TimedInit PROVE RemoteInv
  <1> USE RemoteTimes
  <1>1. ~Pending /\ ~active
    BY ChannelAssumption DEF TimedInit, IrInit, Pending
  <1>2. Calm /\ Slack = 0
    BY DEF TimedInit, Calm, Slack
  <1>3. RemoteAlone
    BY <1>1 DEF TimedInit, RemoteAlone
  <1>4. GoneByPhase /\ TakenAtOnce /\ SilenceNoticed
    BY <1>1 DEF TimedInit, GoneByPhase, TakenAtOnce, SilenceNoticed
  <1>5. ClockIsGone /\ KeyInTime /\ NoneLeft /\ DataIsButton /\ HeldInTime
    BY <1>1, <1>2 DEF TimedInit, ClockIsGone, KeyInTime, NoneLeft, DataIsButton, HeldInTime
  <1> QED BY <1>2, <1>3, <1>4, <1>5 DEF RemoteInv

(* A key that is down without its data would have been released. *)
LEMMA RemoteReleases ==
  ASSUME MInv, RemoteInv, gone > RELEASE_TIME, ~active
  PROVE  sent = Released
  <1> USE RemoteTimes, RemoteTyped
  <1> SUFFICES ASSUME sent # NoKey PROVE FALSE
    BY MainAssumption
  <1>1. ~rc5_new /\ ~Pending
    BY DEF RemoteInv, RemoteAlone, KeyInTime, TakenAtOnce
  <1>2. KeyOf(rc5_data) = sent
    BY <1>1 DEF MInv, NoOrphanKey, Owned, RemoteInv, RemoteAlone, Calm
  <1>3. rc5_data # NoData
    BY <1>2, EmptyHasNoKey
  <1>4. since = gone /\ since <= RC5_TIMEOUT + 1
    BY <1>1, <1>3 DEF RemoteInv, ClockIsGone, SilenceNoticed
  <1> QED BY <1>4

(* No silence is noticed while a button is held down. *)
LEMMA RemoteHolds ==
  ASSUME MInv, RemoteInv, RemoteNext, held, rc5_data = rc5_decode(button)
  PROVE  rc5_data' = rc5_data
  <1> USE RemoteTimes, RemoteTyped
  <1>1. CASE PollValue
    BY <1>1 DEF PollValue, NewData, RemoteInv, TakenAtOnce
  <1>2. CASE PollBits
    <2> SUFFICES ASSUME rc5_data # NoData, ~WholeFrame, Silent PROVE FALSE
      BY <1>2 DEF PollBits, NewData
    <2>1. pc = "ir_bits" /\ ~Pending /\ since > RC5_TIMEOUT
      BY <1>2 DEF PollBits, WholeFrame, Silent, Pending
    <2>2. ~active /\ phase \in 1 .. PERIOD /\ FRAME_TIME < phase /\ gone \in Nat
      BY <2>1 DEF RemoteInv, RemoteAlone
    <2>3. since = gone
      BY <2>1, <2>2 DEF RemoteInv, ClockIsGone
    <2>4. CASE phase = PERIOD
      BY <2>1, <2>3, <2>4 DEF RemoteInv, HeldInTime
    <2>5. CASE phase < PERIOD
      <3>1. gone + FRAME_TIME + 1 = phase
        BY <2>2, <2>5 DEF RemoteInv, GoneByPhase
      <3> QED BY <2>1, <2>2, <2>3, <2>5, <3>1
    <2> QED BY <2>2, <2>4, <2>5
  <1>3. CASE ~PollValue /\ ~PollBits
    BY <1>3 DEF RemoteNext, RemoteTick, Press, LetGo, RemoteRead, ReadEncoder, PacedHost,
       PacedCompute, Compute, ReadMute, EncoderPress, EncoderWake, EncoderRelease, MutePress,
       MuteWake, MuteRelease, PollActive, PollClear, ChooseKey, IrRelease, IrWake, IrSend,
       LoopBottom, AwaitHost, Fault, mainvars
  <1> QED BY <1>1, <1>2, <1>3

-----------------------------------------------------------------------------
(* The encoder. *)

(* What a service of an edge takes, and what is between two edges.         *)
Longer == IF ENC_SLEEP >= HOST_LAG THEN ENC_SLEEP ELSE HOST_LAG
Rest == BOUNCE + STABLE

(* When a press goes out, and when the service of an edge to level s is    *)
(* over, in ticks from the edge.  A press may have to wait for the release *)
(* of the edge before.                                                     *)
PressBy ==
  IF Longer + HOST_LAG > Rest THEN BOUNCE + Longer + HOST_LAG - Rest ELSE BOUNCE
Deadline(s) == IF s = 0 THEN BOUNCE + Longer ELSE PressBy + Longer

(* How long an edge to level s is gone, at least. *)
Age(s) == IF level = s THEN settle ELSE settle + Rest

(* The level up to which main() has dealt with the edges. *)
Known == IF pc = "top" THEN last_state ELSE new_state

Pressing  == pc \in {"enc_dir", "enc_press"}
Releasing == pc \in {"enc_sleep", "enc_release"}

(* Nobody uses the remote control: main() is nowhere but in the parts that *)
(* deal with the encoder, or finds nothing.                                *)
EncoderAlone ==
  /\ pc \in {"top", "enc_dir", "enc_press", "enc_sleep", "enc_release", "mute", "ir",
             "ir_bits", "ir_clear", "send", "bottom"}
  /\ ~active /\ value_bits = 0 /\ rc5_data = NoData /\ ~rc5_new /\ ~held
  /\ settle \in 0 .. Rest /\ level \in {0, 1} /\ other \in {0, 1}

(* Outside of a service main() is up to date, or the edge still bounces.   *)
EdgeNoticed ==
  ~Pressing /\ ~Releasing =>
    /\ Known = level => settle >= BOUNCE
    /\ Known # level => settle < BOUNCE \/ (settle = BOUNCE /\ ~looped /\ pc = "top")

(* A release is out of the endpoint early enough for the next press. *)
ReleaseOut ==
  ~Pressing /\ ~Releasing /\ Known = 0 /\ 0 < Slack
    => Age(0) + Slack <= Deadline(0) + HOST_LAG

PressInTime ==
  Pressing =>
    /\ new_state = 1 /\ level = 1
    /\ settle + Slack <= PressBy
    /\ pc = "enc_dir" => settle <= BOUNCE

(* A service is over when the edge bounces no more, and before the end of  *)
(* the bouncing of the next one.                                           *)
ReleaseInTime ==
  Releasing =>
    /\ Age(new_state) + Slack <= Deadline(new_state)
    /\ pc = "enc_sleep" => Age(new_state) + wait <= Deadline(new_state)
    /\ pc = "enc_sleep" /\ new_state = level => BOUNCE <= settle + wait
    /\ pc = "enc_release" /\ new_state = level => BOUNCE <= settle

DirectionHolds ==
  level = 1 /\ settle < APART => meant = IF other = 1 THEN "VOLUME_UP" ELSE "VOLUME_DOWN"

(* A tap is owed from the rising edge to its press. *)
Owes ==
  /\ level = 1 /\ (Known = 0 \/ Pressing) => owed = 1
  /\ ~(level = 1 /\ (Known = 0 \/ Pressing)) => owed = 0

EncoderInv ==
  /\ Calm /\ EncoderAlone /\ EdgeNoticed /\ ReleaseOut /\ PressInTime /\ ReleaseInTime
  /\ DirectionHolds /\ Owes /\ RightDirection

LEMMA EncoderTimes ==
  /\ HOST_LAG \in Nat /\ ENC_SLEEP \in Nat /\ BOUNCE \in Nat /\ APART \in Nat
  /\ Longer \in Nat /\ Rest \in Nat /\ PressBy \in Nat
  /\ 0 < BOUNCE /\ BOUNCE <= ENC_SLEEP /\ ENC_SLEEP <= Longer /\ HOST_LAG <= Longer
  /\ Longer < Rest /\ BOUNCE < Rest /\ BOUNCE < APART
  /\ BOUNCE <= PressBy /\ PressBy < Rest
  /\ BOUNCE + Longer + HOST_LAG <= PressBy + Rest
  /\ PressBy + Longer < Rest + BOUNCE
  <1>1. /\ HOST_LAG \in Nat /\ ENC_SLEEP \in Nat
        /\ BOUNCE \in Nat /\ STABLE \in Nat /\ APART \in Nat
        /\ 0 < BOUNCE /\ BOUNCE <= ENC_SLEEP /\ BOUNCE < APART
        /\ 2 * ENC_SLEEP + HOST_LAG < 2 * (BOUNCE + STABLE)
        /\ 3 * HOST_LAG < 2 * (BOUNCE + STABLE)
    BY TimingAssumption, MainAssumption
  <1>2. Rest \in Nat /\ Rest = BOUNCE + STABLE
    BY <1>1 DEF Rest
  <1>3. /\ Longer \in Nat /\ ENC_SLEEP <= Longer /\ HOST_LAG <= Longer
        /\ Longer = ENC_SLEEP \/ Longer = HOST_LAG
    BY <1>1 DEF Longer
  <1>4. Longer < Rest /\ BOUNCE < Rest /\ Longer + Longer + HOST_LAG < Rest + Rest
    BY <1>1, <1>2, <1>3
  <1>5. CASE Longer + HOST_LAG > Rest
    <2>1. PressBy = BOUNCE + Longer + HOST_LAG - Rest
      BY <1>5 DEF PressBy
    <2> QED BY <1>1, <1>2, <1>3, <1>4, <1>5, <2>1
  <1>6. CASE ~(Longer + HOST_LAG > Rest)
    <2>1. PressBy = BOUNCE
      BY <1>6 DEF PressBy
    <2> QED BY <1>1, <1>2, <1>3, <1>4, <1>6, <2>1
  <1> QED BY <1>5, <1>6

LEMMA DeadlineIs ==
  ASSUME NEW s \in {0, 1}
  PROVE  /\ Deadline(s) \in Nat /\ Deadline(s) < Rest + BOUNCE
         /\ BOUNCE + Longer <= Deadline(s)
         /\ s = 1 => Deadline(s) = PressBy + Longer
         /\ s = 0 => Deadline(s) = BOUNCE + Longer
  BY EncoderTimes DEF Deadline

LEMMA EncoderTyped ==
  ASSUME MInv, EncoderInv
  PROVE  /\ wait \in Nat /\ settle \in Nat /\ settle <= Rest /\ Slack \in Nat /\ Slack <= HOST_LAG
         /\ last_state \in {0, 1} /\ new_state \in {0, 1} /\ Known \in {0, 1}
         /\ level \in {0, 1} /\ other \in {0, 1}
         /\ Age(0) \in Nat /\ Age(new_state) \in Nat
  <1>1. wait \in Nat /\ last_state \in {0, 1} /\ new_state \in {0, 1}
    BY DEF MInv, TypeOK
  <1>2. settle \in Nat /\ settle <= Rest /\ level \in {0, 1} /\ other \in {0, 1}
    BY EncoderTimes DEF EncoderInv, EncoderAlone
  <1>3. Slack \in Nat /\ Slack <= HOST_LAG
    BY SlackIs DEF EncoderInv
  <1>4. Age(0) \in Nat /\ Age(new_state) \in Nat
    BY <1>2, EncoderTimes DEF Age
  <1> QED BY <1>1, <1>2, <1>3, <1>4 DEF Known

(* At an edge main() is up to date: the one before was dealt with. *)
LEMMA EdgeFindsRest ==
  ASSUME MInv, EncoderInv, settle = Rest
  PROVE  ~Pressing /\ Known = level
  <1> USE EncoderTimes, EncoderTyped
  <1>1. ~Pressing
    <2> SUFFICES ASSUME Pressing PROVE FALSE
      OBVIOUS
    <2>1. settle + Slack <= PressBy
      BY DEF EncoderInv, PressInTime
    <2> QED BY <2>1
  <1>2. CASE Releasing
    <2> SUFFICES ASSUME new_state # level PROVE FALSE
      BY <1>1, <1>2 DEF Known, Releasing
    <2>1. Age(new_state) + Slack <= Deadline(new_state)
      BY <1>2 DEF EncoderInv, ReleaseInTime
    <2>2. Age(new_state) = Rest + Rest
      BY DEF Age
    <2>3. Deadline(new_state) \in Nat /\ Deadline(new_state) < Rest + BOUNCE
      BY DeadlineIs
    <2> QED BY <2>1, <2>2, <2>3
  <1>3. CASE ~Releasing
    BY <1>1, <1>3 DEF EncoderInv, EdgeNoticed
  <1> QED BY <1>1, <1>2, <1>3

LEMMA TurnEncoder ==
  ASSUME MInv, EncoderInv, Turn
  PROVE  EncoderInv'
  <1> USE EncoderTimes, EncoderTyped
  <1>1. /\ UNCHANGED << mainvars, pace, remote, other >>
        /\ settle = Rest /\ settle' = 0 /\ level' = 1 - level
        /\ level = 0 => /\ owed' = owed + 1
                        /\ meant' = IF other = 1 THEN "VOLUME_UP" ELSE "VOLUME_DOWN"
        /\ level # 0 => UNCHANGED << owed, meant >>
    BY DEF Turn, Rest
  <1>2. ~Pressing /\ Known = level /\ ~Pressing' /\ Known' = Known
    BY <1>1, EdgeFindsRest DEF Pressing, Known, mainvars
  <1>3. Calm' /\ Slack' = Slack /\ Releasing' = Releasing /\ UNCHANGED << new_state, wait, pc >>
    BY <1>1, CalmSame, SlackSame DEF EncoderInv, mainvars, usbvars, Calm, Releasing
  <1>4. level' \in {0, 1} /\ level' # level
    BY <1>1
  <1>5. EncoderAlone'
    BY <1>1, <1>4 DEF EncoderInv, EncoderAlone, mainvars
  <1>6. EdgeNoticed' /\ PressInTime'
    BY <1>1, <1>2, <1>4 DEF EdgeNoticed, PressInTime
  <1>7. Age(0)' \in Nat /\ Age(0)' <= Age(0)
    BY <1>1, <1>4 DEF Age
  <1>8. ReleaseOut'
    <2>1. Age(0) + Slack <= Deadline(0) + HOST_LAG => Age(0)' + Slack <= Deadline(0) + HOST_LAG
      BY <1>7, DeadlineIs
    <2> QED BY <1>1, <1>2, <1>3, <2>1 DEF EncoderInv, ReleaseOut, Deadline
  <1>9. ReleaseInTime'
    <2> SUFFICES ASSUME Releasing PROVE ReleaseInTime'
      BY <1>3 DEF ReleaseInTime
    <2>1. new_state = level /\ new_state' # level'
      BY <1>2, <1>3, <1>4 DEF Known, Releasing
    <2>2. Age(new_state)' = Age(new_state)
      BY <1>1, <2>1 DEF Age
    <2>3. Deadline(new_state)' = Deadline(new_state)
      BY <1>3 DEF Deadline
    <2> QED BY <1>3, <2>1, <2>2, <2>3 DEF EncoderInv, ReleaseInTime
  <1>10. DirectionHolds'
    BY <1>1 DEF DirectionHolds
  <1>11. Owes'
    <2>1. owed = 0
      BY <1>2 DEF EncoderInv, Owes
    <2> QED BY <1>1, <1>2, <2>1 DEF Owes
  <1>12. RightDirection'
    BY <1>2 DEF RightDirection, Pressing
  <1> QED BY <1>3, <1>5, <1>6, <1>8, <1>9, <1>10, <1>11, <1>12 DEF EncoderInv

LEMMA TurnOtherEncoder ==
  ASSUME MInv, EncoderInv, TurnOther
  PROVE  EncoderInv'
  <1> USE EncoderTimes, EncoderTyped
  <1>1. /\ UNCHANGED << mainvars, pace, remote, level, settle, owed, meant >>
        /\ settle >= APART /\ other' = 1 - other
    BY DEF TurnOther
  <1>2. /\ Calm' /\ Slack' = Slack /\ UNCHANGED << pc, last_state, new_state, wait >>
        /\ Pressing' = Pressing /\ Releasing' = Releasing /\ Known' = Known
    BY <1>1, CalmSame, SlackSame
    DEF EncoderInv, mainvars, usbvars, Calm, Pressing, Releasing, Known
  <1>3. EncoderAlone'
    BY <1>1 DEF EncoderInv, EncoderAlone, mainvars
  <1>4. EdgeNoticed' /\ ReleaseOut' /\ PressInTime' /\ ReleaseInTime'
    BY <1>1, <1>2
    DEF EncoderInv, EdgeNoticed, ReleaseOut, PressInTime, ReleaseInTime, Age, Deadline
  <1>5. DirectionHolds'
    BY <1>1 DEF DirectionHolds
  <1>6. Owes' /\ RightDirection'
    BY <1>1, <1>2 DEF EncoderInv, Owes, RightDirection, mainvars
  <1> QED BY <1>2, <1>3, <1>4, <1>5, <1>6 DEF EncoderInv

LEMMA TickEncoder ==
  ASSUME MInv, EncoderInv, TurnTick
  PROVE  EncoderInv'
  <1> USE EncoderTimes, EncoderTyped
  <1>1. /\ PacedTick /\ looped' = FALSE
        /\ UNCHANGED << program, cdc, irvars, usbvars, remote, level, other, owed, meant >>
        /\ settle' = IF settle < Rest THEN settle + 1 ELSE settle
        /\ wait' = IF wait = 0 THEN 0 ELSE wait - 1
    BY DEF TurnTick, Tick, PacedTick, Rest
  <1>2. /\ settle' \in Nat /\ settle' <= Rest /\ settle <= settle' /\ settle' <= settle + 1
        /\ settle' = settle + 1 \/ settle' = Rest
    BY <1>1
  <1>3. /\ wait' \in Nat /\ wait' <= wait
        /\ 0 < wait => wait' + 1 = wait
    BY <1>1
  <1>4. /\ Calm' /\ Slack' \in Nat /\ Slack' <= Slack
        /\ 0 < Slack => Slack' + 1 <= Slack
    BY <1>1, SlackTick, CalmTick DEF EncoderInv
  <1>5. \/ pc = "top" /\ looped
        \/ pc = "enc_sleep" /\ 0 < wait
        \/ pc \in {"enc_press", "enc_release"} /\ 0 < Slack
    BY <1>1, TickWhen DEF PacedTick, EncoderInv, EncoderAlone, UpdatePcs
  <1>6. /\ UNCHANGED << pc, last_state, new_state >>
        /\ Pressing' = Pressing /\ Releasing' = Releasing /\ Known' = Known
    BY <1>1 DEF Pressing, Releasing, Known
  <1>7. EncoderAlone'
    BY <1>1, <1>2 DEF EncoderInv, EncoderAlone
  <1>8. EdgeNoticed'
    BY <1>1, <1>2, <1>5, <1>6 DEF EncoderInv, EdgeNoticed, Pressing, Releasing
  <1>9. /\ Age(0)' \in Nat /\ Age(0)' <= Age(0) + 1
        /\ Age(new_state)' \in Nat /\ Age(new_state)' <= Age(new_state) + 1
    BY <1>1, <1>2 DEF Age
  <1>10. ReleaseOut'
    <2> SUFFICES ASSUME ~Pressing, ~Releasing, Known = 0, 0 < Slack'
                 PROVE  Age(0)' + Slack' <= Deadline(0) + HOST_LAG
      BY <1>6 DEF ReleaseOut, Deadline
    <2>1. 0 < Slack /\ Slack' + 1 <= Slack
      BY <1>4
    <2>2. Age(0) + Slack <= Deadline(0) + HOST_LAG
      BY <2>1 DEF EncoderInv, ReleaseOut
    <2>3. Deadline(0) + HOST_LAG \in Nat
      BY DeadlineIs
    <2> HIDE DEF Deadline
    <2> QED BY <1>4, <1>9, <2>1, <2>2, <2>3, SumTick
  <1>11. PressInTime'
    <2> SUFFICES ASSUME Pressing PROVE PressInTime'
      BY <1>6 DEF PressInTime
    <2>1. pc = "enc_press" /\ Slack' + 1 <= Slack
      BY <1>4, <1>5 DEF Pressing
    <2>2. settle + Slack <= PressBy /\ new_state = 1 /\ level = 1
      BY DEF EncoderInv, PressInTime
    <2>3. settle' + Slack' <= PressBy
      BY <1>2, <1>4, <2>1, <2>2, SumTick
    <2> QED BY <1>1, <1>6, <2>1, <2>2, <2>3 DEF PressInTime
  <1>12. ReleaseInTime'
    <2> SUFFICES ASSUME Releasing PROVE ReleaseInTime'
      BY <1>6 DEF ReleaseInTime
    <2>0. Deadline(new_state) \in Nat /\ Deadline(new_state)' = Deadline(new_state)
      BY <1>6, DeadlineIs DEF Deadline
    <2>1. Age(new_state) + Slack <= Deadline(new_state)
      BY DEF EncoderInv, ReleaseInTime
    <2>2. CASE pc = "enc_sleep"
      <3>1. 0 < wait /\ wait' + 1 = wait
        BY <1>3, <1>5, <2>2
      <3>6. wait' + 1 <= wait
        BY <1>3, <3>1, NextIs
      <3>2. Age(new_state) + wait <= Deadline(new_state)
        BY <2>2 DEF EncoderInv, ReleaseInTime
      <3>3. Age(new_state)' + wait' <= Deadline(new_state)
        BY <1>3, <1>9, <2>0, <3>2, <3>6, SumTick
      <3>4. Age(new_state)' + Slack' <= Deadline(new_state)
        <4>1. CASE 0 < Slack
          <5>1. Slack' + 1 <= Slack
            BY <1>4, <4>1
          <5> QED BY <1>4, <1>9, <2>0, <2>1, <5>1, SumTick
        <4>2. CASE Slack = 0
          <5>1. Slack' = 0
            BY <1>4, <4>2
          <5>2. Age(new_state)' <= Deadline(new_state)
            BY <1>3, <1>9, <2>0, <3>3
          <5> QED BY <1>9, <2>0, <5>1, <5>2
        <4> QED BY <4>1, <4>2
      <3>5. new_state = level => BOUNCE <= settle' + wait'
        <4> SUFFICES ASSUME new_state = level PROVE BOUNCE <= settle' + wait'
          OBVIOUS
        <4>1. BOUNCE <= settle + wait
          BY <2>2 DEF EncoderInv, ReleaseInTime
        <4>2. settle' = settle + 1 \/ BOUNCE <= settle'
          BY <1>2
        <4> QED BY <1>2, <1>3, <3>1, <4>1, <4>2, SumKept
      <3> QED BY <1>1, <1>6, <2>0, <2>2, <3>3, <3>4, <3>5 DEF ReleaseInTime
    <2>3. CASE pc = "enc_release"
      <3>1. Slack' + 1 <= Slack
        BY <1>4, <1>5, <2>3
      <3>2. Age(new_state)' + Slack' <= Deadline(new_state)
        BY <1>4, <1>9, <2>0, <2>1, <3>1, SumTick
      <3>3. new_state = level => BOUNCE <= settle'
        BY <1>2, <2>3 DEF EncoderInv, ReleaseInTime
      <3> QED BY <1>1, <1>6, <2>0, <2>3, <3>2, <3>3 DEF ReleaseInTime
    <2> QED BY <2>2, <2>3 DEF Releasing
  <1>13. DirectionHolds'
    BY <1>1, <1>2 DEF EncoderInv, DirectionHolds
  <1>14. Owes' /\ RightDirection'
    BY <1>1, <1>6 DEF EncoderInv, Owes, RightDirection
  <1> QED BY <1>4, <1>7, <1>8, <1>10, <1>11, <1>12, <1>13, <1>14 DEF EncoderInv

(* Steps outside of a service. *)
LEMMA QuietEncoder ==
  ASSUME MInv, EncoderInv, Paced, Calm', Slack' = Slack,
         ~Pressing, ~Releasing, ~Pressing', ~Releasing', Known' = Known,
         UNCHANGED << new_state, owed >>,
         ~active', value_bits' = 0, rc5_data' = NoData, ~rc5_new',
         pc' \in {"top", "mute", "ir", "ir_bits", "ir_clear", "send", "bottom"},
         pc = "top" => Known = level \/ settle < BOUNCE
  PROVE  EncoderInv'
  <1> USE EncoderTyped
  <1>1. EncoderAlone'
    BY DEF Paced, EncoderInv, EncoderAlone
  <1>2. EdgeNoticed' /\ PressInTime' /\ ReleaseInTime'
    BY DEF Paced, EncoderInv, EdgeNoticed, PressInTime, ReleaseInTime
  <1>3. ReleaseOut'
    BY DEF Paced, EncoderInv, ReleaseOut, Age, Deadline
  <1>4. DirectionHolds' /\ Owes'
    BY DEF Paced, EncoderInv, DirectionHolds, Owes
  <1>5. RightDirection'
    BY DEF RightDirection
  <1> QED BY <1>1, <1>2, <1>3, <1>4, <1>5 DEF EncoderInv

LEMMA ReadEncoderInv ==
  ASSUME MInv, EncoderInv, TurnRead
  PROVE  EncoderInv'
  <1> USE EncoderTimes, EncoderTyped
  <1>0. PICK seen \in {0, 1} : (settle >= BOUNCE => seen = level) /\ ReadEncoder(seen)
    BY DEF TurnRead
  <1>1. /\ UNCHANGED << last_state, clear, rc5_data, rc5_new, key, since, cdc, irvars, usbvars >>
        /\ UNCHANGED << pace, remote, encoder >>
        /\ pc = "top" /\ new_state' = seen
        /\ seen = last_state => pc' = "mute" /\ wait' = wait
        /\ seen # last_state /\ seen = 1 => pc' = "enc_dir" /\ wait' = wait
        /\ seen # last_state /\ seen # 1 => pc' = "enc_sleep" /\ wait' = ENC_SLEEP
    BY <1>0 DEF TurnRead, ReadEncoder
  <1>2. Calm' /\ Slack' = Slack
    BY <1>1, CalmSame, SlackSame DEF EncoderInv, Calm, usbvars
  <1>3. ~Pressing /\ ~Releasing /\ Known = last_state /\ Known' = seen
    BY <1>1 DEF Pressing, Releasing, Known
  <1>4. EncoderAlone'
    BY <1>1 DEF EncoderInv, EncoderAlone
  <1>5. DirectionHolds'
    BY <1>1 DEF EncoderInv, DirectionHolds
  <1>6. RightDirection'
    BY <1>1 DEF RightDirection
  <1>7. Age(0)' = Age(0) /\ Deadline(0)' = Deadline(0)
    BY <1>1 DEF Age, Deadline
  <1>8. CASE seen = last_state
    <2>1. ~Pressing' /\ ~Releasing' /\ Known' = Known
      BY <1>1, <1>3, <1>8 DEF Pressing, Releasing
    <2>2. EdgeNoticed'
      BY <1>0, <1>1, <1>3, <1>8 DEF EncoderInv, EdgeNoticed
    <2>3. ReleaseOut'
      BY <1>2, <1>3, <1>7, <2>1 DEF EncoderInv, ReleaseOut
    <2>4. PressInTime' /\ ReleaseInTime'
      BY <2>1 DEF PressInTime, ReleaseInTime
    <2>5. Owes'
      BY <1>1, <1>3, <2>1 DEF EncoderInv, Owes
    <2> QED BY <1>2, <1>4, <1>5, <1>6, <2>2, <2>3, <2>4, <2>5 DEF EncoderInv
  <1>9. CASE seen # last_state /\ seen = 1
    <2>1. pc' = "enc_dir" /\ last_state = 0
      BY <1>1, <1>9
    <2>2. Pressing' /\ ~Releasing'
      BY <2>1 DEF Pressing, Releasing
    <2>3. level = 1 /\ settle <= BOUNCE
      BY <1>0, <1>3, <1>9, <2>1 DEF EncoderInv, EdgeNoticed
    <2>4. settle + Slack <= PressBy
      <3>1. CASE 0 < Slack
        <4>1. Age(0) + Slack <= Deadline(0) + HOST_LAG
          BY <1>3, <2>1, <3>1 DEF EncoderInv, ReleaseOut
        <4>2. Age(0) = settle + Rest /\ Deadline(0) = BOUNCE + Longer
          BY <2>3, DeadlineIs DEF Age
        <4> QED BY <4>1, <4>2
      <3>2. CASE Slack = 0
        BY <2>3, <3>2
      <3> QED BY <3>1, <3>2
    <2>5. EdgeNoticed' /\ ReleaseOut' /\ ReleaseInTime'
      BY <2>2 DEF EdgeNoticed, ReleaseOut, ReleaseInTime
    <2>6. PressInTime'
      BY <1>1, <1>2, <1>9, <2>3, <2>4 DEF PressInTime
    <2>7. Owes'
      BY <1>1, <1>3, <2>1, <2>2, <2>3 DEF EncoderInv, Owes
    <2> QED BY <1>2, <1>4, <1>5, <1>6, <2>5, <2>6, <2>7 DEF EncoderInv
  <1>10. CASE seen # last_state /\ seen # 1
    <2>1. pc' = "enc_sleep" /\ wait' = ENC_SLEEP /\ seen = 0 /\ last_state = 1
      BY <1>1, <1>10
    <2>2. ~Pressing' /\ Releasing'
      BY <2>1 DEF Pressing, Releasing
    <2>3. level = 0 /\ settle <= BOUNCE
      BY <1>0, <1>3, <2>1 DEF EncoderInv, EdgeNoticed
    <2>4. Age(0) <= BOUNCE /\ Deadline(0) = BOUNCE + Longer
      BY <2>3, DeadlineIs DEF Age
    <2>5. Age(0) + Slack <= Deadline(0) /\ Age(0) + ENC_SLEEP <= Deadline(0)
      BY <2>4
    <2>6. BOUNCE <= settle + ENC_SLEEP
      OBVIOUS
    <2>7. EdgeNoticed' /\ ReleaseOut' /\ PressInTime'
      BY <2>2 DEF EdgeNoticed, ReleaseOut, PressInTime
    <2>8. ReleaseInTime'
      <3>1. Age(new_state)' = Age(0) /\ Deadline(new_state)' = Deadline(0)
        BY <1>1, <2>1 DEF Age, Deadline
      <3>2. wait' = ENC_SLEEP /\ pc' # "enc_release" /\ settle' = settle
        BY <1>1, <2>1
      <3> QED BY <1>2, <2>5, <2>6, <3>1, <3>2 DEF ReleaseInTime
    <2>9. Owes'
      BY <1>1, <1>3, <2>1, <2>2, <2>3 DEF EncoderInv, Owes
    <2> QED BY <1>2, <1>4, <1>5, <1>6, <2>7, <2>8, <2>9 DEF EncoderInv
  <1> QED BY <1>8, <1>9, <1>10

LEMMA DirectionEncoder ==
  ASSUME MInv, EncoderInv, TurnDirection
  PROVE  EncoderInv'
  <1> USE EncoderTimes, EncoderTyped
  <1>1. /\ UNCHANGED << last_state, new_state, clear, rc5_data, rc5_new, time, cdc >>
        /\ UNCHANGED << irvars, usbvars >>
        /\ UNCHANGED << pace, remote, encoder >>
        /\ pc = "enc_dir" /\ pc' = "enc_press"
        /\ key' = IF other # new_state THEN "VOLUME_DOWN" ELSE "VOLUME_UP"
    BY DEF TurnDirection, ReadDirection
  <1>2. Calm' /\ Slack' = Slack
    BY <1>1, CalmSame, SlackSame DEF EncoderInv, Calm, usbvars
  <1>3. Pressing /\ Pressing' /\ ~Releasing' /\ Known' = Known
    BY <1>1 DEF Pressing, Releasing, Known
  <1>4. EncoderAlone'
    BY <1>1 DEF EncoderInv, EncoderAlone
  <1>5. EdgeNoticed' /\ ReleaseOut' /\ ReleaseInTime'
    BY <1>3 DEF EdgeNoticed, ReleaseOut, ReleaseInTime
  <1>6. new_state = 1 /\ level = 1 /\ settle + Slack <= PressBy /\ settle <= BOUNCE
    BY <1>1, <1>3 DEF EncoderInv, PressInTime
  <1>7. PressInTime'
    BY <1>1, <1>2, <1>6 DEF PressInTime
  <1>8. DirectionHolds' /\ Owes'
    BY <1>1, <1>3 DEF EncoderInv, DirectionHolds, Owes
  <1>9. RightDirection'
    BY <1>1, <1>6 DEF EncoderInv, DirectionHolds, RightDirection
  <1> QED BY <1>2, <1>4, <1>5, <1>7, <1>8, <1>9 DEF EncoderInv

LEMMA PressEncoder ==
  ASSUME MInv, EncoderInv, EncoderPress, Paced, owed' = owed - 1
  PROVE  EncoderInv'
  <1> USE EncoderTimes, EncoderTyped
  <1>1. /\ UNCHANGED << last_state, new_state, clear, rc5_data, rc5_new, key, since, cdc, irvars >>
        /\ pc = "enc_press" /\ pc' = "enc_sleep" /\ wait' = ENC_SLEEP
    BY DEF EncoderPress
  <1>2. Calm' /\ Slack = 0 /\ Slack' = HOST_LAG
    BY <1>1, CalmUpdate DEF EncoderInv, EncoderPress, Paced
  <1>3. Pressing /\ ~Pressing' /\ Releasing'
    BY <1>1 DEF Pressing, Releasing
  <1>4. EncoderAlone'
    BY <1>1 DEF Paced, EncoderInv, EncoderAlone
  <1>5. EdgeNoticed' /\ ReleaseOut' /\ PressInTime'
    BY <1>3 DEF EdgeNoticed, ReleaseOut, PressInTime
  <1>6. new_state = 1 /\ level = 1 /\ settle <= PressBy
    BY <1>2, <1>3 DEF EncoderInv, PressInTime
  <1>7. ReleaseInTime'
    <2>1. Age(new_state)' = settle /\ Deadline(new_state)' = PressBy + Longer
      BY <1>1, <1>6 DEF Paced, Age, Deadline
    <2>2. settle + HOST_LAG <= PressBy + Longer /\ settle + ENC_SLEEP <= PressBy + Longer
      BY <1>6
    <2>3. BOUNCE <= settle + ENC_SLEEP
      OBVIOUS
    <2> QED BY <1>1, <1>2, <2>1, <2>2, <2>3 DEF Paced, ReleaseInTime
  <1>8. DirectionHolds'
    BY DEF Paced, EncoderInv, DirectionHolds
  <1>9. Owes'
    <2>1. owed = 1
      BY <1>3, <1>6 DEF EncoderInv, Owes
    <2>2. owed' = 0 /\ Known' = 1
      BY <1>1, <1>6, <2>1 DEF Known
    <2> QED BY <1>3, <2>2 DEF Owes
  <1>10. RightDirection'
    BY <1>1 DEF RightDirection
  <1> QED BY <1>2, <1>4, <1>5, <1>7, <1>8, <1>9, <1>10 DEF EncoderInv

LEMMA WakeEncoder ==
  ASSUME MInv, EncoderInv, EncoderWake, Paced, owed' = owed
  PROVE  EncoderInv'
  <1> USE EncoderTimes, EncoderTyped
  <1>1. /\ UNCHANGED << last_state, new_state, clear, rc5_data, rc5_new, key, time, cdc >>
        /\ UNCHANGED << irvars, usbvars >>
        /\ pc = "enc_sleep" /\ pc' = "enc_release" /\ wait = 0
    BY DEF EncoderWake
  <1>2. Calm' /\ Slack' = Slack
    BY <1>1, CalmSame, SlackSame DEF EncoderInv, Calm, usbvars, Paced
  <1>3. ~Pressing /\ Releasing /\ ~Pressing' /\ Releasing' /\ Known' = Known
    BY <1>1 DEF Pressing, Releasing, Known
  <1>4. EncoderAlone'
    BY <1>1 DEF Paced, EncoderInv, EncoderAlone
  <1>5. EdgeNoticed' /\ ReleaseOut' /\ PressInTime'
    BY <1>3 DEF EdgeNoticed, ReleaseOut, PressInTime
  <1>6. ReleaseInTime'
    <2>1. Age(new_state)' = Age(new_state) /\ Deadline(new_state)' = Deadline(new_state)
      BY <1>1 DEF Paced, Age, Deadline
    <2>2. new_state = level => BOUNCE <= settle
      BY <1>1, <1>3 DEF EncoderInv, ReleaseInTime
    <2> QED BY <1>1, <1>2, <1>3, <2>1, <2>2 DEF Paced, EncoderInv, ReleaseInTime
  <1>7. DirectionHolds' /\ Owes'
    BY <1>3 DEF Paced, EncoderInv, DirectionHolds, Owes
  <1>8. RightDirection'
    BY <1>1 DEF RightDirection
  <1> QED BY <1>2, <1>4, <1>5, <1>6, <1>7, <1>8 DEF EncoderInv

LEMMA ReleaseEncoder ==
  ASSUME MInv, EncoderInv, EncoderRelease, Paced, owed' = owed
  PROVE  EncoderInv'
  <1> USE EncoderTimes, EncoderTyped
  <1>1. /\ UNCHANGED << last_state, new_state, clear, rc5_data, rc5_new, key, time, cdc, irvars >>
        /\ pc = "enc_release" /\ pc' = "mute"
    BY DEF EncoderRelease
  <1>2. Calm' /\ Slack = 0 /\ Slack' = HOST_LAG
    BY <1>1, CalmUpdate DEF EncoderInv, EncoderRelease, Paced
  <1>3. /\ ~Pressing /\ Releasing /\ ~Pressing' /\ ~Releasing'
        /\ Known = new_state /\ Known' = new_state
    BY <1>1 DEF Pressing, Releasing, Known
  <1>4. EncoderAlone'
    BY <1>1 DEF Paced, EncoderInv, EncoderAlone
  <1>5. PressInTime' /\ ReleaseInTime'
    BY <1>3 DEF PressInTime, ReleaseInTime
  <1>6. Age(new_state) <= Deadline(new_state)
    BY <1>2, <1>3 DEF EncoderInv, ReleaseInTime
  <1>7. EdgeNoticed'
    <2>1. new_state = level => settle >= BOUNCE
      BY <1>1, <1>3 DEF EncoderInv, ReleaseInTime
    <2>2. ASSUME new_state # level PROVE settle < BOUNCE
      <3>1. Age(new_state) = settle + Rest
        BY <2>2 DEF Age
      <3>2. Deadline(new_state) \in Nat /\ Deadline(new_state) < Rest + BOUNCE
        BY DeadlineIs
      <3> QED BY <1>6, <3>1, <3>2
    <2> QED BY <1>3, <2>1, <2>2 DEF Paced, EdgeNoticed
  <1>8. ReleaseOut'
    <2>1. new_state = 0 => Age(0)' + HOST_LAG <= Deadline(0)' + HOST_LAG
      <3> SUFFICES ASSUME new_state = 0 PROVE Age(0)' + HOST_LAG <= Deadline(0)' + HOST_LAG
        OBVIOUS
      <3>1. Age(0)' = Age(0) /\ Deadline(0)' = Deadline(0)
        BY DEF Paced, Age, Deadline
      <3>2. Deadline(0) \in Nat /\ Age(0) <= Deadline(0)
        BY <1>6, DeadlineIs
      <3>3. Age(0) + HOST_LAG <= Deadline(0) + HOST_LAG
        BY <3>2
      <3> QED BY <3>1, <3>3
    <2> QED BY <1>2, <1>3, <2>1 DEF ReleaseOut
  <1>9. DirectionHolds' /\ Owes'
    BY <1>3 DEF Paced, EncoderInv, DirectionHolds, Owes
  <1>10. RightDirection'
    BY <1>1 DEF RightDirection
  <1> QED BY <1>2, <1>4, <1>5, <1>7, <1>8, <1>9, <1>10 DEF EncoderInv

(* The polls find nothing. *)
LEMMA IdleEncoder ==
  ASSUME MInv, EncoderInv, Paced, owed' = owed,
         ReadMute(1) \/ PollActive \/ PollBits \/ PollClear \/ ChooseKey
  PROVE  EncoderInv'
  <1>0. ~active /\ value_bits = 0 /\ rc5_data = NoData /\ ~rc5_new /\ ~clear /\ ~cdc
    BY DEF EncoderInv, EncoderAlone, Calm
  <1>1. /\ UNCHANGED << last_state, new_state, usbvars, cdc >>
        /\ clear' = clear \/ ~clear'
        /\ UNCHANGED << active, value_bits >> \/ (active' = active /\ value_bits' = 0)
    <2>1. CASE ReadMute(1)
      BY <2>1 DEF ReadMute
    <2>2. CASE PollActive
      BY <2>2 DEF PollActive, IrLook
    <2>3. CASE PollBits
      BY <2>3 DEF PollBits
    <2>4. CASE PollClear
      BY <2>4 DEF PollClear, IrClear
    <2>5. CASE ChooseKey
      BY <2>5 DEF ChooseKey
    <2> QED BY <2>1, <2>2, <2>3, <2>4, <2>5
  <1>2. rc5_data' = NoData /\ ~rc5_new'
    <2>1. CASE PollBits
      <3>1. \/ UNCHANGED << rc5_data, rc5_new >>
            \/ rc5_data' = NoData /\ rc5_new' = (rc5_new \/ NoData # rc5_data)
        BY <2>1 DEF PollBits, NewData
      <3>2. rc5_data' = NoData
        BY <1>0, <3>1
      <3>3. ~(rc5_new \/ NoData # rc5_data)
        BY <1>0
      <3>4. ~rc5_new'
        BY <1>0, <3>1, <3>3, Zenon
      <3> QED BY <3>2, <3>4
    <2>2. CASE ~PollBits
      BY <1>0, <2>2 DEF ReadMute, PollActive, PollClear, ChooseKey
    <2> QED BY <2>1, <2>2
  <1>3. pc \in {"mute", "ir", "ir_bits", "ir_clear", "send"}
    BY DEF ReadMute, PollActive, PollBits, PollClear, ChooseKey
  <1>4. pc' \in {"ir", "ir_bits", "ir_clear", "send", "bottom"}
    <2>1. CASE ReadMute(1)
      <3>1. 1 # 0
        OBVIOUS
      <3> QED BY <1>0, <2>1, <3>1 DEF ReadMute
    <2>2. CASE PollActive
      BY <2>2 DEF PollActive
    <2>3. CASE PollBits
      <3>1. ~WholeFrame
        BY <1>0, ChannelAssumption DEF WholeFrame
      <3> QED BY <2>3, <3>1 DEF PollBits
    <2>4. CASE PollClear \/ ChooseKey
      BY <1>0, <2>4 DEF PollClear, ChooseKey
    <2> QED BY <2>1, <2>2, <2>3, <2>4
  <1>5. ~Pressing /\ ~Releasing /\ ~Pressing' /\ ~Releasing' /\ Known' = Known /\ pc # "top"
    BY <1>1, <1>3, <1>4 DEF Pressing, Releasing, Known
  <1>6. Calm' /\ Slack' = Slack
    BY <1>0, <1>1, CalmSame, SlackSame DEF EncoderInv, usbvars, Paced
  <1> QED BY <1>0, <1>1, <1>2, <1>4, <1>5, <1>6, QuietEncoder

LEMMA TaskEncoder ==
  ASSUME MInv, EncoderInv, LoopBottom \/ AwaitHost, Paced, owed' = owed
  PROVE  EncoderInv'
  <1>1. /\ UNCHANGED << new_state, clear, rc5_data, rc5_new, key, time, irvars >>
        /\ tud_task /\ ~cdc'
        /\ \/ pc = "bottom" /\ pc' = "top" /\ last_state' = new_state
           \/ /\ pc \in {"enc_press", "enc_release"} /\ pc' = pc /\ last_state' = last_state
              /\ (looped' => looped)
    BY DEF LoopBottom, AwaitHost, KeyboardWait, UpdatePcs, Paced, EncoderInv, EncoderAlone, Calm
  <1>2. Calm' /\ Slack' = Slack
    BY <1>1, CalmTask DEF EncoderInv, Paced
  <1>3. CASE pc = "bottom"
    <2>1. ~Pressing /\ ~Releasing /\ ~Pressing' /\ ~Releasing' /\ Known' = Known
      BY <1>1, <1>3 DEF Pressing, Releasing, Known
    <2>2. ~active' /\ value_bits' = 0 /\ rc5_data' = NoData /\ ~rc5_new'
      BY <1>1 DEF EncoderInv, EncoderAlone
    <2> QED BY <1>1, <1>2, <1>3, <2>1, <2>2, QuietEncoder
  <1>4. CASE pc # "bottom"
    <2>1. /\ UNCHANGED << pc, last_state, new_state, wait >>
          /\ Pressing' = Pressing /\ Releasing' = Releasing /\ Known' = Known
      BY <1>1, <1>4 DEF Pressing, Releasing, Known
    <2>2. EncoderAlone'
      BY <1>1, <2>1 DEF Paced, EncoderInv, EncoderAlone
    <2>3. EdgeNoticed'
      BY <1>1, <1>4 DEF EdgeNoticed, Pressing, Releasing
    <2>4. ReleaseOut' /\ PressInTime' /\ ReleaseInTime'
      BY <1>2, <2>1
      DEF Paced, EncoderInv, ReleaseOut, PressInTime, ReleaseInTime, Age, Deadline
    <2>5. DirectionHolds' /\ Owes' /\ RightDirection'
      BY <1>1, <2>1 DEF Paced, EncoderInv, DirectionHolds, Owes, RightDirection
    <2> QED BY <1>2, <2>2, <2>3, <2>4, <2>5 DEF EncoderInv
  <1> QED BY <1>3, <1>4

LEMMA HostEncoder ==
  ASSUME MInv, EncoderInv, PacedHost
  PROVE  EncoderInv'
  <1> USE EncoderTimes, EncoderTyped
  <1>1. Calm' /\ Slack' = 0
    BY CalmHost DEF EncoderInv
  <1>2. /\ UNCHANGED << program, time, cdc, irvars, looped, remote, encoder >>
        /\ Pressing' = Pressing /\ Releasing' = Releasing /\ Known' = Known
    BY DEF PacedHost, Pressing, Releasing, Known
  <1>3. EncoderAlone' /\ EdgeNoticed' /\ ReleaseOut'
    BY <1>1, <1>2 DEF EncoderInv, EncoderAlone, EdgeNoticed, ReleaseOut
  <1>4. PressInTime'
    <2>1. Pressing => settle + 0 <= PressBy
      BY DEF EncoderInv, PressInTime
    <2> QED BY <1>1, <1>2, <2>1 DEF EncoderInv, PressInTime
  <1>5. ReleaseInTime'
    <2>1. Deadline(new_state) \in Nat
      BY DeadlineIs
    <2>2. Releasing => Age(new_state) + 0 <= Deadline(new_state)
      BY <2>1 DEF EncoderInv, ReleaseInTime
    <2>3. Age(new_state)' = Age(new_state) /\ Deadline(new_state)' = Deadline(new_state)
      BY <1>2 DEF Age, Deadline
    <2> QED BY <1>1, <1>2, <2>2, <2>3 DEF EncoderInv, ReleaseInTime
  <1>6. DirectionHolds' /\ Owes' /\ RightDirection'
    BY <1>2 DEF EncoderInv, DirectionHolds, Owes, RightDirection
  <1> QED BY <1>1, <1>3, <1>4, <1>5, <1>6 DEF EncoderInv

LEMMA ComputeEncoder ==
  ASSUME MInv, EncoderInv, PacedCompute
  PROVE  EncoderInv'
  <1>1. Paced
    BY DEF PacedCompute, Paced
  <1>2. pc \notin {"mute_press", "mute_sleep", "mute_release", "ir_value", "ir_release",
                   "ir_sleep", "ir_send"}
    BY DEF EncoderInv, EncoderAlone
  <1>3. \/ EncoderPress \/ EncoderWake \/ EncoderRelease
        \/ ReadMute(1) \/ PollActive \/ PollBits \/ PollClear \/ ChooseKey
        \/ LoopBottom \/ AwaitHost
    BY <1>2, CalmNoFault
    DEF EncoderInv, PacedCompute, Compute, MutePress, MuteWake, MuteRelease, PollValue,
        IrRelease, IrWake, IrSend
  <1>4. CASE EncoderPress
    <2>1. owed' = owed - 1
      BY <1>4 DEF PacedCompute, EncoderPress
    <2> QED BY <1>1, <1>4, <2>1, PressEncoder
  <1>5. CASE ~EncoderPress
    <2>1. pc = "enc_press" => pc' = pc
      BY <1>3, <1>5 DEF EncoderWake, EncoderRelease, ReadMute, PollActive, PollBits,
         PollClear, ChooseKey, LoopBottom, AwaitHost
    <2>2. owed' = owed
      BY <2>1 DEF PacedCompute
    <2> QED BY <1>1, <1>3, <1>5, <2>2, WakeEncoder, ReleaseEncoder, IdleEncoder, TaskEncoder
  <1> QED BY <1>4, <1>5

LEMMA EncoderStep ==
  ASSUME MInv, EncoderInv, TurnNext
  PROVE  MInv' /\ EncoderInv'
  <1>0. Alive /\ other \in {0, 1}
    BY DEF EncoderInv, EncoderAlone, Alive
  <1>1. CASE Turn \/ TurnOther
    BY <1>1, TurnEncoder, TurnOtherEncoder, StutterMInv DEF Turn, TurnOther
  <1>2. CASE TurnTick
    BY <1>2, TickMInv, TickEncoder DEF TurnTick
  <1>3. CASE TurnRead
    <2>1. ReadPin
      BY <1>3 DEF TurnRead, ReadPin
    <2> QED BY <1>3, <2>1, ReadPinMInv, ReadEncoderInv
  <1>4. CASE TurnDirection
    <2>1. ReadPin
      BY <1>0, <1>4 DEF TurnDirection, ReadPin
    <2> QED BY <1>4, <2>1, ReadPinMInv, DirectionEncoder
  <1>5. CASE PacedCompute
    <2>1. ReadMute(1) => ReadPin
      BY DEF ReadPin
    <2>2. Running
      BY <1>5, <2>1 DEF PacedCompute, Running
    <2> QED BY <1>0, <1>5, <2>2, RunningMInv, ComputeEncoder
  <1>6. CASE PacedHost
    <2>1. Host
      BY <1>6 DEF PacedHost, Host, UsbEnv
    <2> QED BY <1>0, <1>6, <2>1, HostMInv, HostEncoder DEF Alive
  <1> QED BY <1>1, <1>2, <1>3, <1>4, <1>5, <1>6 DEF TurnNext

LEMMA EncoderInit == ASSUME TimedInit PROVE EncoderInv
  <1> USE EncoderTimes
  <1>1. Calm /\ Slack = 0
    BY DEF TimedInit, Calm, Slack
  <1>2. settle = Rest /\ Known = 0 /\ level = 0 /\ ~Pressing /\ ~Releasing /\ owed = 0
    BY DEF TimedInit, Rest, Known, Pressing, Releasing
  <1>3. EncoderAlone
    BY <1>2 DEF TimedInit, IrInit, EncoderAlone
  <1>4. EdgeNoticed /\ ReleaseOut /\ PressInTime /\ ReleaseInTime
    BY <1>1, <1>2 DEF EdgeNoticed, ReleaseOut, PressInTime, ReleaseInTime
  <1>5. DirectionHolds /\ Owes /\ RightDirection
    BY <1>2 DEF DirectionHolds, Owes, RightDirection, Pressing
  <1> QED BY <1>1, <1>3, <1>4, <1>5 DEF EncoderInv

-----------------------------------------------------------------------------
(* Either user, from then on. *)
TimedInv ==
  /\ MInv
  /\ \/ user = "remote" /\ RemoteInv /\ owed = 0
     \/ user = "encoder" /\ EncoderInv

LEMMA TimedStutter == ASSUME TimedInv, UNCHANGED timedvars PROVE TimedInv'
  <1> USE DEF timedvars
  <1>1. MInv' /\ UNCHANGED << user, owed >>
    BY StutterMInv DEF TimedInv
  <1>2. Slack' = Slack /\ (Calm => Calm')
    BY DEF Slack, Calm, mainvars, usbvars
  <1>3. RemoteInv => RemoteInv'
    <2> SUFFICES ASSUME RemoteInv PROVE RemoteInv'
      OBVIOUS
    <2>1. RemoteAlone' /\ GoneByPhase' /\ TakenAtOnce' /\ SilenceNoticed' /\ ClockIsGone'
      BY DEF mainvars, Pending, RemoteInv, RemoteAlone, GoneByPhase, TakenAtOnce,
         SilenceNoticed, ClockIsGone
    <2>2. KeyInTime' /\ NoneLeft' /\ DataIsButton' /\ HeldInTime'
      BY <1>2 DEF mainvars, Pending, RemoteInv, KeyInTime, NoneLeft, DataIsButton,
         HeldInTime, InFlight
    <2> QED BY <1>2, <2>1, <2>2 DEF RemoteInv
  <1>4. EncoderInv => EncoderInv'
    BY <1>2 DEF mainvars, EncoderInv, EncoderAlone, EdgeNoticed, ReleaseOut, PressInTime,
       ReleaseInTime, DirectionHolds, Owes, RightDirection, Known, Pressing, Releasing,
       Age, Deadline
  <1> QED BY <1>1, <1>3, <1>4 DEF TimedInv

LEMMA TimedStep == ASSUME TimedInv, [TimedNext]_timedvars PROVE TimedInv'
  <1>1. CASE user = "remote" /\ RemoteNext /\ UNCHANGED user
    BY <1>1, RemoteStep DEF TimedInv
  <1>2. CASE user = "encoder" /\ TurnNext /\ UNCHANGED user
    BY <1>2, EncoderStep DEF TimedInv
  <1>3. CASE UNCHANGED timedvars
    BY <1>3, TimedStutter
  <1> QED BY <1>1, <1>2, <1>3 DEF TimedNext

LEMMA TimedInvHolds == TimedSpec => []TimedInv
  <1>1. TimedInit => TimedInv
    <2> SUFFICES ASSUME TimedInit PROVE TimedInv
      OBVIOUS
    <2>1. user \in {"remote", "encoder"} /\ owed = 0
      BY DEF TimedInit
    <2> QED BY <2>1, TimedInitMInv, RemoteInit, EncoderInit DEF TimedInv
  <1>2. TimedInv /\ [TimedNext]_timedvars => TimedInv'
    BY TimedStep
  <1> QED BY <1>1, <1>2, PTL DEF TimedSpec

(* A button that was let go of releases its key in time. *)
THEOREM LetGoReleasesCorrect == TimedSpec => []LetGoReleases
  <1>1. TimedInv => LetGoReleases
    BY RemoteReleases DEF TimedInv, LetGoReleases
  <1> QED BY <1>1, TimedInvHolds, PTL

(* Every rising edge of the encoder is one tap, sent before the next.      *)
THEOREM OneTapPerEdgeCorrect == TimedSpec => []OneTapPerEdge
  <1>1. TimedInv => OneTapPerEdge
    BY DEF TimedInv, OneTapPerEdge, EncoderInv, Owes
  <1> QED BY <1>1, TimedInvHolds, PTL

(* The tap is in the direction in which the encoder was turned. *)
THEOREM RightDirectionCorrect == TimedSpec => []RightDirection
  <1>1. TimedInv => RightDirection
    BY DEF TimedInv, RightDirection, EncoderInv, RemoteInv, RemoteAlone
  <1> QED BY <1>1, TimedInvHolds, PTL

(* A button that is held down keeps its key down. *)
THEOREM HeldKeyStaysDownCorrect == TimedSpec => HeldKeyStaysDown
  <1> DEFINE Holds == held /\ held' /\ rc5_data = rc5_decode(button) => rc5_data' = rc5_data
  <1>1. TimedInv /\ [TimedNext]_timedvars => [Holds]_timedvars
    <2> SUFFICES ASSUME TimedInv, TimedNext, held, rc5_data = rc5_decode(button)
                 PROVE  rc5_data' = rc5_data
      BY DEF Holds
    <2>1. CASE user = "remote"
      BY <2>1, RemoteHolds DEF TimedInv, TimedNext
    <2>2. CASE user = "encoder"
      BY <2>2 DEF TimedInv, EncoderInv, EncoderAlone
    <2> QED BY <2>1, <2>2 DEF TimedInv
  <1>2. [][TimedNext]_timedvars /\ []TimedInv => [][Holds]_timedvars
    BY <1>1, PTL
  <1> QED BY <1>2, TimedInvHolds, PTL DEF TimedSpec, HeldKeyStaysDown, Holds
=============================================================================
