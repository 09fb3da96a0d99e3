# Verification of the volume control firmware

The firmware (`code/src`) turns a Raspberry Pi Pico into a USB keyboard with a
volume knob, a mute button and an infrared receiver. It grew out of the firmware
of a split keyboard, whose sources are still built into it although `main()` does
not call them. This directory holds TLA+ models of the program, TLC runs that
check them on small instances, and TLAPS proofs of the properties that matter
most. Paths below are relative to the repository.

## The system

| component | state | operations | interacts with |
|---|---|---|---|
| infrared receiver, `main.c:39-85` | `ir` (active, last, count, value, value_bits) | `irq_sample_ir`, every 100 us in an interrupt | reads gpio 28; shares `ir` with `main()` without a lock |
| `rc5_decode` and key table, `main.c:19-37,94-109,196-219` | none | pure | called by `main()` |
| main loop, `main.c:144-233` | last_state, clear, rc5_data, rc5_new, rc5_last | polls encoder, mute button, `ir`; sends reports; `usb_task` | everything |
| `keyboard_update`, `usb.c:70-85` | none of its own | waits until the host has fetched the last report, then hands over the next | TinyUSB |
| TinyUSB (`sdk/lib/tinyusb`), USB interrupt and host | mounted, suspended, endpoint busy, event queue | interrupt queues events, `tud_task` acts on them | called by `usb.c` |
| serial input, `usb.c:18-68` | line buffer, received line | `usb_task`, `handle_cdc_input`, `cdc_get_line`; the line `reset` enters the boot ROM | TinyUSB |
| serial output, `usb.c:87-128` | none of its own; the transmit FIFO of TinyUSB | `cdc_printf` | TinyUSB; called by key slots, Hamming decoder, key processing |
| key processing, `process_input.c` | current_mode, current_modifiers, shift_down | `process_input` | calls `send_over_hid` |
| key slots, `send_over_hid.c` | depressed_keys[6], modifiers | `send_over_hid` | calls `keyboard_update` |
| key matrix, `monitor_matrix.c` | debounced matrix, mailbox, queue of 30 | `monitor_keys` on one core, `matrix_monitor_get_event` on the other | atomic flag between the cores |
| Hamming code, `hamming.[ch]` | none | pure | - |
| link between the halves, `trrs.c` | UART | `trrs_send`, `trrs_read` | other half |
| key maps, descriptors, configuration | constants | - | - |

What is hard in this code, and what would make it correct:

* **The receiver and `main()` share `ir` without a lock.** The interrupt may run
  between any two accesses of `main()`. A word that is taken must be one that was
  sent, whole, and once; a reception must end; and a frame should not be lost.
* **Three inputs share one report.** Encoder, mute button and infrared data each
  press and release keys by overwriting the whole report. Whatever the order, a
  key that is down must have somebody who will release it.
* **`keyboard_update` waits for the host.** The host suspends, resumes, resets and
  configures on its own time. No report may be overwritten on its way, no reset may
  leave a key stuck, and the wait must end.
* **Time.** RC-5 repeats every 114 ms and the release time-out is 100 ms; the
  encoder bounces; the clock wraps.
* **Modes of the keyboard.** Presses and releases of one key can meet different
  modes; vim mode holds a shift of its own.
* **Two cores and a queue emptied from the wrong end** (`monitor_matrix.c`).
* **The serial port.** Packets cut lines anywhere, a line buffer outlives packets and
  bus resets, and the host writes when it likes. Text must not be lost by the device,
  a line not be overrun, and the command `reset` must get through. In the other
  direction one packet buffer is filled by prints, completions and input alike, and
  a ring buffer overwrites itself until somebody listens.
* **The link between the halves** has no marks between packets: one lost byte puts the
  receiver out of step until a pause.

`PROJECT.json` lists these hazards line by line, with the property that covers each.

## The modules

    Rc5          IrReceiver ---implements---> IrChannel     UsbHid
     |                                            |            |
     +--------------------+-----------------------+------------+
                          |
                       MainLoop ---- MCMainLoop, MCMainLive, MCTimed
                          +---------implements---> KeyboardPipe
    Text ----- CdcInput ------------implements---> LineStream
                  +----------------- MCCdcInput
    Fifo ----- CdcOutput
    ProcessInput ------------------- MCProcessInput
    MatrixMonitor ------------------ MCMatrixMonitor
    Hamming, Rc5 ------------------- MCWords
    Trrs

* **Rc5**: `rc5_decode`, the key table. A word is the sequence of the bits shifted
  in; only the low 13 bits are ever looked at, so the width of the word is left out.
* **IrReceiver**: one `Tick` is one run of `irq_sample_ir`, split into its four
  outcomes (`IsrIdle`, `IsrTimeOut`, `IsrNoBit`, `IsrBit`). The remote control
  (Manchester code, half bits of `HALF_MIN..HALF_MAX` samples) and noise drive the
  line. `main()` reads `active`, `value_bits` and `value` and clears `value_bits` in
  four separate steps with interrupts in between.
* **IrChannel**: the abstract specification: what `main()` may rely on. While a
  reception runs the fields read as zero; when it ends a word of exactly 13 bits is
  a frame that was sent; a reception does not end in the middle of a poll.
* **UsbHid**: `keyboard_update`, and of TinyUSB what it depends on. `mounted`, `busy`
  and the removal of the endpoints follow the code of the stack: the interrupt
  only queues, `tud_task` acts, except for `suspended`. A bus reset clears the
  driver's table of endpoints in the interrupt, before `tud_task` notices. A report
  given to the driver in between goes through null pointers: the program halts in a
  fault or a panic (`DriverHalts`, `MainLoop!Fault`), or the report is lost (`Submit`).
* **MainLoop**: extends the three above. One action per stretch of code between two
  sleeps, USB calls or shared accesses; `pc` names the place. Pins read as any level.
  `since` is `time_us_32() - rc5_last` modulo `CLOCK_MOD`. The program ends in the boot
  ROM (`pc = "bootrom"`) or by a fault of the driver (`pc = "halted"`). A bus reset between
  `tud_task` and the read of the serial line within one `usb_task` is taken to come after
  both, so the fault that arming a cleared endpoint can be there is left out.
* **KeyboardPipe**: the abstract keyboard: reports reach the host one by one and in
  order. A reset of the bus lets go of all keys, and only then can a report be lost.
  `MainLoop!ImplementsPipe` maps the report in the endpoint to the one on its way.
* **Text**, **LineStream**: characters that make lines, cut at `INPUT_MAX_LEN`, and the
  abstract serial port: the lines that were written arrive one after the other, and
  only while the host is not connected the end of what is on its way may be cut off.
* **CdcInput**: `usb_task`, `handle_cdc_input` (a step for each character) and
  `cdc_get_line` over the receiving half of the CDC driver: the endpoint, the packet
  that has arrived but that `tud_task` has not seen, the FIFO. `main()` does not fetch
  lines; the model has a program that does so at any time, or never. Through the
  refinement mapping everything from the line buffer to the endpoint is one text.
* **Fifo**, **CdcOutput**: TinyUSB's ring buffer with its indices, as functions from a
  buffer to a buffer; `cdc_printf` from the write of the finished text on, the flush in
  its three places, DTR, suspend, reset. Characters are numbered, so their order can be
  seen. `cdc_printf` is called by one core; its heap buffers are left out.
* **Hamming**: the macros of `hamming.h` and the decoder. A word is the set of the
  positions of its ones, so that an error is a symmetric difference.
* **Trrs**: `trrs_send` byte by byte, with faults on the wire, and `trrs_read` with its
  time-out. The bytes are numbered, a packet is an even number and the next.
* **ProcessInput**: `process_input`, `vim_process_input`, `function_process_input`
  and `send_over_hid` as one step per key event. The six slots are a bag, since the
  order of slots means nothing to a host. Two function keys stand for the twelve, and
  physical keys with the same code (the two space bars, the two left GUI keys) are one
  key. Delete is on the keyboard and is also what vim mode sends for `x` and `d`. The
  USB calls that the diagnostics make on the way are left out.
* **MatrixMonitor**: the scanning core and the taking core, with a step for each access
  to the atomic flag and to `matrix_event`; time since the last change of each
  switch, capped where the debounce no longer looks.
* **IrReceiverProofs**, **MainLoopProofs**, **MatrixMonitorProofs**,
  **ProcessInputProofs**, **CdcInputProofs**, **CdcOutputProofs** (with the lemmas about
  Fifo), **TrrsProofs**: theorems and proofs. **Induction**: what the proofs about data
  use of the natural numbers.
* **MC...**: constants, restricted environments and timing for TLC.

Operators marked "Mutant" are deliberately wrong variants of the definition that
follows them; no specification uses them. They exist to make sure that each property
fails when the code has the corresponding bug.

## The runs

| run | what it shows | states |
|---|---|---|
| `Words` | all words of up to 14 bits: `rc5_decode` keeps every bit of a frame (`DecodeInverts`); all data words, one or two bits flipped: the Hamming decoder corrects one (`SingleErrorsCorrected`) and rejects two (`DoubleErrorsRejected`) | 33 thousand |
| `IrReceiverSmall` | all 3-bit frames, jitter, noise, interrupts inside polls: words are taken once (`TakenOnce`), receptions end, the invariant of the proofs (with `TypeOK` and `TakenWordIsSent` in it), refinement of IrChannel | 24 thousand |
| `IrReceiverTimely` | with the numbers of the code (8 samples in 800 us, 13 bits, half bits of 8 to 10 samples) and four frames: no frame is lost if `main()` looks in time and there is no noise (`NoFrameLost`), and each is taken as sent (`TakenWordIsSent`) | 0.2 million |
| `MainLoopSafe` | the loop with receiver, stack and host: `NoPhantomKey`, `HostKeyOwned`, `IrPressFindsHostReleased`, the invariant of the proofs, refinement of KeyboardPipe | 1.2 million |
| `MainQuiet` | when everything outside comes to rest, all keys are released for good (`QuietMeansReleased`); a written `reset` is obeyed or lost in a bus reset, never ignored for ever, unless the driver does not survive a report sent after a bus reset that `tud_task` has not seen (`ResetObeyed`) | 0.3 million |
| `Timed` | ticks of 2 ms: a held remote button is one press (`HeldKeyStaysDown`) and is released in time (`LetGoReleases`); one tap per edge of the encoder, however it bounces (`OneTapPerEdge`), of the key for the direction it was turned in (`RightDirection`) | 0.6 million |
| `KeysTyped` | whatever is typed, the shift of a vim selection ends with vim mode (`SelectionHeld`) and the modifier flags belong to keys that are down (`FlagsHeld`); a careful typist gets no stuck key (`NothingStuck`) and no diagnostic but that of pressing delete twice, by two of `x`, `d` and Delete in vim mode (`NoDiagnostics`) | 0.2 million |
| `KeysUnpaired` | expected violation, see Findings | - |
| `MatrixCores` | mailbox used by one core at a time (`OneAtATime`), every event conserved (`Conserved`), the matrix follows contacts at rest (`Settles`) and the queue drains (`Drains`); if events are taken in time, no reordering within a key (`InOrder`) and no overflow (`NoneLost`) | 0.4 million |
| `CdcLines` | refinement of LineStream; no index leaves its array and the FIFO has room for every packet that the endpoint takes (`InputInv`, the invariant of the proofs); what `code/build.sh:18` writes enters the boot ROM, whatever an earlier terminal left in the buffer (`ScriptObeyed`) | 0.2 million |
| `CdcOut` | prints are seen in order and once (`InOrder`), not overwritten while a terminal is there (`KeptForTerminal`), and what waits behind a packet is sent after it (`SentInTime`) | 0.1 million |
| `TrrsSync` | in step again after a silence (`InStep`), and then every packet read is one that was sent (`WholePackets`), until the next fault | 0.8 million |

### Bounds

* Receiver: 3-bit frames are enough for every combination of equal and different
  neighbouring bits, with noise of up to 2 changes. `IrReceiverTimely` has the real
  numbers but for the silence between frames: 43 samples where RC-5 has 890. `main()` must look
  every 17 samples then, the most that `PollAssumption` allows; each further sample of
  silence is one more that it may take (so a sleep of the mute button, 100 ms, can lose a frame). `MAX_FLIPS < FRAME_BITS` and at least 34 silent samples
  in front of a frame are assumptions: noise of 13 well-timed edges is a frame as far
  as the code can tell.
* Main loop: sleeps, time-out and clock are 1, 1 and 3 ticks, since only their order
  matters to the safety properties; two frames of different keys (and one that has
  none), a noise word, and every interleaving with the pins, bus and host. The proofs
  cover all other values.
* `Timed`: all durations to scale, in ticks of 2 ms. The proofs cover all other values that
  `TimingAssumption` allows. The bounds are tight: the release
  takes up to 51 ticks (100 ms, plus the round of the loop); 6 ms between the end of one
  bounce and the next edge are needed, and 12 ms after an edge before pin 17 changes,
  as `main()` may be asleep or waiting for the host when the edge comes.
* Keys: a report of two slots overflows with the three keys that can be down. The
  careful typist has every key that some mode treats differently. She
  changes the mode with no other key down, presses and releases modifiers with no
  ordinary key down, and never holds more ordinary keys than there are slots. Each of
  these conditions is needed.
* Matrix: two switches; four events with cores of any speed, eight with timely ones
  (the history counters make a bound necessary). The timely core lets one tick pass for an
  event. The debounce of four ticks and the queue of one event are the smallest that
  `TimelyAssumption` allows for two switches that move at once.
* Serial input: a command of two characters, lines cut at three, packets and FIFO of
  two (the code: 5, 100, 64 and 64). Ten packets: single characters, a newline at either
  end, carriage returns, empty lines, a NUL inside a line. Lines, and the packets that
  cut them, are of any number.
* Serial output: FIFO and packet of three characters, messages of one to four, nine
  characters in all: the FIFO overflows twice before a read, and is read after that.
* Link: a FIFO of the UART that overflows, bytes numbered modulo `BYTES`, a time-out of
  1 ms. Six ticks of silence are the fewest that bring the receiver back into step; they
  are exactly what `TrrsAssumption` asks for with these constants.

### Fairness

* `IrReceiver`: the timer interrupt keeps firing, and `main()` finishes a poll it has
  begun, as nothing waits between `main.c:170` and `191`. That it polls again is not
  assumed.
* `MainLoop` (`Fairness`, used by `MCMainLive`): the processor runs; the clock ticks; a reception times out
  (shown by `ReceptionEnds`); the host polls the keyboard (interrupt endpoint, every
  10 ms), configures the device after a reset and resumes a bus it has suspended. The
  last is needed because the device does not offer remote wake-up
  (`usb_descriptors.c:122`), so `tud_remote_wakeup` does nothing. Without a host the
  program stays in `keyboard_update` (`usb.c:79`), as the comment there admits.
  In the calm part of `MainQuiet` two looks at the clock are less than one turn of it
  apart, which is 71 minutes in the code; so that run shows the wrap only before it is
  calm. A processor that has halted in the driver does nothing more (`Ended`): the host has
  let go of all keys then.
* `MCMatrixMonitor` (`CoresSpec`): both cores run and time passes. They do not wait for
  one another.
* `MCCdcInput` (`CdcSpec`): the program comes back to `usb_task` and finishes the text it
  has read (`main.c:232` in the loop, which `ResetObeyed` shows not to hang but
  where the driver halts the processor); the host
  configures the device and goes on typing what it has begun.
* `CdcOutput` (`Spec`): the program calls `tud_task`, and a host that keeps the terminal
  open reads it.

## What is proved

From `ReceiverAssumption`, `ChannelAssumption`, `UsbAssumption`, `MainAssumption`,
`MatrixAssumption`, `KeysAssumption`, `CdcAssumption`, `DepthAssumption`,
`OutputAssumption`, `TrrsAssumption` and, where a theorem is about things in time,
`PollAssumption`, `TimingAssumption` and `TimelyAssumption`
(all of them evaluated by TLC for the instances above), for all other values of the
constants:

* `IrReceiverProofs`: `IInvHolds`, and from it `TypeCorrect`, `TakenWordCorrect`,
  `TakenOnceCorrect`, and `ChannelImplemented`, the refinement of IrChannel.
  "The word taken is the one sent" is not inductive: whether an edge is in the middle
  or at the border of a bit depends on the count, and what `main()` reads depends on how
  many interrupts its poll has met. `IInv` adds how far `count` is past the middle of
  the last bit while a frame is on the air (`InFrame`), what the register holds between frames
  (`BetweenFrames`), that a reception begun in a poll is younger than the poll
  (`PollIsShort`), and that `ir.last` is the line but for one sample after a time-out
  (`LineSeen`).
  `NoFrameLostCorrect`, about the `main()` of `TimelySpec` that polls in time, on a line
  without noise: a frame that is not taken yet lies whole in the register, and the silence behind it is no longer than
  the time-out (which `ir.count` measures from the middle of the last bit), the time since `main()` last
  looked, and its poll (`Waiting`). `PollAssumption` says that this is less than
  the silence in front of the next frame. With the 890 samples of RC-5 it lets `main()`
  stay away for 86 ms.
* `MainLoopProofs`: `MInvHolds`, and from it `MainTypeCorrect`, `HostKeyOwnedCorrect`,
  `NoPhantomKeyCorrect`, `IrPressCorrect`, and `PipeImplemented`, the refinement of
  KeyboardPipe (a lemma for each kind of step: an update, `tud_task`, the bus, a step that
  leaves the report alone). `MInv` adds when the
  endpoint is claimed and what the host can be showing (`UsbInv`), where polling
  happens and which words it can meet (`IrInv`), that the key about to be sent is that of the data
  and the release went before it (`KeyInv`), and that the last report sent has an owner
  (`NoOrphanKey`).
  `LetGoReleasesCorrect`, `HeldKeyStaysDownCorrect`, `OneTapPerEdgeCorrect` and
  `RightDirectionCorrect`, about the users of MCTimed, follow from `TimedInvHolds`: `MInv`,
  and for each user an account of time. How long the report in the endpoint may still stay
  there (`Slack`) shrinks with every tick that `main()` waits.
  *Remote control* (`RemoteInv`): a frame or a silence is taken in the round of the loop in
  which it is there to be seen (`TakenAtOnce`, `SilenceNoticed`); the reports that follow
  are out before the next frame begins (`KeyInTime`) and nothing is left of them when
  silence is noticed (`NoneLeft`); so while there is data, `rc5_last` is when the last frame
  came (`ClockIsGone`), which for a held button is never too long ago (`GoneByPhase`,
  `HeldInTime`).
  *Encoder* (`EncoderInv`): outside of a service `main()` knows the level of pin 16, or the
  edge still bounces (`EdgeNoticed`). A press may have to wait for the release of the edge
  before (`ReleaseOut`), which makes it late (`PressInTime`), and a service may last into
  the next edge; but it is over before that edge stops bouncing, and its own edge has
  stopped by then (`ReleaseInTime`). `Owes` says when a tap is owed, `DirectionHolds` that
  pin 17 still tells the direction when `main()` gets to it.
  `TimingAssumption` says what the durations must be. With the times of the code (sleeps of
  10 ms and 1 ms, a time-out of 100 ms, a poll every 10 ms): edges more than 15 ms apart
  that bounce for no more than 10 ms, and frames that end more than 21 ms before the next one
  begins, which for a held button is no later than 100 ms after.
* `MatrixMonitorProofs`: `MatrixTypeCorrect`, `OneAtATimeCorrect` and `ConservedCorrect`.
  `CoresInv`, the types and `OneAtATime`, is inductive. The account of events
  (`Conserved`) is inductive beside it: when the taking core clears the flag, what it has
  copied must still be what the mailbox holds, and the scanning core must not be about to
  raise the flag. Two lemmas say that an `Append` adds one to the count of
  its event, and the removal of the last element takes one away.
  `NoneLostCorrect` and `InOrderCorrect`, about the timely cores of MCMatrixMonitor: the
  queue is emptied from its end, so an event at its bottom may wait for ever if others keep
  coming, and be overtaken by the next of the same switch. The proof is an account of time (`Budget`):
  whatever is on its way set out no longer ago than the events taken since then and the
  one in the mailbox have needed; they are of different switches, all restless (`Restless`),
  of which there are no more than fingers, so that this is less than a debounce. So a switch
  changes only when its last event has been delivered (`SetsOut`), those on the way are of
  different switches (`Apart`), each the last of its switch (`Lasts`), and the queue has
  room for them. `TimelyAssumption` says what the numbers must be: a debounce as long as
  `FINGERS` events take, and a queue and mailbox for as many. With the 10 ms and the queue of 30
  of the code and ten fingers it allows almost a millisecond for an event. (Of the
  33 keys of the left half two would be lost if all were pressed before the first is taken.)
* `ProcessInputProofs`: `FlagsHeldCorrect`, inductive as it stands, and
  `SelectionHeldCorrect`, which needs the shape of the report beside it (`SelectionInv`):
  no key that vim mode sends in place of another is a modifier, so only its own
  shift is pressed and released while it lasts. `SlotsCorrect`, that a report never holds
  more keys than it has slots: the number of slots in use is a fold over the keys
  (`SlotsUsed`); `SumIs` unrolls it, `SumChanged` says what another number for one key
  does to it, and that no key takes more slots than are in use. `CarefulInvHolds`, and from it
  `NothingStuckCorrect` and `NoDiagnosticsCorrect`, about the careful typist of MCProcessInput: the
  report holds, in as many slots, the letters that are down as the mode translates them
  (`InReport`). Each press takes a slot and its release gives one back (`PressShows`,
  `ReleaseShows`); two letters never share a code, except `x`, `d` and Delete in vim mode
  (`OutDiffers`), so only these can find their key pressed already. Mode and modifiers change
  only when no letter is down (`NoLetters`); the `i` that leaves vim mode is down but not
  in the report, and its release changes nothing (`NothingShows`).
* `CdcInputProofs`: `InputInvHolds` and `LinesImplemented`, the refinement of LineStream.
  `InputInv` adds to the types that what the endpoint takes will fit the FIFO (`Armed`)
  and that a device that is not configured holds nothing (`Detached`). For the refinement,
  `Written`, a fold over characters, is unrolled and cut into parts (`WrittenAppend`), so
  that a character may move from the packet to the FIFO, to `inbuf` and to the line buffer
  without the text on the way changing; a finished line stays in front of it
  (`WrittenBehind`); and losing the characters that came last cuts off the end of the stream
  (`CutWritten`), which is all that LineStream allows a reset to do.
* `CdcOutputProofs`: `OutInvHolds`, and from it `InOrderCorrect` and `KeptForTerminalCorrect`.
  Lemmas about the ring buffer first: what is held ends at the write index, whether or not it
  overflowed (`KeptIs`), a read takes the oldest (`ReadSplits`), a write leaves the last of
  what was held with a stretch of what is written behind it (`WriteJoins`). `OutInv` is
  then that the endpoint is claimed while its packet is on the way (`Claimed`) and that what
  the terminal has seen, the packet and the FIFO are in line (`InLine`).
* `TrrsProofs`: `LinkCorrect`, and from it `InStepCorrect` and `WholePacketsCorrect`. That a
  silence brings the receiver into step is a matter of time: what is left to be read never
  needs longer than what is left of the silence (`Drained`), so that after it nothing is left
  over. In step, the bytes pending are the last ones sent (`Follows`), and the receiver has not waited
  longer than the wire was silent (`Recent`), so it gives up only on a packet
  that has not begun.
* `Induction`: `NaturalInduction`. The induction theorems of the library take an
  operator, which no installed prover instantiates. That the natural numbers are
  well-founded is a fact about sets, and gives induction over a set of numbers. The folds of the
  community modules choose a function that satisfies their recursion; the lemmas show by
  this induction that there is one, and what it computes.

The proofs have one step per action, and under it one per conjunct that the action can
disturb.

Only model-checked: everything about liveness (`ReceptionEnds`, `QuietMeansReleased`,
`ResetObeyed`, `Settles`, `Drains`, `ScriptObeyed`, `SentInTime`), since TLAPS does not
reason about fairness; and `Words`, where TLC already looks at every word.

## Findings

* `send_over_hid.c:26` tests `modifiers & bit == 0`, which C reads as
  `modifiers & (bit == 0)`: always zero, as `bit` never is. The diagnostic on the next
  line, that a modifier "received an up event but wasn't pressed down", can never be
  printed. `KeysUnpaired` shows keys that should have printed it: both shifts pressed
  around a switch to vim mode, which swallows what is typed of modifiers.

What the models show besides, where nothing in the repository of the program says
otherwise:

* In vim mode with Delete held, `x` or `d` presses delete a second time (and the other way
  round): the key takes two slots, and `send_over_hid.c:37-38` reports it. Nothing sticks
  (`NothingStuck`).
* A report that follows a bus reset before `tud_task` has seen it is handed to endpoints
  that the interrupt has cleared (`rp2040/dcd_rp2040.c:240`): the driver reads and writes
  through null pointers and may panic (`rp2040/rp2040_usb.c:107-135,173-213`). The wait in
  `keyboard_update` narrows the window to a few instructions when it has waited, but not
  when the interface was ready at once. The models of the serial port have the same window
  and leave the halt out, as it only ends what they are about; that the line `reset` is
  obeyed in `CdcLines` is shown for a program that survives.
* A message of more than 64 characters is cut (`usb.c:123` ignores how much was taken).
  Most diagnostics of `send_over_hid.c` and `hamming.c:48` are longer.
* Text printed while the bus is suspended, or waiting in the FIFO when it is, stays there
  until the next print or the next input; resuming does not flush it. So does text
  printed before the device is configured.
* With no terminal the FIFO is meant to keep the most recent text
  (`cdc_device.c:245-247`). After a second overflow without a read it does not: with three
  places, prints of three, two and two characters leave the fourth, the sixth and the
  seventh. `tusb_fifo.c` says as much in a TODO. The order survives (`InOrder`).
* A newline after a line, in the same packet, replaces the line before the program
  can fetch it. (`main()` fetches none.)

## Not modelled

* Formatting and the heap of `cdc_printf` (`usb.c:87-122`): no state outlives the call.
* Key maps and pins (`defines.c`) and descriptors: constant tables. The string
  descriptors are a copy with one dependence, listed as a hazard.
* Set-up of pins and timer before the loop (`main.c:111-143`), build scripts.
* The Pico SDK: vendored, and nearly all of the lines under `src/`. Of it TinyUSB is
  modelled as far as `usb.c` reaches: endpoint claims, the event queue, mount, suspend,
  reset, the CDC driver and its ring buffer, the HID report. Control transfers are one
  step of the host. The rest (Bluetooth, WiFi, other boards, other classes) is not
  called by the program.

## Plan

Done: all modules above, their runs, and the proofs listed. Every safety property of a run
but those of `Words` is a theorem.
