# Verification of the kernel extensions of mydellmini

This directory holds TLA+ models of the core of this repository, the PS/2
controller driver `ApplePS2Controller` and the drivers that sit on it, and of
three drivers beside it: the battery manager, the R1000 network driver and the
PIIX ATA driver. With them come the TLC configurations that check them and the
theorems TLAPS proves about them. All paths below are relative to the
repository; `C` stands for
`src/Kext Sources/ApplePS2Controller/ApplePS2Controller.cpp`, `KB`, `MO`, `SY`
for `ApplePS2Keyboard.cpp`, `ApplePS2Mouse.cpp` and
`ApplePS2SynapticsTouchPad.cpp` in the same directory, and `BM`, `BD`, `R`, `PX`
for `AppleACPIBatteryManager.cpp`, `AppleACPIBatteryDevice.cpp`,
`RealtekR1000.cpp` and `AppleIntelPIIXPATA.cpp` in theirs.

1. Inventory
2. Modules and how they correspond to the code
3. Runs, bounds and fairness
4. Theorems
5. Where code and comments disagree
6. What is not modelled
7. Plan

## 1. Inventory

The repository is a kit for running Mac OS X on a Dell Mini 9. Most of it is
kernel extensions under `src/Kext Sources`, with installers, a preference pane
and a DSDT patcher around them; two vendored kernel families (IOHIDFamily,
IOAudioFamily) are carried along.

| component | state | operations | hard behaviour | correct when |
|---|---|---|---|---|
| Controller: request engine (C:517-604, 696-829) | `_requestQueue`, local queues on the stack, `_interruptSourceQueue`, the request structures and their completions | `submitRequest`, `submitRequestAndBlock`, `processRequestQueue`, `processRequest`, `allocateRequest`, `freeRequest` | driver threads against the work loop; driver routines that block inside the recursive gate and drain the queue in the middle of another request; going off line with requests queued | no request is lost, leaked, processed twice or freed under its caller; every blocked thread returns; requests are served in order, one at a time |
| Controller: byte path (C:70-150, 608-692, 833-1100, 1256-1297) | the 8042 output buffer, `_keyboardQueue`, `firstByte`, the controller lock | `interruptHandlerKeyboard/Mouse`, `interruptOccurred`, the two `readDataPort`, `enqueueKeyboardData`, `dequeueKeyboardData` | interrupt handlers against the work loop; polling with interrupts off; merged interrupts; one byte put aside; late answers | each byte reaches exactly one place, of its own device, in order; a stray byte does not hide an answer; port and queue drain |
| Controller: power management (C:1319-1477) | `_currentPowerState`, `_hardwareOffline`, the thread call, the retain count | `setPowerState`, `setPowerStateCallout`, `setPowerStateGated`, `dispatchDriverPowerControl` | the call entered again while queued or running, two callouts racing, the acknowledgement timeout, drivers that block when they are told | port and drivers follow the power state; an acknowledgement is true and comes; no retain is lost or leaked |
| Command byte update (`setCommandByte`, KB:555-605, MO:692-743, SY:1162-1215) | the command byte register of the 8042 | read, modify, test-and-set in a loop | several drivers at once; the register's value travels on the keyboard stream among scan codes | each call changes exactly its bits, atomically, and ends |
| Scan code parsers (`doEscape` C:1104-1254, `dispatchKeyboardEventWithScancode` KB:240-470) | `_extendedState`, `_modifierState`; `_extendCount`, `_keyBitVector` | one code at a time, at interrupt time and again on the work loop | sequences of up to six codes, the debugger key that rewrites the stream, a queue at its limit, sleep with keys held | the keys the system sees down are those the user holds |
| Controller: start, stop, registration (C:203-513) | installed actions and targets, nubs, event sources | `start`, `stop`, `install/uninstallInterruptAction`, `install/uninstallPowerControlAction` | interrupts before `gApplePS2Controller` is set, uninstall against dispatch | no action is called after it was removed |
| Mouse driver (MO) | packet buffer and count, packet length, reset count | `interruptOccurred`, `resetMouse`, `setIntellimouseMode`, `scheduleMouseReset`, `setDevicePowerState` | loss of packet synchronisation, a reset from the interrupt routine whose commands are themselves interrupted by bytes, a mouse plugged in at any time | the buffer is never overrun; packets are whole again after a disturbance; a mouse plugged in is enabled |
| Synaptics touchpad (SY) | `_event`, `_prevEvent`, `_tapped`, `_dragging`, `_dragLocked`, the drag timer, preferences | `interruptOccurred`, `dispatchRelativePointerEventWithAbsolutePacket`, `draggingTimeout`, `setParamProperties`, `setDevicePowerState` | the timer against the second tap, the drag lock and the end of a drag; preferences changed under a gesture; brown out | every click and release promised comes; a tap is one press; the button does not stay down |
| ALPS touchpad | packet buffer | like the mouse, without reset | as for the mouse | as for the mouse |
| Battery manager and device (BM, BD) | the status published, the gates, the poll timer of each battery, `_STA` as last read | `pollBatteryState`, `setBatterySTA/BIF/BST`, `message`, `handleBatteryInserted/Removed`, `setPowerState` | asynchronous ACPI methods that fail or answer late, polls, alarms, insertion, removal and wake-up in any order | what is published follows the battery; polling goes on |
| R1000 network driver (R) | both descriptor rings, their indices and mbufs, the stalled queue, the watchdog | `outputPacket`, `R1000Interrupt` with `R1000RxInterrupt` and `R1000TxInterrupt`, `enable`, `disable`, `R1000TxTimeout`, `R1000HwStart` | the chip runs beside the driver; rings fill and wrap; restarts over rings that are not empty; no mbuf to be had | no packet lost, swapped or leaked; frames in order; a stalled queue is restarted |
| PIIX and ICH ATA (PX) | the timing registers in PCI configuration space, each channel's copies of them, `_drivePowerOn` | `selectConfig`, `computeTimingRegisters`, `computeUDMATimingRegisters`, `writeTimingRegisters`, `setPowerState`, `turnOffDrive`, `turnOnDrive` | two channels with fields in the same registers, written one by one while the other transfers; modes changed, registers lost in sleep | no drive runs faster than asked and cabled for; a channel leaves the other's drives alone |
| SMBIOS, clamshell, wireless, ACPI nub, DSDT patcher, installers | see section 6 | | | |

Interaction: driver threads call the controller through the nubs
(`ApplePS2KeyboardDevice`, `ApplePS2MouseDevice`), which only forward. The
controller calls drivers back, always inside its work-loop gate: interrupt
actions with one byte at a time, power control actions at a power change,
completions when a request is done. The gate is recursive, so a driver called
back may call into the controller again; most of what is hard in this code
follows from that.

The hazards this exposes the code to are listed, each at its line and with the
properties that cover it, in `PROJECT.json` under `hazards`.

## 2. Modules

| module | models | composed with |
|---|---|---|
| `PS2RequestQueue` | the request engine | `PS2RequestService`, its abstract specification |
| `PS2DataPort` | the byte path | |
| `PS2Power` | power management | |
| `PS2CommandByte` | `setCommandByte` of two or more drivers | `PS2CommandRegister`, its abstract specification |
| `PS2Keyboard` | both scan code parsers and the queue between them | |
| `PS2Mouse` | the mouse driver and the mouse | |
| `PS2Touchpad` | gestures of the Synaptics driver, its drag timer | |
| `ACPIBattery` | battery manager, battery devices, the batteries | |
| `R1000Rings` | the rings, the driver and the chip | |
| `PIIXTimings` | the timings of two ATA channels | |
| `MCPS2RequestQueue`, `MCPS2CommandByte`, `MCPS2DataPort`, `MCPS2Touchpad`, `MCPIIXTimings` | symmetry sets, sample updates, environments, preferences, drives and configurations for TLC | |
| `PS2RequestQueueProofs`, `PS2DataPortProofs`, `PS2PowerProofs`, `PS2DriverProofs`, `PS2MouseProofs`, `PS2TouchpadProofs`, `DeviceProofs`, `R1000RingsProofs` | theorems; `PS2DriverProofs` those of `PS2CommandByte` and `PS2Keyboard`, `DeviceProofs` those of `ACPIBattery` and `PIIXTimings` | |

Each module holds, before its actions, faulty versions of some definitions:
slips the code could have made. `PROJECT.json` pairs every checked property
with one of them that violates it, so that no property is there for show.

**PS2RequestQueue.** `requestQueue` is `_requestQueue`, `queueSignal` the
pending flag of `_interruptSourceQueue`. `stack` is the chain of nested calls
inside the gate: a frame is a `processRequestQueue` with its `localQueue`
(`batch`) and the request being processed (`cur`), and for an in-gate
`submitRequestAndBlock` the request it blocks on (`own`), which C:577-578
processes after the drained ones. `handler` says that a driver routine runs on
top of that frame, because of preempting data (`Preempt`), an interrupt
(`ServeInterrupt`) or a power change (`Suspend`, `GoOnline`). `phase` and
`caller` follow each request structure from `allocateRequest` to `freeRequest`.
`ClientEnqueue` and `ClientSignal` are the two halves of `submitRequest`, with
the unlock between them. The commands of a request are abstracted: it begins,
may be preempted, completes; success and failure leave `processRequest` by the
same path. `_hardwareOffline` is `Offline`. A wake-up goes through the read of
the command byte with the port still off line (`Resume`, "waking"), in which a
mouse byte may run the mouse routine (`WakeByte`); one that resets the mouse
repeats a request that cannot succeed (`WakeReset`, `RetryRequest`, "resetting")
and the wake-up does not end, see section 5. `older` is a history: the requests
that waited when a request was submitted and wait still. `HandlersMayBlock` says whether
interrupt routines block, as the mouse and Synaptics drivers do when they reset
their device (MO:289-302, SY:408); power routines may in any case.

`PS2RequestService` is what `ApplePS2Device.h:221-233` promises: a first-in
first-out server that executes one request at a time. `ImplementsService` maps
the innermost local queue followed by the shared queue to its `pending`.

**PS2DataPort.** Bytes are numbered per device, so a history can say which byte
went where. `port` is the output buffer, `irq` the interrupt lines, `locked` the
part of `readDataPort` that polls with interrupts off. `interruptOccurred` is
three actions, because status and data are read in separate steps and
interrupts are let in between. `Requested` is the decision table of
`ReadDataPortAndCompare` (C:1041-1086). The build with `DEBUGGER_SUPPORT` is
modelled, which is the one the project builds; both drivers are installed and
the port is on line.

**PS2Power.** `pending` is the parameter of the queued thread call, `callout`
that of each kernel thread running it, `gate` who is inside the gate, `stage`
where `setPowerStateGated` is; each stage is one action, since other threads run
between them. The kernel's thread call and the acknowledgement timeout of power
management are modelled from their use. `MouseByteAtWake` stands for the chain
described in section 5.

**PS2CommandByte.** A byte is the set of its one bits. `stream` is the keyboard
stream: the keyboard queue followed by the port. `BeginRead`/`ReadReply` are the
first request of the loop, `BeginTest` to `Write` the second; requests hold the
gate, as `PS2RequestQueue` shows they do when interrupt routines do not block.
`PS2CommandRegister` is an atomic register.
`ahead` is a history: it counts the bytes that will be read before the answer to
the request in the gate, so that a test passed by another byte can be told
(`Mistaken`).

**PS2Keyboard.** One key of each kind: modifiers with and without prefix, the
two delete keys, Print Screen, Pause, and 4. `wire` holds the codes the keyboard
has still to send, `queue` is `_keyboardQueue`; `Escape...` are the branches of
`doEscape` and `Dispatch...` those of the driver. `Sent` gives the codes a real
keyboard sends. `disturbed` marks behaviours in which the stream cannot be
expected to be faithful any more (a code dropped by a full queue, a key typed
while the keyboard is disabled, Print Screen mixed with the keys it stands for,
the debugger entered); the properties say for which of these they hold. A
stream once disturbed by anything but the debugger stays so, a call of the
debugger included.

**PS2Mouse.** A byte is what the driver tells apart, and carries its place in its
packet for the history. `buffer` is `_packetBuffer` as far as `_packetByteCount`,
`packetLength` and `resetCount` are the driver's. `resets` holds the resets under
way, the innermost first: a byte met by `readDataPort` inside a reset enters
`interruptOccurred` and may begin another reset on top of it. The mouse
(`Commanded`, `Answer`, `SendByte`) is external: it answers commands, loses a
byte, or is pulled out and plugged in (`HotPlug`), when it announces itself with
0xAA 0x00 and waits to be enabled.

**PS2Touchpad.** A packet is what the driver makes of it: the number of fingers
after the thresholds, whether it is at the edge, whether it has stayed in place,
and the buttons. `Packet` is one call of
`dispatchRelativePointerEventWithAbsolutePacket` with all its stages: the event
is selected, settled or ended, and the buttons are reported. A packet that comes
while a key is held down is ignored (SY:447-454, `IgnoredPacket`), and `missed`
remembers that the driver has not seen the touchpad as it is. Time passes in
ticks, of which the click and the release delay are numbers.

**ACPIBattery.** `poll` is where the chain of `_STA`, `_BIF`, `_BST` and the timer
is; each method may fail (`Fails`), and the battery may change between any two.
`noticed` is what a notification has found out by comparing the status it read,
outside the gate, with the one the polls refresh. `fresh` says that nothing has
changed or failed since the last poll began.

**R1000Rings.** A descriptor is who owns it, its mbuf and the frame in it. The
interrupt routine is split where the chip can act in between: status read,
each frame taken, each packet reaped, the end of a round; its work limit is the
constant `Work`. A change of the link runs the routine too, and uses up a round
of it (`InterruptLinkChange`, `LinkChangeRound`). The chip is external and sends, receives, finds an error or no
descriptor. The named incidents of section 5 are flags of the history, so that
the invariants can say exactly outside which of them they hold.

**PIIXTimings.** A register is the set of its one bits. `copies` are the five
cached registers of a channel's driver, `job` what it has still to write: each
`pciConfigWrite8/16` is one action, since it runs under the lock of
`AppleIntelPIIXATARoot`; the read and the write of `turnOffDrive` and
`turnOnDrive` are two, since they do not. The last operators say what a PIIX3
makes of the registers (`PIOCycle`, `DMACycle`, `UDMACycle`); they are external.
Its compatible timing, 600 ns, is the slowest there is: a drive for which more is
asked runs at that (`NotBelow`).
That what is asked is one mode of each kind is a property of `IOATADevConfig`'s
users, and a channel's `selectConfig` calls are serialized by its command gate.

## 3. Runs, bounds and fairness

| run | shows | bounds |
|---|---|---|
| `RequestQueueNested` | ownership of requests, one place for each, a request is overtaken only by what interrupts its drain, in-gate callers are served, nothing leaked by `stop()`, blocked threads return and every request is processed or failed, also while a wake-up hangs | 3 requests, 1 thread, nesting 3, blocking interrupt routines |
| `RequestQueueSerial` | no lost wake-up, refinement of the service: one request at a time, in order | 3 requests, 2 threads, no blocking interrupt routines |
| `DataPort` | each byte once, streams not mixed, mouse bytes in order, keyboard bytes in order while only keyboard commands are read, one stray byte before an answer tolerated, port and queue drain | 3 bytes per device, 2 commands, queue of 2, both environments of `MCPS2DataPort` |
| `Power` | port and drivers follow the state, truthful acknowledgement, drivers told on line, every change acknowledged unless the mouse was reset | 2 callouts, timeouts, any sequence of the 3 states |
| `PowerWakeHangs` | violation, section 5 | the same |
| `CommandByte` | `setCommandByte` is atomic unless a byte that is not the answer passes its test, and ends | 2 drivers, 3 calls, 2 scan codes |
| `Keyboard` | the key bit vector follows the user, both parsers agree on the modifiers, the debugger is entered only when meant | 7 keys, 4 held at once, queue of 4 |
| `Mouse` | the packet buffer is not overrun, a mouse plugged in is enabled, packets are whole again | 2 resets in vain, 2 unread bytes, 1 stray byte amid resets, 1 odd byte, 1 byte lost, 2 mice plugged in, 1 sleep |
| `Touchpad` | the timer stands behind every click and release promised, one press per tap, no button stays down unless the packet that would release it is ignored | click after 2 ticks, release after 3, settling of 1 to 3 packets, 1 interference |
| `Battery` | the next poll comes, an undisturbed poll publishes what is in, and in the end what is published agrees | 2 batteries, 3 changes, 2 failures, 1 wake-up |
| `R1000Rings` | packets neither lost nor swapped, mbufs accounted for, frames in order, the driver waits where the chip fills, a stalled queue is restarted | rings of 2 and 2, 3 packets, 2 frames, 1 restart, work limit 2, error frames and failing allocations |
| `ATATimings` | no drive faster than asked and cabled for, each channel leaves the other's drives alone | 3 drives on 2 channels, 2 or 3 configurations each, 2 cables, one drive bay |

Why the bounds are enough. Three requests are one in progress, one waiting
behind it and one that interrupts; with nesting 3 every action can happen on
top of a nested call that itself interrupted another. In the byte path a read
puts at most one byte aside, so three bytes of a device suffice for a byte
before it, itself and one after; a queue of two overflows with them (the code
has `kKeyboardQueueSize` = 32 elements, with the same code at the limit). Three
power states and two callouts give a callout before, in and after the gate;
more callouts only wait (and the proofs cover them). Three calls of
`setCommandByte` let one driver be overtaken twice, and two scan codes are enough
to push an answer out of place and to pass a test. The keyboard's state is
finite once `MaxHeld` and `MaxAhead` (the codes that may be in transit when a
key is pressed) are given; four keys are needed for both Alt keys, another
modifier and the delete key. The mouse's limit of resets is five in the code and
two here: what matters is that it is reached, and that a packet inside a reset
sets it back. Each of its accidents can happen in, before and after a reset, and
two mice may follow each other into one. An odd byte is one after the first of a
packet that has bit 3 set, as a first byte has (`MaxOdd`); with data of that kind
for ever, `SynchronisesAgain` would not hold, since a driver that tells packets
by that bit may then stay shifted. The touchpad's two delays differ so that the order of
timeout and settled packets is free. With three changes a battery is taken out,
put in and charged, or exchanged twice, under one poll. Rings of two are full
with one packet more than the driver may queue, and wrap with the third. The
configurations of `MCPIIXTimings` cover U-DMA above and below what the cable
allows, modes slowed down for the drive, a DMA mode with none supported below
it, and DMA and PIO modes of different cycle times. The theorems of section 4
remove the bounds for the properties they name.

`CHECK_DEADLOCK FALSE` appears where the system may really rest: devices stop
sending, the bounds on bytes, calls, frames and accidents are used up, or
(`Power`) the gate is lost in section 5's hang. The request engine is checked
for deadlock, with `Stopped` as its only final state.

Fairness. The work loop visits every event source on each pass, so an event
source that is signalled again and again is eventually served: strong fairness
of `ServeQueue`. A request has finitely many commands, and the countdown of a
read is not renewed by the bytes of the other device: strong fairness of
`CompleteRequest` and, for the read at wake-up, of `GoOnline`. An activation of a
driver routine returns, strong fairness of `HandlerReturn` at each nesting depth,
with one exception that the code makes: the reset that a mouse byte starts in the
read at wake-up. There only weak fairness of `RetryRequest` is assumed, the loop
of `setCommandByte`, which goes on for ever. Even so each round of it begins with
`processRequestQueue` (C:577), so requests that other threads submit are failed
and those threads return: that, not the end of the wake-up, is what
`BlockedReturns` and `SubmittedCompletes` say. A thread that waits for the gate
itself is not in these properties; the power change is `PS2Power`'s. Threads that
are runnable run: weak fairness of the steps of clients, callouts, interrupt
handlers and the work loop. `readDataPort` counts its polls: weak fairness of
`ReadTimeout`. In `PS2CommandByte` the gate is handed on: strong fairness of the
two requests. For the mouse driver to find packets again the mouse must be moved
again and again and the computer wake up: weak fairness of `SendByte` and
`EnableDevice`, beside that of the driver. The touchpad's clock goes on, a drag
timer that is due fires, and a touchpad nobody touches sends idle packets for a
while after a touch, which the driver handles if no key is held while they come:
weak fairness of `IdlePacket` only while no packet has been missed. ACPI methods return, well or badly, an armed timer fires and a
notification is delivered; failures are bounded accidents. The chip goes on
sending a ring it was told to send, and the interrupt routine runs. Beyond this
no driver has to submit, no device has to send, no user has to type or touch,
nobody has to sleep or restart.

## 4. Theorems

TLAPS proves, for every value of the constants that satisfies the modules'
assumptions:

| theorem | states | argument |
|---|---|---|
| `PS2RequestQueueProofs!TypeCorrect` | `TypeOK` | by action |
| `WakeupsKept` | `NoLostWakeup` | inductive with `TypeOK`: a signal is consumed only together with the whole queue |
| `QuietOffline` | `OfflineQuiet` | needs `PowerCall`: while a power change runs, its routine is the outermost call and nothing was in progress below it |
| `BlockedKeeps` | `BlockedKeepsRequest` | needs `Ownership`: callers and the requests they block on correspond, in both directions, for threads and for in-gate callers |
| `LinkedInOnePlace` | `LinkedOnce` | needs `Links` (queue, local queues, requests in progress and own requests are pairwise disjoint and agree with `phase`) with `Ownership` |
| `GateServed` | `GateCallerServed` | from `Links`: the own request of a frame is the last of its local queue |
| `NothingLeaks` | `StopLeaksNothing` | needs `CallersLive`, `NothingLeft`: when the gate is empty and no thread is inside, only queued requests are not free |
| `OvertakenOnlyByInterruption` | `InOrder` | `Order`: of the requests that came before one in a local queue, those that still wait are ahead of it there or in the local queues of the calls below, and the same for the shared queue and all local queues; a routine that blocks takes the whole shared queue with it, so what it leaves waiting is only what it interrupts |
| `EngineImplementsService` | `ImplementsService`, if `~HandlersMayBlock` | refinement: `LowerIdle`, below the innermost call nothing is in progress or waiting, since only power routines open another one, with nothing in progress (`OfflineQuiet`); so the innermost local queue followed by `requestQueue` is all that waits; each action is the step of the service it is named after, or a stutter |
| `PS2DataPortProofs!StreamsApart` | `StreamsNotMixed` | the queue holds keyboard bytes only, the byte put aside is of the stream that is read, and the port still holds the mouse byte whose status was seen, since only this side empties it |
| `MouseOrdered` | `MouseInOrder` | bytes delivered, the one put aside and the one in the port form an increasing line |
| `KeyboardOrdered` | `KeyboardInOrder` | the same line with the queue between, and: the port is not polled for the keyboard while bytes are queued |
| `BytesConserved` | `EachByteOnce` | `Conserved`: the numbers of copies of a byte in port, handler, queue, reading request, deliveries, answers and losses add up to one, and each step moves one copy |
| `AnswerFound` | `StrayByteTolerated` | `Progress`: the bytes of the device that were read, put aside or wait since the command never outnumber those it sent; `Numbered`: no answer in transit is newer than the command, nor on the other stream; `Front`: what the request has put aside and what lies in front of its answer were all sent between the bytes read before the command and the answer; so an answer that a read leaves behind has had two bytes in front of it |
| `PS2DataPortProofs!TypeCorrect` | `TypeOK` | from the same parts |
| `BytesAreServed` | `WakeUpToCome` | inductive as it stands: the keyboard's interrupt stays pending until its handler takes the byte or a read does; the signal is consumed only by the loop of `interruptOccurred`, which goes on until the queue is empty and no mouse byte is in the port; the lock is dropped at the end of each poll |
| `PS2PowerProofs!PortFollows` | `PortFollowsPowerState` | `PowerInv`: at most one callout in the gate, and `AtStage` says for each stage what state it started from and how far port and drivers have come |
| `ToldOnline` | `DriversToldOnline` | action property from the same invariant |
| `RetainsCounted` | `RetainPerCall` | cardinality of the running callouts, one action at a time |
| `PS2PowerProofs!TypeCorrect` | `TypeOK` | that the retain count never becomes negative follows from `RetainPerCall` |
| `AcksTruthful` | `AckTruthful` | `OneChange`: while no change is overdue, one change at most is under way, and it carries what was asked for last |
| `ChangesAreServed` | `ChangeInHand` | a change that waits has a callout queued or before its end: a later change only replaces the parameter of one that is queued, and whichever callout ends first acknowledges |
| `PS2DriverProofs!TypeCorrect` | `TypeOK` of `PS2CommandByte` | with `InCall` |
| `QuietUpdatesAtomically` | `ImplementsRegister` for `ScanCodes = {}` | refinement of the register by `QuietInv`: the stream holds nothing but the answer to the request in the gate, which is the register |
| `UpdatesAreAtomic` | `UpdatesAtomically` | `AnswerInv`: the gate belongs to the driver amid a request; until it has been read the answer is in the stream, `ahead` bytes from its front, and is the register, because only the holder of the gate writes it; so a test that the answer itself passes has shown the register |
| `KeyboardTypeCorrect` | `KeyboardTypeOK` | with the three below |
| `DriverFollowsUser` | `KeysFollowUser` | both parsers are machines that read codes (`Handle`, `Escape`), and `Run` says that codes take a machine from one state to another. `Flows`: the codes queued take the driver to some state, and from there the codes on their way take both parsers to a state between two sequences in which they have down what the user holds. Typing appends a run, `doEscape` moves the first code from one run to the other, the driver shortens its own |
| `ParsersAgree` | `ModifiersAgree` | from `Flows`, weakened to the modifier keys once the debugger has been called |
| `DebuggerOnPurpose` | `DebuggerMeant` | `Heard`: whatever was lost or mixed up before, the codes still on their way take the controller's parser to the modifiers held; a last code that is a delete changes none of them |
| `PS2MouseProofs!BufferNeverFull` | `PacketFits` | a packet that is complete is taken at once, and wherever the packet length changes the buffer is emptied in the same step, at any depth of nested resets |
| `PluggedReports` | `PluggedIsEnabled` | `EnabledInv`: at rest with a mouse that does not report, its 0xAA is still in transit with no data before it or alone in the buffer, and awake every chain of resets ends in "enable" |
| `PS2MouseProofs!TypeCorrect` | `TypeOK` | the counters of accidents and attempts stay within their limits, and every nested reset is at one of its commands |
| `PS2TouchpadProofs!TimerStands` | `TimerBehindPromise` | by stages of the handler (`Sound`): an undisturbed tap is not remembered while a drag goes on or is held, so each arming or stopping of the timer concerns one of the two |
| `PS2TouchpadProofs!TypeCorrect` | `TypeOK` | the same stages keep an `Outcome` |
| `TapsPaid` | `PressPerTap` | `Owing`: until it is disturbed the driver owes one press for the tap it remembers and none otherwise; the button is up while it does, and down while a drag goes on or is held, so neither the timer nor the end of a drag presses it again |
| `DeviceProofs!FreshAgreement` | `FreshAgrees` | for each step of a poll, what it has published so far agrees with the battery as long as nothing disturbs it |
| `TimerRunsOn` | `NextPollComes` | a poll ends only by arming the timer, the timer is disarmed only by a poll |
| `BatteryTypeCorrect` | `TypeOK` of `ACPIBattery` | by action |
| `SafeSpeeds` | `NoFasterThanAsked` | `TimingsIInv`: the timings selected suit what is asked (`AskOK`), a channel's copies hold them (`CopyOK`), every register not still to be written agrees with the copies in the channel's own fields (`WrittenOK`), the cable bits never change (`CableOK`), and what `turnOffDrive` or `turnOnDrive` has read holds the clocks of every channel not overtaken since (`PowerOK`); from fields to cycle times by the tables of the modes |
| `ChannelsApart` | `OtherChannelKeepsTimings` | the masks of a channel's writes leave the other's fields alone (`FieldsAlike`), and the cycle times of a drive depend on its channel's fields only |
| `TimingsTypeCorrect` | `TimingsTypeOK` | part of the same invariant |
| `R1000RingsProofs!DeliversInOrder` | `FramesInOrder` | places on a ring are measured by their distance from `cur_rx`: the descriptors not owned by the chip are a window that ends where it fills next (`RxWindow`), and what waits in them is what was stored and not delivered, in order (`RxOrder`) |
| `CurRxFollowsChip` | `CurRxIsNextFrame` | from the same window |
| `MbufsNeverLeak` | `MbufsAccounted` | the entries of `Tx_skbuff` in use lie between `dirty_tx` and `cur_tx` (`SkbWindow`), so `outputPacket` writes to a free one |
| `SendsEveryPacketInOrder` | `NoPacketLostOrSwapped` | the descriptors the chip owns are the window from its place to `cur_tx`, and hold the packets not sent yet in order (`ChipWindow`, `Wire`) |
| `R1000RingsProofs!TypeCorrect` | `TypeOK` | from the types the four above rest on; a round either ends the routine or lowers its budget |
| `StallsAreServed` | `StallIsServed` | `StallInv`: a queue stalls only when the chip owns the descriptor at `cur_tx`, so, by `ChipWindow`, also the one at its own place, and while it owns any it polls (`Polled`); sending raises TxOK, which only a round clears that goes on to `R1000TxInterrupt`; that one begins at `cur_tx`, which the chip has given back (`Aimed`), with packets outstanding (`ToReap`) |

The assumptions are typing assumptions on the constants, `Gate` and `None` being
distinct from threads and requests, a finite set of callouts,
`HandlersMayBlock = FALSE` for `EngineImplementsService` alone, which section 5
shows to be necessary, and an empty set of scan codes for
`QuietUpdatesAtomically`. `QuietOffline`, `RetainsCounted`, `BytesAreServed`,
`StallsAreServed`, `ChangesAreServed`, `QuietUpdatesAtomically` and the type theorems state what no run lists: TLC was
asked on the instances of the runs before they were proved, and the theorem has
taken the run's place. The properties of `R1000Rings` hold outside
the incidents that their definitions name, and the theorems with them.

Only model-checked: everything under fairness (`BlockedReturns`,
`SubmittedCompletes`, `BytesMoveOn`, `UpdateEnds`, `AcknowledgedUnlessReset`,
`SynchronisesAgain`, `HeldIsReleased`, `Converges`, `StallEnds`), which the
provers cannot handle. Every other property of the runs that pass is a theorem.
What `BytesMoveOn`, `StallEnds`, `AcknowledgedUnlessReset` and the battery's
polling rest on is proved as a safety property all the same, by `BytesAreServed`,
`StallsAreServed`, `ChangesAreServed` and `TimerRunsOn`: nothing that waits is
without a wake-up to come. That the wake-up then comes is fairness, and TLC's.

## 5. Where code and comments disagree

One run ends in a violation on purpose.

* `PowerWakeHangs`. "Acknowledge the power change before the power management
  timeout expires" (C:1461). At wake-up `readDataPort` (C:1433) dispatches mouse
  bytes while `_hardwareOffline` is still set. A mouse that has been power cycled
  sends 0xAA 0x00, its driver resets it (MO:345), the reset ends in
  `setCommandByte` (MO:277), whose loop (MO:740) repeats until its request
  succeeds, and off line every request fails at its first command.

The following were found in the same way. They have no run of their own; each
is reproduced by the change named to the configuration of a run.

* `ImplementsService` in `RequestQueueSerial` with `HandlersMayBlock = TRUE`.
  "Requests are executed atomically with respect to all other requests"
  (`ApplePS2Device.h:222`). When a driver's interrupt routine blocks (mouse
  reset), C:577-578 execute requests in the middle of the one whose
  `readDataPort` met the byte. The same call overtakes requests on the
  interrupted local queue, against "Process each request in order"; `InOrder`
  says that nothing else does.
* `KeyboardInOrder` without its condition on the environment, in `DataPort`. "We
  do not read keyboard data from the real data port if it should be available"
  on the queue (C:631). A read of the mouse stream that meets a keyboard byte
  dispatches it (C:922) while older ones are still queued.
* `ImplementsRegister` as a PROPERTY of `CommandByte`, already with one scan code
  when `MaxCalls` is 5. `setCommandByte`
  "sets the bits setBits and clears the bits clearBits 'atomically'" (KB:558).
  The command byte is read as the first byte of the keyboard stream. If that is
  a scan code, the test reads the stream again, and a repeated scan code passes
  it; or the scan code is what the register was before another driver changed it.
  `UpdatesAtomically` says that nothing else goes wrong: every change that the
  atomic register could not make was allowed by a byte that was not the answer.
* `DebuggerReleases` as an invariant of `Keyboard`. "Release all the modifier
  keys that were down before the debugger function was called" (C:1230). The E0
  of the extended delete key is on the queue when `doEscape` drops the rest, so
  the release of the left Alt key is parsed as that of the right one.
* `NeverLockedAtTimeout` as an invariant of `Touchpad`. "Should NEVER be true
  when we enter here", says SY:1420 of `_dragLocked` in the drag timer's routine;
  but a locked drag that is lifted arms the timer like any other.
* `NextRxPkt` as an invariant of `R1000Rings` with `ErrorFrames` and `AllocFails`
  FALSE. `RealtekR1000.h:154` calls `cur_rx` "Index into the Rx descriptor buffer
  of next Rx pkt." `R1000HwStart` sets it to 0 (R:1395) and restarts the chip at
  descriptor 0, but no path gives frames that wait in the ring back to the chip,
  so after a restart over a waiting frame the driver waits at a descriptor that
  is not the one the chip fills next.
* `NoFasterThanAskedPIO` as an invariant of `ATATimings`. "If DMA and PIO require
  different timings, we use fast timing for DMA only, and revert to compatible
  timing for PIO data register access" (PX:990-992). The bit that says so, DTE
  ("DMA timing enable only"), is cleared (PX:1202-1208) where it would have to be
  set, so PIO runs at the DMA timing.

Seen while modelling and stated by no property. PS/2: "Freeze the request queue"
(C:1393) and "wake up all driver threads that were blocked" (C:1441) describe a
queue that waits while off line, but C:712 fails its requests; "the IRQs are
disabled" (C:239) but only the mouse's is (C:249); the Pause key comment
(KB:286-290) speaks of two key events, but code 0x45 after E1 falls into the
default of the extended table and gives none; `now` is used without a value for
E0 34 (KB:345). Mouse: a packet completed inside a reset sets the count of
resets back, so five do not bound their nesting; a mouse plugged in amid a
packet, with data unread, or between `resetMouse` and the installation of the
interrupt routine stays disabled; `getMouseID` may take a byte of data for the
identification. Touchpad: a two-finger tap while a tap waits loses both clicks;
a tap that came before a held drag settled is swallowed; a button or tap-drag press
stays reported down if the packets that would release it come while a key is
held, since `_prefIgnoreAccidental` drops them (SY:447-454) and the touchpad
falls silent; `setParamProperties`
and a brown out clear the flags and not the timer, which then sends a stray
click; the drag timer is created after the touchpad has been enabled (SY:319).
Battery: the manager calls 1 `kNewBatteryPath`, the device calls it
`kExistingBatteryPath` (BM:146, BD:32); `fBatteryReadAllTimer` is never added to
the work loop (BD:172-177); a removal leaves `FullyCharged` published; a removal
acted on with a status read before the battery came back clears it until the
next poll. Network: the watchdog is armed once by `enable`, never again, and
restarts the chip ten seconds later whether or not anything is stuck;
`outputPacket` overwrites `Tx_skbuff` of packets sent and not reaped when the
ring is full of them (a guard is commented out, R:433-440); the entry of
`R1000TxInterrupt` runs past the array (R:1955-1964); the descriptors of error
frames are not given back (R:1894-1901). ATA: `turnOffDrive` and `turnOnDrive`
write IDECONFIG without the lock that "serialize[s] changes in those timing
registers" and undo what the other channel writes in between (the `overtaken`
channels of `PIIXTimings`); the "Unit 1" column of `piixIDETIM`
(`AppleIntelPIIXATATiming.h:39-47`) sets the bits of drive 0; the signal mode
bits switched are those of the primary channel whatever the channel.

## 6. What is not modelled

* In the modelled parts: the contents of requests and the 20 commands' effects
  on the devices; the build without `DEBUGGER_SUPPORT`; `DisableDevice` of the
  keyboard with codes under way; typing after the stream was disturbed; power
  callouts against `stop()`; an 8042 that does not answer at all, whose read gives
0, which `setCommandByte` may take for the command byte; that a late acknowledgement can be taken for the
  next command's; the wake-up write of the command byte. The mouse's resolution
  and buttons. The touchpad's relative mode, its thresholds and accelerations.
  The battery's capacities, rates and times: arithmetic on what it reports, in
  which the average rate mixes batteries and `fMaxCapacity - fCurrentCapacity`
  may wrap. The network driver's probing, PHY, media, packet filter, what a
  change of the link does beside running the routine, receive errors reported
  without a descriptor, oversized packets (freed by `outputPacket` without a
  trace in the ring). ATA controllers with shared drive timings, SATA ports, the DMA engine
  and its PRD table, the polled interface; modes of `IOATADevConfig` are asked
  for one at a time.
* The start and stop of controller and drivers (only `stop()` of the request
  queue is modelled): the hazards at C:361 and C:1348 are open, and a model
  could only restate them, since the code has nothing that prevents them.
* The ALPS driver: the mouse driver's packet reception without its resets.
* SMBIOSResolver, ClamshellDisplay, Mini9WirelessManager, AppleACPIPS2Nub,
  DSDT_Patcher: sequential and without state worth a model. Preference pane,
  installers: user interface and scripts. IOHIDFamily, IOAudioFamily, AppleHDA:
  vendored; they are most of the lines of this repository (some 70 %), and the
  reason why the modules stand for a few percent of it.

## 7. Plan

Done, in the order of importance: request engine, byte path, power management,
command byte, scan codes; mouse, touchpad, battery, network rings, ATA timings.

Next, models: start, stop, installation and removal of the driver actions with
the hazards above; a key held into sleep and typing after a disturbance in
`PS2Keyboard`; the wake-up write of the command byte; the PRD table of the ATA
driver as a function of the segments of a buffer.

Next, proofs: the safety theorems for what these models add. Refinements of more
components: a battery's publication and the rings as abstract queues, of which
`FreshAgrees`, `FramesInOrder` and `NoPacketLostOrSwapped` state the gist today.
