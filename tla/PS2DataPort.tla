----------------------------- MODULE PS2DataPort -----------------------------
(***************************************************************************)
(* The byte path of ApplePS2Controller: the 8042 output buffer, the two    *)
(* interrupt handlers, the keyboard queue between the keyboard interrupt   *)
(* handler and the work loop, and the two readDataPort routines with which *)
(* a request waits for a byte of one device, putting one unexpected byte   *)
(* aside and dispatching the bytes of the other device at once.            *)
(*                                                                         *)
(* Every byte a device sends is numbered, so that a history of what the    *)
(* drivers were given can be compared with what was sent.  Both drivers    *)
(* are installed and the port is online.                                   *)
(***************************************************************************)
EXTENDS Naturals, Sequences, FiniteSets

CONSTANTS
  QueueSize,    (* kKeyboardQueueSize                                       *)
  MaxBytes,     (* bound on the bytes each device sends                     *)
  MaxCommands,  (* bound on the commands sent to the devices                *)
  Environments  (* the circumstances explored: which devices commands are   *)
                (* sent to, and whether an answer may arrive after the poll *)
                (* counter ran out                                          *)

Keyboard == "keyboard"
Mouse == "mouse"
Devices == {Keyboard, Mouse}
Other(d) == IF d = Keyboard THEN Mouse ELSE Keyboard

ASSUME ConstantsAssumption ==
  /\ QueueSize \in Nat \ {0}
  /\ MaxBytes \in Nat /\ MaxCommands \in Nat
  /\ Environments \subseteq [reads : SUBSET Devices, late : BOOLEAN]

(* A byte: its device, its number on that device's stream, and the command *)
(* it answers, 0 for key and mouse data.                                   *)
Byte == [dev : Devices, n : 1..MaxBytes, answers : 0..MaxCommands]
NoByte == [dev |-> "none", n |-> 0, answers |-> 0]

VARIABLES
  environment,   (* the circumstances of this behaviour                     *)
  port,          (* the output buffer: a byte or NoByte                     *)
  sent,          (* how many bytes each device has sent                     *)
  answerDue,     (* the command a device still has to answer, or 0          *)
  irq,           (* interrupt requests not yet serviced                     *)
  signal,        (* event sources signalled to the work loop                *)
  keyboardQueue, (* _keyboardQueue                                          *)
  locked,        (* _controllerLock held by the work loop, interrupts off   *)
  at,            (* where the work loop is                                  *)
  want,          (* readDataPort's deviceType                               *)
  expecting,     (* whether it is the variant with an expected byte         *)
  firstByte,     (* the byte put aside, NoByte unless firstByteHeld         *)
  command,       (* number of the command being answered                    *)
  readBefore,    (* bytes of the device already read when it was written    *)
  reply,         (* what the last readDataPort returned, NoByte for timeout *)
  delivered,     (* history: bytes given to each driver                     *)
  lost           (* history: bytes returned to requests or dropped          *)

reader == <<want, expecting, firstByte, command, readBefore>>
vars == <<environment, port, sent, answerDue, irq, signal, keyboardQueue, locked, at,
          want, expecting, firstByte, command, readBefore, reply, delivered, lost>>

TypeOK ==
  /\ environment \in Environments
  /\ port \in Byte \cup {NoByte}
  /\ sent \in [Devices -> 0..MaxBytes]
  /\ answerDue \in [Devices -> 0..MaxCommands]
  /\ irq \in [Devices -> BOOLEAN]
  /\ signal \in BOOLEAN
  /\ keyboardQueue \in Seq(Byte) /\ Len(keyboardQueue) <= QueueSize
  /\ locked \in BOOLEAN
  /\ at \in {"idle", "interrupt", "mouse data", "read", "poll"}
  /\ want \in Devices
  /\ expecting \in BOOLEAN
  /\ firstByte \in Byte \cup {NoByte}
  /\ command \in 0..MaxCommands
  /\ readBefore \in 0..MaxBytes
  /\ reply \in Byte \cup {NoByte}
  /\ delivered \in [Devices -> Seq(Byte)]
  /\ lost \subseteq Byte

Init ==
  /\ environment \in Environments
  /\ port = NoByte
  /\ sent = [d \in Devices |-> 0]
  /\ answerDue = [d \in Devices |-> 0]
  /\ irq = [d \in Devices |-> FALSE]
  /\ signal = FALSE
  /\ keyboardQueue = <<>>
  /\ locked = FALSE
  /\ at = "idle"
  /\ want = Keyboard /\ expecting = FALSE /\ firstByte = NoByte
  /\ command = 0 /\ readBefore = 0
  /\ reply = NoByte
  /\ delivered = [d \in Devices |-> <<>>]
  /\ lost = {}

Deliver(d, bytes) == [delivered EXCEPT ![d] = @ \o bytes]

(* readDataPort returns b; what a request is given no driver sees.         *)
Return(b) ==
  /\ reply' = b
  /\ lost' = IF b = NoByte THEN lost ELSE lost \cup {b}
  /\ firstByte' = NoByte
  /\ at' = "idle"

-----------------------------------------------------------------------------
(* Faulty versions of definitions below: slips the code could have made.   *)

(* The mouse interrupt does not wake the work loop.                        *)
InterruptHandlerMouseSilent ==
  /\ irq[Mouse]
  /\ irq' = [irq EXCEPT ![Mouse] = FALSE]
  /\ UNCHANGED <<environment, port, sent, answerDue, signal, keyboardQueue, locked, at, reader,
                 reply, delivered, lost>>

(* kOutputReady is tested without kMouseData.                              *)
InterruptLoopAnyData ==
  /\ at = "interrupt"
  /\ IF keyboardQueue # <<>>
     THEN /\ delivered' = Deliver(Keyboard, <<Head(keyboardQueue)>>)
          /\ keyboardQueue' = Tail(keyboardQueue)
          /\ UNCHANGED at
     ELSE /\ at' = IF port # NoByte THEN "mouse data" ELSE "idle"
          /\ UNCHANGED <<delivered, keyboardQueue>>
  /\ UNCHANGED <<environment, port, sent, answerDue, irq, signal, locked, reader, reply, lost>>

(* After a second mismatch readDataPort goes on waiting.                   *)
RequestedKeepsWaiting(b) ==
  \/ ~expecting /\ Return(b) /\ UNCHANGED delivered
  \/ /\ expecting /\ b.answers # 0
     /\ Return(b)
     /\ delivered' = Deliver(want, IF firstByte = NoByte THEN <<>> ELSE <<firstByte>>)
  \/ /\ expecting /\ b.answers = 0 /\ firstByte = NoByte
     /\ firstByte' = b /\ at' = "read"
     /\ UNCHANGED <<reply, lost, delivered>>
  \/ /\ expecting /\ b.answers = 0 /\ firstByte # NoByte
     /\ delivered' = Deliver(want, <<b>>) /\ at' = "read"
     /\ UNCHANGED <<firstByte, reply, lost>>

(* The first byte that is not the expected one fails the command.          *)
RequestedReturnsFirst(b) ==
  /\ Return(b)
  /\ delivered' = Deliver(want, IF firstByte = NoByte THEN <<>> ELSE <<firstByte>>)

(* The byte put aside is forgotten when the poll counter runs out.         *)
ReadTimeoutForgets ==
  /\ at = "poll"
  /\ locked' = FALSE /\ at' = "idle"
  /\ reply' = NoByte /\ firstByte' = NoByte
  /\ UNCHANGED <<environment, port, sent, answerDue, irq, signal, keyboardQueue, want, expecting,
                 command, readBefore, delivered, lost>>

-----------------------------------------------------------------------------
(* The devices: data of their own, or the answer to a command.             *)
Send(d, answers) ==
  /\ port = NoByte
  /\ sent[d] < MaxBytes
  /\ answers \in {0, answerDue[d]}
  /\ sent' = [sent EXCEPT ![d] = @ + 1]
  /\ port' = [dev |-> d, n |-> sent[d] + 1, answers |-> answers]
  /\ answerDue' = IF answers = 0 THEN answerDue ELSE [answerDue EXCEPT ![d] = 0]
  /\ irq' = [irq EXCEPT ![d] = TRUE]
  /\ UNCHANGED <<environment, signal, keyboardQueue, locked, at, reader, reply, delivered, lost>>

-----------------------------------------------------------------------------
(* Interrupt time.                                                         *)

(* interruptHandlerMouse: wake the work loop, leave the byte in the port.  *)
InterruptHandlerMouse ==
  /\ irq[Mouse]
  /\ irq' = [irq EXCEPT ![Mouse] = FALSE]
  /\ signal' = TRUE
  /\ UNCHANGED <<environment, port, sent, answerDue, keyboardQueue, locked, at, reader, reply,
                 delivered, lost>>

(* enqueueKeyboardData: a byte that finds no unused element is dropped.    *)
Enqueue(b) ==
  IF Len(keyboardQueue) < QueueSize
  THEN keyboardQueue' = Append(keyboardQueue, b) /\ UNCHANGED lost
  ELSE lost' = lost \cup {b} /\ UNCHANGED keyboardQueue

(* interruptHandlerKeyboard; what it finds in the port need not be what    *)
(* raised the interrupt.                                                   *)
InterruptHandlerKeyboard ==
  /\ irq[Keyboard]
  /\ ~locked
  /\ irq' = [irq EXCEPT ![Keyboard] = FALSE]
  /\ signal' = (signal \/ port # NoByte)
  /\ IF port.dev = Keyboard
     THEN Enqueue(port) /\ port' = NoByte
     ELSE UNCHANGED <<port, keyboardQueue, lost>>
  /\ UNCHANGED <<environment, sent, answerDue, locked, at, reader, reply, delivered>>

-----------------------------------------------------------------------------
(* The work loop.                                                          *)

(* interruptOccurred is called for a signalled event source.               *)
InterruptOccurred ==
  /\ at = "idle"
  /\ signal
  /\ signal' = FALSE
  /\ at' = "interrupt"
  /\ UNCHANGED <<environment, port, sent, answerDue, irq, keyboardQueue, locked, reader, reply,
                 delivered, lost>>

(* Its loop: the keyboard queue first, then the status of the port.        *)
InterruptLoop ==
  /\ at = "interrupt"
  /\ IF keyboardQueue # <<>>
     THEN /\ delivered' = Deliver(Keyboard, <<Head(keyboardQueue)>>)
          /\ keyboardQueue' = Tail(keyboardQueue)
          /\ UNCHANGED at
     ELSE /\ at' = IF port.dev = Mouse THEN "mouse data" ELSE "idle"
          /\ UNCHANGED <<delivered, keyboardQueue>>
  /\ UNCHANGED <<environment, port, sent, answerDue, irq, signal, locked, reader, reply, lost>>

(* The byte itself is read after the controller has been unlocked.         *)
InterruptMouseData ==
  /\ at = "mouse data"
  /\ delivered' = Deliver(Mouse, IF port = NoByte THEN <<>> ELSE <<port>>)
  /\ port' = NoByte
  /\ at' = "interrupt"
  /\ UNCHANGED <<environment, sent, answerDue, irq, signal, keyboardQueue, locked, reader, reply, lost>>

(* Bytes of a device that wait for the work loop; the keyboard queue is    *)
(* filled from the keyboard only.                                          *)
Unread(d) ==
  (IF d = Keyboard THEN Len(keyboardQueue) ELSE 0) + (IF port.dev = d THEN 1 ELSE 0)

(* A request has written a command for device d; the device will answer it *)
(* or not; readDataPort is entered.                                        *)
BeginRead(d, exp, willAnswer) ==
  /\ at = "idle"
  /\ d \in environment.reads
  /\ command < MaxCommands
  /\ command' = command + 1 /\ readBefore' = sent[d] - Unread(d)
  /\ answerDue' = [answerDue EXCEPT ![d] = IF willAnswer THEN command + 1 ELSE 0]
  /\ want' = d /\ expecting' = exp /\ firstByte' = NoByte
  /\ at' = "read"
  /\ UNCHANGED <<environment, port, sent, irq, signal, keyboardQueue, locked, reply, delivered, lost>>

(* What becomes of a byte b of the requested stream: returned if expected, *)
(* after the byte put aside went to the driver; put aside if it is the     *)
(* first; else given to the driver while the first one is returned.        *)
Requested(b) ==
  \/ ~expecting /\ Return(b) /\ UNCHANGED delivered
  \/ /\ expecting /\ b.answers # 0
     /\ Return(b)
     /\ delivered' = Deliver(want, IF firstByte = NoByte THEN <<>> ELSE <<firstByte>>)
  \/ /\ expecting /\ b.answers = 0 /\ firstByte = NoByte
     /\ firstByte' = b /\ at' = "read"
     /\ UNCHANGED <<reply, lost, delivered>>
  \/ /\ expecting /\ b.answers = 0 /\ firstByte # NoByte
     /\ Return(firstByte)
     /\ delivered' = Deliver(want, <<b>>)

(* A byte has been read from the port, the controller is unlocked.         *)
Received(b) ==
  IF b.dev = want
  THEN Requested(b)
  ELSE /\ delivered' = Deliver(Other(want), <<b>>)
       /\ at' = "read"
       /\ UNCHANGED <<firstByte, reply, lost>>

(* Faulty: a keyboard read does not look at the queue.                     *)
ReadLoopIgnoresQueue ==
  /\ at = "read"
  /\ IF port # NoByte
     THEN port' = NoByte /\ Received(port) /\ UNCHANGED locked
     ELSE /\ locked' = TRUE /\ at' = "poll"
          /\ UNCHANGED <<port, firstByte, reply, delivered, lost>>
  /\ UNCHANGED <<environment, sent, answerDue, irq, signal, keyboardQueue, want, expecting, command,
                 readBefore>>

(* The top of readDataPort's loop: lock the controller; a keyboard read    *)
(* takes queued data first; otherwise the port is read when it has a byte, *)
(* and polled with the lock held when it has none.                         *)
ReadLoop ==
  /\ at = "read"
  /\ IF want = Keyboard /\ keyboardQueue # <<>>
     THEN /\ keyboardQueue' = Tail(keyboardQueue)
          /\ Requested(Head(keyboardQueue))
          /\ UNCHANGED <<port, locked>>
     ELSE /\ IF port # NoByte
             THEN port' = NoByte /\ Received(port) /\ UNCHANGED locked
             ELSE /\ locked' = TRUE /\ at' = "poll"
                  /\ UNCHANGED <<port, firstByte, reply, delivered, lost>>
          /\ UNCHANGED keyboardQueue
  /\ UNCHANGED <<environment, sent, answerDue, irq, signal, want, expecting, command,
                 readBefore>>

ReadPolled ==
  /\ at = "poll"
  /\ port # NoByte
  /\ port' = NoByte
  /\ locked' = FALSE
  /\ Received(port)
  /\ UNCHANGED <<environment, sent, answerDue, irq, signal, keyboardQueue, want, expecting, command,
                 readBefore>>

(* The poll counter runs out; an answer still due will come late.          *)
ReadTimeout ==
  /\ at = "poll"
  /\ environment.late \/ (answerDue[want] = 0 /\ port.answers = 0)
  /\ locked' = FALSE
  /\ Return(firstByte)
  /\ UNCHANGED <<environment, port, sent, answerDue, irq, signal, keyboardQueue, want, expecting,
                 command, readBefore, delivered>>

Next ==
  \/ \E d \in Devices, c \in 0..MaxCommands : Send(d, c)
  \/ InterruptHandlerMouse
  \/ InterruptHandlerKeyboard
  \/ InterruptOccurred
  \/ InterruptLoop
  \/ InterruptMouseData
  \/ \E d \in Devices, exp, willAnswer \in BOOLEAN : BeginRead(d, exp, willAnswer)
  \/ ReadLoop
  \/ ReadPolled
  \/ ReadTimeout

Spec == Init /\ [][Next]_vars

(* Interrupts are taken, the work loop runs, the poll counter runs out; no  *)
(* device has to send anything and no request has to be made.               *)
Fairness ==
  /\ WF_vars(InterruptHandlerMouse)
  /\ WF_vars(InterruptHandlerKeyboard)
  /\ WF_vars(InterruptOccurred) /\ WF_vars(InterruptLoop) /\ WF_vars(InterruptMouseData)
  /\ WF_vars(ReadLoop) /\ WF_vars(ReadPolled) /\ WF_vars(ReadTimeout)

FairSpec == Spec /\ Fairness

-----------------------------------------------------------------------------
Occurrences(s, d, n) == Cardinality({i \in DOMAIN s : s[i].dev = d /\ s[i].n = n})
Is(b, d, n) == IF b.dev = d /\ b.n = n THEN 1 ELSE 0

(* Every byte a device has sent is in exactly one place: the port, the      *)
(* keyboard queue, put aside by readDataPort, given to a driver, returned   *)
(* to a request or dropped - none is lost or seen twice between interrupt   *)
(* handler, interruptOccurred and the two readDataPort routines.            *)
EachByteOnce ==
  \A d \in Devices : \A n \in 1..sent[d] :
    Is(port, d, n) + Is(firstByte, d, n) + Occurrences(keyboardQueue, d, n)
      + Occurrences(delivered[Keyboard], d, n) + Occurrences(delivered[Mouse], d, n)
      + Cardinality({b \in lost : b.dev = d /\ b.n = n}) = 1

(* No driver is ever given a byte of the other device, although status and  *)
(* data are read in separate steps and interrupts come in between.          *)
StreamsNotMixed ==
  \A d \in Devices : \A i \in DOMAIN delivered[d] : delivered[d][i].dev = d

InOrder(d) == \A i, j \in DOMAIN delivered[d] :
  i < j => delivered[d][i].n < delivered[d][j].n

(* The mouse driver sees the bytes of the mouse in the order they were      *)
(* sent, whether interruptOccurred or a request's readDataPort meets them   *)
(* and although one of them may be put aside meanwhile.                     *)
MouseInOrder == InOrder(Mouse)

(* So does the keyboard driver while only keyboard commands are read: "we   *)
(* do not read keyboard data from the real data port if it should be        *)
(* available" on the queue.  (A read of the mouse stream takes keyboard     *)
(* bytes from the port ahead of older ones in the queue.)                   *)
KeyboardInOrder == environment.reads = {Keyboard} => InOrder(Keyboard)

(* The answer to the last command is on its way, byte n of its device. *)
AnswerAt(n) ==
  \/ answerDue[want] = command /\ n = sent[want] + 1
  \/ port.answers = command /\ n = port.n
  \/ \E i \in DOMAIN keyboardQueue :
       keyboardQueue[i].answers = command /\ n = keyboardQueue[i].n

(* "The caller will have never known that asynchronous data arrived at a    *)
(* very bad time": with one byte put aside, a request fails while its answer*)
(* is on its way only if at least two other bytes of the device came before *)
(* the answer, not counting what was read before the command was written.   *)
StrayByteTolerated ==
  (~environment.late /\ at = "idle" /\ expecting /\ reply # NoByte /\ reply.answers = 0)
    => \A n \in 1..(MaxBytes + 1) : AnswerAt(n) => n > readBefore + 2

(* The output buffer never stays full: an interrupt that found another      *)
(* device's byte, or that was merged with one before it, leaves none behind;*)
(* and what the keyboard interrupt handler queued reaches the work loop.    *)
BytesMoveOn ==
  /\ port # NoByte ~> port = NoByte
  /\ keyboardQueue # <<>> ~> keyboardQueue = <<>>
=============================================================================
