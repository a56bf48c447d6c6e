--------------------------- MODULE PS2RequestQueue ---------------------------
(***************************************************************************)
(* The request engine of ApplePS2Controller: driver threads submit         *)
(* requests, asynchronously or blocking; the work loop drains the request  *)
(* queue inside its recursive gate; a driver's interrupt or power routine, *)
(* which runs inside that gate too, may submit further requests and may    *)
(* block on one, which drains the queue in the middle of whatever the gate *)
(* was doing.                                                              *)
(*                                                                         *)
(* A request is an identity in Requests: allocateRequest takes one that is *)
(* free, freeRequest gives it back.  Its commands are abstracted to "it    *)
(* begins, it may be preempted by data of the other device, it completes": *)
(* success and failure leave processRequest by the same path.              *)
(***************************************************************************)
EXTENDS Naturals, Sequences, FiniteSets

CONSTANTS
  Requests,         (* the request structures                              *)
  Clients,          (* driver threads outside the work-loop gate           *)
  None,             (* "no request", and the caller of a fire-and-forget   *)
  Gate,             (* the caller of a request blocked on inside the gate  *)
  MaxDepth,         (* bound on the nesting of queue drains                *)
  HandlersMayBlock  (* do interrupt routines call submitRequestAndBlock?   *)

ASSUME ConstantsAssumption ==
  /\ None \notin Requests \cup Clients
  /\ Gate \notin Clients \cup {None}
  /\ MaxDepth \in Nat
  /\ HandlersMayBlock \in BOOLEAN

VARIABLES
  phase,        (* what has become of each request                         *)
  caller,       (* who waits for it: its completionTarget and Param        *)
  requestQueue, (* _requestQueue                                           *)
  queueSignal,  (* _interruptSourceQueue has been signalled                *)
  pc,           (* where each client is in submitRequest[AndBlock]         *)
  blockedOn,    (* the request a client blocks on                          *)
  stack,        (* the calls nested inside the gate, innermost last        *)
  power,        (* the stage of setPowerStateGated, "stopped" after stop() *)
  older         (* history: the waiting requests submitted before a request*)

vars == <<phase, caller, requestQueue, queueSignal, pc, blockedOn, stack, power, older>>

(* One nested call in the gate: a processRequestQueue with the requests    *)
(* left in its localQueue and the request it is processing, or a driver    *)
(* routine called by the gate; "own" is the request its caller blocks on,  *)
(* processed after the local queue.  "handler": a driver routine is        *)
(* running on top of this call.                                            *)
Frame == [batch : Seq(Requests), cur : Requests \cup {None},
          own : Requests \cup {None}, handler : BOOLEAN]

Phases == {"free", "queued", "batched", "executing", "completed"}

(* "waking": setPowerStateGated reads the command byte, still off line.     *)
(* "resetting": in that read a mouse byte has made the mouse driver reset   *)
(* its device, and the reset repeats a request that cannot succeed.         *)
Powers == {"on", "suspending", "asleep", "waking", "resetting", "resuming", "stopped"}

TypeOK ==
  /\ phase \in [Requests -> Phases]
  /\ caller \in [Requests -> Clients \cup {Gate, None}]
  /\ requestQueue \in Seq(Requests)
  /\ queueSignal \in BOOLEAN
  /\ pc \in [Clients -> {"idle", "signalling", "waiting"}]
  /\ blockedOn \in [Clients -> Requests \cup {None}]
  /\ stack \in Seq(Frame)
  /\ power \in Powers
  /\ older \in [Requests -> SUBSET Requests]

Init ==
  /\ phase = [r \in Requests |-> "free"]
  /\ caller = [r \in Requests |-> None]
  /\ requestQueue = <<>>
  /\ queueSignal = FALSE
  /\ pc = [c \in Clients |-> "idle"]
  /\ blockedOn = [c \in Clients |-> None]
  /\ stack = <<>>
  /\ power = "on"
  /\ older = [r \in Requests |-> {}]

-----------------------------------------------------------------------------
(* _hardwareOffline *)
Offline == power \in {"asleep", "waking", "resetting", "stopped"}

Top == stack[Len(stack)]
SetTop(f) == [stack EXCEPT ![Len(stack)] = f]

HandlerFrame == [batch |-> <<>>, cur |-> None, own |-> None, handler |-> TRUE]
DrainFrame(batch, own) ==
  [batch |-> batch, cur |-> None, own |-> own, handler |-> FALSE]

(* phase once processRequestQueue has moved the whole queue to localQueue. *)
Batched == [r \in Requests |-> IF phase[r] = "queued" THEN "batched" ELSE phase[r]]

(* The requests that wait, and the history of who was there first: r is     *)
(* submitted, or is no longer waiting.                                      *)
Waiting == {r \in Requests : phase[r] \in {"queued", "batched"}}
Arrives(r) == [older EXCEPT ![r] = Waiting]
Leaves(r) == [q \in Requests |-> IF q = r THEN {} ELSE older[q] \ {r}]

(* A driver routine calls submitRequestAndBlock in the gate: a nested call  *)
(* with "batch" to process, "queue" being what is left on the shared queue. *)
BlockOn(r, batch, queue) ==
  /\ stack # <<>>
  /\ Top.handler
  /\ phase[r] = "free"
  /\ stack' = Append(stack, DrainFrame(batch, r))
  /\ requestQueue' = queue
  /\ phase' = [Batched EXCEPT ![r] = "batched"]
  /\ caller' = [caller EXCEPT ![r] = Gate]
  /\ older' = Arrives(r)
  /\ UNCHANGED <<queueSignal, pc, blockedOn>>

-----------------------------------------------------------------------------
(* Faulty versions of some definitions below, each a slip that the code     *)
(* could have made: the properties are checked to tell them from the code.  *)

(* The controller frees every request it has completed.                     *)
CompletedAlwaysFrees(r) == [phase EXCEPT ![r] = "free"]

(* The reset that hangs repeats its request without draining the queue.    *)
RetryRequestAlone(r) ==
  /\ Len(stack) = 2 /\ power = "resetting"
  /\ ~Top.handler /\ Top.cur = None /\ Top.batch = <<>> /\ Top.own = r
  /\ stack' = SetTop(DrainFrame(<<r>>, r))
  /\ phase' = [phase EXCEPT ![r] = "batched"]
  /\ older' = Arrives(r)
  /\ UNCHANGED <<caller, requestQueue, queueSignal, pc, blockedOn, power>>

(* One request is taken per wake-up.                                        *)
ServeQueueOne ==
  /\ stack = <<>>
  /\ power # "stopped"
  /\ queueSignal /\ requestQueue # <<>>
  /\ queueSignal' = FALSE
  /\ stack' = <<DrainFrame(<<Head(requestQueue)>>, None)>>
  /\ requestQueue' = Tail(requestQueue)
  /\ phase' = [phase EXCEPT ![Head(requestQueue)] = "batched"]
  /\ UNCHANGED <<caller, pc, blockedOn, power, older>>

(* In-gate blocking: the queue is not emptied, the request is processed     *)
(* before it, or not at all.                                                *)
HandlerBlockAs(r, batch, queue) ==
  /\ HandlersMayBlock \/ (Len(stack) = 1 /\ power \in {"suspending", "resuming"})
  /\ Len(stack) < MaxDepth
  /\ BlockOn(r, batch, queue)
  /\ UNCHANGED power
HandlerBlockKeepsQueue(r) == HandlerBlockAs(r, Append(requestQueue, r), requestQueue)
HandlerBlockJumpsQueue(r) == HandlerBlockAs(r, <<r>> \o requestQueue, <<>>)
HandlerBlockOnlyDrains(r) == HandlerBlockAs(r, requestQueue, <<>>)

(* stop() forgets the requests that are still queued.                       *)
StopWithoutDrain ==
  /\ stack = <<>>
  /\ power # "stopped"
  /\ \A c \in Clients : pc[c] = "idle"
  /\ power' = "stopped"
  /\ requestQueue' = <<>>
  /\ queueSignal' = FALSE
  /\ older' = [r \in Requests |-> {}]
  /\ UNCHANGED <<phase, caller, pc, blockedOn, stack>>

-----------------------------------------------------------------------------
(* Clients: threads outside the gate.                                      *)

(* submitRequest up to the unlock: the request is on the queue, the work   *)
(* loop not yet told.  A blocking caller has set its completion first.     *)
ClientEnqueue(c, r, blocking) ==
  /\ pc[c] = "idle"
  /\ power # "stopped"
  /\ phase[r] = "free"
  /\ phase' = [phase EXCEPT ![r] = "queued"]
  /\ caller' = [caller EXCEPT ![r] = IF blocking THEN c ELSE None]
  /\ requestQueue' = Append(requestQueue, r)
  /\ pc' = [pc EXCEPT ![c] = "signalling"]
  /\ blockedOn' = [blockedOn EXCEPT ![c] = IF blocking THEN r ELSE None]
  /\ older' = Arrives(r)
  /\ UNCHANGED <<queueSignal, stack, power>>

(* The rest of submitRequest: signal the queue's event source.             *)
ClientSignal(c) ==
  /\ pc[c] = "signalling"
  /\ queueSignal' = TRUE
  /\ pc' = [pc EXCEPT ![c] = IF blockedOn[c] = None THEN "idle" ELSE "waiting"]
  /\ UNCHANGED <<phase, caller, requestQueue, blockedOn, stack, power, older>>

(* completionSyncer->wait() returns; the driver frees its request.         *)
ClientReturn(c) ==
  /\ pc[c] = "waiting"
  /\ phase[blockedOn[c]] = "completed"
  /\ phase' = [phase EXCEPT ![blockedOn[c]] = "free"]
  /\ caller' = [caller EXCEPT ![blockedOn[c]] = None]
  /\ pc' = [pc EXCEPT ![c] = "idle"]
  /\ blockedOn' = [blockedOn EXCEPT ![c] = None]
  /\ UNCHANGED <<requestQueue, queueSignal, stack, power, older>>

-----------------------------------------------------------------------------
(* The gate.                                                               *)

(* The work loop runs processRequestQueue for the signalled event source.  *)
ServeQueue ==
  /\ stack = <<>>
  /\ power # "stopped"
  /\ queueSignal
  /\ queueSignal' = FALSE
  /\ stack' = <<DrainFrame(requestQueue, None)>>
  /\ requestQueue' = <<>>
  /\ phase' = Batched
  /\ UNCHANGED <<caller, pc, blockedOn, power, older>>

(* processRequest takes the next request of the local queue, or the one    *)
(* its caller blocks on, and finds the hardware online.                    *)
BeginRequest ==
  /\ stack # <<>>
  /\ ~Offline
  /\ ~Top.handler /\ Top.cur = None /\ Top.batch # <<>>
  /\ stack' = SetTop([Top EXCEPT !.cur = Head(Top.batch), !.batch = Tail(Top.batch)])
  /\ phase' = [phase EXCEPT ![Head(Top.batch)] = "executing"]
  /\ older' = Leaves(Head(Top.batch))
  /\ UNCHANGED <<caller, requestQueue, queueSignal, pc, blockedOn, power>>

(* phase after the exit path of processRequest: the completion routine     *)
(* wakes the caller; a request without one is freed by the controller.     *)
Completed(r) ==
  [phase EXCEPT ![r] = IF caller[r] = None THEN "free" ELSE "completed"]

(* The last command of the request is done, or one of them failed.         *)
CompleteRequest ==
  /\ stack # <<>>
  /\ ~Top.handler /\ Top.cur # None
  /\ phase' = Completed(Top.cur)
  /\ stack' = SetTop([Top EXCEPT !.cur = None])
  /\ UNCHANGED <<caller, requestQueue, queueSignal, pc, blockedOn, power, older>>

(* processRequest with _hardwareOffline: fails at index 0, completes.      *)
FailRequest ==
  /\ stack # <<>>
  /\ Offline
  /\ ~Top.handler /\ Top.cur = None /\ Top.batch # <<>>
  /\ phase' = Completed(Head(Top.batch))
  /\ stack' = SetTop([Top EXCEPT !.batch = Tail(Top.batch)])
  /\ older' = Leaves(Head(Top.batch))
  /\ UNCHANGED <<caller, requestQueue, queueSignal, pc, blockedOn, power>>

(* readDataPort meets a byte of the other device while the request waits   *)
(* for its own, and dispatches it to that device's driver.                 *)
Preempt ==
  /\ stack # <<>>
  /\ ~Top.handler /\ Top.cur # None
  /\ stack' = SetTop([Top EXCEPT !.handler = TRUE])
  /\ UNCHANGED <<phase, caller, requestQueue, queueSignal, pc, blockedOn, power, older>>

(* setPowerStateGated is in readDataPort; setCommandByte is in its loop.   *)
WakeRead == Len(stack) = 1 /\ power = "waking"
ResetLoop == Len(stack) = 2 /\ power = "resetting"

Drained == ~Top.handler /\ Top.cur = None /\ Top.batch = <<>>

(* The nested call returns.  A caller that blocked in the gate frees its   *)
(* request.                                                                *)
PopFrame ==
  /\ stack # <<>>
  /\ Drained
  /\ ~WakeRead /\ ~ResetLoop
  /\ stack' = SubSeq(stack, 1, Len(stack) - 1)
  /\ IF Top.own = None
     THEN UNCHANGED <<phase, caller>>
     ELSE /\ phase' = [phase EXCEPT ![Top.own] = "free"]
          /\ caller' = [caller EXCEPT ![Top.own] = None]
  /\ UNCHANGED <<requestQueue, queueSignal, pc, blockedOn, power, older>>

(* interruptOccurred: bytes that arrived while the gate was idle go to the *)
(* drivers' interrupt routines; they are tossed while offline.             *)
ServeInterrupt ==
  /\ stack = <<>>
  /\ ~Offline
  /\ stack' = <<HandlerFrame>>
  /\ UNCHANGED <<phase, caller, requestQueue, queueSignal, pc, blockedOn, power, older>>

-----------------------------------------------------------------------------
(* A driver routine running in the gate.                                   *)

(* submitRequest, fire-and-forget: setLEDs, setKeyboardEnable, ...         *)
HandlerSubmit(r) ==
  /\ stack # <<>>
  /\ Top.handler
  /\ phase[r] = "free"
  /\ phase' = [phase EXCEPT ![r] = "queued"]
  /\ caller' = [caller EXCEPT ![r] = None]
  /\ requestQueue' = Append(requestQueue, r)
  /\ queueSignal' = TRUE
  /\ older' = Arrives(r)
  /\ UNCHANGED <<pc, blockedOn, stack, power>>

(* A power routine may block in the gate.                                  *)
PowerRoutine == Len(stack) = 1 /\ power \in {"suspending", "resuming"}

(* submitRequestAndBlock with inGate(): drain the queue, then process the  *)
(* request itself, both inside the call.                                   *)
HandlerBlock(r) ==
  /\ HandlersMayBlock \/ PowerRoutine
  /\ Len(stack) < MaxDepth
  /\ BlockOn(r, Append(requestQueue, r), <<>>)
  /\ UNCHANGED power

(* The driver routine returns; the outermost one may have been a stage of  *)
(* setPowerStateGated.                                                     *)
HandlerReturn ==
  /\ stack # <<>>
  /\ Top.handler
  /\ stack' = SetTop([Top EXCEPT !.handler = FALSE])
  /\ power' = IF ~PowerRoutine THEN power
              ELSE IF power = "suspending" THEN "asleep" ELSE "on"
  /\ UNCHANGED <<phase, caller, requestQueue, queueSignal, pc, blockedOn, older>>

-----------------------------------------------------------------------------
(* setPowerStateGated, run in the gate by the power thread call.           *)

Suspend ==
  /\ stack = <<>>
  /\ power = "on"
  /\ power' = "suspending"
  /\ stack' = <<HandlerFrame>>
  /\ UNCHANGED <<phase, caller, requestQueue, queueSignal, pc, blockedOn, older>>

(* The wake-up asks the controller for its command byte and reads the port *)
(* until it comes, with _hardwareOffline still set.                        *)
Resume ==
  /\ stack = <<>>
  /\ power = "asleep"
  /\ power' = "waking"
  /\ stack' = <<DrainFrame(<<>>, None)>>
  /\ UNCHANGED <<phase, caller, requestQueue, queueSignal, pc, blockedOn, older>>

(* readDataPort meets a byte of the mouse and dispatches it.               *)
WakeByte ==
  /\ WakeRead
  /\ ~Top.handler
  /\ stack' = SetTop([Top EXCEPT !.handler = TRUE])
  /\ UNCHANGED <<phase, caller, requestQueue, queueSignal, pc, blockedOn, power, older>>

(* The command byte is there, or the read has timed out: the queue is      *)
(* unblocked and the drivers are told.                                     *)
GoOnline ==
  /\ WakeRead
  /\ ~Top.handler
  /\ power' = "resuming"
  /\ stack' = SetTop([Top EXCEPT !.handler = TRUE])
  /\ UNCHANGED <<phase, caller, requestQueue, queueSignal, pc, blockedOn, older>>

(* The byte makes the mouse driver reset its device and come to            *)
(* setCommandByte: it blocks on a request until that has succeeded.        *)
WakeReset(r) ==
  /\ HandlersMayBlock /\ MaxDepth > 1
  /\ WakeRead
  /\ power' = "resetting"
  /\ BlockOn(r, Append(requestQueue, r), <<>>)

(* The request has failed, off line: setCommandByte submits it again.      *)
RetryRequest(r) ==
  /\ ResetLoop
  /\ Drained /\ Top.own = r
  /\ stack' = SetTop(DrainFrame(Append(requestQueue, r), r))
  /\ requestQueue' = <<>>
  /\ phase' = [Batched EXCEPT ![r] = "batched"]
  /\ older' = Arrives(r)
  /\ UNCHANGED <<caller, queueSignal, pc, blockedOn, power>>

(* stop(): the drivers are gone, what they left on the queue is failed.    *)
Stop ==
  /\ stack = <<>>
  /\ power # "stopped"
  /\ \A c \in Clients : pc[c] = "idle"
  /\ power' = "stopped"
  /\ phase' = [r \in Requests |->
                 IF phase[r] = "queued" THEN Completed(r)[r] ELSE phase[r]]
  /\ requestQueue' = <<>>
  /\ queueSignal' = FALSE
  /\ older' = [r \in Requests |-> {}]
  /\ UNCHANGED <<caller, pc, blockedOn, stack>>

Stopped == power = "stopped" /\ UNCHANGED vars

Next ==
  \/ \E c \in Clients, r \in Requests, b \in BOOLEAN : ClientEnqueue(c, r, b)
  \/ \E c \in Clients : ClientSignal(c) \/ ClientReturn(c)
  \/ ServeQueue
  \/ ServeInterrupt
  \/ BeginRequest
  \/ CompleteRequest
  \/ FailRequest
  \/ Preempt
  \/ PopFrame
  \/ \E r \in Requests : HandlerSubmit(r) \/ HandlerBlock(r)
  \/ HandlerReturn
  \/ Suspend
  \/ Resume
  \/ WakeByte
  \/ GoOnline
  \/ \E r \in Requests : WakeReset(r) \/ RetryRequest(r)
  \/ Stop
  \/ Stopped

Spec == Init /\ [][Next]_vars

(* The work loop polls every event source on each pass and finishes what it *)
(* starts; each command read ends, as its countdown is not renewed by the   *)
(* bytes of the other device; each activation of a driver routine ends      *)
(* unless it is the reset that repeats a request off line, which it then    *)
(* does for ever; a thread in submitRequest or woken from its wait runs on. *)
(* Nobody has to submit, sleep, wake up or stop.                            *)
Fairness ==
  /\ \A c \in Clients : WF_vars(ClientSignal(c)) /\ WF_vars(ClientReturn(c))
  /\ SF_vars(ServeQueue)
  /\ \A k \in 1..MaxDepth :
       /\ SF_vars(Len(stack) = k /\ CompleteRequest)
       /\ SF_vars(Len(stack) = k /\ HandlerReturn)
  /\ SF_vars(GoOnline)
  /\ WF_vars(BeginRequest) /\ WF_vars(FailRequest) /\ WF_vars(PopFrame)
  /\ WF_vars(\E r \in Requests : RetryRequest(r))

FairSpec == Spec /\ Fairness

-----------------------------------------------------------------------------
(* Where a request is: positions in the queue, in a local queue, or being   *)
(* processed.                                                               *)
InQueue(r) == \E i \in DOMAIN requestQueue : requestQueue[i] = r
InBatch(r, k) == \E i \in DOMAIN stack[k].batch : stack[k].batch[i] = r

NoRepeats(s) == \A i, j \in DOMAIN s : s[i] = s[j] => i = j

(* A request is linked in exactly the one place its state says, once: never *)
(* on the queue twice, never queued while it is processed, and nowhere once *)
(* it has been freed or its caller has been told that it is done            *)
(* (submitRequest, processRequestQueue, processRequest; freeRequest).       *)
LinkedOnce ==
  /\ \A r \in Requests :
       /\ phase[r] = "queued" <=> InQueue(r)
       /\ phase[r] = "batched" <=> \E k \in DOMAIN stack : InBatch(r, k)
       /\ phase[r] = "executing" <=> \E k \in DOMAIN stack : stack[k].cur = r
  /\ NoRepeats(requestQueue)
  /\ \A k \in DOMAIN stack : NoRepeats(stack[k].batch)
  /\ \A k, l \in DOMAIN stack : k # l =>
       /\ \A r \in Requests : ~(InBatch(r, k) /\ InBatch(r, l))
       /\ stack[k].cur # None => stack[k].cur # stack[l].cur

(* No lost wake-up: whenever requests wait on the queue, its event source   *)
(* is signalled or a submitter is about to signal it, although the work     *)
(* loop and any blocking driver routine drain the queue at will.            *)
NoLostWakeup ==
  requestQueue # <<>> => queueSignal \/ \E c \in Clients : pc[c] = "signalling"

(* A thread that blocks in submitRequestAndBlock keeps its request: nobody  *)
(* frees it or hands it to another submitter until the thread has returned. *)
BlockedKeepsRequest ==
  \A c \in Clients : blockedOn[c] # None =>
    phase[blockedOn[c]] # "free" /\ caller[blockedOn[c]] = c

(* The in-gate submitRequestAndBlock returns only when its request has been *)
(* processed, whatever was drained, preempted or nested meanwhile.          *)
GateCallerServed ==
  \A k \in DOMAIN stack : stack[k].own # None =>
    /\ caller[stack[k].own] = Gate
    /\ phase[stack[k].own] \in {"batched", "executing", "completed"}
    /\ (stack[k].batch = <<>> /\ stack[k].cur = None) =>
         phase[stack[k].own] = "completed"

(* No command reaches the port while the hardware is offline: a request in  *)
(* progress has ended before setPowerStateGated or stop() goes offline.     *)
OfflineQuiet == Offline => \A k \in DOMAIN stack : stack[k].cur = None

(* Once stop() is done no request structure is left allocated.              *)
StopLeaksNothing == power = "stopped" => \A r \in Requests : phase[r] = "free"

(* A request is overtaken only by what interrupts the drain it waits in: of *)
(* the requests submitted before the next one of any local queue, those     *)
(* that still wait are in the local queues of the drains below it, which a  *)
(* blocking driver routine has interrupted ("Process each request in        *)
(* order", processRequestQueue; "Must process the queue first",             *)
(* submitRequestAndBlock).                                                  *)
InOrder ==
  \A k \in DOMAIN stack : stack[k].batch # <<>> =>
    \A r \in older[Head(stack[k].batch)] : \E l \in 1..(k - 1) : InBatch(r, l)

(* The service the engine provides when interrupt routines never block: the *)
(* local queue of the innermost call followed by the shared queue is what   *)
(* is pending, in order.                                                    *)
ServedBatch == IF stack = <<>> THEN <<>> ELSE Top.batch
Service == INSTANCE PS2RequestService WITH
  pending <- ServedBatch \o requestQueue,
  active <- IF stack = <<>> THEN None ELSE Top.cur,
  done <- {r \in Requests : phase[r] = "completed"}

(* The engine implements that service (ApplePS2Device.h, "General Notes For *)
(* Inquisitive Minds").                                                     *)
ImplementsService == Service!ServiceSpec

(* Every thread blocked in submitRequestAndBlock returns, even while a      *)
(* wake-up hangs in the reset of the mouse: each repetition of its request  *)
(* drains the shared queue first, and what it drains fails and is done.     *)
BlockedReturns ==
  \A c \in Clients : pc[c] = "waiting" ~> pc[c] = "idle"

(* Every request that was put on the queue is processed, or failed because  *)
(* the hardware is off line.                                                *)
SubmittedCompletes ==
  \A r \in Requests : phase[r] = "queued" ~> phase[r] \in {"completed", "free"}
=============================================================================
