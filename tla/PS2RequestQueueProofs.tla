----------------------- MODULE PS2RequestQueueProofs -----------------------
(* Proofs about PS2RequestQueue, for every set of requests and clients and *)
(* every nesting bound.                                                    *)
EXTENDS PS2RequestQueue, TLAPS

-----------------------------------------------------------------------------
(* The top frame and its replacement. *)

LEMMA TopFrame ==
  ASSUME TypeOK, stack # <<>>
  PROVE  /\ Top \in Frame
         /\ Len(stack) \in Nat \ {0}
         /\ Top.batch \in Seq(Requests)
         /\ Top.cur \in Requests \cup {None}
         /\ Top.own \in Requests \cup {None}
         /\ Top.handler \in BOOLEAN
<1>1. stack \in Seq(Frame) /\ Len(stack) \in Nat \ {0}
  BY DEF TypeOK
<1>2. Top \in Frame
  BY <1>1 DEF Top
<1> QED
  BY <1>1, <1>2 DEF Frame

LEMMA SetTopType ==
  ASSUME TypeOK, stack # <<>>, NEW f \in Frame
  PROVE  /\ SetTop(f) \in Seq(Frame)
         /\ Len(SetTop(f)) = Len(stack)
BY DEF TypeOK, SetTop

LEMMA NewFrames ==
  ASSUME NEW batch \in Seq(Requests), NEW own \in Requests \cup {None}
  PROVE  /\ DrainFrame(batch, own) \in Frame
         /\ <<DrainFrame(batch, own)>> \in Seq(Frame)
         /\ HandlerFrame \in Frame
         /\ <<HandlerFrame>> \in Seq(Frame)
<1>1. DrainFrame(batch, own) \in Frame
  BY DEF DrainFrame, Frame
<1>2. HandlerFrame \in Frame
  <2>1. <<>> \in Seq(Requests)
    OBVIOUS
  <2> QED
    BY <2>1 DEF HandlerFrame, Frame
<1> QED
  BY <1>1, <1>2

LEMMA BatchedType == TypeOK => Batched \in [Requests -> Phases]
BY DEF TypeOK, Batched, Phases

(* A driver routine blocks on a request; a driver routine is called on top  *)
(* of what the innermost call is doing.                                     *)
Blocks(r) == BlockOn(r, Append(requestQueue, r), <<>>)
Calls == Preempt \/ WakeByte \/ GoOnline

LEMMA BlockActions ==
  /\ \A r \in Requests : HandlerBlock(r) \/ WakeReset(r) => Blocks(r)
  /\ \A r \in Requests : HandlerBlock(r) => UNCHANGED power
  /\ \A r \in Requests : WakeReset(r) => power' = "resetting" /\ power = "waking"
BY DEF HandlerBlock, WakeReset, Blocks, WakeRead

LEMMA CallActions ==
  Calls => /\ ~Top.handler /\ stack' = SetTop([Top EXCEPT !.handler = TRUE])
           /\ UNCHANGED <<phase, caller, requestQueue, queueSignal, pc, blockedOn, older>>
           /\ TypeOK => stack # <<>>
<1>1. ASSUME TypeOK, Len(stack) = 1 PROVE stack # <<>>
  BY <1>1
<1> QED
  BY <1>1 DEF Calls, Preempt, WakeByte, GoOnline, WakeRead

LEMMA RetryFacts ==
  ASSUME TypeOK, NEW r \in Requests, RetryRequest(r)
  PROVE  /\ stack # <<>> /\ Len(stack) = 2 /\ power = "resetting" /\ power' = power
         /\ ~Top.handler /\ Top.cur = None /\ Top.batch = <<>> /\ Top.own = r
         /\ DrainFrame(Append(requestQueue, r), r) \in Frame
         /\ stack' = SetTop(DrainFrame(Append(requestQueue, r), r))
         /\ requestQueue' = <<>> /\ phase' = [Batched EXCEPT ![r] = "batched"]
         /\ older' = Arrives(r)
         /\ UNCHANGED <<caller, queueSignal, pc, blockedOn>>
<1>1. Append(requestQueue, r) \in Seq(Requests)
  BY DEF TypeOK
<1>2. DrainFrame(Append(requestQueue, r), r) \in Frame
  BY <1>1, NewFrames
<1> QED
  BY <1>2 DEF RetryRequest, ResetLoop, Drained

LEMMA OlderType ==
  ASSUME TypeOK, NEW r \in Requests
  PROVE  /\ Arrives(r) \in [Requests -> SUBSET Requests]
         /\ Leaves(r) \in [Requests -> SUBSET Requests]
BY DEF TypeOK, Arrives, Leaves, Waiting

-----------------------------------------------------------------------------
(* Every action keeps every variable in its type. *)
LEMMA TypeStep == TypeOK /\ [Next]_vars => TypeOK'
<1> SUFFICES ASSUME TypeOK, [Next]_vars PROVE TypeOK'
  OBVIOUS
<1> USE ConstantsAssumption
<1>1. ASSUME NEW c \in Clients, NEW r \in Requests, NEW b \in BOOLEAN, ClientEnqueue(c, r, b)
      PROVE  TypeOK'
  BY <1>1, OlderType DEF TypeOK, ClientEnqueue, Phases
<1>2. ASSUME NEW c \in Clients, ClientSignal(c) PROVE TypeOK'
  BY <1>2 DEF TypeOK, ClientSignal
<1>3. ASSUME NEW c \in Clients, ClientReturn(c) PROVE TypeOK'
  BY <1>3 DEF TypeOK, ClientReturn, Phases
<1>4. CASE ServeQueue
  <2>1. stack' \in Seq(Frame)
    BY <1>4, NewFrames DEF TypeOK, ServeQueue
  <2>2. requestQueue' \in Seq(Requests)
    BY <1>4 DEF ServeQueue
  <2> QED
    BY <1>4, <2>1, <2>2, BatchedType DEF TypeOK, ServeQueue
<1>5. CASE ServeInterrupt
  <2>1. stack' \in Seq(Frame)
    BY <1>5, NewFrames DEF TypeOK, ServeInterrupt
  <2> QED
    BY <1>5, <2>1 DEF TypeOK, ServeInterrupt
<1>6. CASE BeginRequest
  <2>1. /\ Top \in Frame /\ Head(Top.batch) \in Requests /\ Tail(Top.batch) \in Seq(Requests)
    <3>1. Top \in Frame /\ Top.batch \in Seq(Requests) /\ Top.batch # <<>>
      BY <1>6, TopFrame DEF BeginRequest
    <3> QED
      BY <3>1
  <2>2. [Top EXCEPT !.cur = Head(Top.batch), !.batch = Tail(Top.batch)] \in Frame
    BY <2>1 DEF Frame
  <2>3. stack' \in Seq(Frame)
    BY <1>6, <2>2, SetTopType DEF BeginRequest
  <2>4. older' \in [Requests -> SUBSET Requests]
    BY <1>6, <2>1, OlderType DEF BeginRequest
  <2> QED
    BY <1>6, <2>3, <2>4 DEF TypeOK, BeginRequest, Phases
<1>7. CASE CompleteRequest
  <2>1. [Top EXCEPT !.cur = None] \in Frame
    BY <1>7, TopFrame DEF CompleteRequest, Frame
  <2>2. stack' \in Seq(Frame)
    BY <1>7, <2>1, SetTopType DEF CompleteRequest
  <2> QED
    BY <1>7, <2>2 DEF TypeOK, CompleteRequest, Completed, Phases
<1>8. CASE FailRequest
  <2>1. /\ Top \in Frame /\ Head(Top.batch) \in Requests /\ Tail(Top.batch) \in Seq(Requests)
    <3>1. Top \in Frame /\ Top.batch \in Seq(Requests) /\ Top.batch # <<>>
      BY <1>8, TopFrame DEF FailRequest
    <3> QED
      BY <3>1
  <2>2. [Top EXCEPT !.batch = Tail(Top.batch)] \in Frame
    BY <2>1 DEF Frame
  <2>3. stack' \in Seq(Frame)
    BY <1>8, <2>2, SetTopType DEF FailRequest
  <2>4. older' \in [Requests -> SUBSET Requests]
    BY <1>8, <2>1, OlderType DEF FailRequest
  <2> QED
    BY <1>8, <2>3, <2>4 DEF TypeOK, FailRequest, Completed, Phases
<1>9. CASE Calls
  <2>1. stack # <<>> /\ stack' = SetTop([Top EXCEPT !.handler = TRUE])
    BY <1>9, CallActions
  <2>2. [Top EXCEPT !.handler = TRUE] \in Frame
    BY <2>1, TopFrame DEF Frame
  <2>3. stack' \in Seq(Frame)
    BY <2>1, <2>2, SetTopType
  <2>4. power' \in Powers
    BY <1>9 DEF Calls, Preempt, WakeByte, GoOnline, TypeOK, Powers
  <2> QED
    BY <1>9, <2>3, <2>4, CallActions DEF TypeOK
<1>10. CASE PopFrame
  <2>1. SubSeq(stack, 1, Len(stack) - 1) \in Seq(Frame)
    BY <1>10, TopFrame DEF PopFrame, TypeOK
  <2> QED
    BY <1>10, <2>1 DEF TypeOK, PopFrame, Phases
<1>11. ASSUME NEW r \in Requests, HandlerSubmit(r) PROVE TypeOK'
  BY <1>11, OlderType DEF TypeOK, HandlerSubmit, Phases
<1>12. ASSUME NEW r \in Requests, HandlerBlock(r) \/ WakeReset(r) PROVE TypeOK'
  <2>1. Append(requestQueue, r) \in Seq(Requests) /\ stack \in Seq(Frame)
    BY DEF TypeOK
  <2>2. DrainFrame(Append(requestQueue, r), r) \in Frame
    BY <2>1, NewFrames
  <2>3. power' \in Powers
    BY <1>12 DEF HandlerBlock, WakeReset, TypeOK, Powers
  <2>4. stack' \in Seq(Frame)
    BY <1>12, <2>1, <2>2, BlockActions DEF Blocks, BlockOn
  <2>5. phase' \in [Requests -> Phases]
    BY <1>12, BlockActions, BatchedType DEF Blocks, BlockOn, Phases
  <2>6. caller' \in [Requests -> Clients \cup {Gate, None}]
    BY <1>12, BlockActions DEF Blocks, BlockOn, TypeOK
  <2>7. requestQueue' = <<>> /\ UNCHANGED <<queueSignal, pc, blockedOn>>
    BY <1>12, BlockActions DEF Blocks, BlockOn
  <2>8. older' \in [Requests -> SUBSET Requests]
    BY <1>12, BlockActions, OlderType DEF Blocks, BlockOn
  <2> QED
    BY <2>3, <2>4, <2>5, <2>6, <2>7, <2>8 DEF TypeOK
<1>13. CASE HandlerReturn
  <2>1. [Top EXCEPT !.handler = FALSE] \in Frame
    BY <1>13, TopFrame DEF HandlerReturn, Frame
  <2> QED
    BY <1>13, <2>1, SetTopType DEF TypeOK, HandlerReturn, Powers
<1>14. CASE Suspend \/ Resume
  <2>1. <<>> \in Seq(Requests) /\ None \in Requests \cup {None}
    OBVIOUS
  <2>2. stack' = <<HandlerFrame>> \/ stack' = <<DrainFrame(<<>>, None)>>
    BY <1>14 DEF Suspend, Resume
  <2>3. stack' \in Seq(Frame)
    BY <2>1, <2>2, NewFrames, Zenon
  <2> QED
    BY <1>14, <2>3 DEF TypeOK, Suspend, Resume, Powers
<1>15. CASE Stop
  <2>1. requestQueue' \in Seq(Requests)
    BY <1>15 DEF Stop
  <2> QED
    BY <1>15, <2>1 DEF TypeOK, Stop, Phases, Powers, Completed
<1>16. CASE Stopped \/ UNCHANGED vars
  BY <1>16 DEF TypeOK, Stopped, vars
<1>17. ASSUME NEW r \in Requests, RetryRequest(r) PROVE TypeOK'
  <2>1. stack' \in Seq(Frame)
    BY <1>17, RetryFacts, SetTopType
  <2>2. phase' \in [Requests -> Phases]
    BY <1>17, RetryFacts, BatchedType DEF Phases
  <2>3. requestQueue' = <<>> /\ <<>> \in Seq(Requests)
    BY <1>17, RetryFacts
  <2>4. older' \in [Requests -> SUBSET Requests]
    BY <1>17, RetryFacts, OlderType
  <2> QED
    BY <1>17, <2>1, <2>2, <2>3, <2>4, RetryFacts DEF TypeOK
<1> QED
  BY <1>1, <1>2, <1>3, <1>4, <1>5, <1>6, <1>7, <1>8, <1>9, <1>10, <1>11, <1>12,
     <1>13, <1>14, <1>15, <1>16, <1>17 DEF Next, Calls

(* Type correctness of the request engine. *)
THEOREM TypeCorrect == Spec => []TypeOK
<1>1. Init => TypeOK
  <2>1. <<>> \in Seq(Requests) /\ <<>> \in Seq(Frame)
    OBVIOUS
  <2> QED
    BY <2>1, ConstantsAssumption DEF Init, TypeOK, Phases, Powers
<1> QED
  BY <1>1, TypeStep, PTL DEF Spec

-----------------------------------------------------------------------------
(* Wake-ups. *)

LEMMA WakeupStep == TypeOK /\ NoLostWakeup /\ [Next]_vars => NoLostWakeup'
<1> SUFFICES ASSUME TypeOK, NoLostWakeup, [Next]_vars PROVE NoLostWakeup'
  OBVIOUS
<1> USE DEF NoLostWakeup
<1>1. ASSUME NEW c \in Clients, NEW r \in Requests, NEW b \in BOOLEAN, ClientEnqueue(c, r, b)
      PROVE  NoLostWakeup'
  <2>1. pc'[c] = "signalling"
    BY <1>1 DEF ClientEnqueue, TypeOK
  <2> QED
    BY <2>1
<1>2. ASSUME NEW c \in Clients, ClientSignal(c) PROVE NoLostWakeup'
  BY <1>2 DEF ClientSignal
<1>3. ASSUME NEW c \in Clients, ClientReturn(c) PROVE NoLostWakeup'
  BY <1>3 DEF ClientReturn, TypeOK
<1>4. CASE ServeQueue
  BY <1>4 DEF ServeQueue
<1>5. CASE ServeInterrupt \/ BeginRequest \/ CompleteRequest \/ FailRequest \/ Calls
           \/ PopFrame \/ HandlerReturn \/ Suspend \/ Resume
  BY <1>5, CallActions DEF ServeInterrupt, BeginRequest, CompleteRequest, FailRequest,
     PopFrame, HandlerReturn, Suspend, Resume
<1>6. ASSUME NEW r \in Requests, HandlerSubmit(r) PROVE NoLostWakeup'
  BY <1>6 DEF HandlerSubmit
<1>7. ASSUME NEW r \in Requests, HandlerBlock(r) \/ WakeReset(r) \/ RetryRequest(r)
      PROVE  NoLostWakeup'
  BY <1>7, BlockActions, RetryFacts DEF Blocks, BlockOn
<1>8. CASE Stop
  BY <1>8 DEF Stop
<1>9. CASE Stopped \/ UNCHANGED vars
  BY <1>9 DEF Stopped, vars
<1> QED
  BY <1>1, <1>2, <1>3, <1>4, <1>5, <1>6, <1>7, <1>8, <1>9 DEF Next, Calls

(* No wake-up of the work loop is lost: while the queue is not empty its    *)
(* event source is signalled or a submitter is about to signal it.          *)
THEOREM WakeupsKept == Spec => []NoLostWakeup
<1>1. Init => NoLostWakeup
  BY DEF Init, NoLostWakeup
<1> QED
  BY <1>1, TypeCorrect, WakeupStep, PTL DEF Spec

-----------------------------------------------------------------------------
(* The port goes offline at the end of a power routine, the outermost call  *)
(* in the gate, which never processes a request itself.                     *)
PowerCall ==
  power \in {"suspending", "resuming"} =>
    stack # <<>> /\ stack[1].handler /\ stack[1].cur = None

(* What a step that replaces, pushes or pops the top frame does to others.  *)
LEMMA SetTopFrames ==
  ASSUME TypeOK, stack # <<>>, NEW f \in Frame, stack' = SetTop(f)
  PROVE  /\ stack' # <<>> /\ Len(stack') = Len(stack)
         /\ stack'[Len(stack)] = f
         /\ \A k \in 1..Len(stack) : k # Len(stack) => stack'[k] = stack[k]
BY DEF TypeOK, SetTop

LEMMA PushFrames ==
  ASSUME TypeOK, NEW f \in Frame, stack' = Append(stack, f)
  PROVE  /\ stack' # <<>> /\ Len(stack') = Len(stack) + 1
         /\ stack'[Len(stack) + 1] = f
         /\ \A k \in 1..Len(stack) : stack'[k] = stack[k]
<1>1. stack \in Seq(Frame)
  BY DEF TypeOK
<1> QED
  BY <1>1

LEMMA PopFrames ==
  ASSUME TypeOK, stack # <<>>, stack' = SubSeq(stack, 1, Len(stack) - 1)
  PROVE  /\ Len(stack') = Len(stack) - 1
         /\ \A k \in 1..(Len(stack) - 1) : stack'[k] = stack[k]
<1> DEFINE n == Len(stack)
<1>1. stack \in Seq(Frame) /\ n \in Nat \ {0}
  BY DEF TypeOK
<1> HIDE DEF n
<1>2. stack' = SubSeq(stack, 1, n - 1)
  BY DEF n
<1>3. Len(stack') = n - 1
  BY <1>1, <1>2
<1>4. ASSUME NEW k \in 1..(n - 1) PROVE stack'[k] = stack[k]
  BY <1>1, <1>2, <1>4
<1> QED
  BY <1>3, <1>4 DEF n

LEMMA FrameDomain == TypeOK => DOMAIN stack = 1..Len(stack) /\ Len(stack) \in Nat
BY DEF TypeOK

LEMMA OfflineStep ==
  TypeOK /\ TypeOK' /\ PowerCall /\ OfflineQuiet /\ [Next]_vars => PowerCall' /\ OfflineQuiet'
<1> SUFFICES ASSUME TypeOK, TypeOK', PowerCall, OfflineQuiet, [Next]_vars
             PROVE  PowerCall' /\ OfflineQuiet'
  OBVIOUS
<1> USE DEF PowerCall, OfflineQuiet, Offline
<1>d. /\ DOMAIN stack = 1..Len(stack) /\ Len(stack) \in Nat
      /\ DOMAIN stack' = 1..Len(stack') /\ Len(stack') \in Nat
      /\ stack # <<>> => Len(stack) \in Nat \ {0}
  BY FrameDomain, TopFrame DEF TypeOK
<1>e. stack # <<>> /\ Len(stack) # 1 => 1 \in 1..(Len(stack) - 1) /\ 1 \in 1..Len(stack)
  BY <1>d
<1>1. ASSUME UNCHANGED <<stack, power>> PROVE PowerCall' /\ OfflineQuiet'
  BY <1>1
<1>2. CASE ServeQueue \/ ServeInterrupt
  <2>1. power \notin {"suspending", "resuming"} /\ power' = power
    BY <1>2 DEF ServeQueue, ServeInterrupt
  <2>2. \A k \in DOMAIN stack' : stack'[k].cur = None
    BY <1>2 DEF ServeQueue, ServeInterrupt, DrainFrame, HandlerFrame
  <2> QED
    BY <2>1, <2>2
<1>3. CASE BeginRequest
  <2> DEFINE f == [Top EXCEPT !.cur = Head(Top.batch), !.batch = Tail(Top.batch)]
  <2>1. /\ Top \in Frame /\ Top.batch \in Seq(Requests) /\ Top.batch # <<>>
    BY <1>3, TopFrame DEF BeginRequest
  <2>2. Head(Top.batch) \in Requests /\ Tail(Top.batch) \in Seq(Requests)
    BY <2>1
  <2>3. f \in Frame
    BY <2>1, <2>2 DEF Frame
  <2>4. power' = power /\ ~Offline /\ stack' = SetTop(f) /\ ~Top.handler /\ stack # <<>>
    BY <1>3 DEF BeginRequest
  <2>5. power \in {"suspending", "resuming"} => Len(stack) # 1
    BY <2>4 DEF Top
  <2>6. stack' # <<>> /\ \A k \in 1..Len(stack) : k # Len(stack) => stack'[k] = stack[k]
    BY <2>3, <2>4, SetTopFrames
  <2>7. power \in {"suspending", "resuming"} => stack'[1] = stack[1]
    BY <2>5, <2>6, <2>4, <1>d
  <2> QED
    BY <2>4, <2>6, <2>7
<1>4. CASE CompleteRequest \/ FailRequest \/ Preempt \/ WakeByte
  <2> PICK f \in Frame : stack' = SetTop(f) /\ f.cur \in {Top.cur, None}
    <3>1. CASE CompleteRequest
      <4>1. [Top EXCEPT !.cur = None] \in Frame /\ [Top EXCEPT !.cur = None].cur = None
        BY <3>1, TopFrame DEF CompleteRequest, Frame
      <4> QED
        BY <3>1, <4>1 DEF CompleteRequest
    <3>2. CASE FailRequest
      <4>1. /\ [Top EXCEPT !.batch = Tail(Top.batch)] \in Frame
            /\ [Top EXCEPT !.batch = Tail(Top.batch)].cur = Top.cur
        <5>1. Top.batch # <<>> /\ stack # <<>>
          BY <3>2 DEF FailRequest
        <5>2. Tail(Top.batch) \in Seq(Requests)
          BY <5>1, TopFrame
        <5> QED
          BY <5>1, <5>2, TopFrame DEF Frame
      <4> QED
        BY <3>2, <4>1 DEF FailRequest
    <3>3. CASE Calls
      <4>1. stack # <<>> /\ stack' = SetTop([Top EXCEPT !.handler = TRUE])
        BY <3>3, CallActions
      <4>2. /\ [Top EXCEPT !.handler = TRUE] \in Frame
            /\ [Top EXCEPT !.handler = TRUE].cur = Top.cur
        BY <4>1, TopFrame DEF Frame
      <4> QED
        BY <4>1, <4>2
    <3> QED
      BY <1>4, <3>1, <3>2, <3>3 DEF Calls
  <2>1. power' = power /\ ~Top.handler /\ stack # <<>>
    BY <1>4, CallActions DEF CompleteRequest, FailRequest, Preempt, WakeByte, Calls
  <2>2. power \in {"suspending", "resuming"} => Len(stack) # 1
    BY <2>1 DEF Top
  <2>3. /\ stack' # <<>> /\ Len(stack') = Len(stack) /\ stack'[Len(stack)] = f
        /\ \A k \in 1..Len(stack) : k # Len(stack) => stack'[k] = stack[k]
    BY <2>1, SetTopFrames
  <2>4. power \in {"suspending", "resuming"} => stack'[1] = stack[1]
    BY <2>1, <2>2, <2>3, <1>e
  <2>5. Offline => f.cur = None
    BY <2>1, <1>d DEF Top
  <2> QED
    BY <2>1, <2>3, <2>4, <2>5, <1>d
<1>5. CASE PopFrame
  <2>1. power' = power /\ ~Top.handler /\ stack # <<>>
        /\ stack' = SubSeq(stack, 1, Len(stack) - 1)
    BY <1>5 DEF PopFrame, Drained
  <2>2. Len(stack') = Len(stack) - 1 /\ \A k \in 1..(Len(stack) - 1) : stack'[k] = stack[k]
    BY <2>1, PopFrames
  <2>3. power \in {"suspending", "resuming"} => Len(stack) # 1
    BY <2>1 DEF Top
  <2>4. power \in {"suspending", "resuming"} => stack' # <<>> /\ stack'[1] = stack[1]
    <3>1. stack # <<>> /\ Len(stack) # 1 => Len(stack') # 0
      BY <2>2, <1>d
    <3>2. Len(stack') # 0 => stack' # <<>>
      OBVIOUS
    <3> QED
      BY <2>1, <2>2, <2>3, <3>1, <3>2, <1>e
  <2> QED
    BY <2>1, <2>2, <2>4, <1>d
<1>6. ASSUME NEW r \in Requests, HandlerBlock(r) \/ WakeReset(r) PROVE PowerCall' /\ OfflineQuiet'
  <2> DEFINE f == DrainFrame(Append(requestQueue, r), r)
  <2>1. Append(requestQueue, r) \in Seq(Requests)
    BY DEF TypeOK
  <2>2. f \in Frame /\ f.cur = None
    BY <2>1, NewFrames DEF DrainFrame
  <2>3. /\ stack # <<>> /\ stack' = Append(stack, f)
        /\ power' = power \/ (power = "waking" /\ power' = "resetting")
    BY <1>6, BlockActions DEF Blocks, BlockOn
  <2>4. /\ stack' # <<>> /\ Len(stack') = Len(stack) + 1 /\ stack'[Len(stack) + 1] = f
        /\ \A k \in 1..Len(stack) : stack'[k] = stack[k]
    BY <2>2, <2>3, PushFrames
  <2> QED
    BY <2>2, <2>3, <2>4, <1>d
<1>7. CASE HandlerReturn
  <2> DEFINE f == [Top EXCEPT !.handler = FALSE]
  <2>1. f \in Frame /\ f.cur = Top.cur
    BY <1>7, TopFrame DEF HandlerReturn, Frame
  <2>2. stack # <<>> /\ stack' = SetTop(f)
    BY <1>7 DEF HandlerReturn
  <2>3. /\ stack' # <<>> /\ Len(stack') = Len(stack) /\ stack'[Len(stack)] = f
        /\ \A k \in 1..Len(stack) : k # Len(stack) => stack'[k] = stack[k]
    BY <2>1, <2>2, SetTopFrames
  <2>4. CASE PowerRoutine
    <3>1. Len(stack) = 1 /\ power' \in {"asleep", "on"} /\ f.cur = None
      BY <1>7, <2>1, <2>4 DEF HandlerReturn, PowerRoutine, Top
    <3> HIDE DEF f
    <3>a. Len(stack') = 1 /\ stack'[1] = f
      BY <2>3, <3>1
    <3>b. DOMAIN stack' = 1..1
      BY <3>a, <1>d
    <3>2. \A k \in DOMAIN stack' : stack'[k] = f
      BY <3>a, <3>b
    <3> QED
      BY <3>1, <3>2
  <2>5. CASE ~PowerRoutine
    <3>1. power' = power
      BY <1>7, <2>5 DEF HandlerReturn
    <3>2. power \in {"suspending", "resuming"} => Len(stack) # 1
      BY <2>5 DEF PowerRoutine
    <3>3. power \in {"suspending", "resuming"} => stack'[1] = stack[1]
      BY <2>2, <2>3, <3>2, <1>e
    <3>4. Offline => f.cur = None
      BY <2>1, <2>2, <1>d DEF Top
    <3> QED
      BY <2>3, <3>1, <3>3, <3>4, <1>d
  <2> QED
    BY <2>4, <2>5
<1>8. CASE Suspend \/ Resume
  <2>1. CASE Suspend
    <3>1. power' = "suspending" /\ stack' = <<HandlerFrame>>
      BY <2>1 DEF Suspend
    <3> QED
      BY <3>1 DEF HandlerFrame
  <2>2. CASE Resume
    <3>1. power' = "waking" /\ stack' = <<DrainFrame(<<>>, None)>>
      BY <2>2 DEF Resume
    <3> QED
      BY <3>1 DEF DrainFrame
  <2> QED
    BY <1>8, <2>1, <2>2
<1>9. CASE Stop
  BY <1>9 DEF Stop
<1>10. CASE GoOnline
  <2> DEFINE f == [Top EXCEPT !.handler = TRUE]
  <2>1. Len(stack) = 1 /\ power = "waking" /\ power' = "resuming" /\ stack' = SetTop(f)
    BY <1>10 DEF GoOnline, WakeRead
  <2>2. stack # <<>> /\ Top = stack[1] /\ Top.cur = None
    <3>1. stack # <<>> /\ Top = stack[1]
      BY <2>1 DEF Top
    <3> QED
      BY <2>1, <3>1, <1>d
  <2>3. f \in Frame /\ f.handler /\ f.cur = None
    BY <2>2, TopFrame DEF Frame
  <2> HIDE DEF f
  <2>4. stack' # <<>> /\ stack'[1] = f
    BY <2>1, <2>2, <2>3, SetTopFrames
  <2> QED
    BY <2>1, <2>3, <2>4
<1>11. ASSUME NEW r \in Requests, RetryRequest(r) PROVE PowerCall' /\ OfflineQuiet'
  <2> DEFINE f == DrainFrame(Append(requestQueue, r), r)
  <2>1. f \in Frame /\ f.cur = None /\ stack # <<>> /\ stack' = SetTop(f)
        /\ power = "resetting" /\ power' = power
    BY <1>11, RetryFacts DEF DrainFrame
  <2>2. /\ Len(stack') = Len(stack) /\ stack'[Len(stack)] = f
        /\ \A k \in 1..Len(stack) : k # Len(stack) => stack'[k] = stack[k]
    BY <2>1, SetTopFrames
  <2> QED
    BY <2>1, <2>2, <1>d
<1> QED
  BY <1>1, <1>2, <1>3, <1>4, <1>5, <1>6, <1>7, <1>8, <1>9, <1>10, <1>11
  DEF Next, ClientEnqueue, ClientSignal, ClientReturn, HandlerSubmit, Stopped, vars

(* No command reaches the port while the hardware is offline, however deep  *)
(* the calls in the gate are nested.                                        *)
THEOREM QuietOffline == Spec => []OfflineQuiet
<1>1. Init => PowerCall /\ OfflineQuiet
  BY DEF Init, PowerCall, OfflineQuiet, Offline
<1> QED
  BY <1>1, TypeCorrect, OfflineStep, PTL DEF Spec

-----------------------------------------------------------------------------
(* Who owns a request.  A thread in submitRequestAndBlock and the calls in  *)
(* the gate each own the request they block on: it is theirs by its caller, *)
(* and no two calls own the same.                                           *)
IdleOwnsNothing == \A c \in Clients : pc[c] = "idle" => blockedOn[c] = None

GateOwns ==
  \A k \in 1..Len(stack) : stack[k].own # None =>
    caller[stack[k].own] = Gate /\ phase[stack[k].own] # "free"

OwnersDiffer ==
  \A k, l \in 1..Len(stack) : k # l /\ stack[k].own # None => stack[k].own # stack[l].own

Ownership == IdleOwnsNothing /\ BlockedKeepsRequest /\ GateOwns /\ OwnersDiffer

WorkOnTop ==
  \/ BeginRequest \/ CompleteRequest \/ FailRequest \/ Calls \/ HandlerReturn
  \/ \E r \in Requests : RetryRequest(r)

LEMMA TopWaiters ==
  ASSUME TypeOK, WorkOnTop
  PROVE  stack # <<>> /\ UNCHANGED <<caller, pc, blockedOn>>
BY CallActions, RetryFacts
DEF WorkOnTop, BeginRequest, CompleteRequest, FailRequest, HandlerReturn

LEMMA OwnersKept ==
  ASSUME TypeOK, WorkOnTop
  PROVE  /\ Len(stack') = Len(stack)
         /\ \A k \in 1..Len(stack) : stack'[k].own = stack[k].own
<1>1. stack # <<>>
  BY TopWaiters
<1>2. PICK f \in Frame : stack' = SetTop(f) /\ f.own = Top.own
  <2>1. CASE BeginRequest
    <3> DEFINE f == [Top EXCEPT !.cur = Head(Top.batch), !.batch = Tail(Top.batch)]
    <3>1. Top \in Frame /\ Top.batch \in Seq(Requests) /\ Top.batch # <<>>
      BY <1>1, <2>1, TopFrame DEF BeginRequest
    <3>2. Head(Top.batch) \in Requests /\ Tail(Top.batch) \in Seq(Requests)
      BY <3>1
    <3>3. f \in Frame /\ f.own = Top.own
      BY <3>1, <3>2 DEF Frame
    <3> QED
      BY <2>1, <3>3 DEF BeginRequest
  <2>2. CASE CompleteRequest
    <3>1. /\ [Top EXCEPT !.cur = None] \in Frame
          /\ [Top EXCEPT !.cur = None].own = Top.own
      BY <1>1, TopFrame DEF Frame
    <3> QED
      BY <2>2, <3>1 DEF CompleteRequest
  <2>3. CASE FailRequest
    <3>1. Top.batch # <<>>
      BY <2>3 DEF FailRequest
    <3>2. Tail(Top.batch) \in Seq(Requests)
      BY <1>1, <3>1, TopFrame
    <3>3. /\ [Top EXCEPT !.batch = Tail(Top.batch)] \in Frame
          /\ [Top EXCEPT !.batch = Tail(Top.batch)].own = Top.own
      BY <1>1, <3>2, TopFrame DEF Frame
    <3> QED
      BY <2>3, <3>3 DEF FailRequest
  <2>4. CASE Calls
    <3>1. /\ [Top EXCEPT !.handler = TRUE] \in Frame
          /\ [Top EXCEPT !.handler = TRUE].own = Top.own
      BY <1>1, TopFrame DEF Frame
    <3> QED
      BY <2>4, <3>1, CallActions
  <2>5. CASE HandlerReturn
    <3>1. /\ [Top EXCEPT !.handler = FALSE] \in Frame
          /\ [Top EXCEPT !.handler = FALSE].own = Top.own
      BY <1>1, TopFrame DEF Frame
    <3> QED
      BY <2>5, <3>1 DEF HandlerReturn
  <2>6. ASSUME NEW r \in Requests, RetryRequest(r)
        PROVE  \E f \in Frame : stack' = SetTop(f) /\ f.own = Top.own
    <3>1. DrainFrame(Append(requestQueue, r), r).own = r
      BY DEF DrainFrame
    <3> QED
      BY <2>6, <3>1, RetryFacts
  <2> QED
    BY <2>1, <2>2, <2>3, <2>4, <2>5, <2>6 DEF WorkOnTop
<1>3. /\ Len(stack') = Len(stack) /\ stack'[Len(stack)] = f
      /\ \A k \in 1..Len(stack) : k # Len(stack) => stack'[k] = stack[k]
  BY <1>1, <1>2, SetTopFrames
<1>4. ASSUME NEW k \in 1..Len(stack) PROVE stack'[k].own = stack[k].own
  BY <1>2, <1>3 DEF Top
<1> QED
  BY <1>3, <1>4

(* Only a request without a caller is freed by the controller.             *)
LEMMA OwnedNotFreed ==
  ASSUME TypeOK, WorkOnTop
  PROVE  \A r \in Requests : phase[r] # "free" /\ caller[r] # None => phase'[r] # "free"
<1> TAKE r \in Requests
<1> HAVE phase[r] # "free" /\ caller[r] # None
<1>1. CASE BeginRequest
  BY <1>1 DEF BeginRequest, TypeOK
<1>2. CASE CompleteRequest
  BY <1>2 DEF CompleteRequest, Completed, TypeOK
<1>3. CASE FailRequest
  BY <1>3 DEF FailRequest, Completed, TypeOK
<1>4. CASE Calls \/ HandlerReturn
  BY <1>4, CallActions DEF HandlerReturn
<1>5. ASSUME NEW q \in Requests, RetryRequest(q) PROVE phase'[r] # "free"
  BY <1>5, RetryFacts DEF Batched, TypeOK
<1> QED
  BY <1>1, <1>2, <1>3, <1>4, <1>5 DEF WorkOnTop

LEMMA OwnTypes ==
  ASSUME TypeOK
  PROVE  /\ \A k \in 1..Len(stack) : stack[k].own \in Requests \cup {None}
         /\ \A c \in Clients : blockedOn[c] \in Requests \cup {None}
<1>1. ASSUME NEW k \in 1..Len(stack) PROVE stack[k].own \in Requests \cup {None}
  <2>1. stack[k] \in Frame
    BY DEF TypeOK
  <2> QED
    BY <2>1 DEF Frame
<1> QED
  BY <1>1 DEF TypeOK

LEMMA OwnershipStep ==
  TypeOK /\ TypeOK' /\ Ownership /\ [Next]_vars => Ownership'
<1> SUFFICES ASSUME TypeOK, TypeOK', Ownership, [Next]_vars PROVE Ownership'
  OBVIOUS
<1> USE ConstantsAssumption
    DEF Ownership, IdleOwnsNothing, BlockedKeepsRequest, GateOwns, OwnersDiffer
<1>t. /\ phase \in [Requests -> Phases] /\ caller \in [Requests -> Clients \cup {Gate, None}]
      /\ pc \in [Clients -> {"idle", "signalling", "waiting"}]
      /\ blockedOn \in [Clients -> Requests \cup {None}]
      /\ Len(stack) \in Nat
  BY DEF TypeOK
<1>1. ASSUME NEW c \in Clients, NEW r \in Requests, NEW b \in BOOLEAN, ClientEnqueue(c, r, b)
      PROVE  Ownership'
  BY <1>1, <1>t, OwnTypes DEF ClientEnqueue
<1>2. ASSUME NEW c \in Clients, ClientSignal(c) PROVE Ownership'
  BY <1>2, <1>t DEF ClientSignal
<1>3. ASSUME NEW c \in Clients, ClientReturn(c) PROVE Ownership'
  BY <1>3, <1>t, OwnTypes DEF ClientReturn
<1>4. CASE ServeQueue \/ ServeInterrupt \/ Suspend \/ Resume
  <2>1. UNCHANGED <<caller, pc, blockedOn>>
    BY <1>4 DEF ServeQueue, ServeInterrupt, Suspend, Resume
  <2>2. \A r \in Requests : phase[r] # "free" => phase'[r] # "free"
    BY <1>4 DEF ServeQueue, ServeInterrupt, Suspend, Resume, Batched
  <2>3. \A k \in 1..Len(stack') : stack'[k].own = None
    BY <1>4 DEF ServeQueue, ServeInterrupt, Suspend, Resume, DrainFrame, HandlerFrame
  <2> QED
    BY <2>1, <2>2, <2>3, OwnTypes
<1>5. CASE WorkOnTop
  <2>1. UNCHANGED <<caller, pc, blockedOn>>
    BY <1>5, TopWaiters
  <2> QED
    BY <1>5, <1>t, <2>1, OwnersKept, OwnedNotFreed, OwnTypes
<1>6. CASE PopFrame
  <2>1. stack # <<>> /\ stack' = SubSeq(stack, 1, Len(stack) - 1) /\ UNCHANGED <<pc, blockedOn>>
    BY <1>6 DEF PopFrame
  <2>2. Len(stack') = Len(stack) - 1 /\ \A k \in 1..(Len(stack) - 1) : stack'[k] = stack[k]
    BY <2>1, PopFrames
  <2>3. Len(stack) \in 1..Len(stack) /\ Top = stack[Len(stack)]
    BY <2>1, TopFrame DEF Top
  <2>4. \A r \in Requests : r # Top.own => phase'[r] = phase[r] /\ caller'[r] = caller[r]
    BY <1>6, <1>t DEF PopFrame
  <2>5. \A c \in Clients : blockedOn[c] # None => blockedOn[c] # Top.own
    BY <2>3
  <2>6. \A k \in 1..(Len(stack) - 1) : stack[k].own # None => stack[k].own # Top.own
    BY <2>3, <1>t
  <2>7. IdleOwnsNothing' /\ BlockedKeepsRequest'
    BY <2>1, <2>4, <2>5, OwnTypes
  <2>8. Len(stack') = Len(stack) - 1 /\ Len(stack) \in Nat
    BY <2>2 DEF TypeOK
  <2>9. \A k \in 1..Len(stack') : k \in 1..Len(stack) /\ k \in 1..(Len(stack) - 1) /\ stack'[k] = stack[k]
    BY <2>2, <2>8
  <2>10. GateOwns'
    BY <2>4, <2>6, <2>9, OwnTypes
  <2>11. OwnersDiffer'
    BY <2>9
  <2> QED
    BY <2>7, <2>10, <2>11
<1>7. ASSUME NEW r \in Requests, HandlerSubmit(r) PROVE Ownership'
  BY <1>7, <1>t, OwnTypes DEF HandlerSubmit
<1>8. ASSUME NEW r \in Requests, HandlerBlock(r) \/ WakeReset(r) PROVE Ownership'
  <2> DEFINE f == DrainFrame(Append(requestQueue, r), r)
  <2>1. f \in Frame /\ f.own = r
    <3>1. Append(requestQueue, r) \in Seq(Requests)
      BY DEF TypeOK
    <3> QED
      BY <3>1, NewFrames DEF DrainFrame
  <2>2. /\ phase[r] = "free" /\ stack' = Append(stack, f) /\ UNCHANGED <<pc, blockedOn>>
        /\ phase' = [Batched EXCEPT ![r] = "batched"]
        /\ caller' = [caller EXCEPT ![r] = Gate]
    BY <1>8, BlockActions DEF Blocks, BlockOn
  <2>3. /\ Len(stack') = Len(stack) + 1 /\ stack'[Len(stack) + 1] = f
        /\ \A k \in 1..Len(stack) : stack'[k] = stack[k]
    BY <2>1, <2>2, PushFrames
  <2>4. \A q \in Requests : q # r => caller'[q] = caller[q]
                                    /\ (phase[q] # "free" => phase'[q] # "free")
    BY <1>t, <2>2 DEF Batched
  <2>5. caller'[r] = Gate /\ phase'[r] = "batched"
    BY <1>t, <2>2 DEF Batched
  <2> HIDE DEF f
  <2>6. \A k \in 1..Len(stack') : k \in 1..Len(stack) \/ k = Len(stack) + 1
    BY <2>3, <1>t
  <2>7. \A k \in 1..Len(stack) : stack[k].own # None => stack[k].own # r
    BY <2>2
  <2>8. IdleOwnsNothing' /\ BlockedKeepsRequest'
    BY <2>2, <2>4, OwnTypes
  <2>9. GateOwns'
    BY <2>1, <2>3, <2>4, <2>5, <2>6, <2>7, OwnTypes
  <2>10. OwnersDiffer'
    BY <2>1, <2>3, <2>6, <2>7, OwnTypes
  <2> QED
    BY <2>8, <2>9, <2>10
<1>9. CASE Stop
  BY <1>9, <1>t DEF Stop
<1>10. CASE Stopped \/ UNCHANGED vars
  BY <1>10 DEF Stopped, vars
<1> QED
  BY <1>1, <1>2, <1>3, <1>4, <1>5, <1>6, <1>7, <1>8, <1>9, <1>10 DEF Next, WorkOnTop, Calls

(* A thread blocked in submitRequestAndBlock keeps its request until it     *)
(* returns: no drain, completion or nested call frees or reuses it.         *)
THEOREM BlockedKeeps == Spec => []BlockedKeepsRequest
<1>1. Init => Ownership
  BY DEF Init, Ownership, IdleOwnsNothing, BlockedKeepsRequest, GateOwns, OwnersDiffer
<1>2. Ownership => BlockedKeepsRequest
  BY DEF Ownership
<1> QED
  BY <1>1, <1>2, TypeCorrect, OwnershipStep, PTL DEF Spec

-----------------------------------------------------------------------------
(* Where requests are linked.  In hides the positions.                      *)
In(r, s) == \E i \in DOMAIN s : s[i] = r

LEMMA InEmpty == NoRepeats(<<>>) /\ \A r : ~In(r, <<>>)
BY DEF In, NoRepeats

LEMMA InAppend ==
  ASSUME NEW s \in Seq(Requests), NEW x \in Requests, NoRepeats(s), ~In(x, s)
  PROVE  /\ NoRepeats(Append(s, x))
         /\ \A r : In(r, Append(s, x)) <=> In(r, s) \/ r = x
<1>1. /\ DOMAIN s = 1..Len(s) /\ Len(s) \in Nat
      /\ DOMAIN Append(s, x) = 1..(Len(s) + 1)
      /\ Append(s, x)[Len(s) + 1] = x
      /\ \A i \in 1..Len(s) : Append(s, x)[i] = s[i]
  OBVIOUS
<1> DEFINE t == Append(s, x)
<1> HIDE DEF t
<1>2. /\ DOMAIN t = 1..(Len(s) + 1) /\ t[Len(s) + 1] = x
      /\ \A i \in 1..Len(s) : t[i] = s[i]
  BY <1>1 DEF t
<1>3. NoRepeats(t)
  BY <1>1, <1>2 DEF NoRepeats, In
<1>4. ASSUME NEW r PROVE In(r, t) <=> In(r, s) \/ r = x
  BY <1>1, <1>2 DEF In
<1> QED
  BY <1>3, <1>4 DEF t

LEMMA InTail ==
  ASSUME NEW s \in Seq(Requests), s # <<>>, NoRepeats(s)
  PROVE  /\ NoRepeats(Tail(s))
         /\ In(Head(s), s)
         /\ \A r : In(r, Tail(s)) <=> In(r, s) /\ r # Head(s)
<1>1. /\ DOMAIN s = 1..Len(s) /\ Len(s) \in Nat \ {0} /\ Head(s) = s[1]
      /\ DOMAIN Tail(s) = 1..(Len(s) - 1)
      /\ \A i \in 1..(Len(s) - 1) : Tail(s)[i] = s[i + 1]
  OBVIOUS
<1> DEFINE t == Tail(s)
<1> HIDE DEF t
<1>2. DOMAIN t = 1..(Len(s) - 1) /\ \A i \in 1..(Len(s) - 1) : t[i] = s[i + 1]
  BY <1>1 DEF t
<1>3. NoRepeats(t)
  BY <1>1, <1>2 DEF NoRepeats
<1>4. In(Head(s), s)
  BY <1>1 DEF In
<1>5. ASSUME NEW r PROVE In(r, t) <=> In(r, s) /\ r # Head(s)
  <2>1. ASSUME In(r, t) PROVE In(r, s) /\ r # Head(s)
    BY <1>1, <1>2, <2>1 DEF In, NoRepeats
  <2>2. ASSUME In(r, s), r # Head(s) PROVE In(r, t)
    <3>1. PICK i \in 1..Len(s) : s[i] = r
      BY <1>1, <2>2 DEF In
    <3>2. i # 1
      BY <1>1, <2>2, <3>1
    <3>3. i - 1 \in 1..(Len(s) - 1) /\ (i - 1) + 1 = i
      BY <1>1, <3>2
    <3> QED
      BY <1>2, <3>1, <3>3 DEF In
  <2> QED
    BY <2>1, <2>2
<1> QED
  BY <1>3, <1>4, <1>5 DEF t

QueueLinks ==
  /\ \A r \in Requests : phase[r] = "queued" <=> In(r, requestQueue)
  /\ NoRepeats(requestQueue)

BatchLinks ==
  /\ \A r \in Requests :
       phase[r] = "batched" <=> \E k \in 1..Len(stack) : In(r, stack[k].batch)
  /\ \A k \in 1..Len(stack) : NoRepeats(stack[k].batch)
  /\ \A k, l \in 1..Len(stack) : k # l =>
       \A r \in Requests : ~(In(r, stack[k].batch) /\ In(r, stack[l].batch))

CurLinks ==
  /\ \A r \in Requests :
       phase[r] = "executing" <=> \E k \in 1..Len(stack) : stack[k].cur = r
  /\ \A k, l \in 1..Len(stack) :
       k # l /\ stack[k].cur # None => stack[k].cur # stack[l].cur

(* A call that blocks in the gate has its request before it: in its own     *)
(* local queue, in progress, or done.                                       *)
OwnLinks ==
  \A k \in 1..Len(stack) : stack[k].own # None =>
    \/ phase[stack[k].own] = "batched" /\ In(stack[k].own, stack[k].batch)
    \/ phase[stack[k].own] = "executing" /\ stack[k].cur = stack[k].own
    \/ phase[stack[k].own] = "completed"

Links == QueueLinks /\ BatchLinks /\ CurLinks /\ OwnLinks

LEMMA FrameTypes ==
  ASSUME TypeOK
  PROVE  /\ Len(stack) \in Nat
         /\ \A k \in 1..Len(stack) :
              /\ stack[k].batch \in Seq(Requests)
              /\ stack[k].cur \in Requests \cup {None}
              /\ stack[k].own \in Requests \cup {None}
<1>1. ASSUME NEW k \in 1..Len(stack) PROVE stack[k] \in Frame
  BY DEF TypeOK
<1> QED
  BY <1>1 DEF TypeOK, Frame

(* A request that was free joins the queue.                                *)
LEMMA LinkSubmit ==
  ASSUME TypeOK, Links, NEW r \in Requests, phase[r] = "free",
         phase' = [phase EXCEPT ![r] = "queued"],
         requestQueue' = Append(requestQueue, r), stack' = stack
  PROVE  Links'
<1>1. phase \in [Requests -> Phases] /\ requestQueue \in Seq(Requests)
  BY DEF TypeOK
<1>2. ~In(r, requestQueue)
  BY DEF Links, QueueLinks
<1>3. /\ NoRepeats(requestQueue')
      /\ \A q : In(q, requestQueue') <=> In(q, requestQueue) \/ q = r
  BY <1>1, <1>2, InAppend DEF Links, QueueLinks
<1>4. QueueLinks'
  BY <1>1, <1>3 DEF Links, QueueLinks
<1>5. BatchLinks'
  BY <1>1 DEF Links, BatchLinks
<1>6. CurLinks'
  BY <1>1 DEF Links, CurLinks
<1>7. OwnLinks'
  BY <1>1, FrameTypes DEF Links, OwnLinks
<1> QED
  BY <1>4, <1>5, <1>6, <1>7 DEF Links

(* A request that is done and that no call in the gate owns is freed.      *)
LEMMA LinkFree ==
  ASSUME TypeOK, Links, NEW r \in Requests, phase[r] = "completed",
         \A k \in 1..Len(stack) : stack[k].own # r,
         phase' = [phase EXCEPT ![r] = "free"],
         requestQueue' = requestQueue, stack' = stack
  PROVE  Links'
<1>1. phase \in [Requests -> Phases]
  BY DEF TypeOK
<1> QED
  BY <1>1, FrameTypes DEF Links, QueueLinks, BatchLinks, CurLinks, OwnLinks

(* The first call in the gate takes the queue, or nothing at all.          *)
LEMMA LinkFirst ==
  ASSUME TypeOK, Links, stack = <<>>, NEW f \in Frame, stack' = <<f>>,
         f.cur = None, f.own = None,
         \/ f.batch = requestQueue /\ phase' = Batched /\ requestQueue' = <<>>
         \/ f.batch = <<>> /\ UNCHANGED <<phase, requestQueue>>
  PROVE  Links'
<1>1. phase \in [Requests -> Phases]
  BY DEF TypeOK
<1>2. Len(stack) = 0 /\ Len(stack') = 1 /\ stack'[1] = f
  BY DEF TypeOK
<1>3. \A r \in Requests : phase[r] # "batched" /\ phase[r] # "executing"
  BY <1>2 DEF Links, BatchLinks, CurLinks
<1>4. QueueLinks'
  BY <1>1, <1>3, InEmpty DEF Links, QueueLinks, Batched
<1>5. BatchLinks'
  <2>1. \A r \in Requests : phase'[r] = "batched" <=> In(r, f.batch)
    BY <1>1, <1>3, InEmpty DEF Links, QueueLinks, Batched
  <2>2. NoRepeats(f.batch)
    BY InEmpty DEF Links, QueueLinks
  <2> QED
    BY <1>2, <2>1, <2>2 DEF BatchLinks
<1>6. CurLinks'
  <2>1. \A r \in Requests : phase'[r] # "executing"
    BY <1>1, <1>3 DEF Batched
  <2>2. \A r \in Requests : r # None
    BY ConstantsAssumption
  <2> QED
    BY <1>2, <2>1, <2>2 DEF CurLinks
<1>7. OwnLinks'
  BY <1>2 DEF OwnLinks
<1> QED
  BY <1>4, <1>5, <1>6, <1>7 DEF Links

(* The top frame is replaced: by itself, with the request it was processing *)
(* done, with the next request in progress, or with that request failed.    *)
LEMMA LinkSame ==
  ASSUME TypeOK, Links, stack # <<>>, NEW f \in Frame, stack' = SetTop(f),
         f.batch = Top.batch, f.cur = Top.cur, f.own = Top.own,
         UNCHANGED <<phase, requestQueue>>
  PROVE  Links'
<1>1. Len(stack') = Len(stack)
  BY SetTopFrames
<1>2. \A k \in 1..Len(stack) : /\ stack'[k].batch = stack[k].batch
                               /\ stack'[k].cur = stack[k].cur
                               /\ stack'[k].own = stack[k].own
  BY SetTopFrames DEF Top
<1>3. QueueLinks' /\ BatchLinks'
  BY <1>1, <1>2 DEF Links, QueueLinks, BatchLinks
<1>4. CurLinks' /\ OwnLinks'
  BY <1>1, <1>2 DEF Links, CurLinks, OwnLinks
<1> QED
  BY <1>3, <1>4 DEF Links

LEMMA LinkDone ==
  ASSUME TypeOK, Links, Ownership, stack # <<>>, NEW f \in Frame, stack' = SetTop(f),
         Top.cur # None, f.batch = Top.batch, f.cur = None, f.own = Top.own,
         phase' = Completed(Top.cur), UNCHANGED requestQueue
  PROVE  Links'
<1> DEFINE n == Len(stack)
           r == stack[n].cur
<1>1. /\ Len(stack') = n /\ n \in 1..n
      /\ \A k \in 1..n : /\ stack'[k].batch = stack[k].batch
                        /\ stack'[k].own = stack[k].own
                        /\ stack'[k].cur = IF k = n THEN None ELSE stack[k].cur
  BY SetTopFrames, TopFrame DEF Top
<1>2. /\ r \in Requests /\ r # None /\ phase[r] = "executing"
  BY <1>1, FrameTypes, ConstantsAssumption DEF Top, Links, CurLinks
<1>3. /\ phase'[r] = IF caller[r] = None THEN "free" ELSE "completed"
      /\ \A q \in Requests : q # r => phase'[q] = phase[q]
  BY <1>2 DEF Completed, Top, TypeOK
<1>4. \A k \in 1..n : k # n => stack[k].cur # r
  BY <1>1, <1>2 DEF Links, CurLinks
<1>5. \A k \in 1..n : stack[k].own = r => phase'[r] = "completed"
  BY <1>2, <1>3, ConstantsAssumption DEF Ownership, GateOwns
<1> HIDE DEF n, r
<1>6. QueueLinks'
  BY <1>2, <1>3 DEF Links, QueueLinks
<1>7. BatchLinks'
  BY <1>1, <1>2, <1>3 DEF Links, BatchLinks, n
<1>8. CurLinks'
  BY <1>1, <1>2, <1>3, <1>4, ConstantsAssumption DEF Links, CurLinks, n, r
<1>9. OwnLinks'
  <2>1. r = stack[n].cur
    BY DEF n, r
  <2>2. \A k \in 1..n : stack[k].own \in Requests \cup {None}
    BY FrameTypes DEF n
  <2> QED
    BY <1>1, <1>2, <1>3, <1>4, <1>5, <2>1, <2>2 DEF Links, OwnLinks, n
<1> QED
  BY <1>6, <1>7, <1>8, <1>9 DEF Links

LEMMA LinkBegin ==
  ASSUME TypeOK, Links, stack # <<>>, NEW f \in Frame, stack' = SetTop(f),
         Top.cur = None, Top.batch # <<>>,
         f.batch = Tail(Top.batch), f.cur = Head(Top.batch), f.own = Top.own,
         phase' = [phase EXCEPT ![Head(Top.batch)] = "executing"], UNCHANGED requestQueue
  PROVE  Links'
<1> DEFINE n == Len(stack)
           r == Head(stack[n].batch)
<1>1. /\ Len(stack') = n /\ n \in 1..n
      /\ \A k \in 1..n : /\ stack'[k].batch = IF k = n THEN Tail(stack[n].batch) ELSE stack[k].batch
                        /\ stack'[k].own = stack[k].own
                        /\ stack'[k].cur = IF k = n THEN r ELSE stack[k].cur
  BY SetTopFrames, TopFrame DEF Top
<1>2. stack[n].batch \in Seq(Requests) /\ stack[n].batch # <<>> /\ stack[n].cur = None
  BY TopFrame DEF Top
<1>3. r \in Requests
  BY <1>2
<1>4. /\ NoRepeats(Tail(stack[n].batch)) /\ In(r, stack[n].batch)
      /\ \A q : In(q, Tail(stack[n].batch)) <=> In(q, stack[n].batch) /\ q # r
  BY <1>1, <1>2, InTail DEF Links, BatchLinks
<1>5. phase[r] = "batched" /\ \A k \in 1..n : k # n => ~In(r, stack[k].batch)
  BY <1>1, <1>3, <1>4 DEF Links, BatchLinks
<1>6. phase'[r] = "executing" /\ \A q \in Requests : q # r => phase'[q] = phase[q]
  BY <1>3 DEF Top, TypeOK
<1> HIDE DEF n, r
<1>7. QueueLinks'
  BY <1>3, <1>5, <1>6 DEF Links, QueueLinks
<1>8. BatchLinks'
  BY <1>1, <1>3, <1>4, <1>5, <1>6 DEF Links, BatchLinks, n
<1>9. CurLinks'
  <2>1. \A k \in 1..n : stack[k].cur # r
    BY <1>3, <1>5 DEF Links, CurLinks, n
  <2> QED
    BY <1>1, <1>2, <1>3, <1>6, <2>1, ConstantsAssumption DEF Links, CurLinks, n
<1>10. OwnLinks'
  <2>1. ASSUME NEW k \in 1..n, stack[k].own = r PROVE k = n
    BY <1>3, <1>5, <2>1, ConstantsAssumption DEF Links, OwnLinks, n
  <2>2. \A k \in 1..n : stack[k].own \in Requests \cup {None}
    BY FrameTypes DEF n
  <2> QED
    BY <1>1, <1>2, <1>3, <1>4, <1>6, <2>1, <2>2, ConstantsAssumption DEF Links, OwnLinks, n
<1> QED
  BY <1>7, <1>8, <1>9, <1>10 DEF Links

LEMMA LinkFail ==
  ASSUME TypeOK, Links, Ownership, stack # <<>>, NEW f \in Frame, stack' = SetTop(f),
         Top.cur = None, Top.batch # <<>>,
         f.batch = Tail(Top.batch), f.cur = None, f.own = Top.own,
         phase' = Completed(Head(Top.batch)), UNCHANGED requestQueue
  PROVE  Links'
<1> DEFINE n == Len(stack)
           r == Head(stack[n].batch)
<1>1. /\ Len(stack') = n /\ n \in 1..n
      /\ \A k \in 1..n : /\ stack'[k].batch = IF k = n THEN Tail(stack[n].batch) ELSE stack[k].batch
                        /\ stack'[k].own = stack[k].own
                        /\ stack'[k].cur = stack[k].cur
  BY SetTopFrames, TopFrame DEF Top
<1>2. stack[n].batch \in Seq(Requests) /\ stack[n].batch # <<>> /\ stack[n].cur = None
  BY TopFrame DEF Top
<1>3. r \in Requests
  BY <1>2
<1>4. /\ NoRepeats(Tail(stack[n].batch)) /\ In(r, stack[n].batch)
      /\ \A q : In(q, Tail(stack[n].batch)) <=> In(q, stack[n].batch) /\ q # r
  BY <1>1, <1>2, InTail DEF Links, BatchLinks
<1>5. phase[r] = "batched" /\ \A k \in 1..n : k # n => ~In(r, stack[k].batch)
  BY <1>1, <1>3, <1>4 DEF Links, BatchLinks
<1>6. /\ phase'[r] = IF caller[r] = None THEN "free" ELSE "completed"
      /\ \A q \in Requests : q # r => phase'[q] = phase[q]
  BY <1>3 DEF Completed, Top, TypeOK
<1>7. \A k \in 1..n : stack[k].own = r => phase'[r] = "completed"
  BY <1>3, <1>6, ConstantsAssumption DEF Ownership, GateOwns
<1> HIDE DEF n, r
<1>8. QueueLinks'
  BY <1>3, <1>5, <1>6 DEF Links, QueueLinks
<1>9. BatchLinks'
  BY <1>1, <1>3, <1>4, <1>5, <1>6 DEF Links, BatchLinks, n
<1>10. CurLinks'
  BY <1>1, <1>3, <1>5, <1>6 DEF Links, CurLinks, n
<1>11. OwnLinks'
  BY <1>1, <1>3, <1>4, <1>5, <1>6, <1>7, FrameTypes DEF Links, OwnLinks, n
<1> QED
  BY <1>8, <1>9, <1>10, <1>11 DEF Links

(* A call returns; the request it blocked on is done and is freed.         *)
LEMMA LinkPop ==
  ASSUME TypeOK, Links, Ownership, stack # <<>>,
         stack' = SubSeq(stack, 1, Len(stack) - 1),
         Top.cur = None, Top.batch = <<>>,
         IF Top.own = None THEN UNCHANGED phase
                           ELSE phase' = [phase EXCEPT ![Top.own] = "free"],
         UNCHANGED requestQueue
  PROVE  Links'
<1> DEFINE n == Len(stack)
           r == stack[n].own
<1>1. /\ n \in Nat \ {0} /\ n \in 1..n /\ Len(stack') = n - 1
      /\ \A k \in 1..(n - 1) : stack'[k] = stack[k] /\ k \in 1..n /\ k # n
      /\ \A k \in 1..n : k # n => k \in 1..(n - 1)
  BY PopFrames, TopFrame
<1>2. stack[n].cur = None /\ stack[n].batch = <<>> /\ r \in Requests \cup {None}
  BY TopFrame DEF Top
<1>3. r # None => phase[r] = "completed"
  BY <1>1, <1>2, InEmpty DEF Links, OwnLinks
<1>4. /\ \A q \in Requests : q # r => phase'[q] = phase[q]
      /\ r # None => phase'[r] = "free"
  BY <1>2 DEF Top, TypeOK
<1>5. \A k \in 1..(n - 1) : stack[k].own # None => stack[k].own # r
  BY <1>1 DEF Ownership, OwnersDiffer
<1>6. \A q : ~In(q, stack[n].batch)
  BY <1>2, InEmpty
<1>7. None \notin Requests
  BY ConstantsAssumption
<1> HIDE DEF n, r
<1>8. QueueLinks'
  BY <1>2, <1>3, <1>4, <1>7 DEF Links, QueueLinks
<1>9. BatchLinks'
  <2>1. \A q \in Requests : phase'[q] = "batched" <=> phase[q] = "batched"
    BY <1>2, <1>3, <1>4, <1>7
  <2>2. \A q \in Requests : (\E k \in 1..n : In(q, stack[k].batch))
                            <=> \E k \in 1..(n - 1) : In(q, stack'[k].batch)
    BY <1>1, <1>6
  <2>3. \A q \in Requests :
          phase[q] = "batched" <=> \E k \in 1..n : In(q, stack[k].batch)
    BY DEF Links, BatchLinks, n
  <2>4. \A q \in Requests :
          phase'[q] = "batched" <=> \E k \in 1..(n - 1) : In(q, stack'[k].batch)
    BY <2>1, <2>2, <2>3
  <2>5. /\ \A k \in 1..(n - 1) : NoRepeats(stack'[k].batch)
        /\ \A k, l \in 1..(n - 1) : k # l =>
             \A q \in Requests : ~(In(q, stack'[k].batch) /\ In(q, stack'[l].batch))
    BY <1>1 DEF Links, BatchLinks, n
  <2> QED
    BY <1>1, <2>4, <2>5 DEF BatchLinks
<1>10. CurLinks'
  <2>1. \A q \in Requests : phase'[q] = "executing" <=> phase[q] = "executing"
    BY <1>2, <1>3, <1>4, <1>7
  <2>2. \A q \in Requests : (\E k \in 1..n : stack[k].cur = q)
                            <=> \E k \in 1..(n - 1) : stack'[k].cur = q
    BY <1>1, <1>2, <1>7
  <2>3. \A q \in Requests :
          phase[q] = "executing" <=> \E k \in 1..n : stack[k].cur = q
    BY DEF Links, CurLinks, n
  <2>4. \A q \in Requests :
          phase'[q] = "executing" <=> \E k \in 1..(n - 1) : stack'[k].cur = q
    BY <2>1, <2>2, <2>3
  <2>5. \A k, l \in 1..(n - 1) :
          k # l /\ stack'[k].cur # None => stack'[k].cur # stack'[l].cur
    BY <1>1 DEF Links, CurLinks, n
  <2>6. 1..Len(stack') = 1..(n - 1)
    BY <1>1
  <2>7. \A q \in Requests :
          phase'[q] = "executing" <=> \E k \in 1..Len(stack') : stack'[k].cur = q
    BY <2>4, <2>6
  <2>8. \A k, l \in 1..Len(stack') :
          k # l /\ stack'[k].cur # None => stack'[k].cur # stack'[l].cur
    BY <2>5, <2>6
  <2> QED
    BY <2>7, <2>8, Zenon DEF CurLinks
<1>11. OwnLinks'
  <2>1. SUFFICES ASSUME NEW k \in 1..(n - 1), stack'[k].own # None
                 PROVE  \/ /\ phase'[stack'[k].own] = "batched"
                           /\ In(stack'[k].own, stack'[k].batch)
                        \/ /\ phase'[stack'[k].own] = "executing"
                           /\ stack'[k].cur = stack'[k].own
                        \/ phase'[stack'[k].own] = "completed"
    BY <1>1, Zenon DEF OwnLinks
  <2>2. stack'[k] = stack[k] /\ k \in 1..n
    BY <1>1
  <2>3. stack[k].own \in Requests /\ stack[k].own # r
    BY <1>5, <2>1, <2>2, FrameTypes DEF n
  <2>4. phase'[stack[k].own] = phase[stack[k].own]
    BY <1>4, <2>3
  <2> QED
    BY <2>1, <2>2, <2>3, <2>4 DEF Links, OwnLinks, n
<1> QED
  BY <1>8, <1>9, <1>10, <1>11 DEF Links

(* The reset that hangs takes the queue again, and its request after it.   *)
LEMMA LinkRetry ==
  ASSUME TypeOK, Links, Ownership, NEW r \in Requests, RetryRequest(r)
  PROVE  Links'
<1> DEFINE n == Len(stack)
           b == Append(requestQueue, r)
           f == DrainFrame(b, r)
<1>1. /\ stack # <<>> /\ stack' = SetTop(f) /\ f \in Frame
      /\ Top.cur = None /\ Top.batch = <<>> /\ Top.own = r
      /\ requestQueue' = <<>> /\ phase' = [Batched EXCEPT ![r] = "batched"]
  BY RetryFacts
<1>2. n \in 1..n /\ Top = stack[n]
  BY <1>1, TopFrame DEF Top
<1>3. phase[r] = "completed"
  BY <1>1, <1>2, InEmpty, ConstantsAssumption DEF Links, OwnLinks
<1>4. ~In(r, requestQueue) /\ requestQueue \in Seq(Requests)
  BY <1>3 DEF Links, QueueLinks, TypeOK
<1>5. NoRepeats(b) /\ \A q : In(q, b) <=> In(q, requestQueue) \/ q = r
  BY <1>4, InAppend DEF Links, QueueLinks
<1>6. f.batch = b /\ f.cur = None /\ f.own = r
  BY DEF DrainFrame
<1> HIDE DEF f, b
<1>7. /\ Len(stack') = n /\ stack'[n] = f
      /\ \A k \in 1..n : k # n => stack'[k] = stack[k]
  BY <1>1, SetTopFrames
<1>8. /\ phase'[r] = "batched"
      /\ \A q \in Requests : q # r =>
           phase'[q] = IF phase[q] = "queued" THEN "batched" ELSE phase[q]
  BY <1>1 DEF Batched, TypeOK
<1>9. None \notin Requests
  BY ConstantsAssumption
<1>10. stack[n].cur = None /\ stack[n].batch = <<>> /\ \A q : ~In(q, stack[n].batch)
  BY <1>1, <1>2, InEmpty
<1>11. \A k \in 1..n : k # n /\ stack[k].own # None => stack[k].own # r
  BY <1>1, <1>2, <1>9 DEF Ownership, OwnersDiffer
<1> HIDE DEF n
<1>12. QueueLinks'
  BY <1>1, <1>8, InEmpty DEF QueueLinks
<1>13. BatchLinks'
  <2>1. \A q \in Requests, k \in 1..n : In(q, stack[k].batch) => phase[q] = "batched"
    BY DEF Links, BatchLinks, n
  <2>2. \A q \in Requests : In(q, f.batch) <=> phase[q] = "queued" \/ q = r
    BY <1>5, <1>6 DEF Links, QueueLinks
  <2>3. \A k \in 1..n : NoRepeats(stack'[k].batch)
    BY <1>5, <1>6, <1>7 DEF Links, BatchLinks, n
  <2>4. \A q \in Requests : phase[q] = "batched" <=> \E k \in 1..n : In(q, stack[k].batch)
    BY DEF Links, BatchLinks, n
  <2>5. \A q \in Requests :
          phase'[q] = "batched" <=> \E k \in 1..n : In(q, stack'[k].batch)
    <3> TAKE q \in Requests
    <3>1. phase'[q] = "batched" <=> q = r \/ phase[q] = "queued" \/ phase[q] = "batched"
      BY <1>8
    <3>2. phase[q] = "batched" <=> \E k \in 1..n : k # n /\ In(q, stack'[k].batch)
      BY <1>7, <1>10, <2>4
    <3>3. In(q, stack'[n].batch) <=> phase[q] = "queued" \/ q = r
      BY <1>7, <2>2
    <3> QED
      BY <1>2, <3>1, <3>2, <3>3
  <2>6. \A k, l \in 1..n : k # l =>
          \A q \in Requests : ~(In(q, stack'[k].batch) /\ In(q, stack'[l].batch))
    BY <1>3, <1>7, <2>1, <2>2 DEF Links, BatchLinks, n
  <2> QED
    BY <1>7, <2>3, <2>5, <2>6 DEF BatchLinks
<1>14. CurLinks'
  <2>1. \A k \in 1..n : stack'[k].cur = stack[k].cur
    BY <1>6, <1>7, <1>10
  <2>2. \A q \in Requests : phase'[q] = "executing" <=> phase[q] = "executing"
    BY <1>3, <1>8
  <2> QED
    BY <1>7, <2>1, <2>2 DEF Links, CurLinks, n
<1>15. OwnLinks'
  BY <1>5, <1>6, <1>7, <1>8, <1>11, FrameTypes DEF Links, OwnLinks, n
<1> QED
  BY <1>12, <1>13, <1>14, <1>15 DEF Links

(* A call that blocks in the gate takes the queue, and its request after it.*)
LEMMA LinkBlock ==
  ASSUME TypeOK, Links, NEW r \in Requests, phase[r] = "free",
         stack' = Append(stack, DrainFrame(Append(requestQueue, r), r)),
         requestQueue' = <<>>, phase' = [Batched EXCEPT ![r] = "batched"]
  PROVE  Links'
<1> DEFINE n == Len(stack)
           b == Append(requestQueue, r)
           f == DrainFrame(b, r)
<1>1. ~In(r, requestQueue) /\ requestQueue \in Seq(Requests)
  BY DEF Links, QueueLinks, TypeOK
<1>2. NoRepeats(b) /\ \A q : In(q, b) <=> In(q, requestQueue) \/ q = r
  BY <1>1, InAppend DEF Links, QueueLinks
<1>3. f \in Frame /\ f.batch = b /\ f.cur = None /\ f.own = r
  <2>1. b \in Seq(Requests)
    BY <1>1
  <2> QED
    BY <2>1, NewFrames DEF DrainFrame
<1> HIDE DEF f, b
<1>4. stack' = Append(stack, f)
  BY DEF f, b
<1>5. /\ n \in Nat /\ Len(stack') = n + 1 /\ stack'[n + 1] = f
      /\ \A k \in 1..n : stack'[k] = stack[k] /\ k \in 1..(n + 1) /\ k # n + 1
      /\ \A k \in 1..(n + 1) : k # n + 1 => k \in 1..n
      /\ n + 1 \in 1..(n + 1)
  BY <1>3, <1>4, PushFrames, FrameTypes
<1>6. /\ phase'[r] = "batched"
      /\ \A q \in Requests : q # r =>
           phase'[q] = IF phase[q] = "queued" THEN "batched" ELSE phase[q]
  BY DEF Batched, TypeOK
<1>7. None \notin Requests
  BY ConstantsAssumption
<1> HIDE DEF n
<1>8. QueueLinks'
  BY <1>6, InEmpty DEF Links, QueueLinks
<1>9. BatchLinks'
  <2>1. \A q \in Requests, k \in 1..n : In(q, stack[k].batch) => phase[q] = "batched"
    BY DEF Links, BatchLinks, n
  <2>2. \A q \in Requests : In(q, f.batch) <=> phase[q] = "queued" \/ q = r
    BY <1>2, <1>3 DEF Links, QueueLinks
  <2>3. \A k \in 1..(n + 1) : NoRepeats(stack'[k].batch)
    BY <1>2, <1>3, <1>5 DEF Links, BatchLinks, n
  <2>4. \A q \in Requests :
          phase'[q] = "batched" <=> \E k \in 1..(n + 1) : In(q, stack'[k].batch)
    BY <1>5, <1>6, <2>1, <2>2 DEF Links, BatchLinks, n
  <2>5. \A k, l \in 1..(n + 1) : k # l =>
          \A q \in Requests : ~(In(q, stack'[k].batch) /\ In(q, stack'[l].batch))
    BY <1>5, <2>1, <2>2 DEF Links, BatchLinks, n
  <2> QED
    BY <1>5, <2>3, <2>4, <2>5 DEF BatchLinks
<1>10. CurLinks'
  BY <1>3, <1>5, <1>6, <1>7, FrameTypes DEF Links, CurLinks, n
<1>11. OwnLinks'
  <2>1. \A k \in 1..n : stack[k].own # None => stack[k].own # r
    BY DEF Links, OwnLinks, n
  <2> QED
    BY <1>2, <1>3, <1>5, <1>6, <2>1, FrameTypes DEF Links, OwnLinks, n
<1> QED
  BY <1>8, <1>9, <1>10, <1>11 DEF Links

LEMMA LinksStep ==
  TypeOK /\ TypeOK' /\ Ownership /\ Links /\ [Next]_vars => Links'
<1> SUFFICES ASSUME TypeOK, TypeOK', Ownership, Links, [Next]_vars PROVE Links'
  OBVIOUS
<1>1. ASSUME NEW c \in Clients, NEW r \in Requests, NEW b \in BOOLEAN, ClientEnqueue(c, r, b)
      PROVE  Links'
  BY <1>1, LinkSubmit DEF ClientEnqueue
<1>2. ASSUME NEW c \in Clients, ClientReturn(c) PROVE Links'
  <2> DEFINE r == blockedOn[c]
  <2>1. /\ phase' = [phase EXCEPT ![r] = "free"] /\ phase[r] = "completed"
        /\ UNCHANGED <<requestQueue, stack>>
    BY <1>2 DEF ClientReturn
  <2>2. CASE r = None
    <3>1. phase' = phase
      BY <2>1, <2>2, ConstantsAssumption DEF TypeOK
    <3> QED
      BY <2>1, <3>1 DEF Links, QueueLinks, BatchLinks, CurLinks, OwnLinks
  <2>3. CASE r # None
    <3>1. r \in Requests /\ caller[r] = c /\ c # Gate
      BY <2>3, ConstantsAssumption DEF Ownership, BlockedKeepsRequest, TypeOK
    <3>2. \A k \in 1..Len(stack) : stack[k].own # r
      BY <2>3, <3>1 DEF Ownership, GateOwns
    <3> HIDE DEF r
    <3> QED
      BY <2>1, <3>1, <3>2, LinkFree
  <2> QED
    BY <2>2, <2>3
<1>3. CASE ServeQueue
  <2> DEFINE f == DrainFrame(requestQueue, None)
  <2>1. f \in Frame /\ f.batch = requestQueue /\ f.cur = None /\ f.own = None
    BY NewFrames DEF TypeOK, DrainFrame
  <2>2. stack = <<>> /\ stack' = <<f>> /\ phase' = Batched /\ requestQueue' = <<>>
    BY <1>3 DEF ServeQueue
  <2> HIDE DEF f
  <2> QED
    BY <2>1, <2>2, LinkFirst
<1>4. CASE ServeInterrupt \/ Suspend \/ Resume
  <2> DEFINE f == IF Resume THEN DrainFrame(<<>>, None) ELSE HandlerFrame
  <2>1. f \in Frame /\ f.batch = <<>> /\ f.cur = None /\ f.own = None
    <3>1. <<>> \in Seq(Requests) /\ None \in Requests \cup {None}
      OBVIOUS
    <3> QED
      BY <3>1, NewFrames DEF HandlerFrame, DrainFrame
  <2>2. stack = <<>> /\ stack' = <<f>> /\ UNCHANGED <<phase, requestQueue>>
    <3>1. CASE Resume
      BY <3>1 DEF Resume
    <3>2. CASE ~Resume
      BY <1>4, <3>2 DEF ServeInterrupt, Suspend
    <3> QED
      BY <3>1, <3>2
  <2> HIDE DEF f
  <2> QED
    BY <2>1, <2>2, LinkFirst
<1>5. CASE BeginRequest
  <2> DEFINE f == [Top EXCEPT !.cur = Head(Top.batch), !.batch = Tail(Top.batch)]
  <2>1. /\ stack # <<>> /\ Top.cur = None /\ Top.batch # <<>> /\ stack' = SetTop(f)
        /\ phase' = [phase EXCEPT ![Head(Top.batch)] = "executing"]
        /\ UNCHANGED requestQueue
    BY <1>5 DEF BeginRequest
  <2>2. Head(Top.batch) \in Requests /\ Tail(Top.batch) \in Seq(Requests)
    BY <2>1, TopFrame
  <2>3. /\ f \in Frame /\ f.batch = Tail(Top.batch)
        /\ f.cur = Head(Top.batch) /\ f.own = Top.own
    BY <2>1, <2>2, TopFrame DEF Frame
  <2> HIDE DEF f
  <2> QED
    BY <2>1, <2>3, LinkBegin
<1>6. CASE CompleteRequest
  <2> DEFINE f == [Top EXCEPT !.cur = None]
  <2>1. /\ stack # <<>> /\ Top.cur # None /\ stack' = SetTop(f)
        /\ phase' = Completed(Top.cur) /\ UNCHANGED requestQueue
    BY <1>6 DEF CompleteRequest
  <2>2. f \in Frame /\ f.batch = Top.batch /\ f.cur = None /\ f.own = Top.own
    BY <2>1, TopFrame DEF Frame
  <2> HIDE DEF f
  <2> QED
    BY <2>1, <2>2, LinkDone
<1>7. CASE FailRequest
  <2> DEFINE f == [Top EXCEPT !.batch = Tail(Top.batch)]
  <2>1. /\ stack # <<>> /\ Top.cur = None /\ Top.batch # <<>> /\ stack' = SetTop(f)
        /\ phase' = Completed(Head(Top.batch)) /\ UNCHANGED requestQueue
    BY <1>7 DEF FailRequest
  <2>2. Tail(Top.batch) \in Seq(Requests)
    BY <2>1, TopFrame
  <2>3. f \in Frame /\ f.batch = Tail(Top.batch) /\ f.cur = None /\ f.own = Top.own
    BY <2>1, <2>2, TopFrame DEF Frame
  <2> HIDE DEF f
  <2> QED
    BY <2>1, <2>3, LinkFail
<1>8. CASE Calls \/ HandlerReturn
  <2>1. PICK h \in BOOLEAN : stack' = SetTop([Top EXCEPT !.handler = h])
    BY <1>8, CallActions DEF HandlerReturn
  <2> DEFINE f == [Top EXCEPT !.handler = h]
  <2>2. stack # <<>> /\ stack' = SetTop(f) /\ UNCHANGED <<phase, requestQueue>>
    BY <1>8, <2>1, CallActions DEF HandlerReturn
  <2>3. f \in Frame /\ f.batch = Top.batch /\ f.cur = Top.cur /\ f.own = Top.own
    BY <2>2, TopFrame DEF Frame
  <2> HIDE DEF f
  <2> QED
    BY <2>2, <2>3, LinkSame
<1>9. CASE PopFrame
  BY <1>9, LinkPop DEF PopFrame, Drained
<1>10. ASSUME NEW r \in Requests, HandlerSubmit(r) PROVE Links'
  BY <1>10, LinkSubmit DEF HandlerSubmit
<1>11. ASSUME NEW r \in Requests, HandlerBlock(r) \/ WakeReset(r) PROVE Links'
  BY <1>11, BlockActions, LinkBlock DEF Blocks, BlockOn
<1>12. CASE Stop
  <2>1. stack = <<>> /\ stack' = stack /\ requestQueue' = <<>> /\ Len(stack) = 0
    BY <1>12 DEF Stop
  <2>2. \A r \in Requests : phase'[r] \in {"free", "completed"}
                          \/ (phase'[r] = phase[r] /\ phase[r] # "queued")
    <3> TAKE r \in Requests
    <3>1. phase'[r] = IF phase[r] = "queued" THEN Completed(r)[r] ELSE phase[r]
      BY <1>12 DEF Stop
    <3>2. Completed(r)[r] \in {"free", "completed"}
      BY DEF Completed, TypeOK
    <3> QED
      BY <3>1, <3>2
  <2>3. \A r \in Requests : phase[r] # "batched" /\ phase[r] # "executing"
    BY <2>1 DEF Links, BatchLinks, CurLinks
  <2> QED
    BY <2>1, <2>2, <2>3, InEmpty DEF Links, QueueLinks, BatchLinks, CurLinks, OwnLinks
<1>13. CASE UNCHANGED <<phase, requestQueue, stack>>
  BY <1>13 DEF Links, QueueLinks, BatchLinks, CurLinks, OwnLinks
<1> QED
  BY <1>1, <1>2, <1>3, <1>4, <1>5, <1>6, <1>7, <1>8, <1>9, <1>10, <1>11, <1>12, <1>13,
     LinkRetry
  DEF Next, Calls, ClientSignal, Stopped, vars

LEMMA LinksInit == Init => Links /\ Ownership
<1> SUFFICES ASSUME Init PROVE Links /\ Ownership
  OBVIOUS
<1>1. stack = <<>> /\ Len(stack) = 0 /\ requestQueue = <<>>
      /\ \A r \in Requests : phase[r] = "free"
  BY DEF Init
<1> QED
  BY <1>1, InEmpty
  DEF Init, Links, QueueLinks, BatchLinks, CurLinks, OwnLinks,
      Ownership, IdleOwnsNothing, BlockedKeepsRequest, GateOwns, OwnersDiffer

(* A request is linked in exactly the place its state says, and a request   *)
(* whose memory has been given back is linked nowhere.                      *)
THEOREM LinkedInOnePlace == Spec => []LinkedOnce
<1>1. TypeOK /\ Links => LinkedOnce
  <2> SUFFICES ASSUME TypeOK, Links PROVE LinkedOnce
    OBVIOUS
  <2>1. DOMAIN stack = 1..Len(stack)
    BY FrameDomain
  <2>2. /\ \A r \in Requests : InQueue(r) <=> In(r, requestQueue)
        /\ \A r \in Requests, k \in DOMAIN stack : InBatch(r, k) <=> In(r, stack[k].batch)
    BY DEF InQueue, InBatch, In
  <2> QED
    BY <2>1, <2>2 DEF LinkedOnce, Links, QueueLinks, BatchLinks, CurLinks
<1> QED
  BY <1>1, LinksInit, TypeCorrect, OwnershipStep, LinksStep, PTL DEF Spec

(* The in-gate submitRequestAndBlock returns only once its request is done. *)
THEOREM GateServed == Spec => []GateCallerServed
<1>1. TypeOK /\ Links /\ Ownership => GateCallerServed
  <2> SUFFICES ASSUME TypeOK, Links, Ownership, NEW k \in 1..Len(stack), stack[k].own # None
               PROVE  /\ caller[stack[k].own] = Gate
                      /\ phase[stack[k].own] \in {"batched", "executing", "completed"}
                      /\ (stack[k].batch = <<>> /\ stack[k].cur = None) =>
                           phase[stack[k].own] = "completed"
    BY FrameDomain DEF GateCallerServed
  <2> QED
    BY InEmpty DEF Links, OwnLinks, Ownership, GateOwns
<1> QED
  BY <1>1, LinksInit, TypeCorrect, OwnershipStep, LinksStep, PTL DEF Spec

-----------------------------------------------------------------------------
(* The order of service.  A sequence s of requests is in line when of the   *)
(* requests that came before one of them, those that still wait are ahead   *)
(* of it in s, or in the set B of those an interrupted drain holds.         *)
Ahead(r, s, i) == \E j \in DOMAIN s : j < i /\ s[j] = r
InLine(s, old, B) ==
  \A i \in DOMAIN s : \A r \in old[s[i]] : Ahead(r, s, i) \/ r \in B

LEMMA LineAppend ==
  ASSUME NEW s \in Seq(Requests), NEW x \in Requests, ~In(x, s), NEW B,
         NEW old, NEW new, InLine(s, old, B),
         \A q \in Requests : q # x => new[q] = old[q],
         \A r \in new[x] : In(r, s) \/ r \in B
  PROVE  InLine(Append(s, x), new, B)
<1>1. /\ DOMAIN s = 1..Len(s) /\ Len(s) \in Nat
      /\ DOMAIN Append(s, x) = 1..(Len(s) + 1)
      /\ Append(s, x)[Len(s) + 1] = x
      /\ \A i \in 1..Len(s) : Append(s, x)[i] = s[i] /\ s[i] \in Requests
  OBVIOUS
<1> DEFINE t == Append(s, x)
<1> HIDE DEF t
<1>2. /\ DOMAIN t = 1..(Len(s) + 1) /\ t[Len(s) + 1] = x
      /\ \A i \in 1..Len(s) : t[i] = s[i]
  BY <1>1 DEF t
<1>3. ASSUME NEW i \in 1..Len(s), NEW r \in new[t[i]] PROVE Ahead(r, t, i) \/ r \in B
  <2>1. t[i] = s[i] /\ s[i] \in Requests /\ s[i] # x
    BY <1>1, <1>2 DEF In
  <2>2. r \in old[s[i]]
    BY <1>3, <2>1
  <2>3. Ahead(r, s, i) \/ r \in B
    BY <1>1, <2>2 DEF InLine
  <2>4. Ahead(r, s, i) => Ahead(r, t, i)
    BY <1>1, <1>2 DEF Ahead
  <2> QED
    BY <2>3, <2>4
<1>4. ASSUME NEW r \in new[x] PROVE Ahead(r, t, Len(s) + 1) \/ r \in B
  <2>1. In(r, s) => Ahead(r, t, Len(s) + 1)
    BY <1>1, <1>2 DEF In, Ahead
  <2> QED
    BY <2>1
<1>5. InLine(t, new, B)
  <2> SUFFICES ASSUME NEW i \in 1..(Len(s) + 1), NEW r \in new[t[i]]
               PROVE  Ahead(r, t, i) \/ r \in B
    BY <1>2 DEF InLine
  <2>1. i \in 1..Len(s) \/ i = Len(s) + 1
    BY <1>1
  <2> QED
    BY <1>2, <1>3, <1>4, <2>1
<1> QED
  BY <1>5 DEF t

LEMMA LineTail ==
  ASSUME NEW s \in Seq(Requests), s # <<>>, NEW B, NEW old, NEW new, InLine(s, old, B),
         \A q \in Requests : new[q] \subseteq old[q] \ {Head(s)}
  PROVE  InLine(Tail(s), new, B)
<1>1. /\ DOMAIN s = 1..Len(s) /\ Len(s) \in Nat \ {0} /\ Head(s) = s[1]
      /\ DOMAIN Tail(s) = 1..(Len(s) - 1)
      /\ \A i \in 1..(Len(s) - 1) : Tail(s)[i] = s[i + 1] /\ s[i + 1] \in Requests
  OBVIOUS
<1> DEFINE t == Tail(s)
<1> HIDE DEF t
<1>2. /\ DOMAIN t = 1..(Len(s) - 1)
      /\ \A i \in 1..(Len(s) - 1) : t[i] = s[i + 1] /\ s[i + 1] \in Requests
  BY <1>1 DEF t
<1>3. ASSUME NEW i \in 1..(Len(s) - 1), NEW r \in new[t[i]] PROVE Ahead(r, t, i) \/ r \in B
  <2>1. r \in old[s[i + 1]] /\ r # s[1]
    BY <1>1, <1>2, <1>3
  <2>2. i + 1 \in 1..Len(s)
    BY <1>1
  <2>3. Ahead(r, s, i + 1) \/ r \in B
    BY <1>1, <2>1, <2>2 DEF InLine
  <2>4. ASSUME Ahead(r, s, i + 1) PROVE Ahead(r, t, i)
    <3>1. PICK j \in 1..Len(s) : j < i + 1 /\ s[j] = r
      BY <1>1, <2>4 DEF Ahead
    <3>2. j # 1
      BY <2>1, <3>1
    <3>3. j - 1 \in 1..(Len(s) - 1) /\ j - 1 < i /\ (j - 1) + 1 = j
      BY <1>1, <3>1, <3>2
    <3> QED
      BY <1>2, <3>1, <3>3 DEF Ahead
  <2> QED
    BY <2>3, <2>4
<1> QED
  BY <1>2, <1>3 DEF InLine, t

LEMMA LineKept ==
  ASSUME NEW s \in Seq(Requests), NEW B, NEW C, NEW old, NEW new, InLine(s, old, B),
         \A q \in Requests : In(q, s) =>
           new[q] \subseteq old[q] /\ \A r \in new[q] : r \in B => r \in C
  PROVE  InLine(s, new, C)
<1> SUFFICES ASSUME NEW i \in DOMAIN s, NEW r \in new[s[i]] PROVE Ahead(r, s, i) \/ r \in C
  BY DEF InLine
<1>1. s[i] \in Requests /\ In(s[i], s)
  BY DEF In
<1>2. r \in old[s[i]] /\ (r \in B => r \in C)
  BY <1>1
<1> QED
  BY <1>2 DEF InLine

(* What the calls below the k-th hold. *)
Below(k) == {r \in Requests : \E l \in 1..(k - 1) : In(r, stack[l].batch)}

BatchOrder == \A k \in 1..Len(stack) : InLine(stack[k].batch, older, Below(k))
QueueOrder == InLine(requestQueue, older, Below(Len(stack) + 1))
Order == BatchOrder /\ QueueOrder

LEMMA EmptyLine == \A old, B : InLine(<<>>, old, B)
BY DEF InLine

(* Who waits is on the queue or in a local queue. *)
LEMMA WaitingPlaces ==
  ASSUME TypeOK, Links
  PROVE  \A r \in Waiting : In(r, requestQueue) \/ r \in Below(Len(stack) + 1)
<1> TAKE r \in Waiting
<1>1. r \in Requests /\ phase[r] \in {"queued", "batched"}
  BY DEF Waiting
<1>2. Len(stack) \in Nat /\ (Len(stack) + 1) - 1 = Len(stack)
  BY FrameTypes
<1> QED
  BY <1>1, <1>2 DEF Links, QueueLinks, BatchLinks, Below

(* The calls keep their local queues, and the history does not change.      *)
LEMMA OrderSame ==
  ASSUME TypeOK, Order, Len(stack') = Len(stack),
         \A k \in 1..Len(stack) : stack'[k].batch = stack[k].batch,
         UNCHANGED <<requestQueue, older>>
  PROVE  Order'
<1>1. Len(stack) \in Nat
  BY FrameTypes
<1>2. \A k \in 1..(Len(stack) + 1) : Below(k)' = Below(k)
  BY <1>1 DEF Below
<1>3. /\ Len(stack) + 1 \in 1..(Len(stack) + 1)
      /\ \A k \in 1..Len(stack) : k \in 1..(Len(stack) + 1)
  BY <1>1
<1>4. BatchOrder'
  <2> SUFFICES ASSUME NEW k \in 1..Len(stack)
               PROVE  InLine(stack'[k].batch, older', Below(k)')
    BY DEF BatchOrder
  <2> QED
    BY <1>2, <1>3 DEF Order, BatchOrder
<1>5. QueueOrder'
  BY <1>2, <1>3 DEF Order, QueueOrder
<1> QED
  BY <1>4, <1>5 DEF Order

(* A request that waits nowhere joins the queue. *)
LEMMA OrderSubmit ==
  ASSUME TypeOK, Links, Order, NEW r \in Requests, phase[r] = "free",
         requestQueue' = Append(requestQueue, r), older' = Arrives(r), stack' = stack
  PROVE  Order'
<1>1. /\ requestQueue \in Seq(Requests) /\ ~In(r, requestQueue)
      /\ \A k \in 1..Len(stack) : ~In(r, stack[k].batch)
  BY DEF TypeOK, Links, QueueLinks, BatchLinks
<1>2. older'[r] = Waiting /\ \A q \in Requests : q # r => older'[q] = older[q]
  BY DEF Arrives, TypeOK
<1>3. \A k : Below(k)' = Below(k)
  BY DEF Below
<1>4. QueueOrder'
  <2>1. \A q \in older'[r] : In(q, requestQueue) \/ q \in Below(Len(stack) + 1)
    BY <1>2, WaitingPlaces
  <2> QED
    BY <1>1, <1>2, <1>3, <2>1, LineAppend DEF Order, QueueOrder
<1>5. BatchOrder'
  <2> SUFFICES ASSUME NEW k \in 1..Len(stack)
               PROVE  InLine(stack[k].batch, older', Below(k))
    BY <1>3 DEF BatchOrder
  <2>1. InLine(stack[k].batch, older, Below(k)) /\ stack[k].batch \in Seq(Requests)
    BY FrameTypes DEF Order, BatchOrder
  <2>2. \A q \in Requests : In(q, stack[k].batch) => older'[q] = older[q]
    BY <1>1, <1>2
  <2> QED
    BY <2>1, <2>2, LineKept
<1> QED
  BY <1>4, <1>5 DEF Order

(* The first request of the innermost local queue leaves it. *)
LEMMA OrderLeaves ==
  ASSUME TypeOK, Order, stack # <<>>, Top.batch # <<>>, NEW f \in Frame,
         stack' = SetTop(f), f.batch = Tail(Top.batch),
         older' = Leaves(Head(Top.batch)), UNCHANGED requestQueue
  PROVE  Order'
<1>0. PICK n \in Nat : n = Len(stack)
  BY FrameTypes
<1> DEFINE r == Head(Top.batch)
<1>1. /\ n \in Nat \ {0} /\ n \in 1..n /\ Top = stack[n]
      /\ Top.batch \in Seq(Requests) /\ r \in Requests
  BY <1>0, TopFrame DEF Top
<1>2. /\ Len(stack') = n /\ stack'[n] = f
      /\ \A k \in 1..n : k # n => stack'[k] = stack[k]
  BY <1>0, SetTopFrames
<1>3. \A q \in Requests : older'[q] \subseteq older[q] \ {r}
  BY DEF Leaves
<1>4. \A q : In(q, stack[n].batch) /\ q # r => In(q, f.batch)
  <2>1. /\ DOMAIN Top.batch = 1..Len(Top.batch) /\ Len(Top.batch) \in Nat \ {0} /\ r = Top.batch[1]
        /\ DOMAIN Tail(Top.batch) = 1..(Len(Top.batch) - 1)
        /\ \A i \in 1..(Len(Top.batch) - 1) : Tail(Top.batch)[i] = Top.batch[i + 1]
    BY <1>1
  <2> TAKE q
  <2> HAVE In(q, stack[n].batch) /\ q # r
  <2>2. PICK i \in 1..Len(Top.batch) : Top.batch[i] = q
    BY <1>1, <2>1 DEF In
  <2>3. i - 1 \in 1..(Len(Top.batch) - 1) /\ (i - 1) + 1 = i
    BY <2>1, <2>2
  <2> QED
    BY <2>1, <2>2, <2>3 DEF In
<1> HIDE DEF r
<1>5. \A k \in 1..n : Below(k)' = Below(k)
  BY <1>1, <1>2 DEF Below
<1>6. \A q \in Below(n + 1) : q # r => q \in Below(n + 1)'
  <2>1. (n + 1) - 1 = n
    BY <1>1
  <2> SUFFICES ASSUME NEW q \in Requests, NEW l \in 1..n, In(q, stack[l].batch), q # r
               PROVE  In(q, stack'[l].batch)
    BY <2>1 DEF Below
  <2> QED
    BY <1>2, <1>4
<1>7. BatchOrder'
  <2> SUFFICES ASSUME NEW k \in 1..n PROVE InLine(stack'[k].batch, older', Below(k))
    BY <1>2, <1>5 DEF BatchOrder
  <2>1. InLine(stack[k].batch, older, Below(k)) /\ stack[k].batch \in Seq(Requests)
    BY <1>0, FrameTypes DEF Order, BatchOrder
  <2>2. CASE k = n
    <3>1. InLine(Tail(Top.batch), older', Below(n))
      BY <1>1, <1>3, <2>1, <2>2, LineTail DEF r
    <3> QED
      BY <1>2, <2>2, <3>1
  <2>3. CASE k # n
    BY <1>2, <1>3, <2>1, <2>3, LineKept
  <2> QED
    BY <2>2, <2>3
<1>8. QueueOrder'
  <2>1. InLine(requestQueue, older, Below(n + 1)) /\ requestQueue \in Seq(Requests)
    BY <1>0 DEF Order, QueueOrder, TypeOK
  <2>2. \A q \in Requests : /\ older'[q] \subseteq older[q]
                            /\ \A x \in older'[q] : x \in Below(n + 1) => x \in Below(n + 1)'
    BY <1>3, <1>6
  <2>3. InLine(requestQueue, older', Below(n + 1)')
    BY <2>1, <2>2, LineKept
  <2> QED
    BY <1>2, <2>3 DEF QueueOrder, Below
<1> QED
  BY <1>7, <1>8 DEF Order

(* A call takes the queue, and after it the request r it blocks on: a new   *)
(* call, or the repeated one, which has nothing left.                       *)
LEMMA OrderBlock ==
  ASSUME TypeOK, Links, Order, NEW r \in Requests, phase[r] \in {"free", "completed"},
         NEW n \in Nat, NEW f \in Frame, f.batch = Append(requestQueue, r),
         requestQueue' = <<>>, older' = Arrives(r),
         Len(stack') = n + 1, stack'[n + 1] = f,
         \A k \in 1..n : stack'[k] = stack[k],
         \/ Len(stack) = n
         \/ Len(stack) = n + 1 /\ stack[n + 1].batch = <<>>
  PROVE  Order'
<1>1. /\ requestQueue \in Seq(Requests) /\ ~In(r, requestQueue)
      /\ \A k \in 1..Len(stack) : ~In(r, stack[k].batch)
  BY DEF TypeOK, Links, QueueLinks, BatchLinks
<1>2. older'[r] = Waiting /\ \A q \in Requests : q # r => older'[q] = older[q]
  BY DEF Arrives, TypeOK
<1>3. \A k \in 1..(n + 1) : Below(k)' = Below(k)
  BY DEF Below
<1>4. Below(n + 1) = Below(Len(stack) + 1)
  <2>1. CASE Len(stack) = n
    BY <2>1
  <2>2. CASE Len(stack) = n + 1 /\ stack[n + 1].batch = <<>>
    <3>1. \A q \in Requests : (\E l \in 1..(n + 1) : In(q, stack[l].batch))
                              <=> \E l \in 1..n : In(q, stack[l].batch)
      <4>1. \A l \in 1..(n + 1) : l \in 1..n \/ l = n + 1
        OBVIOUS
      <4>2. \A l \in 1..n : l \in 1..(n + 1)
        OBVIOUS
      <4> QED
        BY <2>2, <4>1, <4>2, InEmpty
    <3>2. (n + 1) - 1 = n /\ (Len(stack) + 1) - 1 = n + 1
      BY <2>2
    <3> QED
      BY <3>1, <3>2 DEF Below
  <2> QED
    BY <2>1, <2>2
<1>5. InLine(f.batch, older', Below(n + 1))
  <2>1. \A q \in older'[r] : In(q, requestQueue) \/ q \in Below(n + 1)
    BY <1>2, <1>4, WaitingPlaces
  <2>2. InLine(requestQueue, older, Below(n + 1))
    BY <1>4 DEF Order, QueueOrder
  <2> QED
    BY <1>1, <1>2, <2>1, <2>2, LineAppend
<1>6. BatchOrder'
  <2> SUFFICES ASSUME NEW k \in 1..(n + 1) PROVE InLine(stack'[k].batch, older', Below(k))
    BY <1>3 DEF BatchOrder
  <2>1. CASE k = n + 1
    BY <1>5, <2>1
  <2>2. CASE k # n + 1
    <3>1. k \in 1..n /\ k \in 1..Len(stack)
      BY <2>2
    <3>2. InLine(stack[k].batch, older, Below(k)) /\ stack[k].batch \in Seq(Requests)
      BY <3>1, FrameTypes DEF Order, BatchOrder
    <3>3. \A q \in Requests : In(q, stack[k].batch) => older'[q] = older[q]
      BY <1>1, <1>2, <3>1
    <3>4. InLine(stack[k].batch, older', Below(k))
      BY <3>2, <3>3, LineKept
    <3> QED
      BY <3>1, <3>4
  <2> QED
    BY <2>1, <2>2
<1>7. QueueOrder'
  BY EmptyLine DEF QueueOrder
<1> QED
  BY <1>6, <1>7 DEF Order

(* The first call in the gate takes the queue, or nothing. *)
LEMMA OrderFirst ==
  ASSUME TypeOK, Order, stack = <<>>, NEW f \in Frame, stack' = <<f>>,
         \/ f.batch = requestQueue /\ requestQueue' = <<>>
         \/ f.batch = <<>> /\ UNCHANGED requestQueue,
         UNCHANGED older
  PROVE  Order'
<1>1. Len(stack) = 0 /\ Len(stack') = 1 /\ stack'[1] = f
  OBVIOUS
<1>2. Below(1) = {} /\ Below(1)' = {}
  BY DEF Below
<1>3. f.batch = <<>> => Below(2)' = {}
  BY <1>1, InEmpty DEF Below
<1>4. InLine(requestQueue, older, {})
  <2>1. Len(stack) + 1 = 1
    BY <1>1
  <2> QED
    BY <1>2, <2>1 DEF Order, QueueOrder
<1>5. BatchOrder'
  <2>1. InLine(f.batch, older, {})
    BY <1>4, EmptyLine
  <2> QED
    BY <1>1, <1>2, <2>1 DEF BatchOrder
<1>6. QueueOrder'
  <2>1. InLine(requestQueue', older, Below(2)')
    BY <1>3, <1>4, EmptyLine
  <2> QED
    BY <1>1, <2>1 DEF QueueOrder
<1> QED
  BY <1>5, <1>6 DEF Order

(* The innermost call returns, its local queue empty. *)
LEMMA OrderPop ==
  ASSUME TypeOK, Order, stack # <<>>, Top.batch = <<>>,
         stack' = SubSeq(stack, 1, Len(stack) - 1), UNCHANGED <<requestQueue, older>>
  PROVE  Order'
<1>0. PICK n \in Nat : n = Len(stack)
  BY FrameTypes
<1>1. n \in Nat \ {0} /\ Top = stack[n]
  BY <1>0, TopFrame DEF Top
<1>2. Len(stack') = n - 1 /\ \A k \in 1..(n - 1) : stack'[k] = stack[k]
  BY <1>0, PopFrames
<1>3. \A k \in 1..n : Below(k)' = Below(k)
  BY <1>1, <1>2 DEF Below
<1>4. Below(n + 1) \subseteq Below(n)
  <2>1. \A l \in 1..n : l \in 1..(n - 1) \/ l = n
    BY <1>1
  <2>2. \A q : ~In(q, stack[n].batch)
    BY <1>1, InEmpty
  <2>3. (n + 1) - 1 = n
    BY <1>1
  <2> QED
    BY <2>1, <2>2, <2>3 DEF Below
<1>5. BatchOrder'
  <2> SUFFICES ASSUME NEW k \in 1..(n - 1) PROVE InLine(stack'[k].batch, older', Below(k)')
    BY <1>2 DEF BatchOrder
  <2>1. k \in 1..n /\ stack'[k] = stack[k] /\ Below(k)' = Below(k)
    BY <1>1, <1>2, <1>3
  <2> QED
    BY <1>0, <2>1 DEF Order, BatchOrder
<1>6. QueueOrder'
  <2>1. n \in 1..n /\ (n - 1) + 1 = n
    BY <1>1
  <2>2. InLine(requestQueue, older, Below(n + 1)) /\ requestQueue \in Seq(Requests)
    BY <1>0 DEF Order, QueueOrder, TypeOK
  <2>3. InLine(requestQueue, older, Below(n))
    BY <1>4, <2>2, LineKept
  <2>4. Below(n)' = Below(n) /\ Len(stack') + 1 = n
    BY <1>2, <1>3, <2>1
  <2> QED
    BY <2>3, <2>4 DEF QueueOrder, Below
<1> QED
  BY <1>5, <1>6 DEF Order

LEMMA OrderStep ==
  TypeOK /\ Links /\ Ownership /\ Order /\ [Next]_vars => Order'
<1> SUFFICES ASSUME TypeOK, Links, Ownership, Order, [Next]_vars PROVE Order'
  OBVIOUS
<1>1. ASSUME NEW c \in Clients, NEW r \in Requests, NEW b \in BOOLEAN, ClientEnqueue(c, r, b)
      PROVE  Order'
  BY <1>1, OrderSubmit DEF ClientEnqueue
<1>2. ASSUME NEW r \in Requests, HandlerSubmit(r) PROVE Order'
  BY <1>2, OrderSubmit DEF HandlerSubmit
<1>3. CASE ServeQueue \/ ServeInterrupt \/ Suspend \/ Resume
  <2>1. PICK f \in {DrainFrame(requestQueue, None), DrainFrame(<<>>, None), HandlerFrame} :
          /\ stack = <<>> /\ stack' = <<f>> /\ UNCHANGED older
          /\ \/ f.batch = requestQueue /\ requestQueue' = <<>>
             \/ f.batch = <<>> /\ UNCHANGED requestQueue
    <3>1. CASE ServeQueue
      BY <3>1 DEF ServeQueue, DrainFrame
    <3>2. CASE ServeInterrupt \/ Suspend \/ Resume
      BY <3>2 DEF ServeInterrupt, Suspend, Resume, DrainFrame, HandlerFrame
    <3> QED
      BY <1>3, <3>1, <3>2
  <2>2. f \in Frame
    <3>1. requestQueue \in Seq(Requests) /\ <<>> \in Seq(Requests) /\ None \in Requests \cup {None}
      BY DEF TypeOK
    <3> QED
      BY <2>1, <3>1, NewFrames
  <2> QED
    BY <2>1, <2>2, OrderFirst
<1>4. CASE BeginRequest
  <2> DEFINE f == [Top EXCEPT !.cur = Head(Top.batch), !.batch = Tail(Top.batch)]
  <2>1. /\ stack # <<>> /\ Top.batch # <<>> /\ stack' = SetTop(f)
        /\ older' = Leaves(Head(Top.batch)) /\ UNCHANGED requestQueue
    BY <1>4 DEF BeginRequest
  <2>2. Top \in Frame /\ Head(Top.batch) \in Requests /\ Tail(Top.batch) \in Seq(Requests)
    BY <2>1, TopFrame
  <2>3. f \in Frame /\ f.batch = Tail(Top.batch)
    BY <2>2 DEF Frame
  <2> HIDE DEF f
  <2> QED
    BY <2>1, <2>3, OrderLeaves
<1>5. CASE FailRequest
  <2> DEFINE f == [Top EXCEPT !.batch = Tail(Top.batch)]
  <2>1. /\ stack # <<>> /\ Top.batch # <<>> /\ stack' = SetTop(f)
        /\ older' = Leaves(Head(Top.batch)) /\ UNCHANGED requestQueue
    BY <1>5 DEF FailRequest
  <2>2. Top \in Frame /\ Tail(Top.batch) \in Seq(Requests)
    BY <2>1, TopFrame
  <2>3. f \in Frame /\ f.batch = Tail(Top.batch)
    BY <2>2 DEF Frame
  <2> HIDE DEF f
  <2> QED
    BY <2>1, <2>3, OrderLeaves
<1>6. CASE CompleteRequest \/ Calls \/ HandlerReturn
  <2>1. stack # <<>> /\ UNCHANGED <<requestQueue, older>>
    BY <1>6, CallActions DEF CompleteRequest, HandlerReturn
  <2>2. Top \in Frame
    BY <2>1, TopFrame
  <2>3. PICK f \in Frame : stack' = SetTop(f) /\ f.batch = Top.batch
    <3>1. /\ [Top EXCEPT !.cur = None] \in Frame
          /\ [Top EXCEPT !.cur = None].batch = Top.batch
          /\ \A h \in BOOLEAN : /\ [Top EXCEPT !.handler = h] \in Frame
                                /\ [Top EXCEPT !.handler = h].batch = Top.batch
      BY <2>2 DEF Frame
    <3> QED
      BY <1>6, <3>1, CallActions DEF CompleteRequest, HandlerReturn
  <2>4. /\ Len(stack') = Len(stack)
        /\ \A k \in 1..Len(stack) : stack'[k].batch = stack[k].batch
    BY <2>1, <2>3, SetTopFrames DEF Top
  <2> QED
    BY <2>1, <2>4, OrderSame
<1>7. CASE PopFrame
  BY <1>7, OrderPop DEF PopFrame, Drained
<1>8. ASSUME NEW r \in Requests, HandlerBlock(r) \/ WakeReset(r) PROVE Order'
  <2> DEFINE f == DrainFrame(Append(requestQueue, r), r)
  <2>1. /\ phase[r] = "free" /\ stack' = Append(stack, f)
        /\ requestQueue' = <<>> /\ older' = Arrives(r)
    BY <1>8, BlockActions DEF Blocks, BlockOn
  <2>2. f \in Frame /\ f.batch = Append(requestQueue, r)
    <3>1. Append(requestQueue, r) \in Seq(Requests)
      BY DEF TypeOK
    <3> QED
      BY <3>1, NewFrames DEF DrainFrame
  <2> HIDE DEF f
  <2>3. /\ Len(stack') = Len(stack) + 1 /\ stack'[Len(stack) + 1] = f
        /\ \A k \in 1..Len(stack) : stack'[k] = stack[k]
    BY <2>1, <2>2, PushFrames
  <2>4. Len(stack) \in Nat
    BY FrameTypes
  <2> QED
    BY <2>1, <2>2, <2>3, <2>4, OrderBlock
<1>9. ASSUME NEW r \in Requests, RetryRequest(r) PROVE Order'
  <2> DEFINE f == DrainFrame(Append(requestQueue, r), r)
  <2>1. /\ stack # <<>> /\ Len(stack) = 2 /\ f \in Frame /\ stack' = SetTop(f)
        /\ Top.cur = None /\ Top.batch = <<>> /\ Top.own = r
        /\ requestQueue' = <<>> /\ older' = Arrives(r)
    BY <1>9, RetryFacts
  <2>2. f.batch = Append(requestQueue, r)
    BY DEF DrainFrame
  <2> HIDE DEF f
  <2>3. Top = stack[2] /\ 2 \in 1..Len(stack) /\ 2 = 1 + 1
    BY <2>1 DEF Top
  <2>4. phase[r] = "completed"
    BY <2>1, <2>3, InEmpty, ConstantsAssumption DEF Links, OwnLinks
  <2>5. Len(stack') = 2 /\ stack'[2] = f /\ \A k \in 1..1 : stack'[k] = stack[k]
    BY <2>1, SetTopFrames
  <2> QED
    BY <2>1, <2>2, <2>3, <2>4, <2>5, OrderBlock
<1>10. CASE Stop
  <2>1. stack' = stack /\ stack = <<>> /\ Len(stack) = 0 /\ requestQueue' = <<>>
    BY <1>10 DEF Stop
  <2> QED
    BY <2>1, EmptyLine DEF Order, BatchOrder, QueueOrder
<1>11. CASE UNCHANGED <<requestQueue, stack, older>>
  BY <1>11, OrderSame
<1> QED
  BY <1>1, <1>2, <1>3, <1>4, <1>5, <1>6, <1>7, <1>8, <1>9, <1>10, <1>11
  DEF Next, Calls, ClientSignal, ClientReturn, Stopped, vars

(* A request is overtaken only by what interrupts the drain it waits in,    *)
(* whatever threads and driver routines submit or block on and however deep *)
(* the calls in the gate are nested.                                        *)
THEOREM OvertakenOnlyByInterruption == Spec => []InOrder
<1>1. Init => Order
  <2> SUFFICES ASSUME Init PROVE Order
    OBVIOUS
  <2>1. stack = <<>> /\ Len(stack) = 0 /\ requestQueue = <<>>
    BY DEF Init
  <2> QED
    BY <2>1, EmptyLine DEF Order, BatchOrder, QueueOrder
<1>2. TypeOK /\ Order => InOrder
  <2> SUFFICES ASSUME TypeOK, Order, NEW k \in 1..Len(stack), stack[k].batch # <<>>,
                      NEW r \in older[Head(stack[k].batch)]
               PROVE  \E l \in 1..(k - 1) : InBatch(r, l)
    BY FrameDomain DEF InOrder
  <2>1. /\ stack[k].batch \in Seq(Requests)
        /\ InLine(stack[k].batch, older, Below(k))
    BY FrameTypes DEF Order, BatchOrder
  <2>2. /\ Head(stack[k].batch) = stack[k].batch[1]
        /\ DOMAIN stack[k].batch = 1..Len(stack[k].batch) /\ 1 \in DOMAIN stack[k].batch
    BY <2>1
  <2>3. ~Ahead(r, stack[k].batch, 1)
    BY <2>2 DEF Ahead
  <2>4. r \in Below(k)
    BY <2>1, <2>2, <2>3 DEF InLine
  <2> QED
    BY <2>4 DEF Below, InBatch, In
<1> QED
  BY <1>1, <1>2, LinksInit, TypeCorrect, OwnershipStep, LinksStep, OrderStep, PTL DEF Spec

-----------------------------------------------------------------------------
(* Whoever a request names as its caller is still there, blocked on it; and *)
(* a request that is done has one.  So nothing is left when all have gone.  *)
CallersLive ==
  /\ \A r \in Requests : phase[r] = "completed" => caller[r] # None
  /\ \A r \in Requests : caller[r] \in Clients => blockedOn[caller[r]] = r
  /\ \A r \in Requests : caller[r] = Gate => \E k \in 1..Len(stack) : stack[k].own = r

NothingLeft == power = "stopped" => stack = <<>> /\ \A r \in Requests : phase[r] = "free"

LEMMA CallersStep ==
  TypeOK /\ TypeOK' /\ Ownership /\ CallersLive /\ [Next]_vars => CallersLive'
<1> SUFFICES ASSUME TypeOK, TypeOK', Ownership, CallersLive, [Next]_vars PROVE CallersLive'
  OBVIOUS
<1> USE ConstantsAssumption DEF CallersLive
<1>t. /\ phase \in [Requests -> Phases] /\ caller \in [Requests -> Clients \cup {Gate, None}]
      /\ blockedOn \in [Clients -> Requests \cup {None}]
  BY DEF TypeOK
<1>1. ASSUME NEW c \in Clients, NEW r \in Requests, NEW b \in BOOLEAN, ClientEnqueue(c, r, b)
      PROVE  CallersLive'
  <2>1. blockedOn[c] = None
    BY <1>1 DEF ClientEnqueue, Ownership, IdleOwnsNothing
  <2>2. \A q \in Requests : caller[q] # c
    BY <2>1
  <2> QED
    BY <1>1, <1>t, <2>2 DEF ClientEnqueue
<1>2. ASSUME NEW c \in Clients, ClientReturn(c) PROVE CallersLive'
  BY <1>2, <1>t DEF ClientReturn
<1>3. CASE ServeQueue \/ ServeInterrupt \/ Suspend \/ Resume
  <2>1. stack = <<>> /\ Len(stack) = 0 /\ UNCHANGED <<caller, blockedOn>>
    BY <1>3 DEF ServeQueue, ServeInterrupt, Suspend, Resume
  <2>2. \A r \in Requests : phase'[r] = "completed" => phase[r] = "completed"
    BY <1>3, <1>t DEF ServeQueue, ServeInterrupt, Suspend, Resume, Batched
  <2> QED
    BY <2>1, <2>2
<1>4. CASE WorkOnTop
  <2>1. UNCHANGED <<caller, blockedOn>>
    BY <1>4, TopWaiters
  <2>2. \A r \in Requests : phase'[r] = "completed" => phase[r] = "completed" \/ caller[r] # None
    <3>1. CASE BeginRequest \/ CompleteRequest \/ FailRequest \/ Calls \/ HandlerReturn
      BY <1>t, <3>1, CallActions
      DEF BeginRequest, CompleteRequest, FailRequest, HandlerReturn, Completed
    <3>2. ASSUME NEW r \in Requests, RetryRequest(r)
          PROVE  \A q \in Requests : phase'[q] = "completed" => phase[q] = "completed"
      BY <1>t, <3>2, RetryFacts DEF Batched
    <3> QED
      BY <1>4, <3>1, <3>2 DEF WorkOnTop
  <2> QED
    BY <1>4, <2>1, <2>2, OwnersKept
<1>5. CASE PopFrame
  <2> DEFINE n == Len(stack)
  <2>1. stack # <<>> /\ stack' = SubSeq(stack, 1, n - 1) /\ UNCHANGED blockedOn
    BY <1>5 DEF PopFrame
  <2>2. /\ Len(stack') = n - 1 /\ \A k \in 1..(n - 1) : stack'[k] = stack[k]
        /\ \A k \in 1..n : k # n => k \in 1..(n - 1)
    BY <2>1, PopFrames, TopFrame
  <2>3. /\ \A r \in Requests : r # stack[n].own => phase'[r] = phase[r] /\ caller'[r] = caller[r]
        /\ stack[n].own \in Requests => /\ phase'[stack[n].own] = "free"
                                       /\ caller'[stack[n].own] = None
    BY <1>5, <1>t DEF PopFrame, Top
  <2> HIDE DEF n
  <2>4. \A r \in Requests : caller'[r] = Gate => \E k \in 1..(n - 1) : stack'[k].own = r
    <3> TAKE r \in Requests
    <3> HAVE caller'[r] = Gate
    <3>1. r # stack[n].own /\ caller[r] = Gate
      BY <2>3
    <3>2. PICK k \in 1..n : stack[k].own = r
      BY <3>1 DEF n
    <3> QED
      BY <2>2, <3>1, <3>2
  <2>5. \A r \in Requests : phase'[r] = "completed" => caller'[r] # None
    BY <2>3
  <2>6. \A r \in Requests : caller'[r] = Gate => \E k \in 1..Len(stack') : stack'[k].own = r
    BY <2>2, <2>4
  <2>7. \A r \in Requests : caller'[r] \in Clients => blockedOn'[caller'[r]] = r
    BY <2>1, <2>3
  <2> QED
    BY <2>5, <2>6, <2>7
<1>6. ASSUME NEW r \in Requests, HandlerSubmit(r) PROVE CallersLive'
  BY <1>6, <1>t DEF HandlerSubmit
<1>7. ASSUME NEW r \in Requests, HandlerBlock(r) \/ WakeReset(r) PROVE CallersLive'
  <2> DEFINE f == DrainFrame(Append(requestQueue, r), r)
  <2>1. f \in Frame /\ f.own = r
    <3>1. Append(requestQueue, r) \in Seq(Requests)
      BY DEF TypeOK
    <3> QED
      BY <3>1, NewFrames DEF DrainFrame
  <2>2. /\ stack' = Append(stack, f) /\ UNCHANGED blockedOn
        /\ phase' = [Batched EXCEPT ![r] = "batched"]
        /\ caller' = [caller EXCEPT ![r] = Gate]
    BY <1>7, BlockActions DEF Blocks, BlockOn
  <2>3. /\ Len(stack') = Len(stack) + 1 /\ stack'[Len(stack) + 1] = f
        /\ \A k \in 1..Len(stack) : stack'[k] = stack[k]
    BY <2>1, <2>2, PushFrames
  <2> HIDE DEF f
  <2>4. /\ Len(stack) + 1 \in 1..(Len(stack) + 1)
        /\ \A k \in 1..Len(stack) : k \in 1..(Len(stack) + 1)
    BY <1>t, FrameTypes
  <2>5. /\ caller' = [caller EXCEPT ![r] = Gate]
        /\ phase'[r] = "batched"
        /\ \A q \in Requests : phase'[q] = "completed" => phase[q] = "completed"
    BY <1>t, <2>2 DEF Batched
  <2> QED
    BY <1>t, <2>1, <2>2, <2>3, <2>4, <2>5
<1>8. CASE Stop
  <2>1. UNCHANGED <<caller, blockedOn, stack>>
    BY <1>8 DEF Stop
  <2>2. \A r \in Requests : phase'[r] = "completed" => phase[r] = "completed" \/ caller[r] # None
    BY <1>8, <1>t DEF Stop, Completed
  <2> QED
    BY <2>1, <2>2
<1>9. CASE UNCHANGED <<phase, caller, blockedOn, stack>>
  BY <1>9
<1> QED
  BY <1>1, <1>2, <1>3, <1>4, <1>5, <1>6, <1>7, <1>8, <1>9
  DEF Next, WorkOnTop, Calls, ClientSignal, Stopped, vars

LEMMA StopStep ==
  TypeOK /\ Ownership /\ Links /\ CallersLive /\ NothingLeft /\ [Next]_vars => NothingLeft'
<1> SUFFICES ASSUME TypeOK, Ownership, Links, CallersLive, NothingLeft, [Next]_vars,
                    power' = "stopped"
             PROVE  stack' = <<>> /\ \A r \in Requests : phase'[r] = "free"
  BY DEF NothingLeft
<1>1. CASE Stop
  <2>1. stack = <<>> /\ Len(stack) = 0 /\ stack' = stack /\ \A c \in Clients : blockedOn[c] = None
    BY <1>1 DEF Stop, Ownership, IdleOwnsNothing
  <2>2. \A r \in Requests : caller[r] = None /\ phase[r] # "completed"
    BY <2>1, ConstantsAssumption DEF CallersLive, TypeOK
  <2>3. \A r \in Requests : phase[r] \in {"free", "queued"}
    BY <2>1, <2>2 DEF Links, BatchLinks, CurLinks, TypeOK, Phases
  <2>4. \A r \in Requests : phase'[r] = "free"
    BY <1>1, <2>2, <2>3 DEF Stop, Completed, TypeOK
  <2> QED
    BY <2>1, <2>4
<1>2. CASE ~Stop
  <2>1. \A r \in Requests : ~RetryRequest(r) /\ ~WakeReset(r)
    BY BlockActions, RetryFacts
  <2>2. power = "stopped"
    BY <1>2, <2>1 DEF Next, ClientEnqueue, ClientSignal, ClientReturn, ServeQueue, ServeInterrupt,
       BeginRequest, CompleteRequest, FailRequest, Preempt, PopFrame, HandlerSubmit,
       HandlerBlock, HandlerReturn, PowerRoutine, Suspend, Resume, WakeByte, GoOnline,
       Stopped, vars
  <2>3. stack = <<>> /\ \A r \in Requests : phase[r] = "free"
    BY <2>2 DEF NothingLeft
  <2>4. stack' = stack /\ phase' = phase
    BY <1>2, <2>1, <2>2, <2>3 DEF Next, ClientEnqueue, ClientSignal, ClientReturn, ServeQueue,
       ServeInterrupt, BeginRequest, CompleteRequest, FailRequest, Preempt, PopFrame,
       HandlerSubmit, HandlerBlock, BlockOn, HandlerReturn, Suspend, Resume, WakeByte,
       GoOnline, WakeRead, Stopped, vars, Offline, TypeOK
  <2> QED
    BY <2>3, <2>4
<1> QED
  BY <1>1, <1>2

(* stop() leaks no request, whatever was submitted, drained or nested       *)
(* before: what was still queued had no caller left to free it.             *)
THEOREM NothingLeaks == Spec => []StopLeaksNothing
<1>1. Init => CallersLive /\ NothingLeft
  BY ConstantsAssumption DEF Init, CallersLive, NothingLeft
<1>2. NothingLeft => StopLeaksNothing
  BY DEF NothingLeft, StopLeaksNothing
<1> QED
  BY <1>1, <1>2, LinksInit, TypeCorrect, OwnershipStep, LinksStep, CallersStep, StopStep, PTL
  DEF Spec

-----------------------------------------------------------------------------
(* The service. When interrupt routines do not block, the request engine   *)
(* serves one request at a time, in the order of submission: it implements *)
(* PS2RequestService. Only the routine of a power change blocks then, and  *)
(* it does not process requests itself, so the calls below the innermost   *)
(* one have nothing.                                                       *)

PowerChange == power \in {"suspending", "resuming"}
FirstCall == power \in {"suspending", "waking", "resuming"}

LowerIdle ==
  /\ \A k \in 1..(Len(stack) - 1) : stack[k].cur = None /\ stack[k].batch = <<>>
  /\ FirstCall => stack # <<>> /\ stack[1].batch = <<>>
  /\ power # "resetting"

(* The actions that replace the top frame, with what becomes of it.        *)
Replaces == BeginRequest \/ CompleteRequest \/ FailRequest \/ Calls \/ HandlerReturn

LEMMA ReplacedTop ==
  ASSUME TypeOK, Replaces
  PROVE  /\ stack # <<>> /\ stack' # <<>> /\ Len(stack') = Len(stack)
         /\ \A k \in 1..Len(stack) : k # Len(stack) => stack'[k] = stack[k]
         /\ Top.batch = <<>> => stack'[Len(stack)].batch = <<>>
<1>1. stack # <<>>
  BY CallActions DEF Replaces, BeginRequest, CompleteRequest, FailRequest, HandlerReturn
<1>2. Top \in Frame /\ Top.batch \in Seq(Requests)
  BY <1>1, TopFrame
<1> SUFFICES \E f \in Frame : stack' = SetTop(f) /\ (Top.batch = <<>> => f.batch = <<>>)
  BY <1>1, SetTopFrames
<1>3. Top.batch # <<>> => Head(Top.batch) \in Requests /\ Tail(Top.batch) \in Seq(Requests)
  BY <1>2
<1>4. CASE BeginRequest
  <2>1. Top.batch # <<>> /\ stack' = SetTop([Top EXCEPT !.cur = Head(Top.batch), !.batch = Tail(Top.batch)])
    BY <1>4 DEF BeginRequest
  <2>2. [Top EXCEPT !.cur = Head(Top.batch), !.batch = Tail(Top.batch)] \in Frame
    BY <1>2, <1>3, <2>1 DEF Frame
  <2> QED
    BY <2>1, <2>2
<1>5. CASE CompleteRequest
  <2>1. /\ [Top EXCEPT !.cur = None] \in Frame
        /\ [Top EXCEPT !.cur = None].batch = Top.batch
    BY <1>2 DEF Frame
  <2> QED
    BY <1>5, <2>1 DEF CompleteRequest
<1>6. CASE FailRequest
  <2>1. Top.batch # <<>> /\ stack' = SetTop([Top EXCEPT !.batch = Tail(Top.batch)])
    BY <1>6 DEF FailRequest
  <2>2. [Top EXCEPT !.batch = Tail(Top.batch)] \in Frame
    BY <1>2, <1>3, <2>1 DEF Frame
  <2> QED
    BY <2>1, <2>2
<1>7. CASE Calls
  <2>1. /\ [Top EXCEPT !.handler = TRUE] \in Frame
        /\ [Top EXCEPT !.handler = TRUE].batch = Top.batch
    BY <1>2 DEF Frame
  <2> QED
    BY <1>7, <2>1, CallActions
<1>8. CASE HandlerReturn
  <2>1. /\ [Top EXCEPT !.handler = FALSE] \in Frame
        /\ [Top EXCEPT !.handler = FALSE].batch = Top.batch
    BY <1>2 DEF Frame
  <2> QED
    BY <1>8, <2>1 DEF HandlerReturn
<1> QED
  BY <1>4, <1>5, <1>6, <1>7, <1>8 DEF Replaces

LEMMA LowerStep ==
  ASSUME ~HandlersMayBlock, TypeOK, TypeOK', PowerCall, LowerIdle, [Next]_vars
  PROVE  LowerIdle'
<1>d. /\ Len(stack) \in Nat /\ Len(stack') \in Nat
      /\ stack # <<>> => Len(stack) \in Nat \ {0}
  BY FrameDomain, TopFrame DEF TypeOK
<1>1. ASSUME UNCHANGED <<stack, power>> PROVE LowerIdle'
  BY <1>1 DEF LowerIdle, FirstCall
<1>2. CASE ServeQueue \/ ServeInterrupt
  <2>1. stack = <<>> /\ power' = power /\ ~FirstCall /\ power # "resetting"
    BY <1>2 DEF ServeQueue, ServeInterrupt, LowerIdle
  <2>2. Len(stack') = 1
    BY <1>2 DEF ServeQueue, ServeInterrupt
  <2> QED
    BY <2>1, <2>2 DEF LowerIdle, FirstCall
<1>3. CASE Replaces
  <2>1. (FirstCall' => FirstCall) /\ power' # "resetting"
    BY <1>3 DEF Replaces, Calls, BeginRequest, CompleteRequest, FailRequest, Preempt, WakeByte,
       GoOnline, WakeRead, HandlerReturn, PowerRoutine, FirstCall, LowerIdle
  <2>2. /\ stack # <<>> /\ stack' # <<>> /\ Len(stack') = Len(stack)
        /\ \A k \in 1..Len(stack) : k # Len(stack) => stack'[k] = stack[k]
        /\ Top.batch = <<>> => stack'[Len(stack)].batch = <<>>
    BY <1>3, ReplacedTop
  <2>3. FirstCall => stack'[1].batch = <<>>
    <3>0. FirstCall => stack[1].batch = <<>>
      BY DEF LowerIdle
    <3>1. CASE Len(stack) = 1
      <4>1. Top = stack[1] /\ (Top.batch = <<>> => stack'[1].batch = <<>>)
        BY <2>2, <3>1 DEF Top
      <4> QED
        BY <3>0, <4>1
    <3>2. CASE Len(stack) # 1
      <4>1. 1 \in 1..Len(stack)
        BY <1>d, <2>2
      <4>2. stack'[1] = stack[1]
        BY <2>2, <3>2, <4>1
      <4> QED
        BY <3>0, <4>2
    <3> QED
      BY <3>1, <3>2
  <2>4. \A k \in 1..(Len(stack') - 1) : stack'[k].cur = None /\ stack'[k].batch = <<>>
    <3> TAKE k \in 1..(Len(stack') - 1)
    <3>1. k \in 1..(Len(stack) - 1) /\ k \in 1..Len(stack) /\ k # Len(stack)
      BY <1>d, <2>2
    <3> QED
      BY <2>2, <3>1 DEF LowerIdle
  <2> QED
    BY <2>1, <2>2, <2>3, <2>4 DEF LowerIdle
<1>4. CASE PopFrame
  <2>1. power' = power /\ ~Top.handler /\ stack # <<>>
        /\ stack' = SubSeq(stack, 1, Len(stack) - 1)
    BY <1>4 DEF PopFrame, Drained
  <2>2. Len(stack') = Len(stack) - 1 /\ \A k \in 1..(Len(stack) - 1) : stack'[k] = stack[k]
    BY <2>1, PopFrames
  <2>3. FirstCall => Len(stack) # 1
    BY <1>4, <2>1 DEF PopFrame, WakeRead, PowerCall, FirstCall, Top
  <2>4. FirstCall => 1 \in 1..(Len(stack) - 1) /\ Len(stack') # 0
    BY <1>d, <2>1, <2>2, <2>3
  <2>5. Len(stack') # 0 => stack' # <<>>
    OBVIOUS
  <2> QED
    BY <1>d, <2>1, <2>2, <2>4, <2>5 DEF LowerIdle, FirstCall
<1>5. ASSUME NEW r \in Requests, HandlerBlock(r) PROVE LowerIdle'
  <2> DEFINE f == DrainFrame(Append(requestQueue, r), r)
  <2>1. f \in Frame
    <3>1. Append(requestQueue, r) \in Seq(Requests)
      BY DEF TypeOK
    <3> QED
      BY <3>1, NewFrames
  <2>2. Len(stack) = 1 /\ PowerChange /\ power' = power /\ stack' = Append(stack, f)
    BY <1>5 DEF HandlerBlock, BlockOn, PowerRoutine, PowerChange
  <2>3. /\ stack' # <<>> /\ Len(stack') = Len(stack) + 1
        /\ \A k \in 1..Len(stack) : stack'[k] = stack[k]
    BY <2>1, <2>2, PushFrames
  <2>4. Len(stack') = 2 /\ stack'[1] = stack[1]
    BY <2>2, <2>3
  <2>5. stack[1].cur = None /\ stack[1].batch = <<>>
    BY <2>2 DEF PowerCall, LowerIdle, PowerChange, FirstCall
  <2>6. \A k \in 1..(Len(stack') - 1) : k = 1
    BY <2>4
  <2> QED
    BY <2>2, <2>3, <2>4, <2>5, <2>6 DEF LowerIdle, PowerChange, FirstCall
<1>6. ASSUME NEW r \in Requests, WakeReset(r) \/ RetryRequest(r) PROVE FALSE
  BY <1>6, RetryFacts DEF WakeReset, LowerIdle
<1>7. CASE Suspend \/ Resume
  <2>1. /\ stack' \in {<<HandlerFrame>>, <<DrainFrame(<<>>, None)>>}
        /\ power' # "resetting"
    BY <1>7 DEF Suspend, Resume
  <2> QED
    BY <2>1 DEF HandlerFrame, DrainFrame, LowerIdle
<1>8. CASE Stop
  BY <1>8 DEF Stop, LowerIdle, FirstCall
<1> QED
  BY <1>1, <1>2, <1>3, <1>4, <1>5, <1>6, <1>7, <1>8
  DEF Next, Replaces, Calls, ClientEnqueue, ClientSignal, ClientReturn, HandlerSubmit, Stopped, vars

LEMMA LowerInit == Init => PowerCall /\ LowerIdle
BY DEF Init, PowerCall, LowerIdle, FirstCall

LEMMA OfflineInit == Init => OfflineQuiet
BY DEF Init, OfflineQuiet, Offline

-----------------------------------------------------------------------------
(* What the service sees of the engine. *)
Pending == ServedBatch \o requestQueue
Active == IF stack = <<>> THEN None ELSE Top.cur
Done == {r \in Requests : phase[r] = "completed"}

LEMMA Concat ==
  ASSUME NEW s \in Seq(Requests), NEW t \in Seq(Requests), NEW x \in Requests
  PROVE  /\ s \o t \in Seq(Requests)
         /\ <<>> \o s = s /\ s \o <<>> = s
         /\ s \o Append(t, x) = Append(s \o t, x)
         /\ In(x, s \o t) => In(x, s) \/ In(x, t)
<1>1. /\ s \o t \in Seq(Requests) /\ Len(s) \in Nat /\ Len(t) \in Nat
      /\ DOMAIN s = 1..Len(s) /\ DOMAIN t = 1..Len(t)
      /\ DOMAIN (s \o t) = 1..(Len(s) + Len(t))
      /\ \A i \in 1..(Len(s) + Len(t)) :
           (s \o t)[i] = IF i <= Len(s) THEN s[i] ELSE t[i - Len(s)]
  OBVIOUS
<1>2. <<>> \o s = s /\ s \o <<>> = s
  OBVIOUS
<1>3. s \o Append(t, x) = Append(s \o t, x)
  OBVIOUS
<1>4. ASSUME In(x, s \o t) PROVE In(x, s) \/ In(x, t)
  <2> DEFINE u == s \o t
  <2>1. PICK i \in 1..(Len(s) + Len(t)) : u[i] = x
    BY <1>1, <1>4 DEF In
  <2>2. /\ i <= Len(s) => i \in 1..Len(s)
        /\ ~(i <= Len(s)) => i - Len(s) \in 1..Len(t)
    BY <1>1, <2>1
  <2>3. x = IF i <= Len(s) THEN s[i] ELSE t[i - Len(s)]
    BY <1>1, <2>1
  <2> HIDE DEF u
  <2> QED
    BY <1>1, <2>2, <2>3 DEF In
<1> QED
  BY <1>1, <1>2, <1>3, <1>4

LEMMA ConcatHead ==
  ASSUME NEW s \in Seq(Requests), NEW t \in Seq(Requests), s # <<>>
  PROVE  s \o t # <<>> /\ Head(s \o t) = Head(s) /\ Tail(s \o t) = Tail(s) \o t
<1>1. s \o t # <<>> /\ Head(s \o t) = Head(s)
  OBVIOUS
<1>2. Tail(s \o t) = Tail(s) \o t
  OBVIOUS
<1> QED
  BY <1>1, <1>2

(* The view is that of the innermost call. *)
LEMMA TopView ==
  ASSUME TypeOK
  PROVE  /\ stack = <<>> => ServedBatch = <<>> /\ Active = None
         /\ stack # <<>> => ServedBatch = Top.batch /\ Active = Top.cur
         /\ ServedBatch \in Seq(Requests) /\ requestQueue \in Seq(Requests)
BY TopFrame DEF ServedBatch, Active, TypeOK

LEMMA ReplacedView ==
  ASSUME TypeOK, stack # <<>>, NEW f \in Frame, stack' = SetTop(f)
  PROVE  ServedBatch' = f.batch /\ Active' = f.cur
BY SetTopFrames DEF ServedBatch, Active, Top

LEMMA FreeIsIdle ==
  ASSUME TypeOK, Links, NEW r \in Requests, phase[r] = "free"
  PROVE  Service!Idle(r)
<1>1. r # Active
  <2>1. stack # <<>> => Len(stack) \in 1..Len(stack) /\ Top = stack[Len(stack)]
    BY TopFrame DEF Top
  <2> QED
    BY <2>1, ConstantsAssumption DEF Active, Links, CurLinks
<1>2. ~In(r, Pending)
  <2>1. stack # <<>> => Len(stack) \in 1..Len(stack) /\ Top = stack[Len(stack)]
    BY TopFrame DEF Top
  <2>2. ~In(r, requestQueue) /\ ~In(r, ServedBatch)
    BY <2>1, TopView, InEmpty DEF Links, QueueLinks, BatchLinks
  <2> QED
    BY <2>2, TopView, Concat DEF Pending
<1> QED
  BY <1>1, <1>2 DEF Service!Idle, Active, Pending, In

(* Every action of the engine is a step of the service, or none.            *)
LEMMA SubmitRefines ==
  ASSUME TypeOK, Links, NEW r \in Requests, phase[r] = "free",
         phase' = [phase EXCEPT ![r] = "queued"],
         requestQueue' = Append(requestQueue, r), UNCHANGED stack
  PROVE  Service!Submit(r)
<1>1. Pending' = Append(Pending, r)
  <2>1. ServedBatch' = ServedBatch
    BY DEF ServedBatch, Top
  <2> QED
    BY <2>1, TopView, Concat DEF Pending
<1>2. Active' = Active
  BY DEF Active, Top
<1>3. Done' = Done
  BY DEF Done, TypeOK
<1> QED
  BY <1>1, <1>2, <1>3, FreeIsIdle DEF Service!Submit, Pending, Active, Done

LEMMA HandlerBlockRefines ==
  ASSUME ~HandlersMayBlock, TypeOK, TypeOK', PowerCall, LowerIdle, Links,
         NEW r \in Requests, HandlerBlock(r)
  PROVE  Service!Submit(r)
<1> DEFINE f == DrainFrame(Append(requestQueue, r), r)
<1>1. Len(stack) = 1 /\ PowerChange /\ stack' = Append(stack, f) /\ stack # <<>>
      /\ phase[r] = "free" /\ requestQueue' = <<>>
  BY DEF HandlerBlock, BlockOn, PowerRoutine, PowerChange
<1>2. ServedBatch = <<>> /\ Active = None
  BY <1>1, TopView DEF PowerCall, LowerIdle, PowerChange, FirstCall, Top
<1>3. f \in Frame /\ f.batch = Append(requestQueue, r) /\ f.cur = None
  <2>1. Append(requestQueue, r) \in Seq(Requests)
    BY DEF TypeOK
  <2> QED
    BY <2>1, NewFrames DEF DrainFrame
<1> HIDE DEF f
<1>4. stack' # <<>> /\ Top' = f
  BY <1>1, <1>3, PushFrames DEF Top
<1>5. ServedBatch' = Append(requestQueue, r) /\ Active' = None
  BY <1>3, <1>4 DEF ServedBatch, Active
<1>6. Pending = requestQueue /\ Pending' = Append(Pending, r)
  <2>1. Pending = requestQueue
    BY <1>2, TopView, Concat DEF Pending
  <2>2. Append(requestQueue, r) \in Seq(Requests)
    BY DEF TypeOK
  <2>3. Pending' = Append(requestQueue, r)
    BY <1>1, <1>5, <2>2, Concat DEF Pending
  <2> QED
    BY <2>1, <2>3
<1>7. Done' = Done
  BY <1>1 DEF HandlerBlock, BlockOn, Batched, Done, TypeOK
<1> QED
  BY <1>1, <1>2, <1>5, <1>6, <1>7, FreeIsIdle DEF Service!Submit, Pending, Active, Done

LEMMA BeginRefines ==
  ASSUME TypeOK, Links, BeginRequest PROVE Service!Start
<1> DEFINE f == [Top EXCEPT !.cur = Head(Top.batch), !.batch = Tail(Top.batch)]
<1>1. /\ stack # <<>> /\ Top.cur = None /\ Top.batch # <<>> /\ stack' = SetTop(f)
      /\ phase' = [phase EXCEPT ![Head(Top.batch)] = "executing"]
      /\ UNCHANGED requestQueue
  BY DEF BeginRequest
<1>2. Top \in Frame /\ Head(Top.batch) \in Requests /\ Tail(Top.batch) \in Seq(Requests)
  BY <1>1, TopFrame
<1>3. f \in Frame /\ f.batch = Tail(Top.batch) /\ f.cur = Head(Top.batch)
  BY <1>2 DEF Frame
<1> HIDE DEF f
<1>4. ServedBatch' = Tail(Top.batch) /\ Active' = Head(Top.batch)
  BY <1>1, <1>3, ReplacedView
<1>5. Pending # <<>> /\ Head(Pending) = Head(Top.batch) /\ Pending' = Tail(Pending)
  BY <1>1, <1>4, TopView, ConcatHead DEF Pending
<1>6. phase[Head(Top.batch)] = "batched"
  <2>1. In(Head(Top.batch), Top.batch) /\ Top = stack[Len(stack)]
        /\ Len(stack) \in 1..Len(stack)
    BY <1>1, TopFrame DEF Top, In
  <2> QED
    BY <1>2, <2>1 DEF Links, BatchLinks
<1>7. Done' = Done
  BY <1>1, <1>2, <1>6 DEF Done, TypeOK
<1> QED
  BY <1>1, <1>4, <1>5, <1>7, TopView DEF Service!Start, Pending, Active, Done

LEMMA CompleteRefines ==
  ASSUME TypeOK, Links, CompleteRequest
  PROVE  Service!Finish(Top.cur, caller[Top.cur] # None) /\ Top.cur \in Requests
<1> DEFINE f == [Top EXCEPT !.cur = None]
<1>1. /\ stack # <<>> /\ Top.cur # None /\ stack' = SetTop(f)
      /\ phase' = Completed(Top.cur) /\ UNCHANGED requestQueue
  BY DEF CompleteRequest
<1>2. Top \in Frame /\ Top.cur \in Requests
  BY <1>1, TopFrame
<1>3. f \in Frame /\ f.batch = Top.batch /\ f.cur = None
  BY <1>2 DEF Frame
<1> HIDE DEF f
<1>4. ServedBatch' = ServedBatch /\ Active' = None /\ Active = Top.cur
  BY <1>1, <1>3, ReplacedView, TopView
<1>5. phase[Top.cur] = "executing"
  <2>1. Top = stack[Len(stack)] /\ Len(stack) \in 1..Len(stack)
    BY <1>1, TopFrame DEF Top
  <2> QED
    BY <1>2, <2>1 DEF Links, CurLinks
<1>6. Done' = IF caller[Top.cur] # None THEN Done \cup {Top.cur} ELSE Done
  BY <1>1, <1>2, <1>5 DEF Done, Completed, TypeOK
<1> QED
  BY <1>1, <1>2, <1>4, <1>6 DEF Service!Finish, Pending, Active, Done

LEMMA FailRefines ==
  ASSUME TypeOK, Links, FailRequest
  PROVE  Service!Refuse(caller[Head(Top.batch)] # None)
<1> DEFINE f == [Top EXCEPT !.batch = Tail(Top.batch)]
           r == Head(Top.batch)
<1>1. /\ stack # <<>> /\ Top.cur = None /\ Top.batch # <<>> /\ stack' = SetTop(f)
      /\ phase' = Completed(r) /\ UNCHANGED requestQueue
  BY DEF FailRequest
<1>2. Top \in Frame /\ r \in Requests /\ Tail(Top.batch) \in Seq(Requests)
  BY <1>1, TopFrame
<1>3. f \in Frame /\ f.batch = Tail(Top.batch) /\ f.cur = None
  BY <1>1, <1>2 DEF Frame
<1>6. phase[r] = "batched"
  <2>1. In(r, Top.batch) /\ Top = stack[Len(stack)] /\ Len(stack) \in 1..Len(stack)
    BY <1>1, TopFrame DEF Top, In
  <2> QED
    BY <1>2, <2>1 DEF Links, BatchLinks
<1> HIDE DEF f
<1>4. ServedBatch' = Tail(Top.batch) /\ Active' = None /\ Active = None
  BY <1>1, <1>3, ReplacedView, TopView
<1>5. Pending # <<>> /\ Head(Pending) = r /\ Pending' = Tail(Pending)
  BY <1>1, <1>4, TopView, ConcatHead DEF Pending
<1> HIDE DEF r
<1>7. Done' = IF caller[r] # None THEN Done \cup {r} ELSE Done
  BY <1>1, <1>2, <1>6 DEF Done, Completed, TypeOK
<1> QED
  BY <1>4, <1>5, <1>7 DEF Service!Refuse, Pending, Active, Done, r

LEMMA PopRefines ==
  ASSUME TypeOK, LowerIdle, Links, PopFrame
  PROVE  \/ UNCHANGED <<Pending, Active, Done>>
         \/ \E r \in Requests : Service!Free(r)
<1> DEFINE n == Len(stack)
<1>1. /\ stack # <<>> /\ Top.cur = None /\ Top.batch = <<>>
      /\ stack' = SubSeq(stack, 1, n - 1) /\ UNCHANGED requestQueue
  BY DEF PopFrame, Drained
<1>2. n \in Nat \ {0} /\ Top = stack[n]
  BY <1>1, TopFrame DEF Top
<1>3. Len(stack') = n - 1 /\ \A k \in 1..(n - 1) : stack'[k] = stack[k]
  BY <1>1, PopFrames
<1>4. ServedBatch' = <<>> /\ Active' = None
  <2>1. CASE stack' = <<>>
    BY <2>1 DEF ServedBatch, Active
  <2>2. CASE stack' # <<>>
    <3>1. Len(stack') # 0
      BY <2>2, <1>1, TypeOK DEF TypeOK
    <3>2. n - 1 \in 1..(n - 1)
      BY <1>2, <1>3, <3>1
    <3>3. Top' = stack[n - 1]
      BY <1>3, <3>2 DEF Top
    <3>4. stack[n - 1].batch = <<>> /\ stack[n - 1].cur = None
      BY <3>2 DEF LowerIdle
    <3> QED
      BY <2>2, <3>3, <3>4 DEF ServedBatch, Active
  <2> QED
    BY <2>1, <2>2
<1>5. ServedBatch = <<>> /\ Active = None
  BY <1>1, TopView
<1> HIDE DEF n
<1>6. Pending' = Pending
  BY <1>1, <1>4, <1>5 DEF Pending
<1>7. CASE Top.own = None
  <2>1. Done' = Done
    BY <1>7 DEF PopFrame, Done
  <2> QED
    BY <1>4, <1>5, <1>6, <2>1
<1>8. CASE Top.own # None
  <2>1. Top.own \in Requests
    BY <1>1, <1>8, TopFrame
  <2>2. phase[Top.own] = "completed"
    BY <1>1, <1>2, <1>8, InEmpty, <2>1, ConstantsAssumption DEF Links, OwnLinks, n
  <2>3. phase' = [phase EXCEPT ![Top.own] = "free"]
    BY <1>8 DEF PopFrame
  <2>4. Top.own \in Done /\ Done' = Done \ {Top.own}
    BY <2>1, <2>2, <2>3 DEF Done, TypeOK
  <2>5. Service!Free(Top.own)
    BY <1>4, <1>5, <1>6, <2>4 DEF Service!Free, Pending, Active, Done
  <2> QED
    BY <2>1, <2>5 DEF Service!Free
<1> QED
  BY <1>7, <1>8

LEMMA StopRefines ==
  ASSUME TypeOK, Ownership, CallersLive, Stop PROVE Service!Shutdown
<1>1. /\ stack = <<>> /\ Len(stack) = 0 /\ stack' = stack /\ requestQueue' = <<>>
      /\ \A c \in Clients : blockedOn[c] = None
  BY DEF Stop, Ownership, IdleOwnsNothing
<1>2. \A r \in Requests : caller[r] = None
  BY <1>1, ConstantsAssumption DEF CallersLive, TypeOK
<1>3. Done' = Done
  BY <1>2 DEF Stop, Completed, Done, TypeOK
<1>4. ServedBatch' = <<>> /\ Active = None /\ Active' = None
  BY <1>1 DEF ServedBatch, Active
<1>5. Pending' = <<>>
  BY <1>1, <1>4 DEF Pending
<1> QED
  BY <1>3, <1>4, <1>5 DEF Service!Shutdown, Pending, Active, Done

(* What a driver routine is called for, or a thread's signal, is no concern *)
(* of the service.                                                          *)
LEMMA StutterRefines ==
  ASSUME TypeOK, \/ ServeQueue \/ ServeInterrupt \/ Suspend \/ Resume
                 \/ Calls \/ HandlerReturn
  PROVE  UNCHANGED <<Pending, Active, Done>>
<1>1. CASE ServeQueue
  <2> DEFINE f == DrainFrame(requestQueue, None)
  <2>1. f \in Frame /\ f.batch = requestQueue /\ f.cur = None
    BY NewFrames DEF TypeOK, DrainFrame
  <2>2. stack = <<>> /\ stack' = <<f>> /\ phase' = Batched /\ requestQueue' = <<>>
    BY <1>1 DEF ServeQueue
  <2> HIDE DEF f
  <2>3. ServedBatch' = requestQueue /\ Active' = None
    BY <2>1, <2>2 DEF ServedBatch, Active, Top
  <2>4. Pending' = Pending /\ Active = None
    BY <2>2, <2>3, TopView, Concat DEF Pending
  <2>5. Done' = Done
    BY <2>2 DEF Done, Batched, TypeOK
  <2> QED
    BY <2>3, <2>4, <2>5
<1>2. CASE ServeInterrupt \/ Suspend \/ Resume
  <2>1. /\ stack = <<>> /\ UNCHANGED <<phase, requestQueue>>
        /\ stack' \in {<<HandlerFrame>>, <<DrainFrame(<<>>, None)>>}
    BY <1>2 DEF ServeInterrupt, Suspend, Resume
  <2>2. ServedBatch' = <<>> /\ Active' = None
    BY <2>1 DEF ServedBatch, Active, Top, HandlerFrame, DrainFrame
  <2>3. ServedBatch = <<>> /\ Active = None
    BY <2>1, TopView
  <2> QED
    BY <2>1, <2>2, <2>3 DEF Pending, Done
<1>3. CASE Calls \/ HandlerReturn
  <2>1. PICK h \in BOOLEAN : stack' = SetTop([Top EXCEPT !.handler = h])
    BY <1>3, CallActions DEF HandlerReturn
  <2> DEFINE f == [Top EXCEPT !.handler = h]
  <2>2. stack # <<>> /\ stack' = SetTop(f) /\ UNCHANGED <<phase, requestQueue>>
    BY <1>3, <2>1, CallActions DEF HandlerReturn
  <2>3. f \in Frame /\ f.batch = Top.batch /\ f.cur = Top.cur
    BY <2>2, TopFrame DEF Frame
  <2> HIDE DEF f
  <2>4. ServedBatch' = ServedBatch /\ Active' = Active
    BY <2>2, <2>3, ReplacedView, TopView
  <2> QED
    BY <2>2, <2>4 DEF Pending, Done
<1> QED
  BY <1>1, <1>2, <1>3

LEMMA StepRefines ==
  ASSUME ~HandlersMayBlock, TypeOK, TypeOK', PowerCall, LowerIdle, Ownership, Links,
         CallersLive, [Next]_vars
  PROVE  [Service!ServiceNext]_(Service!svars)
<1> SUFFICES Service!ServiceNext \/ UNCHANGED <<Pending, Active, Done>>
  BY DEF Service!svars, Pending, Active, Done
<1> USE DEF Service!ServiceNext
<1>1. ASSUME NEW c \in Clients, NEW r \in Requests, NEW b \in BOOLEAN, ClientEnqueue(c, r, b)
      PROVE  Service!ServiceNext
  <2>1. Service!Submit(r)
    BY <1>1, SubmitRefines DEF ClientEnqueue
  <2> QED
    BY <2>1
<1>2. ASSUME NEW c \in Clients, ClientReturn(c)
      PROVE  Service!ServiceNext \/ UNCHANGED <<Pending, Active, Done>>
  <2> DEFINE r == blockedOn[c]
  <2>1. /\ phase' = [phase EXCEPT ![r] = "free"] /\ phase[r] = "completed"
        /\ UNCHANGED <<requestQueue, stack>>
    BY <1>2 DEF ClientReturn
  <2>2. UNCHANGED <<Pending, Active>>
    BY <2>1 DEF Pending, ServedBatch, Active, Top
  <2>3. CASE r = None
    <3>1. phase' = phase
      BY <2>1, <2>3, ConstantsAssumption DEF TypeOK
    <3> QED
      BY <2>2, <3>1 DEF Done
  <2>4. CASE r # None
    <3>1. r \in Requests
      BY <2>4 DEF TypeOK
    <3> HIDE DEF r
    <3>2. r \in Done /\ Done' = Done \ {r}
      BY <2>1, <3>1 DEF Done, TypeOK
    <3>3. Service!Free(r)
      BY <2>2, <3>2 DEF Service!Free, Pending, Active, Done
    <3> QED
      BY <3>1, <3>3 DEF Service!Free
  <2> QED
    BY <2>3, <2>4
<1>3. CASE \/ ServeQueue \/ ServeInterrupt \/ Suspend \/ Resume
           \/ Calls \/ HandlerReturn
  BY <1>3, StutterRefines
<1>4. CASE BeginRequest
  BY <1>4, BeginRefines
<1>5. CASE CompleteRequest
  <2>1. /\ Service!Finish(Top.cur, caller[Top.cur] # None)
        /\ Top.cur \in Requests /\ (caller[Top.cur] # None) \in BOOLEAN
    BY <1>5, CompleteRefines
  <2>2. \E r \in Requests : \E keep \in BOOLEAN : Service!Finish(r, keep)
    BY <2>1 DEF Service!Finish
  <2> QED
    BY <2>2
<1>6. CASE FailRequest
  <2>1. /\ Service!Refuse(caller[Head(Top.batch)] # None)
        /\ (caller[Head(Top.batch)] # None) \in BOOLEAN
    BY <1>6, FailRefines
  <2>2. \E keep \in BOOLEAN : Service!Refuse(keep)
    BY <2>1 DEF Service!Refuse
  <2> QED
    BY <2>2
<1>7. CASE PopFrame
  BY <1>7, PopRefines
<1>8. ASSUME NEW r \in Requests, HandlerSubmit(r) PROVE Service!ServiceNext
  <2>1. Service!Submit(r)
    BY <1>8, SubmitRefines DEF HandlerSubmit
  <2> QED
    BY <2>1
<1>9. ASSUME NEW r \in Requests, HandlerBlock(r) PROVE Service!ServiceNext
  <2>1. Service!Submit(r)
    BY <1>9, HandlerBlockRefines
  <2> QED
    BY <2>1
<1>10. CASE Stop
  BY <1>10, StopRefines
<1>11. CASE UNCHANGED <<phase, requestQueue, stack>>
  BY <1>11 DEF Pending, ServedBatch, Active, Top, Done
<1>12. ASSUME NEW r \in Requests, WakeReset(r) \/ RetryRequest(r) PROVE FALSE
  BY <1>12, RetryFacts DEF WakeReset, LowerIdle
<1> QED
  BY <1>1, <1>2, <1>3, <1>4, <1>5, <1>6, <1>7, <1>8, <1>9, <1>10, <1>11, <1>12
  DEF Next, Calls, ClientSignal, Stopped, vars

(* When interrupt routines do not block, the engine provides the service    *)
(* ApplePS2Device.h promises: whatever threads, driver routines, sleeps and *)
(* the stop submit, drain and refuse, requests start in the order of their  *)
(* submission, one at a time, and each is disposed of once.                 *)
THEOREM EngineImplementsService ==
  ASSUME ~HandlersMayBlock
  PROVE  Spec => ImplementsService
<1>1. Init => Service!ServiceInit
  <2> SUFFICES ASSUME Init PROVE Service!ServiceInit
    OBVIOUS
  <2>1. stack = <<>> /\ requestQueue = <<>> /\ \A r \in Requests : phase[r] = "free"
    BY DEF Init
  <2>2. Pending = <<>> /\ Active = None /\ Done = {}
    BY <2>1 DEF Pending, ServedBatch, Active, Done
  <2> QED
    BY <2>2 DEF Service!ServiceInit, Pending, Active, Done
<1>2. Init => CallersLive
  BY ConstantsAssumption DEF Init, CallersLive
<1> QED
  BY <1>1, <1>2, LowerInit, LowerStep, OfflineInit, OfflineStep, LinksInit, OwnershipStep,
     LinksStep, CallersStep, StepRefines, TypeCorrect, PTL
  DEF Spec, ImplementsService, Service!ServiceSpec
=============================================================================
