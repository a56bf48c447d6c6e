--------------------------- MODULE PS2DataPortProofs ---------------------------
(***************************************************************************)
(* That the byte path keeps the streams of the two devices apart and in    *)
(* order, keeps each byte once, and that readDataPort finds the answer past *)
(* one stray byte; and that no byte waits without a wake-up to come: for    *)
(* every size of the keyboard queue, every number of bytes and commands    *)
(* and every kind of circumstances.                                        *)
(***************************************************************************)
EXTENDS PS2DataPort, SequenceTheorems, FiniteSetTheorems, TLAPS

(* The part of TypeOK the arguments below rest on.                         *)
Types ==
  /\ environment \in Environments
  /\ port \in Byte \cup {NoByte}
  /\ sent \in [Devices -> 0..MaxBytes]
  /\ answerDue \in [Devices -> 0..MaxCommands]
  /\ keyboardQueue \in Seq(Byte)
  /\ want \in Devices
  /\ command \in 0..MaxCommands
  /\ firstByte \in Byte \cup {NoByte}
  /\ delivered \in [Devices -> Seq(Byte)]

(* Where bytes of which device can be.                                     *)
Routing ==
  /\ \A i \in DOMAIN keyboardQueue : keyboardQueue[i].dev = Keyboard
  /\ firstByte # NoByte => firstByte.dev = want /\ at \in {"read", "poll"}
  /\ at = "mouse data" => port.dev = Mouse

LEMMA ByteFacts ==
  /\ NoByte \notin Byte
  /\ \A b \in Byte : b.dev \in Devices /\ b.n \in 1..MaxBytes
  /\ NoByte.dev \notin Devices
  /\ Keyboard # Mouse /\ Devices = {Keyboard, Mouse}
  BY DEF Byte, NoByte, Devices, Keyboard, Mouse

(* Handing bytes to a driver keeps the type of the history.                *)
LEMMA DeliverType ==
  ASSUME Types, NEW d \in Devices, NEW s \in Seq(Byte)
  PROVE  /\ Deliver(d, s) \in [Devices -> Seq(Byte)]
         /\ Deliver(d, s)[d] = delivered[d] \o s
         /\ \A e \in Devices : e # d => Deliver(d, s)[e] = delivered[e]
  BY DEF Types, Deliver
LEMMA DeliverOne ==
  ASSUME Types, NEW d \in Devices, NEW b \in Byte
  PROVE  /\ Deliver(d, <<b>>)[d] = delivered[d] \o <<b>>
         /\ delivered[d] \o <<b>> \in Seq(Byte)
         /\ \A e \in Devices : e # d => Deliver(d, <<b>>)[e] = delivered[e]
<1>1. <<b>> \in Seq(Byte) /\ delivered[d] \in Seq(Byte)
  BY DEF Types
<1>2. delivered[d] \o <<b>> \in Seq(Byte)
  BY <1>1
<1>3. QED BY <1>1, <1>2, DeliverType

LEMMA DeliverNothing ==
  ASSUME Types, NEW d \in Devices
  PROVE  Deliver(d, <<>>) = delivered
<1>1. delivered[d] \o <<>> = delivered[d]
  BY DEF Types
<1>2. QED BY <1>1 DEF Types, Deliver

(* What Requested makes of a byte of the requested stream: it returns it,   *)
(* puts it aside, or gives it or the byte put aside before to the driver.   *)
LEMMA RequestedEffect ==
  ASSUME Types, Routing, NEW b \in Byte, b.dev = want, Requested(b)
  PROVE  /\ firstByte' \in Byte \cup {NoByte}
         /\ firstByte' # NoByte => firstByte' = b /\ firstByte = NoByte /\ at' = "read"
         /\ at' \in {"idle", "read"}
         /\ \/ delivered' = delivered
            \/ /\ firstByte # NoByte /\ firstByte' = NoByte
               /\ delivered' = Deliver(want, <<firstByte>>)
            \/ firstByte' = NoByte /\ delivered' = Deliver(want, <<b>>)
<1> USE DEF Requested, Return
<1>1. CASE ~expecting
  BY <1>1
<1>2. CASE expecting /\ b.answers # 0
  <2>1. CASE firstByte = NoByte
    BY <1>2, <2>1, DeliverNothing DEF Types
  <2>2. CASE firstByte # NoByte
    BY <1>2, <2>2
  <2>3. QED BY <2>1, <2>2
<1>3. CASE expecting /\ b.answers = 0 /\ firstByte = NoByte
  BY <1>3
<1>4. CASE expecting /\ b.answers = 0 /\ firstByte # NoByte
  BY <1>4
<1>5. QED BY <1>1, <1>2, <1>3, <1>4

(* A byte of the stream goes through readDataPort: read from the keyboard   *)
(* queue or the port (c is the byte).                                       *)
LEMMA ReceivedEffect ==
  ASSUME Types, Routing, NEW b \in Byte, Received(b)
  PROVE  /\ firstByte' \in Byte \cup {NoByte}
         /\ at' \in {"idle", "read"}
         /\ firstByte' # NoByte =>
              /\ at' = "read"
              /\ \/ firstByte' = b /\ firstByte = NoByte /\ b.dev = want
                 \/ firstByte' = firstByte /\ b.dev # want
         /\ \/ delivered' = delivered
            \/ /\ firstByte # NoByte /\ firstByte' = NoByte
               /\ delivered' = Deliver(want, <<firstByte>>)
            \/ delivered' = Deliver(b.dev, <<b>>) /\ (firstByte' = NoByte \/ b.dev # want)
<1>1. CASE b.dev = want
  BY <1>1, RequestedEffect DEF Received
<1>2. CASE b.dev # want
  <2>1. Other(want) = b.dev
    BY <1>2, ByteFacts DEF Types, Other
  <2>2. /\ delivered' = Deliver(b.dev, <<b>>)
        /\ at' = "read" /\ firstByte' = firstByte
    BY <1>2, <2>1 DEF Received
  <2>3. QED BY <1>2, <2>2 DEF Types
<1>3. QED BY <1>1, <1>2

-----------------------------------------------------------------------------
(* Types and Routing are kept by every step.                               *)
LEMMA QueueFacts ==
  ASSUME NEW q \in Seq(Byte), q # <<>>
  PROVE  /\ Head(q) \in Byte /\ 1 \in DOMAIN q /\ Head(q) = q[1]
         /\ Tail(q) \in Seq(Byte)
         /\ \A i \in DOMAIN Tail(q) : i + 1 \in DOMAIN q /\ Tail(q)[i] = q[i + 1]
  BY HeadTailProperties

LEMMA AppendFacts ==
  ASSUME NEW q \in Seq(Byte), NEW b \in Byte
  PROVE  /\ Append(q, b) \in Seq(Byte)
         /\ \A i \in DOMAIN Append(q, b) :
              \/ i \in DOMAIN q /\ Append(q, b)[i] = q[i]
              \/ i = Len(q) + 1 /\ Append(q, b)[i] = b
  BY AppendProperties

LEMMA TailStaysKeyboard ==
  ASSUME NEW q \in Seq(Byte), q # <<>>, \A i \in DOMAIN q : q[i].dev = Keyboard
  PROVE  /\ Tail(q) \in Seq(Byte)
         /\ \A i \in DOMAIN Tail(q) : Tail(q)[i].dev = Keyboard
<1>1. Tail(q) \in Seq(Byte)
  BY QueueFacts
<1>2. ASSUME NEW i \in DOMAIN Tail(q) PROVE Tail(q)[i].dev = Keyboard
  BY <1>2, QueueFacts
<1>3. QED BY <1>1, <1>2

LEMMA ZeroCommand == ConstantsAssumption => 0 \in 0..MaxCommands
<1> SUFFICES ASSUME ConstantsAssumption PROVE 0 \in 0..MaxCommands
  OBVIOUS
<1>1. MaxCommands \in Nat
  BY DEF ConstantsAssumption
<1>2. QED BY <1>1

LEMMA NextNumber ==
  ASSUME NEW m \in Nat, NEW k \in 0..m, k < m
  PROVE  k + 1 \in 1..m /\ k + 1 \in 0..m
  OBVIOUS

LEMMA DeliveredType ==
  ASSUME Types, NEW b \in Byte
  PROVE  Deliver(b.dev, <<b>>) \in [Devices -> Seq(Byte)]
<1>1. b.dev \in Devices /\ <<b>> \in Seq(Byte)
  BY ByteFacts
<1>2. QED BY <1>1, DeliverType

LEMMA TypesInit == Init /\ ConstantsAssumption => Types /\ Routing
<1> SUFFICES ASSUME Init, ConstantsAssumption PROVE Types /\ Routing
  OBVIOUS
<1>1. keyboardQueue = <<>> /\ keyboardQueue \in Seq(Byte)
  BY DEF Init
<1>2. delivered \in [Devices -> Seq(Byte)]
  BY DEF Init
<1>3. sent \in [Devices -> 0..MaxBytes] /\ answerDue \in [Devices -> 0..MaxCommands]
  BY DEF Init, ConstantsAssumption
<1>4. want \in Devices /\ command \in 0..MaxCommands
  BY DEF Init, ConstantsAssumption, Devices
<1>5. QED
  BY <1>1, <1>2, <1>3, <1>4 DEF Init, Types, Routing

LEMMA TypesStep ==
  ASSUME ConstantsAssumption, Types, Routing, [Next]_vars
  PROVE  Types' /\ Routing'
<1> USE DEF Types, Routing
<1>1. ASSUME NEW d \in Devices, NEW c \in 0..MaxCommands, Send(d, c)
      PROVE  Types' /\ Routing'
  <2>0. sent[d] \in 0..MaxBytes /\ sent[d] < MaxBytes /\ MaxBytes \in Nat
    BY <1>1 DEF Send, ConstantsAssumption
  <2>1. sent[d] + 1 \in 1..MaxBytes /\ sent[d] + 1 \in 0..MaxBytes
    BY <2>0, NextNumber
  <2>2. port' \in Byte
    BY <1>1, <2>1 DEF Send, Byte
  <2>3. sent' \in [Devices -> 0..MaxBytes]
    BY <1>1, <2>1 DEF Send
  <2>3a. answerDue' \in [Devices -> 0..MaxCommands]
    <3>1. 0 \in 0..MaxCommands
      BY ZeroCommand
    <3>2. answerDue' = answerDue \/ answerDue' = [answerDue EXCEPT ![d] = 0]
      BY <1>1 DEF Send
    <3>3. QED BY <3>1, <3>2
  <2>4. at # "mouse data"
    BY <1>1, ByteFacts DEF Send, Devices
  <2>5. UNCHANGED <<environment, keyboardQueue, at, want, command, firstByte, delivered>>
    BY <1>1 DEF Send, reader
  <2>6. QED BY <2>2, <2>3, <2>3a, <2>4, <2>5
<1>2. CASE InterruptHandlerMouse
  <2>1. UNCHANGED <<environment, port, sent, answerDue, keyboardQueue, at, want, command,
                    firstByte, delivered>>
    BY <1>2 DEF InterruptHandlerMouse, reader
  <2>2. QED BY <2>1
<1>3. CASE InterruptHandlerKeyboard
  <2>1. CASE port.dev = Keyboard
    <3>1. port \in Byte
      BY <2>1, ByteFacts
    <3>2. keyboardQueue' = Append(keyboardQueue, port) \/ keyboardQueue' = keyboardQueue
      BY <1>3, <2>1 DEF InterruptHandlerKeyboard, Enqueue
    <3>3. keyboardQueue' \in Seq(Byte)
      BY <3>1, <3>2, AppendFacts
    <3>4. \A i \in DOMAIN keyboardQueue' : keyboardQueue'[i].dev = Keyboard
      BY <2>1, <3>1, <3>2, AppendFacts
    <3>5. at # "mouse data"
      BY <2>1, ByteFacts
    <3>6. QED BY <1>3, <2>1, <3>3, <3>4, <3>5 DEF InterruptHandlerKeyboard, reader
  <2>2. CASE port.dev # Keyboard
    BY <1>3, <2>2 DEF InterruptHandlerKeyboard, reader
  <2>3. QED BY <2>1, <2>2
<1>4. CASE InterruptOccurred
  BY <1>4 DEF InterruptOccurred, reader
<1>5. CASE InterruptLoop
  <2>1. CASE keyboardQueue # <<>>
    <3>1. Head(keyboardQueue) \in Byte /\ Head(keyboardQueue).dev = Keyboard
      BY <2>1, QueueFacts
    <3>2. delivered' \in [Devices -> Seq(Byte)]
      BY <1>5, <2>1, <3>1, DeliveredType DEF InterruptLoop
    <3>3. /\ keyboardQueue' \in Seq(Byte)
          /\ \A i \in DOMAIN keyboardQueue' : keyboardQueue'[i].dev = Keyboard
      BY <1>5, <2>1, TailStaysKeyboard DEF InterruptLoop
    <3>4. QED BY <1>5, <2>1, <3>2, <3>3 DEF InterruptLoop, reader
  <2>2. CASE keyboardQueue = <<>>
    BY <1>5, <2>2 DEF InterruptLoop, reader
  <2>3. QED BY <2>1, <2>2
<1>6. CASE InterruptMouseData
  <2>1. delivered' \in [Devices -> Seq(Byte)]
    BY <1>6, ByteFacts, DeliveredType, DeliverNothing DEF InterruptMouseData
  <2>2. firstByte = NoByte
    BY <1>6 DEF InterruptMouseData
  <2>3. QED BY <1>6, <2>1, <2>2 DEF InterruptMouseData, reader
<1>7. ASSUME NEW d \in Devices, NEW exp \in BOOLEAN, NEW will \in BOOLEAN,
             BeginRead(d, exp, will)
      PROVE  Types' /\ Routing'
  <2>1. command + 1 \in 0..MaxCommands
    BY <1>7 DEF BeginRead, ConstantsAssumption
  <2>2. answerDue' \in [Devices -> 0..MaxCommands]
    BY <1>7, <2>1 DEF BeginRead, ConstantsAssumption
  <2>3. QED BY <1>7, <2>1, <2>2 DEF BeginRead, Devices
<1>8. CASE ReadLoop
  <2>1. CASE want = Keyboard /\ keyboardQueue # <<>>
    <3>1. Head(keyboardQueue) \in Byte /\ Head(keyboardQueue).dev = want
      BY <2>1, QueueFacts
    <3>2. Requested(Head(keyboardQueue))
      BY <1>8, <2>1 DEF ReadLoop
    <3>3. /\ firstByte' \in Byte \cup {NoByte}
          /\ firstByte' # NoByte => firstByte'.dev = want /\ at' \in {"read", "poll"}
          /\ at' # "mouse data"
      BY <3>1, <3>2, RequestedEffect
    <3>4. delivered' \in [Devices -> Seq(Byte)]
      BY <3>1, <3>2, RequestedEffect, DeliveredType
    <3>5. /\ keyboardQueue' \in Seq(Byte)
          /\ \A i \in DOMAIN keyboardQueue' : keyboardQueue'[i].dev = Keyboard
      BY <1>8, <2>1, TailStaysKeyboard DEF ReadLoop
    <3>6. QED BY <1>8, <2>1, <3>3, <3>4, <3>5 DEF ReadLoop
  <2>2. CASE ~(want = Keyboard /\ keyboardQueue # <<>>) /\ port # NoByte
    <3>1. port \in Byte /\ Received(port)
      BY <1>8, <2>2 DEF ReadLoop
    <3>2. /\ firstByte' \in Byte \cup {NoByte}
          /\ firstByte' # NoByte => firstByte'.dev = want /\ at' \in {"read", "poll"}
          /\ at' # "mouse data"
      BY <3>1, ReceivedEffect
    <3>3. delivered' \in [Devices -> Seq(Byte)]
      BY <3>1, ReceivedEffect, DeliveredType
    <3>4. QED BY <1>8, <2>2, <3>2, <3>3 DEF ReadLoop
  <2>3. CASE ~(want = Keyboard /\ keyboardQueue # <<>>) /\ port = NoByte
    BY <1>8, <2>3 DEF ReadLoop
  <2>4. QED BY <2>1, <2>2, <2>3
<1>9. CASE ReadPolled
  <2>1. port \in Byte /\ Received(port)
    BY <1>9 DEF ReadPolled
  <2>2. /\ firstByte' \in Byte \cup {NoByte}
        /\ firstByte' # NoByte => firstByte'.dev = want /\ at' \in {"read", "poll"}
        /\ at' # "mouse data"
    BY <2>1, ReceivedEffect
  <2>3. delivered' \in [Devices -> Seq(Byte)]
    BY <2>1, ReceivedEffect, DeliveredType
  <2>4. QED BY <1>9, <2>2, <2>3 DEF ReadPolled
<1>10. CASE ReadTimeout
  BY <1>10 DEF ReadTimeout, Return
<1>11. CASE UNCHANGED vars
  BY <1>11 DEF vars
<1>12. QED
  BY <1>1, <1>2, <1>3, <1>4, <1>5, <1>6, <1>7, <1>8, <1>9, <1>10, <1>11 DEF Next

-----------------------------------------------------------------------------
(* Streams are not mixed.                                                  *)
LEMMA DeliverKeepsStreams ==
  ASSUME Types, StreamsNotMixed, NEW b \in Byte, delivered' = Deliver(b.dev, <<b>>)
  PROVE  StreamsNotMixed'
<1>1. b.dev \in Devices /\ <<b>> \in Seq(Byte)
  BY ByteFacts
<1>2. ASSUME NEW d \in Devices, NEW i \in DOMAIN delivered'[d]
      PROVE  delivered'[d][i].dev = d
  <2>1. CASE d # b.dev
    <3>1. delivered'[d] = delivered[d]
      BY <1>1, <2>1, DeliverType
    <3>2. QED BY <1>2, <3>1 DEF StreamsNotMixed
  <2>2. CASE d = b.dev
    <3>1. delivered[d] \in Seq(Byte) /\ delivered'[d] = delivered[d] \o <<b>>
      BY <1>1, <2>2, DeliverType DEF Types
    <3>2. \/ i \in DOMAIN delivered[d] /\ delivered'[d][i] = delivered[d][i]
          \/ delivered'[d][i] = b
      BY <1>2, <3>1
    <3>3. QED BY <2>2, <3>2 DEF StreamsNotMixed
  <2>3. QED BY <2>1, <2>2
<1>3. QED BY <1>2 DEF StreamsNotMixed

(* A step either leaves the histories alone or adds one byte to that of its *)
(* own device.                                                             *)
LEMMA OneByteDelivered ==
  ASSUME ConstantsAssumption, Types, Routing, [Next]_vars
  PROVE  delivered' = delivered \/ \E b \in Byte : delivered' = Deliver(b.dev, <<b>>)
<1>1. ASSUME NEW b \in Byte, Requested(b), b.dev = want
      PROVE  delivered' = delivered \/ \E c \in Byte : delivered' = Deliver(c.dev, <<c>>)
  <2>1. firstByte # NoByte => firstByte \in Byte /\ firstByte.dev = want
    BY DEF Types, Routing
  <2>2. QED BY <1>1, <2>1, RequestedEffect
<1>2. ASSUME NEW b \in Byte, Received(b)
      PROVE  delivered' = delivered \/ \E c \in Byte : delivered' = Deliver(c.dev, <<c>>)
  <2>1. firstByte # NoByte => firstByte \in Byte /\ firstByte.dev = want
    BY DEF Types, Routing
  <2>2. QED BY <1>2, <2>1, ReceivedEffect
<1>3. keyboardQueue # <<>> =>
        Head(keyboardQueue) \in Byte /\ Head(keyboardQueue).dev = Keyboard
  BY QueueFacts DEF Types, Routing
<1>4. port # NoByte => port \in Byte
  BY DEF Types
<1>5. ASSUME NEW d \in Devices, NEW c \in 0..MaxCommands, Send(d, c)
      PROVE  delivered' = delivered
  BY <1>5 DEF Send
<1>6. CASE InterruptHandlerMouse
  BY <1>6 DEF InterruptHandlerMouse
<1>7. CASE InterruptHandlerKeyboard
  BY <1>7 DEF InterruptHandlerKeyboard
<1>8. CASE InterruptOccurred
  BY <1>8 DEF InterruptOccurred
<1>9. CASE InterruptLoop
  BY <1>3, <1>9 DEF InterruptLoop
<1>10. CASE InterruptMouseData
  <2>1. port.dev = Mouse /\ port # NoByte
    BY <1>10, ByteFacts DEF InterruptMouseData, Routing
  <2>2. QED BY <1>4, <1>10, <2>1 DEF InterruptMouseData
<1>11. ASSUME NEW d \in Devices, NEW exp \in BOOLEAN, NEW will \in BOOLEAN,
              BeginRead(d, exp, will)
       PROVE  delivered' = delivered
  BY <1>11 DEF BeginRead
<1>12. CASE ReadLoop
  <2>1. CASE want = Keyboard /\ keyboardQueue # <<>>
    <3>1. Requested(Head(keyboardQueue))
      BY <1>12, <2>1 DEF ReadLoop
    <3>2. QED BY <1>1, <1>3, <2>1, <3>1
  <2>2. CASE ~(want = Keyboard /\ keyboardQueue # <<>>) /\ port # NoByte
    <3>1. Received(port)
      BY <1>12, <2>2 DEF ReadLoop
    <3>2. QED BY <1>2, <1>4, <2>2, <3>1
  <2>3. CASE ~(want = Keyboard /\ keyboardQueue # <<>>) /\ port = NoByte
    BY <1>12, <2>3 DEF ReadLoop
  <2>4. QED BY <2>1, <2>2, <2>3
<1>13. CASE ReadPolled
  <2>1. port # NoByte /\ Received(port)
    BY <1>13 DEF ReadPolled
  <2>2. QED BY <1>2, <1>4, <2>1
<1>14. CASE ReadTimeout
  BY <1>14 DEF ReadTimeout
<1>15. CASE UNCHANGED vars
  BY <1>15 DEF vars
<1>16. QED
  BY <1>5, <1>6, <1>7, <1>8, <1>9, <1>10, <1>11, <1>12, <1>13, <1>14, <1>15 DEF Next

(* No driver is given a byte of the other device, for every queue size,     *)
(* number of bytes and commands: interruptOccurred reads data after it has  *)
(* unlocked the controller, but only the keyboard's interrupt handler takes *)
(* bytes in between, and it leaves those of the mouse.                      *)
THEOREM StreamsApart == Spec => []StreamsNotMixed
<1> DEFINE Inv == Types /\ Routing /\ StreamsNotMixed
<1>1. ConstantsAssumption /\ Init => Inv
  <2> SUFFICES ASSUME ConstantsAssumption, Init PROVE Inv
    OBVIOUS
  <2>1. \A d \in Devices : delivered[d] = <<>>
    BY DEF Init
  <2>2. QED BY <2>1, TypesInit DEF StreamsNotMixed
<1>2. ConstantsAssumption /\ Inv /\ [Next]_vars => Inv'
  <2> SUFFICES ASSUME ConstantsAssumption, Types, Routing, StreamsNotMixed, [Next]_vars
               PROVE  Inv'
    OBVIOUS
  <2>1. Types' /\ Routing'
    BY TypesStep
  <2>2. CASE delivered' = delivered
    BY <2>1, <2>2 DEF StreamsNotMixed
  <2>3. CASE \E b \in Byte : delivered' = Deliver(b.dev, <<b>>)
    BY <2>1, <2>3, DeliverKeepsStreams
  <2>4. QED BY <2>2, <2>3, OneByteDelivered
<1>3. QED
  BY <1>1, <1>2, ConstantsAssumption, PTL DEF Spec

-----------------------------------------------------------------------------
(* Streams stay in order.  The bytes of one device stand in line: given to  *)
(* the driver, put aside, in the keyboard queue, in the port.               *)
Ascending(s) == \A i, j \in DOMAIN s : i < j => s[i].n < s[j].n

InLine(d, s, f, q, p, top) ==
  /\ Ascending(s) /\ Ascending(q)
  /\ \A i \in DOMAIN s : s[i].n <= top
  /\ \A j \in DOMAIN q : q[j].n <= top
  /\ \A i \in DOMAIN s, j \in DOMAIN q : s[i].n < q[j].n
  /\ f.dev = d => /\ f.n <= top
                  /\ \A i \in DOMAIN s : s[i].n < f.n
                  /\ \A j \in DOMAIN q : f.n < q[j].n
  /\ p.dev = d => /\ p.n <= top
                  /\ \A i \in DOMAIN s : s[i].n < p.n
                  /\ \A j \in DOMAIN q : q[j].n < p.n
                  /\ f.dev = d => f.n < p.n

LEMMA AscendingAppend ==
  ASSUME NEW s \in Seq(Byte), NEW b \in Byte, Ascending(s),
         \A i \in DOMAIN s : s[i].n < b.n
  PROVE  /\ Ascending(s \o <<b>>) /\ s \o <<b>> \in Seq(Byte)
         /\ \A i \in DOMAIN (s \o <<b>>) :
              \/ i \in DOMAIN s /\ (s \o <<b>>)[i] = s[i]
              \/ (s \o <<b>>)[i] = b
<1> DEFINE t == s \o <<b>>
<1>1. /\ t \in Seq(Byte) /\ Len(t) = Len(s) + 1
      /\ \A i \in 1..Len(s) : t[i] = s[i]
      /\ t[Len(s) + 1] = b
  OBVIOUS
<1>2. ASSUME NEW i \in DOMAIN t, NEW j \in DOMAIN t, i < j PROVE t[i].n < t[j].n
  <2>1. i \in 1..Len(s) /\ i \in DOMAIN s
    BY <1>1, <1>2
  <2>2. CASE j \in 1..Len(s)
    BY <1>1, <1>2, <2>1, <2>2 DEF Ascending
  <2>3. CASE j = Len(s) + 1
    BY <1>1, <2>1, <2>3
  <2>4. QED BY <1>1, <2>2, <2>3
<1>3. ASSUME NEW i \in DOMAIN t
      PROVE  (i \in DOMAIN s /\ t[i] = s[i]) \/ t[i] = b
  BY <1>1, <1>3
<1>4. QED BY <1>1, <1>2, <1>3 DEF Ascending

LEMMA AscendingTail ==
  ASSUME NEW q \in Seq(Byte), q # <<>>, Ascending(q)
  PROVE  /\ Ascending(Tail(q))
         /\ \A i \in DOMAIN Tail(q) : Head(q).n < Tail(q)[i].n
<1>1. ASSUME NEW i \in DOMAIN Tail(q), NEW j \in DOMAIN Tail(q), i < j
      PROVE  Tail(q)[i].n < Tail(q)[j].n
  <2>1. /\ i + 1 \in DOMAIN q /\ Tail(q)[i] = q[i + 1]
        /\ j + 1 \in DOMAIN q /\ Tail(q)[j] = q[j + 1]
    BY QueueFacts
  <2>2. i + 1 < j + 1
    BY <1>1, QueueFacts
  <2>3. QED BY <2>1, <2>2 DEF Ascending
<1>2. ASSUME NEW i \in DOMAIN Tail(q) PROVE Head(q).n < Tail(q)[i].n
  <2>1. i + 1 \in DOMAIN q /\ Tail(q)[i] = q[i + 1] /\ Head(q) = q[1] /\ 1 \in DOMAIN q
    BY QueueFacts
  <2>2. 1 < i + 1
    BY QueueFacts
  <2>3. QED BY <2>1, <2>2 DEF Ascending
<1>3. QED BY <1>1, <1>2 DEF Ascending

(* The ways bytes move up in the line.  A byte may leave it (given to a     *)
(* request, or dropped), join its end, or step over an empty place.         *)
LEMMA LeaveLine ==
  ASSUME NEW d \in Devices, NEW s \in Seq(Byte), NEW q \in Seq(Byte),
         NEW f \in Byte \cup {NoByte}, NEW p \in Byte \cup {NoByte},
         NEW top \in Nat, InLine(d, s, f, q, p, top),
         NEW g, NEW r, g = f \/ g.dev # d, r = p \/ r.dev # d
  PROVE  InLine(d, s, g, q, r, top)
  BY DEF InLine

LEMMA JoinLine ==
  ASSUME NEW d \in Devices, NEW s \in Seq(Byte), NEW q \in Seq(Byte),
         NEW f \in Byte \cup {NoByte}, NEW top \in Nat,
         InLine(d, s, f, q, NoByte, top), NEW b \in Byte, b.n = top + 1
  PROVE  InLine(d, s, f, q, b, top + 1)
<1>1. /\ \A i \in DOMAIN s : s[i].n \in Nat /\ s[i].n <= top
      /\ \A i \in DOMAIN q : q[i].n \in Nat /\ q[i].n <= top
      /\ f.dev = d => f.n \in Nat /\ f.n <= top
  BY ByteFacts DEF InLine
<1>2. QED BY <1>1 DEF InLine

LEMMA IntoQueue ==
  ASSUME NEW d \in Devices, NEW s \in Seq(Byte), NEW q \in Seq(Byte),
         NEW f \in Byte \cup {NoByte}, NEW p \in Byte, p.dev = d, NEW top \in Nat,
         InLine(d, s, f, q, p, top)
  PROVE  InLine(d, s, f, Append(q, p), NoByte, top)
<1>1. Append(q, p) = q \o <<p>>
  BY AppendIsConcat
<1>2. Ascending(q) /\ \A i \in DOMAIN q : q[i].n < p.n
  BY DEF InLine
<1>3. Ascending(Append(q, p))
  BY <1>1, <1>2, AscendingAppend
<1>4. NoByte.dev # d
  BY ByteFacts
<1>5. QED BY <1>3, <1>4, AppendFacts DEF InLine

LEMMA HeadLeavesQueue ==
  ASSUME NEW d \in Devices, NEW s \in Seq(Byte), NEW q \in Seq(Byte), q # <<>>,
         NEW f \in Byte \cup {NoByte}, NEW p \in Byte \cup {NoByte},
         NEW top \in Nat, InLine(d, s, f, q, p, top)
  PROVE  InLine(d, s, f, Tail(q), p, top)
<1>1. Ascending(Tail(q))
  BY AscendingTail DEF InLine
<1>2. \A i \in DOMAIN Tail(q) : i + 1 \in DOMAIN q /\ Tail(q)[i] = q[i + 1]
  BY QueueFacts
<1>3. QED BY <1>1, <1>2 DEF InLine

LEMMA HeadPutAside ==
  ASSUME NEW d \in Devices, NEW s \in Seq(Byte), NEW q \in Seq(Byte), q # <<>>,
         NEW p \in Byte \cup {NoByte},
         NEW top \in Nat, InLine(d, s, NoByte, q, p, top)
  PROVE  InLine(d, s, Head(q), Tail(q), p, top)
<1>1. InLine(d, s, NoByte, Tail(q), p, top)
  BY HeadLeavesQueue
<1>2. Head(q) = q[1] /\ 1 \in DOMAIN q
  BY QueueFacts
<1>3. \A i \in DOMAIN Tail(q) : Head(q).n < Tail(q)[i].n
  BY AscendingTail DEF InLine
<1>4. Head(q).n <= top /\ \A i \in DOMAIN s : s[i].n < Head(q).n
  BY <1>2 DEF InLine
<1>5. p.dev = d => Head(q).n < p.n
  BY <1>2 DEF InLine
<1>6. QED BY <1>1, <1>3, <1>4, <1>5 DEF InLine

LEMMA PortPutAside ==
  ASSUME NEW d \in Devices, NEW s \in Seq(Byte), NEW f \in Byte \cup {NoByte},
         NEW p \in Byte, p.dev = d,
         NEW top \in Nat, InLine(d, s, f, <<>>, p, top)
  PROVE  InLine(d, s, p, <<>>, NoByte, top)
  BY ByteFacts DEF InLine, Ascending

(* The first in the line is given to the driver.                           *)
LEMMA FirstDelivered ==
  ASSUME NEW d \in Devices, NEW s \in Seq(Byte), NEW q \in Seq(Byte),
         NEW f \in Byte \cup {NoByte}, NEW p \in Byte \cup {NoByte},
         NEW top \in Nat, InLine(d, s, f, q, p, top),
         NEW b \in Byte, b.n <= top, \A i \in DOMAIN s : s[i].n < b.n,
         f.dev = d => b.n < f.n, \A j \in DOMAIN q : b.n < q[j].n,
         p.dev = d => b.n < p.n
  PROVE  InLine(d, s \o <<b>>, f, q, p, top)
<1>1. Ascending(s)
  BY DEF InLine
<1>2. QED BY <1>1, AscendingAppend DEF InLine

QueueOf(d) == IF d = Keyboard THEN keyboardQueue ELSE <<>>
LineOf(d) == InLine(d, delivered[d], firstByte, QueueOf(d), port, sent[d])

(* A request takes the byte at the head of the keyboard queue, or the byte  *)
(* in the port when no byte of its device is queued.                        *)
LEMMA LineTypes ==
  ASSUME Types, NEW d \in Devices
  PROVE  /\ delivered[d] \in Seq(Byte) /\ QueueOf(d) \in Seq(Byte)
         /\ firstByte \in Byte \cup {NoByte} /\ port \in Byte \cup {NoByte}
         /\ sent[d] \in Nat
  BY DEF Types, QueueOf

LEMMA RequestedFromQueue ==
  ASSUME Types, Routing, want = Keyboard, keyboardQueue # <<>>, LineOf(Keyboard),
         Requested(Head(keyboardQueue))
  PROVE  InLine(Keyboard, delivered'[Keyboard], firstByte', Tail(keyboardQueue), port,
                sent[Keyboard])
<1> DEFINE s == delivered[Keyboard]
           q == keyboardQueue
           h == Head(keyboardQueue)
           top == sent[Keyboard]
<1>1. /\ Keyboard \in Devices /\ s \in Seq(Byte) /\ q \in Seq(Byte) /\ top \in Nat
      /\ firstByte \in Byte \cup {NoByte} /\ port \in Byte \cup {NoByte}
  BY LineTypes, ByteFacts DEF Types
<1>2. InLine(Keyboard, s, firstByte, q, port, top)
  BY DEF LineOf, QueueOf
<1>3. h \in Byte /\ h.dev = Keyboard /\ h = q[1] /\ 1 \in DOMAIN q
  BY QueueFacts DEF Types, Routing
<1>4. NoByte.dev # Keyboard
  BY ByteFacts
<1>5. InLine(Keyboard, s, firstByte, Tail(q), port, top) /\ Tail(q) \in Seq(Byte)
  BY <1>1, <1>2, HeadLeavesQueue, QueueFacts
<1>6. InLine(Keyboard, s, NoByte, Tail(q), port, top)
  BY <1>1, <1>4, <1>5, LeaveLine
<1>7. CASE delivered' = delivered /\ firstByte' = NoByte
  BY <1>6, <1>7
<1>8. CASE delivered' = delivered /\ firstByte' # NoByte
  <2>1. firstByte' = h /\ firstByte = NoByte
    BY <1>3, <1>8, RequestedEffect
  <2>2. InLine(Keyboard, s, h, Tail(q), port, top)
    BY <1>1, <1>2, <2>1, HeadPutAside
  <2>3. QED BY <1>8, <2>1, <2>2
<1>9. CASE /\ firstByte # NoByte /\ firstByte' = NoByte
           /\ delivered' = Deliver(want, <<firstByte>>)
  <2>1. firstByte \in Byte /\ firstByte.dev = Keyboard
    BY <1>1, <1>9 DEF Routing
  <2>2. /\ firstByte.n <= top
        /\ \A i \in DOMAIN s : s[i].n < firstByte.n
        /\ port.dev = Keyboard => firstByte.n < port.n
    BY <1>2, <2>1 DEF InLine
  <2>3. \A j \in DOMAIN Tail(q) : firstByte.n < Tail(q)[j].n
    BY <1>5, <2>1 DEF InLine
  <2>4. InLine(Keyboard, s \o <<firstByte>>, NoByte, Tail(q), port, top)
    BY <1>1, <1>4, <1>5, <1>6, <2>1, <2>2, <2>3, FirstDelivered
  <2>5. delivered'[Keyboard] = s \o <<firstByte>>
    BY <1>1, <1>9, <2>1, DeliverOne
  <2>6. QED BY <1>9, <2>4, <2>5
<1>10. CASE firstByte' = NoByte /\ delivered' = Deliver(want, <<h>>)
  <2>1. /\ h.n <= top
        /\ \A i \in DOMAIN s : s[i].n < h.n
        /\ port.dev = Keyboard => h.n < port.n
    BY <1>2, <1>3 DEF InLine
  <2>2. \A j \in DOMAIN Tail(q) : h.n < Tail(q)[j].n
    BY <1>1, <1>2, AscendingTail DEF InLine
  <2>3. InLine(Keyboard, s \o <<h>>, NoByte, Tail(q), port, top)
    BY <1>1, <1>3, <1>4, <1>5, <1>6, <2>1, <2>2, FirstDelivered
  <2>4. delivered'[Keyboard] = s \o <<h>>
    BY <1>1, <1>3, <1>10, DeliverOne
  <2>5. QED BY <1>10, <2>3, <2>4
<1>11. QED BY <1>3, <1>7, <1>8, <1>9, <1>10, RequestedEffect

LEMMA ReceivedFromPort ==
  ASSUME Types, Routing, NEW d \in Devices, port \in Byte, QueueOf(d) = <<>> \/ port.dev # d,
         LineOf(d), Received(port)
  PROVE  InLine(d, delivered'[d], firstByte', QueueOf(d), NoByte, sent[d])
<1> DEFINE s == delivered[d]
           q == QueueOf(d)
           top == sent[d]
<1>1. /\ s \in Seq(Byte) /\ q \in Seq(Byte) /\ top \in Nat
      /\ firstByte \in Byte \cup {NoByte}
  BY LineTypes
<1>2. InLine(d, s, firstByte, q, port, top)
  BY DEF LineOf
<1>3. NoByte.dev # d /\ port.dev \in Devices
  BY ByteFacts
<1>4. InLine(d, s, NoByte, q, NoByte, top) /\ InLine(d, s, firstByte, q, NoByte, top)
  BY <1>1, <1>2, <1>3, LeaveLine
<1>5. CASE delivered' = delivered /\ firstByte' = NoByte
  BY <1>4, <1>5
<1>6. CASE delivered' = delivered /\ firstByte' # NoByte
  <2>1. CASE firstByte' = port /\ firstByte = NoByte /\ port.dev = want
    <3>1. CASE port.dev = d
      <4>1. InLine(d, s, port, q, NoByte, top)
        BY <1>1, <1>2, <3>1, PortPutAside
      <4>2. QED BY <1>6, <2>1, <4>1
    <3>2. CASE port.dev # d
      <4>1. InLine(d, s, port, q, NoByte, top)
        BY <1>1, <1>4, <3>2, LeaveLine
      <4>2. QED BY <1>6, <2>1, <4>1
    <3>3. QED BY <3>1, <3>2
  <2>2. CASE firstByte' = firstByte
    BY <1>4, <1>6, <2>2
  <2>3. QED BY <1>6, <2>1, <2>2, ReceivedEffect
<1>7. CASE /\ firstByte # NoByte /\ firstByte' = NoByte
           /\ delivered' = Deliver(want, <<firstByte>>)
  <2>1. firstByte \in Byte /\ firstByte.dev = want /\ want \in Devices
    BY <1>1, <1>7 DEF Routing, Types
  <2>2. CASE want = d
    <3>1. /\ firstByte.n <= top
          /\ \A i \in DOMAIN s : s[i].n < firstByte.n
          /\ \A j \in DOMAIN q : firstByte.n < q[j].n
      BY <1>2, <2>1, <2>2 DEF InLine
    <3>2. InLine(d, s \o <<firstByte>>, NoByte, q, NoByte, top)
      BY <1>1, <1>3, <1>4, <2>1, <3>1, FirstDelivered
    <3>3. delivered'[d] = s \o <<firstByte>>
      BY <1>7, <2>1, <2>2, DeliverOne
    <3>4. QED BY <1>7, <3>2, <3>3
  <2>3. CASE want # d
    <3>1. delivered'[d] = s
      BY <1>7, <2>1, <2>3, DeliverOne
    <3>2. QED BY <1>4, <1>7, <3>1
  <2>4. QED BY <2>2, <2>3
<1>8. CASE /\ delivered' = Deliver(port.dev, <<port>>)
           /\ firstByte' = NoByte \/ port.dev # want
  <2>0. firstByte' = NoByte \/ firstByte' = firstByte \/ firstByte' = port
    BY ReceivedEffect
  <2>1. CASE port.dev = d
    <3>1. q = <<>>
      BY <2>1
    <3>2. /\ port.n <= top
          /\ \A i \in DOMAIN s : s[i].n < port.n
      BY <1>2, <2>1 DEF InLine
    <3>3. InLine(d, s \o <<port>>, NoByte, q, NoByte, top)
      <4>1. \A j \in DOMAIN q : port.n < q[j].n
        BY <3>1
      <4>2. QED BY <1>1, <1>3, <1>4, <3>2, <4>1, FirstDelivered
    <3>4. delivered'[d] = s \o <<port>> /\ s \o <<port>> \in Seq(Byte)
      BY <1>1, <1>8, <2>1, DeliverOne
    <3>5. firstByte' = NoByte \/ firstByte'.dev # d
      BY <1>8, <2>1, ReceivedEffect DEF Routing
    <3>6. InLine(d, s \o <<port>>, firstByte', q, NoByte, top)
      BY <1>1, <3>3, <3>4, <3>5, LeaveLine
    <3>7. QED BY <3>4, <3>6
  <2>2. CASE port.dev # d
    <3>1. delivered'[d] = s
      BY <1>3, <1>8, <2>2, DeliverOne
    <3>2. firstByte' = NoByte \/ firstByte' = firstByte
      BY <1>8, ReceivedEffect
    <3>3. QED BY <1>4, <3>1, <3>2
  <2>3. QED BY <2>1, <2>2
<1>9. QED BY <1>5, <1>6, <1>7, <1>8, ReceivedEffect

(* readDataPort polls with the controller locked, and a keyboard read only  *)
(* with an empty queue, which then stays empty.                             *)
Polling ==
  /\ at = "poll" => locked /\ (want = Keyboard => keyboardQueue = <<>>)
  /\ environment.reads = {Keyboard} => want = Keyboard

LEMMA PollingStep ==
  ASSUME Types, Routing, Polling, [Next]_vars
  PROVE  Polling'
<1>1. ASSUME NEW d \in Devices, NEW c \in 0..MaxCommands, Send(d, c) PROVE Polling'
  BY <1>1 DEF Send, Polling, reader
<1>2. CASE InterruptHandlerMouse
  BY <1>2 DEF InterruptHandlerMouse, Polling, reader
<1>3. CASE InterruptHandlerKeyboard
  BY <1>3 DEF InterruptHandlerKeyboard, Polling, reader
<1>4. CASE InterruptOccurred
  BY <1>4 DEF InterruptOccurred, Polling, reader
<1>5. CASE InterruptLoop
  BY <1>5 DEF InterruptLoop, Polling, reader
<1>6. CASE InterruptMouseData
  BY <1>6 DEF InterruptMouseData, Polling, reader
<1>7. ASSUME NEW d \in Devices, NEW exp \in BOOLEAN, NEW will \in BOOLEAN,
             BeginRead(d, exp, will)
      PROVE  Polling'
  BY <1>7 DEF BeginRead, Polling
<1>8. CASE ReadLoop
  <2>1. CASE want = Keyboard /\ keyboardQueue # <<>>
    <3>1. Head(keyboardQueue) \in Byte /\ Head(keyboardQueue).dev = want
      BY <2>1, QueueFacts DEF Types, Routing
    <3>2. at' # "poll"
      BY <1>8, <2>1, <3>1, RequestedEffect DEF ReadLoop
    <3>3. QED BY <1>8, <3>2 DEF ReadLoop, Polling
  <2>2. CASE ~(want = Keyboard /\ keyboardQueue # <<>>) /\ port # NoByte
    <3>1. port \in Byte
      BY <2>2 DEF Types
    <3>2. at' # "poll"
      BY <1>8, <2>2, <3>1, ReceivedEffect DEF ReadLoop
    <3>3. QED BY <1>8, <3>2 DEF ReadLoop, Polling
  <2>3. CASE ~(want = Keyboard /\ keyboardQueue # <<>>) /\ port = NoByte
    BY <1>8, <2>3 DEF ReadLoop, Polling
  <2>4. QED BY <2>1, <2>2, <2>3
<1>9. CASE ReadPolled
  <2>1. port \in Byte
    BY <1>9 DEF ReadPolled, Types
  <2>2. at' # "poll"
    BY <1>9, <2>1, ReceivedEffect DEF ReadPolled
  <2>3. QED BY <1>9, <2>2 DEF ReadPolled, Polling
<1>10. CASE ReadTimeout
  BY <1>10 DEF ReadTimeout, Return, Polling
<1>11. CASE UNCHANGED vars
  BY <1>11 DEF vars, Polling
<1>12. QED
  BY <1>1, <1>2, <1>3, <1>4, <1>5, <1>6, <1>7, <1>8, <1>9, <1>10, <1>11 DEF Next

(* The line of a device stays in order, provided that requests which read   *)
(* the stream of the mouse do not take keyboard bytes from the port.        *)
LEMMA LineStep ==
  ASSUME ConstantsAssumption, Types, Routing, Polling, NEW d \in Devices,
         d = Keyboard => want = Keyboard, LineOf(d), [Next]_vars
  PROVE  LineOf(d)'
<1> DEFINE s == delivered[d]
           q == QueueOf(d)
           top == sent[d]
<1>1. /\ s \in Seq(Byte) /\ q \in Seq(Byte) /\ top \in Nat
      /\ firstByte \in Byte \cup {NoByte} /\ port \in Byte \cup {NoByte}
  BY LineTypes
<1>2. InLine(d, s, firstByte, q, port, top)
  BY DEF LineOf
<1>3. NoByte.dev # d
  BY ByteFacts
<1>4. InLine(d, s, firstByte, q, NoByte, top) /\ InLine(d, s, NoByte, q, port, top)
  BY <1>1, <1>2, <1>3, LeaveLine
<1>5. ASSUME NEW e \in Devices, NEW c \in 0..MaxCommands, Send(e, c) PROVE LineOf(d)'
  <2>1. /\ port = NoByte /\ port'.dev = e /\ port'.n = sent[e] + 1
        /\ sent' = [sent EXCEPT ![e] = @ + 1]
        /\ UNCHANGED <<delivered, firstByte, keyboardQueue>>
    BY <1>5 DEF Send, reader
  <2>2. CASE e = d
    <3>1. sent'[d] = top + 1
      BY <2>1, <2>2 DEF Types
    <3>2. port' \in Byte
      BY <1>3, <2>1, <2>2, TypesStep DEF Types
    <3>3. InLine(d, s, firstByte, q, port', top + 1)
      BY <1>1, <1>2, <2>1, <2>2, <3>2, JoinLine
    <3>4. QED BY <2>1, <3>1, <3>3 DEF LineOf, QueueOf
  <2>3. CASE e # d
    <3>1. sent'[d] = top
      BY <2>1, <2>3 DEF Types
    <3>2. InLine(d, s, firstByte, q, port', top)
      BY <1>1, <1>2, <2>1, <2>3, LeaveLine
    <3>3. QED BY <2>1, <3>1, <3>2 DEF LineOf, QueueOf
  <2>4. QED BY <2>2, <2>3
<1>6. CASE InterruptHandlerMouse
  BY <1>2, <1>6 DEF InterruptHandlerMouse, reader, LineOf, QueueOf
<1>7. CASE InterruptHandlerKeyboard
  <2>1. UNCHANGED <<delivered, firstByte, sent>>
    BY <1>7 DEF InterruptHandlerKeyboard, reader
  <2>2. CASE port.dev # Keyboard
    BY <1>2, <1>7, <2>1, <2>2 DEF InterruptHandlerKeyboard, LineOf, QueueOf
  <2>3. CASE port.dev = Keyboard
    <3>1. /\ port' = NoByte
          /\ keyboardQueue' = Append(keyboardQueue, port) \/ keyboardQueue' = keyboardQueue
      BY <1>7, <2>3 DEF InterruptHandlerKeyboard, Enqueue
    <3>2. CASE d # Keyboard \/ keyboardQueue' = keyboardQueue
      BY <1>4, <2>1, <3>1, <3>2 DEF LineOf, QueueOf
    <3>3. CASE d = Keyboard /\ keyboardQueue' = Append(keyboardQueue, port)
      <4>1. port \in Byte /\ q = keyboardQueue
        BY <1>1, <1>3, <2>3, <3>3 DEF QueueOf
      <4>2. InLine(d, s, firstByte, Append(q, port), NoByte, top)
        BY <1>1, <1>2, <2>3, <3>3, <4>1, IntoQueue
      <4>3. QED BY <2>1, <3>1, <3>3, <4>1, <4>2 DEF LineOf, QueueOf
    <3>4. QED BY <3>1, <3>2, <3>3
  <2>4. QED BY <2>2, <2>3
<1>8. CASE InterruptOccurred
  BY <1>2, <1>8 DEF InterruptOccurred, reader, LineOf, QueueOf
<1>9. CASE InterruptLoop
  <2>1. UNCHANGED <<port, firstByte, sent>>
    BY <1>9 DEF InterruptLoop, reader
  <2>2. CASE keyboardQueue = <<>>
    BY <1>2, <1>9, <2>1, <2>2 DEF InterruptLoop, LineOf, QueueOf
  <2>3. CASE keyboardQueue # <<>>
    <3>1. /\ delivered' = Deliver(Keyboard, <<Head(keyboardQueue)>>)
          /\ keyboardQueue' = Tail(keyboardQueue)
      BY <1>9, <2>3 DEF InterruptLoop
    <3>2. Head(keyboardQueue) \in Byte /\ keyboardQueue \in Seq(Byte)
      BY <2>3, QueueFacts DEF Types
    <3>3. CASE d # Keyboard
      <4>1. delivered'[d] = s
        BY <3>1, <3>2, <3>3, ByteFacts, DeliverOne
      <4>2. QED BY <1>2, <2>1, <3>3, <4>1 DEF LineOf, QueueOf
    <3>4. CASE d = Keyboard
      <4>1. q = keyboardQueue /\ q # <<>>
        BY <2>3, <3>4 DEF QueueOf
      <4>2. InLine(d, s, firstByte, Tail(q), port, top) /\ Tail(q) \in Seq(Byte)
        BY <1>1, <1>2, <4>1, HeadLeavesQueue, QueueFacts
      <4>3. Head(q) = q[1] /\ 1 \in DOMAIN q
        BY <1>1, <4>1, QueueFacts
      <4>4. firstByte.dev # d
        BY <1>3, <1>9 DEF InterruptLoop, Routing
      <4>5. /\ Head(q).n <= top
            /\ \A i \in DOMAIN s : s[i].n < Head(q).n
            /\ port.dev = d => Head(q).n < port.n
        BY <1>2, <4>3 DEF InLine
      <4>6. \A j \in DOMAIN Tail(q) : Head(q).n < Tail(q)[j].n
        BY <1>1, <1>2, <4>1, AscendingTail DEF InLine
      <4>7. InLine(d, s \o <<Head(q)>>, firstByte, Tail(q), port, top)
        BY <1>1, <3>2, <4>1, <4>2, <4>4, <4>5, <4>6, FirstDelivered
      <4>8. delivered'[d] = s \o <<Head(q)>>
        BY <3>1, <3>2, <3>4, <4>1, DeliverOne
      <4>9. QED BY <2>1, <3>1, <3>4, <4>1, <4>7, <4>8 DEF LineOf, QueueOf
    <3>5. QED BY <3>3, <3>4
  <2>4. QED BY <2>2, <2>3
<1>10. CASE InterruptMouseData
  <2>1. port.dev = Mouse /\ port \in Byte /\ port # NoByte
    BY <1>10, ByteFacts DEF InterruptMouseData, Routing, Types
  <2>2. /\ delivered' = Deliver(Mouse, <<port>>) /\ port' = NoByte
        /\ UNCHANGED <<firstByte, sent, keyboardQueue>>
    BY <1>10, <2>1 DEF InterruptMouseData, reader
  <2>3. CASE d # Mouse
    <3>1. delivered'[d] = s
      BY <2>1, <2>2, <2>3, ByteFacts, DeliverOne
    <3>2. QED BY <1>4, <2>2, <3>1 DEF LineOf, QueueOf
  <2>4. CASE d = Mouse
    <3>1. q = <<>> /\ firstByte.dev # d
      BY <1>3, <1>10, <2>4, ByteFacts DEF QueueOf, InterruptMouseData, Routing
    <3>2. port.n <= top /\ \A i \in DOMAIN s : s[i].n < port.n
      BY <1>2, <2>1, <2>4 DEF InLine
    <3>3. \A j \in DOMAIN q : port.n < q[j].n
      BY <3>1
    <3>4. InLine(d, s \o <<port>>, firstByte, q, NoByte, top)
      BY <1>1, <1>3, <1>4, <2>1, <3>1, <3>2, <3>3, FirstDelivered
    <3>5. delivered'[d] = s \o <<port>>
      BY <2>1, <2>2, <2>4, DeliverOne
    <3>6. QED BY <2>2, <3>4, <3>5 DEF LineOf, QueueOf
  <2>5. QED BY <2>3, <2>4
<1>11. ASSUME NEW e \in Devices, NEW exp \in BOOLEAN, NEW will \in BOOLEAN,
              BeginRead(e, exp, will)
       PROVE  LineOf(d)'
  BY <1>4, <1>11 DEF BeginRead, LineOf, QueueOf
<1>12. CASE ReadLoop
  <2>1. CASE want = Keyboard /\ keyboardQueue # <<>>
    <3>1. /\ Requested(Head(keyboardQueue))
          /\ keyboardQueue' = Tail(keyboardQueue)
          /\ UNCHANGED <<port, sent>>
      BY <1>12, <2>1 DEF ReadLoop
    <3>2. CASE d = Keyboard
      <4>1. InLine(Keyboard, delivered'[Keyboard], firstByte', Tail(keyboardQueue), port,
                   sent[Keyboard])
        BY <2>1, <3>1, <3>2, RequestedFromQueue
      <4>2. QED BY <3>1, <3>2, <4>1 DEF LineOf, QueueOf
    <3>3. CASE d # Keyboard
      <4>1. Head(keyboardQueue) \in Byte /\ Head(keyboardQueue).dev = want
        BY <2>1, QueueFacts DEF Types, Routing
      <4>2. firstByte # NoByte => firstByte \in Byte /\ firstByte.dev = want
        BY DEF Types, Routing
      <4>3. delivered'[d] = s
        <5>1. want \in Devices /\ want # d
          BY <2>1, <3>3 DEF Types
        <5>2. \A b \in Byte : Deliver(want, <<b>>)[d] = s
          BY <5>1, DeliverOne
        <5>3. \/ delivered' = delivered
              \/ firstByte # NoByte /\ delivered' = Deliver(want, <<firstByte>>)
              \/ delivered' = Deliver(want, <<Head(keyboardQueue)>>)
          BY <3>1, <4>1, RequestedEffect
        <5>4. QED BY <4>1, <4>2, <5>2, <5>3
      <4>4. firstByte'.dev # d
        BY <1>3, <2>1, <3>1, <3>3, <4>1, RequestedEffect
      <4>5. InLine(d, s, firstByte', q, port, top)
        BY <1>1, <1>2, <4>4, LeaveLine
      <4>6. QED BY <3>1, <3>3, <4>3, <4>5 DEF LineOf, QueueOf
    <3>4. QED BY <3>2, <3>3
  <2>2. CASE ~(want = Keyboard /\ keyboardQueue # <<>>) /\ port # NoByte
    <3>1. /\ Received(port) /\ port \in Byte /\ port' = NoByte
          /\ UNCHANGED <<sent, keyboardQueue>>
      BY <1>1, <1>12, <2>2 DEF ReadLoop
    <3>2. q = <<>>
      BY <2>2 DEF QueueOf
    <3>3. InLine(d, delivered'[d], firstByte', q, NoByte, top)
      BY <3>1, <3>2, ReceivedFromPort
    <3>4. QED BY <3>1, <3>3 DEF LineOf, QueueOf
  <2>3. CASE ~(want = Keyboard /\ keyboardQueue # <<>>) /\ port = NoByte
    BY <1>2, <1>12, <2>3 DEF ReadLoop, LineOf, QueueOf
  <2>4. QED BY <2>1, <2>2, <2>3
<1>13. CASE ReadPolled
  <2>1. /\ Received(port) /\ port \in Byte /\ port' = NoByte
        /\ UNCHANGED <<sent, keyboardQueue>>
    BY <1>1, <1>13 DEF ReadPolled
  <2>2. q = <<>>
    BY <1>13 DEF ReadPolled, Polling, QueueOf
  <2>3. InLine(d, delivered'[d], firstByte', q, NoByte, top)
    BY <2>1, <2>2, ReceivedFromPort
  <2>4. QED BY <2>1, <2>3 DEF LineOf, QueueOf
<1>14. CASE ReadTimeout
  BY <1>4, <1>14 DEF ReadTimeout, Return, LineOf, QueueOf
<1>15. CASE UNCHANGED vars
  BY <1>2, <1>15 DEF vars, LineOf, QueueOf
<1>16. QED
  BY <1>5, <1>6, <1>7, <1>8, <1>9, <1>10, <1>11, <1>12, <1>13, <1>14, <1>15 DEF Next

(* The mouse driver sees the bytes of the mouse in the order they were sent,*)
(* for every size of the queue, number of bytes and commands, and whatever  *)
(* the circumstances.                                                      *)
THEOREM MouseOrdered == Spec => []MouseInOrder
<1> DEFINE Inv == Types /\ Routing /\ Polling /\ LineOf(Mouse)
<1>1. ConstantsAssumption /\ Init => Inv
  BY TypesInit DEF Init, Polling, LineOf, QueueOf, InLine, Ascending, NoByte, Mouse, Keyboard,
     Devices
<1>2. ConstantsAssumption /\ Inv /\ [Next]_vars => Inv'
  BY TypesStep, PollingStep, LineStep, ByteFacts
<1>3. Inv => MouseInOrder
  BY DEF LineOf, InLine, Ascending, MouseInOrder, InOrder
<1>4. QED
  BY <1>1, <1>2, <1>3, ConstantsAssumption, PTL DEF Spec

(* The keyboard driver sees the bytes of the keyboard in order as long as   *)
(* only keyboard commands are read.                                        *)
THEOREM KeyboardOrdered == Spec => []KeyboardInOrder
<1> DEFINE Alone == environment.reads = {Keyboard} => LineOf(Keyboard)
           Inv == Types /\ Routing /\ Polling /\ Alone
<1>1. ConstantsAssumption /\ Init => Inv
  BY TypesInit DEF Init, Polling, LineOf, QueueOf, InLine, Ascending, NoByte, Mouse, Keyboard,
     Devices
<1>2. ConstantsAssumption /\ Inv /\ [Next]_vars => Inv'
  <2> SUFFICES ASSUME ConstantsAssumption, Inv, [Next]_vars PROVE Inv'
    OBVIOUS
  <2>1. Types' /\ Routing' /\ Polling'
    BY TypesStep, PollingStep
  <2>2. environment' = environment
    BY DEF Next, vars, Send, InterruptHandlerMouse, InterruptHandlerKeyboard, InterruptOccurred,
       InterruptLoop, InterruptMouseData, BeginRead, ReadLoop, ReadPolled, ReadTimeout
  <2>3. ASSUME environment.reads = {Keyboard} PROVE LineOf(Keyboard)'
    BY <2>3, LineStep, ByteFacts DEF Polling
  <2>4. QED BY <2>1, <2>2, <2>3
<1>3. Inv => KeyboardInOrder
  BY DEF LineOf, InLine, Ascending, KeyboardInOrder, InOrder
<1>4. QED
  BY <1>1, <1>2, <1>3, ConstantsAssumption, PTL DEF Spec

-----------------------------------------------------------------------------
(* Each byte is in one place: moving one byte takes one from the count of   *)
(* the place it leaves and adds one to the count of the place it reaches.   *)
Found(s, d, n) == {i \in DOMAIN s : s[i].dev = d /\ s[i].n = n}
LostCount(d, n) == Cardinality({b \in lost : b.dev = d /\ b.n = n})
GivenCount(d, n) == Occurrences(delivered[Keyboard], d, n) + Occurrences(delivered[Mouse], d, n)
Total(d, n) ==
  Is(port, d, n) + Is(firstByte, d, n) + Occurrences(keyboardQueue, d, n) + GivenCount(d, n)
    + LostCount(d, n)

(* What a device has sent is somewhere once, what it has not sent nowhere.  *)
Conserved ==
  /\ lost \subseteq Byte /\ IsFiniteSet(lost)
  /\ ~expecting => firstByte = NoByte
  /\ \A d \in Devices : \A n \in Nat : Total(d, n) = IF n \in 1 .. sent[d] THEN 1 ELSE 0

LEMMA FoundFinite ==
  ASSUME NEW s \in Seq(Byte), NEW d, NEW n
  PROVE  /\ IsFiniteSet(Found(s, d, n)) /\ Cardinality(Found(s, d, n)) \in Nat
         /\ Occurrences(s, d, n) = Cardinality(Found(s, d, n)) /\ Occurrences(s, d, n) \in Nat
<1>1. IsFiniteSet(1 .. Len(s)) /\ DOMAIN s = 1 .. Len(s)
  BY FS_Interval
<1>2. IsFiniteSet(Found(s, d, n))
  BY <1>1, FS_Subset DEF Found
<1>3. Occurrences(s, d, n) = Cardinality(Found(s, d, n))
  BY DEF Occurrences, Found
<1> QED
  BY <1>2, <1>3, FS_CardinalityType

LEMMA IsFacts ==
  /\ \A b, d, n : Is(b, d, n) \in {0, 1}
  /\ \A d \in Devices : \A n : Is(NoByte, d, n) = 0
  /\ \A b : Is(b, b.dev, b.n) = 1
  BY ByteFacts DEF Is

LEMMA NothingOccurs == \A d, n : Occurrences(<<>>, d, n) = 0
<1> TAKE d, n
<1>1. {i \in DOMAIN <<>> : <<>>[i].dev = d /\ <<>>[i].n = n} = {}
  OBVIOUS
<1> QED
  BY <1>1, FS_EmptySet DEF Occurrences

LEMMA OccurrencesAppend ==
  ASSUME NEW s \in Seq(Byte), NEW b \in Byte, NEW d, NEW n
  PROVE  /\ Occurrences(s \o <<b>>, d, n) = Occurrences(s, d, n) + Is(b, d, n)
         /\ Occurrences(Append(s, b), d, n) = Occurrences(s, d, n) + Is(b, d, n)
<1> DEFINE t == s \o <<b>>
           F == Found(s, d, n)
<1>1. /\ t \in Seq(Byte) /\ Len(t) = Len(s) + 1
      /\ \A i \in 1 .. Len(s) : t[i] = s[i]
      /\ t[Len(s) + 1] = b
  OBVIOUS
<1>2. /\ DOMAIN s = 1 .. Len(s) /\ DOMAIN t = 1 .. Len(t) /\ Len(s) \in Nat
  BY <1>1
<1>3. DOMAIN t = DOMAIN s \cup {Len(s) + 1} /\ Len(s) + 1 \notin DOMAIN s
  BY <1>1, <1>2
<1>4. IsFiniteSet(F) /\ Occurrences(s, d, n) = Cardinality(F) /\ Cardinality(F) \in Nat
  BY FoundFinite
<1>5. Len(s) + 1 \notin F
  BY <1>3 DEF Found
<1>6. Occurrences(t, d, n) = Cardinality(Found(t, d, n))
  BY DEF Occurrences, Found
<1>0. Append(s, b) = t
  BY AppendIsConcat
<1>7. CASE b.dev = d /\ b.n = n
  <2>1. Found(t, d, n) = F \cup {Len(s) + 1}
    BY <1>1, <1>2, <1>3, <1>7 DEF Found
  <2>2. Cardinality(F \cup {Len(s) + 1}) = Cardinality(F) + 1
    BY <1>4, <1>5, FS_AddElement
  <2> QED
    <3>1. Is(b, d, n) = 1
      BY <1>7 DEF Is
    <3> HIDE DEF F, t
    <3>2. Occurrences(t, d, n) = Occurrences(s, d, n) + Is(b, d, n)
      BY <1>4, <1>6, <2>1, <2>2, <3>1
    <3> QED
      BY <1>0, <3>2 DEF t
<1>8. CASE ~(b.dev = d /\ b.n = n)
  <2>1. Found(t, d, n) = F
    BY <1>1, <1>2, <1>3, <1>8 DEF Found
  <2> QED
    <3>1. Is(b, d, n) = 0
      BY <1>8 DEF Is
    <3> HIDE DEF F, t
    <3>2. Occurrences(t, d, n) = Occurrences(s, d, n) + Is(b, d, n)
      BY <1>4, <1>6, <2>1, <3>1
    <3> QED
      BY <1>0, <3>2 DEF t
<1> QED
  BY <1>7, <1>8

LEMMA OccurrencesTail ==
  ASSUME NEW q \in Seq(Byte), q # <<>>, NEW d, NEW n
  PROVE  Occurrences(q, d, n) = Is(Head(q), d, n) + Occurrences(Tail(q), d, n)
<1> DEFINE F == Found(Tail(q), d, n)
           G == {i \in DOMAIN q : i # 1 /\ q[i].dev = d /\ q[i].n = n}
           shift == [i \in F |-> i + 1]
<1>1. /\ Head(q) = q[1] /\ Len(q) \in Nat \ {0} /\ DOMAIN q = 1 .. Len(q)
      /\ Tail(q) \in Seq(Byte) /\ DOMAIN Tail(q) = 1 .. Len(q) - 1
      /\ \A i \in DOMAIN Tail(q) : Tail(q)[i] = q[i + 1]
  BY HeadTailProperties
<1>2. IsFiniteSet(F) /\ Occurrences(Tail(q), d, n) = Cardinality(F) /\ Cardinality(F) \in Nat
  BY <1>1, FoundFinite
<1>3. \A i \in F : i + 1 \in G
  BY <1>1 DEF Found
<1>4. \A j \in G : j - 1 \in F /\ j = (j - 1) + 1
  BY <1>1 DEF Found
<1>5. \A i \in F, j \in F : i + 1 = j + 1 => i = j
  BY <1>1 DEF Found
<1>6. shift \in Bijection(F, G)
  <2>1. shift \in [F -> G]
    BY <1>3
  <2>2. \A i \in F, j \in F : shift[i] = shift[j] => i = j
    BY <1>5
  <2>3. \A j \in G : \E i \in F : shift[i] = j
    BY <1>4
  <2> QED
    BY <2>1, <2>2, <2>3 DEF Bijection, Injection, Surjection, IsInjective
<1>7. IsFiniteSet(G) /\ Cardinality(G) = Cardinality(F)
  BY <1>2, <1>6, FS_Bijection DEF ExistsBijection
<1>8. Occurrences(q, d, n) = Cardinality(Found(q, d, n))
  BY DEF Occurrences, Found
<1> HIDE DEF F, shift
<1>9. CASE q[1].dev = d /\ q[1].n = n
  <2>1. Found(q, d, n) = G \cup {1} /\ 1 \notin G
    BY <1>1, <1>9 DEF Found
  <2>2. Cardinality(G \cup {1}) = Cardinality(G) + 1
    BY <1>7, <2>1, FS_AddElement
  <2>3. Is(Head(q), d, n) = 1
    BY <1>1, <1>9 DEF Is
  <2> HIDE DEF G
  <2> QED
    BY <1>2, <1>7, <1>8, <2>1, <2>2, <2>3
<1>10. CASE ~(q[1].dev = d /\ q[1].n = n)
  <2>1. Found(q, d, n) = G
    BY <1>10 DEF Found
  <2>2. Is(Head(q), d, n) = 0
    BY <1>1, <1>10 DEF Is
  <2> HIDE DEF G
  <2> QED
    BY <1>2, <1>7, <1>8, <2>1, <2>2
<1> QED
  BY <1>9, <1>10

LEMMA CountTypes ==
  ASSUME Types, lost \subseteq Byte, IsFiniteSet(lost), NEW d, NEW n
  PROVE  /\ Is(port, d, n) \in Nat /\ Is(firstByte, d, n) \in Nat
         /\ Occurrences(keyboardQueue, d, n) \in Nat
         /\ GivenCount(d, n) \in Nat /\ LostCount(d, n) \in Nat
<1>1. Is(port, d, n) \in Nat /\ Is(firstByte, d, n) \in Nat
  BY IsFacts
<1>2. keyboardQueue \in Seq(Byte) /\ delivered[Keyboard] \in Seq(Byte) /\ delivered[Mouse] \in Seq(Byte)
  BY ByteFacts DEF Types
<1>3. /\ Occurrences(keyboardQueue, d, n) \in Nat /\ Occurrences(delivered[Keyboard], d, n) \in Nat
      /\ Occurrences(delivered[Mouse], d, n) \in Nat
  BY <1>2, FoundFinite
<1>4. IsFiniteSet({b \in lost : b.dev = d /\ b.n = n})
  BY FS_Subset
<1>5. LostCount(d, n) \in Nat
  BY <1>4, FS_CardinalityType DEF LostCount
<1> QED
  BY <1>1, <1>3, <1>5 DEF GivenCount

(* Giving a byte to a driver. *)
LEMMA GiveCounts ==
  ASSUME Types, NEW e \in Devices, NEW b \in Byte, delivered' = Deliver(e, <<b>>), NEW d, NEW n
  PROVE  GivenCount(d, n)' = GivenCount(d, n) + Is(b, d, n)
<1>1. /\ delivered'[e] = delivered[e] \o <<b>>
      /\ \A c \in Devices : c # e => delivered'[c] = delivered[c]
  BY DeliverOne
<1>2. delivered[Keyboard] \in Seq(Byte) /\ delivered[Mouse] \in Seq(Byte)
  BY ByteFacts DEF Types
<1>3. /\ Occurrences(delivered[Keyboard], d, n) \in Nat
      /\ Occurrences(delivered[Mouse], d, n) \in Nat /\ Is(b, d, n) \in Nat
  BY <1>2, FoundFinite, IsFacts
<1>4. CASE e = Keyboard
  <2>1. Occurrences(delivered'[Keyboard], d, n) = Occurrences(delivered[Keyboard], d, n) + Is(b, d, n)
    <3>1. Occurrences(delivered[Keyboard] \o <<b>>, d, n) = Occurrences(delivered[Keyboard], d, n) + Is(b, d, n)
      BY <1>2, OccurrencesAppend
    <3> QED
      BY <1>1, <1>4, <3>1
  <2>2. delivered'[Mouse] = delivered[Mouse]
    BY <1>1, <1>4, ByteFacts
  <2> QED
    BY <1>3, <2>1, <2>2 DEF GivenCount
<1>5. CASE e = Mouse
  <2>1. Occurrences(delivered'[Mouse], d, n) = Occurrences(delivered[Mouse], d, n) + Is(b, d, n)
    <3>1. Occurrences(delivered[Mouse] \o <<b>>, d, n) = Occurrences(delivered[Mouse], d, n) + Is(b, d, n)
      BY <1>2, OccurrencesAppend
    <3> QED
      BY <1>1, <1>5, <3>1
  <2>2. delivered'[Keyboard] = delivered[Keyboard]
    BY <1>1, <1>5, ByteFacts
  <2> QED
    BY <1>3, <2>1, <2>2 DEF GivenCount
<1> QED
  BY <1>4, <1>5, ByteFacts

(* Returning a byte to a request, or dropping it. *)
LEMMA LoseCounts ==
  ASSUME lost \subseteq Byte, IsFiniteSet(lost), NEW b \in Byte, b \notin lost,
         lost' = lost \cup {b}, NEW d, NEW n
  PROVE  /\ LostCount(d, n)' = LostCount(d, n) + Is(b, d, n)
         /\ lost' \subseteq Byte /\ IsFiniteSet(lost')
<1> DEFINE F == {c \in lost : c.dev = d /\ c.n = n}
           G == {c \in lost' : c.dev = d /\ c.n = n}
<1>1. IsFiniteSet(F) /\ Cardinality(F) \in Nat
  BY FS_Subset, FS_CardinalityType
<1>2. b \notin F
  OBVIOUS
<1>3. lost' \subseteq Byte /\ IsFiniteSet(lost')
  BY FS_AddElement
<1>4. LostCount(d, n) = Cardinality(F) /\ LostCount(d, n)' = Cardinality(G)
  BY DEF LostCount
<1>5. CASE b.dev = d /\ b.n = n
  <2>1. G = F \cup {b}
    BY <1>5
  <2>2. Cardinality(F \cup {b}) = Cardinality(F) + 1
    BY <1>1, <1>2, FS_AddElement
  <2>3. Is(b, d, n) = 1
    BY <1>5 DEF Is
  <2> HIDE DEF F, G
  <2> QED
    BY <1>3, <1>4, <2>1, <2>2, <2>3
<1>6. CASE ~(b.dev = d /\ b.n = n)
  <2>1. G = F
    BY <1>6
  <2>2. Is(b, d, n) = 0
    BY <1>6 DEF Is
  <2> HIDE DEF F, G
  <2> QED
    BY <1>1, <1>3, <1>4, <2>1, <2>2
<1> QED
  BY <1>5, <1>6

(* A byte that is still on its way has not been returned or dropped.        *)
LEMMA NotLostYet ==
  ASSUME Types, Conserved, NEW b \in Byte,
         \/ b = port \/ b = firstByte
         \/ keyboardQueue # <<>> /\ b = Head(keyboardQueue)
  PROVE  b \notin lost
<1> DEFINE d == b.dev
           n == b.n
           F == {c \in lost : c.dev = d /\ c.n = n}
<1>1. d \in Devices /\ n \in Nat
  BY ByteFacts
<1>2. lost \subseteq Byte /\ IsFiniteSet(lost) /\ IsFiniteSet(F)
  BY FS_Subset DEF Conserved
<1>3. Total(d, n) \in {0, 1}
  BY <1>1 DEF Conserved
<1>4. Is(b, d, n) = 1
  BY IsFacts
<1>5. /\ Is(port, d, n) \in Nat /\ Is(firstByte, d, n) \in Nat
      /\ Occurrences(keyboardQueue, d, n) \in Nat
      /\ GivenCount(d, n) \in Nat /\ LostCount(d, n) \in Nat
  BY <1>2, CountTypes
<1>6. keyboardQueue # <<>> /\ b = Head(keyboardQueue) => Occurrences(keyboardQueue, d, n) >= 1
  <2> SUFFICES ASSUME keyboardQueue # <<>>, b = Head(keyboardQueue)
               PROVE  Occurrences(keyboardQueue, d, n) >= 1
    OBVIOUS
  <2>1. keyboardQueue \in Seq(Byte) /\ Tail(keyboardQueue) \in Seq(Byte)
    BY QueueFacts DEF Types
  <2>2. Occurrences(keyboardQueue, d, n) = 1 + Occurrences(Tail(keyboardQueue), d, n)
    BY <1>4, <2>1, OccurrencesTail
  <2>3. Occurrences(Tail(keyboardQueue), d, n) \in Nat
    BY <2>1, FoundFinite
  <2> QED
    BY <2>2, <2>3
<1>7. LostCount(d, n) = Cardinality(F)
  BY DEF LostCount
<1>8. F = {} => b \notin lost
  OBVIOUS
<1> HIDE DEF d, n, F
<1>9. LostCount(d, n) = 0
  BY <1>3, <1>4, <1>5, <1>6 DEF Total
<1> QED
  BY <1>2, <1>7, <1>8, <1>9, FS_EmptySet

(* The counts of a state apart from the port and the keyboard queue. *)
Rest(d, n) == Is(firstByte, d, n) + GivenCount(d, n) + LostCount(d, n)
LostOk == lost \subseteq Byte /\ IsFiniteSet(lost)

LEMMA RestTypes ==
  ASSUME Types, LostOk, NEW d, NEW n
  PROVE  /\ Is(port, d, n) \in Nat /\ Occurrences(keyboardQueue, d, n) \in Nat
         /\ Is(firstByte, d, n) \in Nat /\ GivenCount(d, n) \in Nat /\ LostCount(d, n) \in Nat
         /\ Rest(d, n) \in Nat
         /\ Total(d, n) = Is(port, d, n) + Occurrences(keyboardQueue, d, n) + Rest(d, n)
<1>1. /\ Is(port, d, n) \in Nat /\ Is(firstByte, d, n) \in Nat
      /\ Occurrences(keyboardQueue, d, n) \in Nat
      /\ GivenCount(d, n) \in Nat /\ LostCount(d, n) \in Nat
  BY CountTypes DEF LostOk
<1> QED
  BY <1>1 DEF Rest, Total

(* readDataPort returns a byte or none. *)
LEMMA ReturnCounts ==
  ASSUME LostOk, NEW b \in Byte \cup {NoByte}, b \notin lost, Return(b),
         NEW d \in Devices, NEW n
  PROVE  /\ LostCount(d, n)' = LostCount(d, n) + Is(b, d, n) /\ LostOk'
         /\ Is(firstByte', d, n) = 0
<1>1. firstByte' = NoByte /\ Is(NoByte, d, n) = 0
  BY IsFacts DEF Return
<1>2. CASE b = NoByte
  <2>1. lost' = lost
    BY <1>2 DEF Return
  <2>2. LostCount(d, n)' = LostCount(d, n) /\ LostOk'
    BY <2>1 DEF LostCount, LostOk
  <2>3. LostCount(d, n) \in Nat
    BY FS_Subset, FS_CardinalityType DEF LostCount, LostOk
  <2> QED
    BY <1>1, <1>2, <2>2, <2>3
<1>3. CASE b # NoByte
  BY <1>1, <1>3, LoseCounts DEF Return, LostOk
<1> QED
  BY <1>2, <1>3

(* readDataPort's decision about a byte loses none and duplicates none.     *)
LEMMA RequestedConserves ==
  ASSUME Types, Routing, LostOk, ~expecting => firstByte = NoByte,
         NEW b \in Byte, b.dev = want, Requested(b),
         b \notin lost, firstByte \notin lost, NEW d \in Devices, NEW n
  PROVE  Rest(d, n)' = Rest(d, n) + Is(b, d, n) /\ LostOk'
<1>1. /\ Is(firstByte, d, n) \in Nat /\ GivenCount(d, n) \in Nat /\ LostCount(d, n) \in Nat
      /\ Is(b, d, n) \in Nat /\ Is(NoByte, d, n) = 0 /\ want \in Devices
      /\ firstByte \in Byte \cup {NoByte}
  <2>1. Is(b, d, n) \in Nat /\ Is(NoByte, d, n) = 0
    BY IsFacts
  <2> QED
    BY <2>1, RestTypes DEF Types
<1>2. delivered' = delivered => GivenCount(d, n)' = GivenCount(d, n)
  BY DEF GivenCount
<1>3. CASE Return(b) /\ firstByte = NoByte /\ delivered' = delivered
  <2>1. /\ LostCount(d, n)' = LostCount(d, n) + Is(b, d, n) /\ LostOk'
        /\ Is(firstByte', d, n) = 0
    BY <1>3, ReturnCounts
  <2>2. Is(firstByte, d, n) = 0
    BY <1>1, <1>3
  <2> QED
    BY <1>1, <1>2, <1>3, <2>1, <2>2 DEF Rest
<1>4. CASE Return(b) /\ firstByte # NoByte /\ delivered' = Deliver(want, <<firstByte>>)
  <2>1. /\ LostCount(d, n)' = LostCount(d, n) + Is(b, d, n) /\ LostOk'
        /\ Is(firstByte', d, n) = 0
    BY <1>4, ReturnCounts
  <2>2. GivenCount(d, n)' = GivenCount(d, n) + Is(firstByte, d, n)
    BY <1>1, <1>4, GiveCounts
  <2> QED
    BY <1>1, <2>1, <2>2 DEF Rest
<1>5. CASE Return(firstByte) /\ delivered' = Deliver(want, <<b>>)
  <2>1. /\ LostCount(d, n)' = LostCount(d, n) + Is(firstByte, d, n) /\ LostOk'
        /\ Is(firstByte', d, n) = 0
    BY <1>1, <1>5, ReturnCounts
  <2>2. GivenCount(d, n)' = GivenCount(d, n) + Is(b, d, n)
    BY <1>1, <1>5, GiveCounts
  <2> QED
    BY <1>1, <2>1, <2>2 DEF Rest
<1>6. CASE firstByte = NoByte /\ firstByte' = b /\ UNCHANGED <<lost, delivered>>
  <2>1. Is(firstByte, d, n) = 0 /\ Is(firstByte', d, n) = Is(b, d, n)
    BY <1>1, <1>6
  <2>2. LostCount(d, n)' = LostCount(d, n) /\ LostOk'
    BY <1>6 DEF LostCount, LostOk
  <2> QED
    BY <1>1, <1>2, <1>6, <2>1, <2>2 DEF Rest
<1>7. firstByte = NoByte /\ delivered' = Deliver(want, <<>>) => delivered' = delivered
  BY <1>1, DeliverNothing
<1> QED
  BY <1>3, <1>4, <1>5, <1>6, <1>7 DEF Requested

LEMMA ReceivedConserves ==
  ASSUME Types, Routing, LostOk, ~expecting => firstByte = NoByte,
         NEW b \in Byte, Received(b), b \notin lost, firstByte \notin lost, NEW d \in Devices, NEW n
  PROVE  Rest(d, n)' = Rest(d, n) + Is(b, d, n) /\ LostOk'
<1>1. CASE b.dev = want
  BY <1>1, RequestedConserves DEF Received
<1>2. CASE b.dev # want
  <2>1. /\ delivered' = Deliver(Other(want), <<b>>) /\ Other(want) \in Devices
        /\ UNCHANGED <<firstByte, lost>>
    BY <1>2, ByteFacts DEF Received, Other
  <2>2. GivenCount(d, n)' = GivenCount(d, n) + Is(b, d, n)
    BY <2>1, GiveCounts
  <2>3. /\ Is(firstByte', d, n) = Is(firstByte, d, n) /\ LostCount(d, n)' = LostCount(d, n) /\ LostOk'
    BY <2>1 DEF LostCount, LostOk
  <2>4. /\ Is(firstByte, d, n) \in Nat /\ GivenCount(d, n) \in Nat /\ LostCount(d, n) \in Nat
        /\ Is(b, d, n) \in Nat
    BY RestTypes, IsFacts
  <2> QED
    BY <2>2, <2>3, <2>4 DEF Rest
<1> QED
  BY <1>1, <1>2

(* firstByte is only used by the variant with an expected byte.             *)
LEMMA PutAsideWhenExpecting ==
  ASSUME Types, Routing, ~expecting => firstByte = NoByte, [Next]_vars
  PROVE  (~expecting => firstByte = NoByte)'
<1>1. ASSUME NEW b, Requested(b) PROVE ~expecting => firstByte' = NoByte
  BY <1>1 DEF Requested, Return
<1>2. ASSUME NEW b, Received(b) PROVE ~expecting => firstByte' = NoByte
  BY <1>1, <1>2 DEF Received
<1>3. ASSUME NEW d \in Devices, NEW exp \in BOOLEAN, NEW will \in BOOLEAN, BeginRead(d, exp, will)
      PROVE  firstByte' = NoByte
  BY <1>3 DEF BeginRead
<1>4. CASE ReadLoop \/ ReadPolled
  BY <1>1, <1>2, <1>4 DEF ReadLoop, ReadPolled
<1>5. CASE ReadTimeout
  BY <1>5 DEF ReadTimeout, Return
<1>6. CASE UNCHANGED <<expecting, firstByte>>
  BY <1>6
<1> QED
  BY <1>3, <1>4, <1>5, <1>6
  DEF Next, vars, reader, Send, InterruptHandlerMouse, InterruptHandlerKeyboard,
      InterruptOccurred, InterruptLoop, InterruptMouseData

SumForm == \A d, n :
  /\ Is(port, d, n) \in Nat /\ Occurrences(keyboardQueue, d, n) \in Nat /\ Rest(d, n) \in Nat
  /\ Total(d, n) = Is(port, d, n) + Occurrences(keyboardQueue, d, n) + Rest(d, n)

LEMMA Summed == Types /\ LostOk => SumForm
  BY RestTypes DEF SumForm

LEMMA SummedNext == Types' /\ LostOk' => SumForm'
  BY Summed, PTL

(* A byte leaves the port and is received, dropped, queued or given. *)
LEMMA PortEmptied ==
  ASSUME Types, Types', LostOk, LostOk', NEW d \in Devices, NEW n, port' = NoByte,
         \/ /\ Rest(d, n)' = Rest(d, n) + Is(port, d, n)
            /\ Occurrences(keyboardQueue', d, n) = Occurrences(keyboardQueue, d, n)
         \/ /\ Rest(d, n)' = Rest(d, n)
            /\ Occurrences(keyboardQueue', d, n) = Occurrences(keyboardQueue, d, n) + Is(port, d, n)
  PROVE  Total(d, n)' = Total(d, n)
<1>1. Is(port', d, n) = 0
  BY IsFacts
<1>2. SumForm /\ SumForm'
  BY Summed, SummedNext
<1>3. /\ Is(port, d, n) \in Nat /\ Occurrences(keyboardQueue, d, n) \in Nat /\ Rest(d, n) \in Nat
      /\ Total(d, n) = Is(port, d, n) + Occurrences(keyboardQueue, d, n) + Rest(d, n)
      /\ Occurrences(keyboardQueue', d, n) \in Nat /\ Rest(d, n)' \in Nat
      /\ Total(d, n)' = Is(port', d, n) + Occurrences(keyboardQueue', d, n) + Rest(d, n)'
  BY <1>2 DEF SumForm
<1> QED
  BY <1>1, <1>3

(* The head of the keyboard queue is received or given. *)
LEMMA HeadTaken ==
  ASSUME Types, Types', LostOk, LostOk', NEW d \in Devices, NEW n, port' = port,
         keyboardQueue # <<>>, keyboardQueue' = Tail(keyboardQueue),
         Rest(d, n)' = Rest(d, n) + Is(Head(keyboardQueue), d, n)
  PROVE  Total(d, n)' = Total(d, n)
<1>1. Occurrences(keyboardQueue, d, n) =
        Is(Head(keyboardQueue), d, n) + Occurrences(Tail(keyboardQueue), d, n)
  BY OccurrencesTail DEF Types
<1>2. SumForm /\ SumForm'
  BY Summed, SummedNext
<1>3. /\ Is(port, d, n) \in Nat /\ Occurrences(keyboardQueue, d, n) \in Nat /\ Rest(d, n) \in Nat
      /\ Total(d, n) = Is(port, d, n) + Occurrences(keyboardQueue, d, n) + Rest(d, n)
      /\ Occurrences(keyboardQueue', d, n) \in Nat /\ Rest(d, n)' \in Nat
      /\ Total(d, n)' = Is(port', d, n) + Occurrences(keyboardQueue', d, n) + Rest(d, n)'
  BY <1>2 DEF SumForm
<1>4. Is(Head(keyboardQueue), d, n) \in Nat /\ Is(port', d, n) = Is(port, d, n)
      /\ Occurrences(keyboardQueue', d, n) = Occurrences(Tail(keyboardQueue), d, n)
  BY IsFacts
<1> QED
  BY <1>1, <1>3, <1>4

(* A byte given to a driver while nothing is put aside or lost. *)
LEMMA GivenRest ==
  ASSUME Types, LostOk, NEW e \in Devices, NEW b \in Byte, delivered' = Deliver(e, <<b>>),
         UNCHANGED <<firstByte, lost>>, NEW d, NEW n
  PROVE  Rest(d, n)' = Rest(d, n) + Is(b, d, n) /\ LostOk'
<1>1. GivenCount(d, n)' = GivenCount(d, n) + Is(b, d, n)
  BY GiveCounts
<1>2. /\ Is(firstByte', d, n) = Is(firstByte, d, n) /\ LostCount(d, n)' = LostCount(d, n) /\ LostOk'
  BY DEF LostCount, LostOk
<1>3. /\ Is(firstByte, d, n) \in Nat /\ GivenCount(d, n) \in Nat /\ LostCount(d, n) \in Nat
  BY RestTypes
<1>4. Is(b, d, n) \in Nat
  BY IsFacts
<1> QED
  BY <1>1, <1>2, <1>3, <1>4 DEF Rest

LEMMA NothingMoves ==
  ASSUME LostOk, NEW d, NEW n, UNCHANGED <<port, firstByte, keyboardQueue, delivered, lost>>
  PROVE  Total(d, n)' = Total(d, n) /\ LostOk'
  BY DEF Total, GivenCount, LostCount, LostOk

(* Every step but Send keeps the number of places a byte is in. *)
LEMMA StepConserves ==
  ASSUME Types, Types', Routing, Conserved, NEW d \in Devices, NEW n, [Next]_vars,
         ~(\E e \in Devices, c \in 0 .. MaxCommands : Send(e, c))
  PROVE  Total(d, n)' = Total(d, n) /\ LostOk'
<1>1. LostOk /\ (~expecting => firstByte = NoByte) /\ firstByte \notin lost
  <2>1. firstByte \notin lost
    BY NotLostYet, ByteFacts DEF Types, Conserved
  <2> QED
    BY <2>1 DEF Conserved, LostOk
<1>2. port # NoByte => port \in Byte /\ port \notin lost
  BY NotLostYet DEF Types
<1>3. keyboardQueue # <<>> =>
        /\ Head(keyboardQueue) \in Byte /\ Head(keyboardQueue) \notin lost
        /\ Head(keyboardQueue).dev = Keyboard
  BY NotLostYet, QueueFacts DEF Types, Routing
<1>4. CASE InterruptHandlerKeyboard
  <2>1. CASE port.dev = Keyboard
    <3>1. /\ port \in Byte /\ port \notin lost /\ port' = NoByte /\ Enqueue(port)
          /\ UNCHANGED <<firstByte, delivered>>
      BY <1>2, <1>4, <2>1, ByteFacts DEF InterruptHandlerKeyboard, reader
    <3>2. CASE keyboardQueue' = Append(keyboardQueue, port) /\ lost' = lost
      <4>1. Rest(d, n)' = Rest(d, n) /\ LostOk'
        BY <1>1, <3>1, <3>2 DEF Rest, GivenCount, LostCount, LostOk
      <4>2. Occurrences(Append(keyboardQueue, port), d, n) =
              Occurrences(keyboardQueue, d, n) + Is(port, d, n)
        <5>1. keyboardQueue \in Seq(Byte) /\ port \in Byte
          BY <3>1 DEF Types
        <5> QED
          BY <5>1, OccurrencesAppend
      <4>3. Occurrences(keyboardQueue', d, n) = Occurrences(keyboardQueue, d, n) + Is(port, d, n)
        BY <3>2, <4>2
      <4> QED
        BY <1>1, <3>1, <4>1, <4>3, PortEmptied
    <3>3. CASE lost' = lost \cup {port} /\ keyboardQueue' = keyboardQueue
      <4>1. LostCount(d, n)' = LostCount(d, n) + Is(port, d, n) /\ LostOk'
        BY <1>1, <3>1, <3>3, LoseCounts DEF LostOk
      <4>2. /\ Is(firstByte', d, n) = Is(firstByte, d, n) /\ GivenCount(d, n)' = GivenCount(d, n)
            /\ Occurrences(keyboardQueue', d, n) = Occurrences(keyboardQueue, d, n)
        BY <3>1, <3>3 DEF GivenCount
      <4>3. /\ Is(firstByte, d, n) \in Nat /\ GivenCount(d, n) \in Nat /\ LostCount(d, n) \in Nat
            /\ Is(port, d, n) \in Nat
        BY <1>1, RestTypes
      <4>4. Rest(d, n)' = Rest(d, n) + Is(port, d, n)
        BY <4>1, <4>2, <4>3 DEF Rest
      <4> QED
        BY <1>1, <3>1, <4>1, <4>2, <4>4, PortEmptied
    <3> QED
      BY <3>1, <3>2, <3>3 DEF Enqueue
  <2>2. CASE port.dev # Keyboard
    BY <1>1, <1>4, <2>2, NothingMoves DEF InterruptHandlerKeyboard, reader
  <2> QED
    BY <2>1, <2>2
<1>5. CASE InterruptLoop
  <2>1. CASE keyboardQueue # <<>>
    <3>1. /\ delivered' = Deliver(Keyboard, <<Head(keyboardQueue)>>)
          /\ keyboardQueue' = Tail(keyboardQueue) /\ UNCHANGED <<port, firstByte, lost>>
      BY <1>5, <2>1 DEF InterruptLoop, reader
    <3>2. Rest(d, n)' = Rest(d, n) + Is(Head(keyboardQueue), d, n) /\ LostOk'
      BY <1>1, <1>3, <2>1, <3>1, ByteFacts, GivenRest
    <3> QED
      BY <1>1, <2>1, <3>1, <3>2, HeadTaken
  <2>2. CASE keyboardQueue = <<>>
    BY <1>1, <1>5, <2>2, NothingMoves DEF InterruptLoop, reader
  <2> QED
    BY <2>1, <2>2
<1>6. CASE InterruptMouseData
  <2>1. port # NoByte /\ port \in Byte
    BY <1>2, <1>6, ByteFacts DEF InterruptMouseData, Routing
  <2>2. /\ delivered' = Deliver(Mouse, <<port>>) /\ port' = NoByte
        /\ UNCHANGED <<firstByte, lost, keyboardQueue>>
    BY <1>6, <2>1 DEF InterruptMouseData, reader
  <2>3. Rest(d, n)' = Rest(d, n) + Is(port, d, n) /\ LostOk'
    BY <1>1, <2>1, <2>2, ByteFacts, GivenRest
  <2>4. Occurrences(keyboardQueue', d, n) = Occurrences(keyboardQueue, d, n)
    BY <2>2
  <2> QED
    BY <1>1, <2>2, <2>3, <2>4, PortEmptied
<1>7. ASSUME NEW e \in Devices, NEW exp \in BOOLEAN, NEW will \in BOOLEAN, BeginRead(e, exp, will)
      PROVE  Total(d, n)' = Total(d, n) /\ LostOk'
  <2>1. firstByte = NoByte
    BY <1>7 DEF BeginRead, Routing
  <2> QED
    BY <1>1, <1>7, <2>1, NothingMoves DEF BeginRead
<1>8. CASE ReadLoop
  <2>1. CASE want = Keyboard /\ keyboardQueue # <<>>
    <3>1. /\ Requested(Head(keyboardQueue)) /\ keyboardQueue' = Tail(keyboardQueue)
          /\ port' = port
      BY <1>8, <2>1 DEF ReadLoop
    <3>2. Rest(d, n)' = Rest(d, n) + Is(Head(keyboardQueue), d, n) /\ LostOk'
      BY <1>1, <1>3, <2>1, <3>1, RequestedConserves
    <3> QED
      BY <1>1, <2>1, <3>1, <3>2, HeadTaken
  <2>2. CASE ~(want = Keyboard /\ keyboardQueue # <<>>) /\ port # NoByte
    <3>1. Received(port) /\ port' = NoByte /\ keyboardQueue' = keyboardQueue
      BY <1>8, <2>2 DEF ReadLoop
    <3>2. Rest(d, n)' = Rest(d, n) + Is(port, d, n) /\ LostOk'
      BY <1>1, <1>2, <2>2, <3>1, ReceivedConserves
    <3>3. Occurrences(keyboardQueue', d, n) = Occurrences(keyboardQueue, d, n)
      BY <3>1
    <3> QED
      BY <1>1, <3>1, <3>2, <3>3, PortEmptied
  <2>3. CASE ~(want = Keyboard /\ keyboardQueue # <<>>) /\ port = NoByte
    BY <1>1, <1>8, <2>3, NothingMoves DEF ReadLoop
  <2> QED
    BY <2>1, <2>2, <2>3
<1>9. CASE ReadPolled
  <2>1. port # NoByte /\ Received(port) /\ port' = NoByte /\ keyboardQueue' = keyboardQueue
    BY <1>9 DEF ReadPolled
  <2>2. Rest(d, n)' = Rest(d, n) + Is(port, d, n) /\ LostOk'
    BY <1>1, <1>2, <2>1, ReceivedConserves
  <2>3. Occurrences(keyboardQueue', d, n) = Occurrences(keyboardQueue, d, n)
    BY <2>1
  <2> QED
    BY <1>1, <2>1, <2>2, <2>3, PortEmptied
<1>10. CASE ReadTimeout
  <2>1. Return(firstByte) /\ UNCHANGED <<port, keyboardQueue, delivered>>
    BY <1>10 DEF ReadTimeout
  <2>2. /\ LostCount(d, n)' = LostCount(d, n) + Is(firstByte, d, n) /\ LostOk'
        /\ Is(firstByte', d, n) = 0
    BY <1>1, <2>1, ReturnCounts DEF Types
  <2>3. /\ Is(firstByte, d, n) \in Nat /\ GivenCount(d, n) \in Nat /\ LostCount(d, n) \in Nat
    BY <1>1, RestTypes
  <2>4. GivenCount(d, n)' = GivenCount(d, n)
    BY <2>1 DEF GivenCount
  <2>5. Rest(d, n)' = Rest(d, n)
    BY <2>2, <2>3, <2>4 DEF Rest
  <2>6. SumForm /\ SumForm'
    BY <1>1, <2>2, Summed, SummedNext
  <2> QED
    BY <2>1, <2>2, <2>5, <2>6 DEF SumForm
<1>11. CASE UNCHANGED <<port, firstByte, keyboardQueue, delivered, lost>>
  BY <1>1, <1>11, NothingMoves
<1> QED
  BY <1>4, <1>5, <1>6, <1>7, <1>8, <1>9, <1>10, <1>11
  DEF Next, vars, reader, InterruptHandlerMouse, InterruptOccurred

LEMMA SendConserves ==
  ASSUME Types, Types', Conserved, NEW e \in Devices, NEW c \in 0 .. MaxCommands, Send(e, c)
  PROVE  Conserved'
<1>1. /\ port = NoByte /\ port'.dev = e /\ port'.n = sent[e] + 1
      /\ sent' = [sent EXCEPT ![e] = @ + 1]
      /\ UNCHANGED <<firstByte, keyboardQueue, delivered, lost, expecting>>
  BY DEF Send, reader
<1>2. ASSUME NEW d \in Devices, NEW n \in Nat
      PROVE  Total(d, n)' = IF n \in 1 .. sent'[d] THEN 1 ELSE 0
  <2>1. LostOk /\ LostOk'
    BY <1>1 DEF Conserved, LostOk
  <2>2. SumForm /\ SumForm'
    BY <2>1, Summed, SummedNext
  <2>3. Rest(d, n)' = Rest(d, n) /\ Is(port, d, n) = 0
    BY <1>1, IsFacts DEF Rest, GivenCount, LostCount
  <2>4. Total(d, n)' = Is(port', d, n) + Total(d, n) /\ Total(d, n) \in Nat /\ Is(port', d, n) \in Nat
    <3>1. /\ Is(port', d, n) \in Nat /\ Occurrences(keyboardQueue, d, n) \in Nat /\ Rest(d, n) \in Nat
          /\ Total(d, n) = Is(port, d, n) + Occurrences(keyboardQueue, d, n) + Rest(d, n)
          /\ Total(d, n)' = Is(port', d, n) + Occurrences(keyboardQueue', d, n) + Rest(d, n)'
      BY <2>2 DEF SumForm
    <3>2. Occurrences(keyboardQueue', d, n) = Occurrences(keyboardQueue, d, n)
      BY <1>1
    <3> QED
      BY <2>3, <3>1, <3>2
  <2>5. Total(d, n) = IF n \in 1 .. sent[d] THEN 1 ELSE 0
    BY DEF Conserved
  <2>6. Is(port', d, n) = IF d = e /\ n = sent[e] + 1 THEN 1 ELSE 0
    BY <1>1 DEF Is
  <2>7. sent'[d] = IF d = e THEN sent[e] + 1 ELSE sent[d]
    BY <1>1 DEF Types
  <2>8. sent[d] \in Nat /\ sent[e] \in Nat
    BY DEF Types
  <2> QED
    BY <2>4, <2>5, <2>6, <2>7, <2>8
<1> QED
  BY <1>1, <1>2 DEF Conserved

LEMMA ConservedStep ==
  ASSUME Types, Types', Routing, Conserved, [Next]_vars
  PROVE  Conserved'
<1>1. CASE \E e \in Devices, c \in 0 .. MaxCommands : Send(e, c)
  BY <1>1, SendConserves
<1>2. CASE ~(\E e \in Devices, c \in 0 .. MaxCommands : Send(e, c))
  <2>1. sent' = sent
    BY <1>2
    DEF Next, vars, InterruptHandlerMouse, InterruptHandlerKeyboard, InterruptOccurred,
        InterruptLoop, InterruptMouseData, BeginRead, ReadLoop, ReadPolled, ReadTimeout
  <2>2. \A d \in Devices : \A n \in Nat : Total(d, n)' = Total(d, n)
    BY <1>2, StepConserves
  <2>3. LostOk'
    BY <1>2, ByteFacts, StepConserves
  <2>4. (~expecting => firstByte = NoByte)'
    BY PutAsideWhenExpecting DEF Conserved
  <2> QED
    BY <2>1, <2>2, <2>3, <2>4 DEF Conserved, LostOk
<1> QED
  BY <1>1, <1>2

LEMMA ConservedInit == Init => Conserved
<1> SUFFICES ASSUME Init PROVE Conserved
  OBVIOUS
<1>1. /\ port = NoByte /\ firstByte = NoByte /\ keyboardQueue = <<>> /\ lost = {}
      /\ \A d \in Devices : delivered[d] = <<>> /\ sent[d] = 0
  BY DEF Init
<1>2. ASSUME NEW d \in Devices, NEW n \in Nat PROVE Total(d, n) = 0
  <2>1. Is(NoByte, d, n) = 0 /\ Occurrences(<<>>, d, n) = 0
    BY IsFacts, NothingOccurs
  <2>2. {b \in lost : b.dev = d /\ b.n = n} = {}
    BY <1>1
  <2>3. LostCount(d, n) = 0
    BY <2>2, FS_EmptySet DEF LostCount
  <2>4. GivenCount(d, n) = 0
    BY <1>1, <2>1, ByteFacts DEF GivenCount
  <2> QED
    BY <1>1, <2>1, <2>3, <2>4 DEF Total
<1>3. \A d \in Devices : \A n \in Nat : n \notin 1 .. sent[d]
  BY <1>1
<1> QED
  BY <1>1, <1>2, <1>3, FS_EmptySet DEF Conserved

LEMMA TotalIsSum ==
  ASSUME Types, Conserved, NEW d, NEW n
  PROVE  Total(d, n) =
           Is(port, d, n) + Is(firstByte, d, n) + Occurrences(keyboardQueue, d, n)
             + Occurrences(delivered[Keyboard], d, n) + Occurrences(delivered[Mouse], d, n)
             + Cardinality({b \in lost : b.dev = d /\ b.n = n})
<1>1. delivered[Keyboard] \in Seq(Byte) /\ delivered[Mouse] \in Seq(Byte)
  BY ByteFacts DEF Types
<1>2. /\ Occurrences(delivered[Keyboard], d, n) \in Nat
      /\ Occurrences(delivered[Mouse], d, n) \in Nat
  BY <1>1, FoundFinite
<1>3. /\ Is(port, d, n) \in Nat /\ Is(firstByte, d, n) \in Nat
      /\ Occurrences(keyboardQueue, d, n) \in Nat /\ LostCount(d, n) \in Nat
  BY CountTypes DEF Conserved
<1>4. Total(d, n) =
        Is(port, d, n) + Is(firstByte, d, n) + Occurrences(keyboardQueue, d, n)
          + Occurrences(delivered[Keyboard], d, n) + Occurrences(delivered[Mouse], d, n)
          + LostCount(d, n)
  BY <1>2, <1>3 DEF Total, GivenCount
<1> QED
  BY <1>4 DEF LostCount

(* No byte is lost or seen twice between the interrupt handlers, the        *)
(* keyboard queue, interruptOccurred and readDataPort, for every size of    *)
(* the queue and every number of bytes and commands: a byte that leaves a   *)
(* place reaches exactly one other.                                         *)
THEOREM BytesConserved == Spec => []EachByteOnce
<1> DEFINE Inv == Types /\ Routing /\ Conserved
<1>1. ConstantsAssumption /\ Init => Inv
  BY TypesInit, ConservedInit
<1>2. ConstantsAssumption /\ Inv /\ [Next]_vars => Inv'
  BY TypesStep, ConservedStep
<1>3. Inv => EachByteOnce
  <2> SUFFICES ASSUME Types, Routing, Conserved PROVE EachByteOnce
    OBVIOUS
  <2>1. ASSUME NEW d \in Devices, NEW n \in 1 .. sent[d] PROVE Total(d, n) = 1
    <3>1. n \in Nat
      BY DEF Types
    <3> QED
      BY <3>1 DEF Conserved
  <2> QED
    BY <2>1, TotalIsSum DEF EachByteOnce
<1>4. QED
  BY <1>1, <1>2, <1>3, ConstantsAssumption, PTL DEF Spec
-----------------------------------------------------------------------------
(* What a request that puts one byte aside can miss. Unread counts the      *)
(* bytes in the way of the one a device has yet to send; each is consumed   *)
(* once, and the answers in transit are told apart by their numbers.        *)
Reading == at \in {"read", "poll"}
Aside == IF firstByte = NoByte THEN 0 ELSE 1

(* No more bytes wait than were sent, and a request has consumed the byte   *)
(* put aside since its command was written.                                 *)
Fits == \A d \in Devices : Unread(d) <= sent[d]
Progress ==
  Reading => \A d \in Devices : want = d => readBefore + Aside + Unread(d) <= sent[d]

ReadBeforeType == readBefore \in 0..MaxBytes

(* Answers in transit, by number: none is newer than the last command, and  *)
(* none to that command is on the other device's stream.                    *)
Answers(m) ==
  /\ \A d \in Devices : answerDue[d] <= m
  /\ port.answers <= m
  /\ \A i \in DOMAIN keyboardQueue : keyboardQueue[i].answers <= m
OnlyFrom(d, m) ==
  /\ answerDue[Other(d)] # m
  /\ port.dev # d => port.answers # m
  /\ d = Mouse => \A i \in DOMAIN keyboardQueue : keyboardQueue[i].answers # m
Numbered ==
  /\ expecting => command # 0
  /\ Answers(command)
  /\ command # 0 => OnlyFrom(want, command)

(* A request that has returned without its answer had two bytes in front of *)
(* it, or there was none.                                                   *)
Missed ==
  ~environment.late /\ ~Reading /\ expecting /\ reply.answers = 0
    => \A n : AnswerAt(n) => n > readBefore + 2

InQueue(d) == IF d = Keyboard THEN Len(keyboardQueue) ELSE 0
InPort(d) == IF port.dev = d THEN 1 ELSE 0

(* While a request reads, what it has put aside and the bytes in front of   *)
(* its answer were all sent before it, and none was read before the command.*)
Front ==
  Reading /\ command # 0 =>
    /\ port.answers = command => port.n > readBefore + Aside + InQueue(want)
    /\ \A i \in DOMAIN keyboardQueue : keyboardQueue[i].answers = command =>
         keyboardQueue[i].n >= readBefore + Aside + i

Queued == keyboardQueue \in Seq(Byte)
Parts ==
  \A d : InQueue(d) \in Nat /\ InPort(d) \in Nat /\ Unread(d) = InQueue(d) + InPort(d)

LEMMA UnreadParts == Queued => Parts
<1> SUFFICES ASSUME Queued PROVE Parts
  OBVIOUS
<1>1. Len(keyboardQueue) \in Nat
  BY DEF Queued
<1>2. \A d : InQueue(d) \in Nat /\ InPort(d) \in Nat
  BY <1>1 DEF InQueue, InPort
<1>3. \A d : Unread(d) = InQueue(d) + InPort(d)
  BY DEF Unread, InQueue, InPort
<1> QED
  BY <1>2, <1>3 DEF Parts

LEMMA UnreadPartsNext == Queued' => Parts'
  BY UnreadParts, PTL

LEMMA UnreadTypes ==
  ASSUME Types, NEW d \in Devices
  PROVE  Unread(d) \in Nat /\ sent[d] \in Nat
<1>1. sent[d] \in Nat /\ keyboardQueue \in Seq(Byte)
  BY DEF Types
<1>2. InQueue(d) \in Nat /\ InPort(d) \in Nat /\ Unread(d) = InQueue(d) + InPort(d)
  BY <1>1, UnreadParts DEF Parts, Queued
<1> QED
  BY <1>1, <1>2

LEMMA AsideTypes == Aside \in {0, 1} /\ (firstByte = NoByte <=> Aside = 0)
  BY DEF Aside

(* The head of the queue is taken.                                          *)
LEMMA UnreadTail ==
  ASSUME Types, keyboardQueue # <<>>, keyboardQueue' = Tail(keyboardQueue), port' = port
  PROVE  /\ Unread(Keyboard)' + 1 = Unread(Keyboard)
         /\ \A d \in Devices : Unread(d)' \in Nat /\ Unread(d)' <= Unread(d)
<1>1. /\ keyboardQueue \in Seq(Byte) /\ keyboardQueue' \in Seq(Byte)
      /\ Len(keyboardQueue') + 1 = Len(keyboardQueue)
  BY DEF Types
<1>2. \A d : InQueue(d) \in Nat /\ InPort(d) \in Nat /\ Unread(d) = InQueue(d) + InPort(d)
  BY <1>1, UnreadParts DEF Parts, Queued
<1>3. \A d : InQueue(d)' \in Nat /\ InPort(d)' \in Nat /\ Unread(d)' = InQueue(d)' + InPort(d)'
  BY <1>1, UnreadPartsNext DEF Parts, Queued
<1>4. \A d : InPort(d)' = InPort(d)
  BY DEF InPort
<1>5. \A d : (d = Keyboard => InQueue(d)' + 1 = InQueue(d)) /\ (d # Keyboard => InQueue(d)' = InQueue(d))
  BY <1>1 DEF InQueue
<1> QED
  BY <1>2, <1>3, <1>4, <1>5, ByteFacts

(* The byte in the port is taken, or moved to the queue, or dropped.        *)
LEMMA UnreadTaken ==
  ASSUME Types, NEW e \in Devices, port.dev = e, port' = NoByte, keyboardQueue' = keyboardQueue
  PROVE  /\ Unread(e)' + 1 = Unread(e)
         /\ \A d \in Devices : Unread(d)' \in Nat /\ Unread(d)' <= Unread(d)
<1>1. keyboardQueue \in Seq(Byte) /\ keyboardQueue' \in Seq(Byte)
  BY DEF Types
<1>2. \A d : InQueue(d) \in Nat /\ InPort(d) \in Nat /\ Unread(d) = InQueue(d) + InPort(d)
  BY <1>1, UnreadParts DEF Parts, Queued
<1>3. \A d : InQueue(d)' \in Nat /\ InPort(d)' \in Nat /\ Unread(d)' = InQueue(d)' + InPort(d)'
  BY <1>1, UnreadPartsNext DEF Parts, Queued
<1>4. InPort(e) = 1 /\ \A d \in Devices : InPort(d)' = 0
  BY ByteFacts DEF InPort
<1>5. \A d : InQueue(d)' = InQueue(d)
  BY DEF InQueue
<1> QED
  BY <1>2, <1>3, <1>4, <1>5

LEMMA UnreadQueued ==
  ASSUME Types, port.dev = Keyboard, port' = NoByte,
         keyboardQueue' = Append(keyboardQueue, port)
  PROVE  \A d \in Devices : Unread(d)' \in Nat /\ Unread(d)' <= Unread(d)
<1>1. keyboardQueue \in Seq(Byte) /\ port \in Byte
  BY ByteFacts DEF Types
<1>2. keyboardQueue' \in Seq(Byte) /\ Len(keyboardQueue') = Len(keyboardQueue) + 1
  BY <1>1
<1>3. \A d : InQueue(d) \in Nat /\ InPort(d) \in Nat /\ Unread(d) = InQueue(d) + InPort(d)
  BY <1>1, UnreadParts DEF Parts, Queued
<1>4. \A d : InQueue(d)' \in Nat /\ InPort(d)' \in Nat /\ Unread(d)' = InQueue(d)' + InPort(d)'
  BY <1>2, UnreadPartsNext DEF Parts, Queued
<1>5. \A d \in Devices : /\ InPort(d)' = 0
                         /\ (d = Keyboard => InPort(d) = 1)
  BY ByteFacts DEF InPort
<1>6. \A d : (d = Keyboard => InQueue(d)' = InQueue(d) + 1) /\ (d # Keyboard => InQueue(d)' = InQueue(d))
  BY <1>1, <1>2 DEF InQueue
<1> TAKE d \in Devices
<1>7. /\ InQueue(d) \in Nat /\ InPort(d) \in Nat /\ Unread(d) = InQueue(d) + InPort(d)
      /\ InQueue(d)' \in Nat /\ Unread(d)' = InQueue(d)' + 0
  BY <1>3, <1>4, <1>5
<1>8. CASE d = Keyboard
  BY <1>5, <1>6, <1>7, <1>8
<1>9. CASE d # Keyboard
  BY <1>6, <1>7, <1>9
<1> QED
  BY <1>8, <1>9

LEMMA UnreadSame ==
  ASSUME Types, UNCHANGED <<port, keyboardQueue>>
  PROVE  \A d \in Devices : Unread(d)' \in Nat /\ Unread(d)' = Unread(d)
  BY UnreadTypes DEF Unread

(* A byte of the requested stream uses up one of the unread ones.           *)
LEMMA RequestedProgress ==
  ASSUME Types, ReadBeforeType, Progress, Reading, NEW b \in Byte, Requested(b),
         NEW w \in Devices, want = w,
         Unread(w)' \in Nat, Unread(w)' + 1 <= Unread(w), UNCHANGED <<sent, want, readBefore>>
  PROVE  Progress'
<1>1. Unread(w) \in Nat /\ sent[w] \in Nat /\ readBefore \in Nat
  BY UnreadTypes DEF ReadBeforeType
<1>2. readBefore + Aside + Unread(w) <= sent[w]
  BY DEF Progress
<1>3. Aside \in {0, 1} /\ (firstByte = NoByte <=> Aside = 0) /\ Aside' \in {0, 1}
  BY DEF Aside
<1>4. CASE ~expecting /\ Return(b)
  BY <1>4 DEF Return, Progress, Reading
<1>5. CASE expecting /\ b.answers # 0 /\ Return(b)
  BY <1>5 DEF Return, Progress, Reading
<1>6. CASE expecting /\ firstByte = NoByte /\ at' = "read"
  <2>1. readBefore + Aside' + Unread(w)' <= sent[w]
    BY <1>1, <1>2, <1>3, <1>6
  <2> QED
    BY <1>6, <2>1 DEF Progress, Reading
<1>7. CASE expecting /\ firstByte # NoByte /\ Return(firstByte)
  BY <1>7 DEF Return, Progress, Reading
<1> QED
  BY <1>4, <1>5, <1>6, <1>7 DEF Requested

LEMMA ReceivedProgress ==
  ASSUME Types, ReadBeforeType, Progress, Reading, port # NoByte, Received(port), port' = NoByte,
         keyboardQueue' = keyboardQueue, UNCHANGED <<sent, want, readBefore>>
  PROVE  Progress'
<1>1. PICK w \in Devices : want = w
  BY DEF Types
<1>2. port \in Byte /\ port.dev \in Devices
  BY ByteFacts DEF Types
<1>3. CASE port.dev = w
  <2>1. Unread(w)' \in Nat /\ Unread(w)' + 1 <= Unread(w)
    <3>1. Unread(w)' + 1 = Unread(w) /\ Unread(w)' \in Nat /\ Unread(w) \in Nat
      BY <1>3, UnreadTaken, UnreadTypes
    <3> QED
      BY <3>1
  <2>2. Requested(port)
    BY <1>1, <1>3 DEF Received
  <2> QED
    BY <1>1, <1>2, <2>1, <2>2, RequestedProgress
<1>4. CASE port.dev # w
  <2>1. at' = "read" /\ firstByte' = firstByte
    BY <1>1, <1>4 DEF Received
  <2>2. /\ Unread(w)' \in Nat /\ Unread(w)' <= Unread(w) /\ Unread(w) \in Nat
        /\ sent[w] \in Nat /\ readBefore \in Nat
    BY <1>2, UnreadTaken, UnreadTypes DEF ReadBeforeType
  <2>3. readBefore + Aside + Unread(w) <= sent[w] /\ Aside \in {0, 1}
    BY <1>1 DEF Progress, Aside
  <2>4. readBefore + Aside + Unread(w)' <= sent[w]
    BY <2>2, <2>3
  <2>5. Reading' /\ Aside' = Aside
    BY <2>1 DEF Reading, Aside
  <2> QED
    BY <1>1, <2>4, <2>5 DEF Progress
<1> QED
  BY <1>3, <1>4

LEMMA ReadProgress ==
  ASSUME Types, Routing, ReadBeforeType, Fits, Progress, ReadLoop \/ ReadPolled
  PROVE  Fits' /\ Progress'
<1>1. Reading /\ UNCHANGED <<sent, want, readBefore, expecting>>
  BY DEF ReadLoop, ReadPolled, Reading
<1>2. Fits'
  <2>1. \A d \in Devices : Unread(d)' \in Nat /\ Unread(d)' <= Unread(d)
    <3>1. \/ keyboardQueue # <<>> /\ keyboardQueue' = Tail(keyboardQueue) /\ port' = port
          \/ keyboardQueue' = keyboardQueue /\ port # NoByte /\ port' = NoByte
          \/ UNCHANGED <<keyboardQueue, port>>
      BY DEF ReadLoop, ReadPolled
    <3>2. port # NoByte => port.dev \in Devices
      BY ByteFacts DEF Types
    <3>3. UNCHANGED <<keyboardQueue, port>> => \A d \in Devices : Unread(d)' \in Nat /\ Unread(d)' <= Unread(d)
      <4> SUFFICES ASSUME UNCHANGED <<keyboardQueue, port>>, NEW d \in Devices
                   PROVE  Unread(d)' \in Nat /\ Unread(d)' <= Unread(d)
        OBVIOUS
      <4>1. Unread(d)' \in Nat /\ Unread(d)' = Unread(d)
        BY UnreadSame
      <4> QED
        BY <4>1
    <3> QED
      BY <3>1, <3>2, <3>3, UnreadTail, UnreadTaken
  <2>2. ASSUME NEW d \in Devices PROVE Unread(d)' <= sent'[d]
    <3>1. Unread(d) \in Nat /\ sent[d] \in Nat /\ Unread(d) <= sent[d] /\ sent'[d] = sent[d]
      BY <1>1, UnreadTypes DEF Fits
    <3> QED
      BY <2>1, <3>1
  <2> QED
    BY <2>2 DEF Fits
<1>3. CASE ReadLoop /\ want = Keyboard /\ keyboardQueue # <<>>
  <2>1. /\ Requested(Head(keyboardQueue)) /\ Head(keyboardQueue) \in Byte
        /\ keyboardQueue' = Tail(keyboardQueue) /\ port' = port
    BY <1>3, QueueFacts DEF ReadLoop, Types
  <2>2. /\ Unread(Keyboard)' + 1 = Unread(Keyboard) /\ Unread(Keyboard)' \in Nat
        /\ Unread(Keyboard) \in Nat /\ Keyboard \in Devices
    BY <1>3, <2>1, UnreadTail, UnreadTypes, ByteFacts
  <2>3. Unread(Keyboard)' + 1 <= Unread(Keyboard)
    BY <2>2
  <2> QED
    BY <1>1, <1>2, <1>3, <2>1, <2>2, <2>3, RequestedProgress
<1>4. CASE /\ ReadPolled \/ (ReadLoop /\ ~(want = Keyboard /\ keyboardQueue # <<>>))
           /\ port # NoByte
  <2>1. Received(port) /\ port' = NoByte /\ keyboardQueue' = keyboardQueue
    BY <1>4 DEF ReadLoop, ReadPolled
  <2> QED
    BY <1>1, <1>2, <1>4, <2>1, ReceivedProgress
<1>5. CASE ReadLoop /\ ~(want = Keyboard /\ keyboardQueue # <<>>) /\ port = NoByte
  <2>1. at' = "poll" /\ UNCHANGED <<port, keyboardQueue, firstByte>>
    BY <1>5 DEF ReadLoop
  <2>2. Reading' /\ \A d \in Devices : Unread(d)' = Unread(d)
    BY <2>1, UnreadSame DEF Reading
  <2>3. Aside' = Aside
    BY <2>1 DEF Aside
  <2> QED
    BY <1>1, <1>2, <2>2, <2>3 DEF Progress
<1> QED
  BY <1>3, <1>4, <1>5 DEF ReadPolled

(* The other steps.                                                         *)
LEMMA SendProgress ==
  ASSUME Types, ReadBeforeType, Fits, Progress, NEW e \in Devices, NEW c \in 0..MaxCommands,
         Send(e, c)
  PROVE  Fits' /\ Progress'
<1>1. /\ port = NoByte /\ port'.dev = e /\ keyboardQueue' = keyboardQueue
      /\ sent' = [sent EXCEPT ![e] = @ + 1] /\ UNCHANGED <<at, want, readBefore, firstByte>>
  BY DEF Send, reader
<1>2. ASSUME NEW d \in Devices
      PROVE  /\ Unread(d)' \in Nat
             /\ \E k \in {0, 1} : Unread(d)' = Unread(d) + k /\ sent'[d] = sent[d] + k
  <2>1. keyboardQueue \in Seq(Byte) /\ sent[d] \in Nat /\ sent \in [Devices -> 0..MaxBytes]
    BY UnreadTypes DEF Types
  <2>2. InQueue(d) \in Nat /\ InPort(d) \in Nat /\ Unread(d) = InQueue(d) + InPort(d)
    BY <2>1, UnreadParts DEF Parts, Queued
  <2>3. InQueue(d)' \in Nat /\ InPort(d)' \in Nat /\ Unread(d)' = InQueue(d)' + InPort(d)'
    BY <1>1, <2>1, UnreadPartsNext DEF Parts, Queued
  <2>4. InQueue(d)' = InQueue(d) /\ InPort(d) = 0
    BY <1>1, ByteFacts DEF InQueue, InPort
  <2>5. CASE d = e
    <3>1. InPort(d)' = 1 /\ sent'[d] = sent[d] + 1
      BY <1>1, <2>1, <2>5 DEF InPort
    <3>2. Unread(d)' \in Nat /\ Unread(d)' = Unread(d) + 1 /\ sent'[d] = sent[d] + 1
      BY <2>2, <2>3, <2>4, <3>1
    <3> QED
      BY <3>2
  <2>6. CASE d # e
    <3>1. InPort(d)' = 0 /\ sent'[d] = sent[d]
      BY <1>1, <2>1, <2>6 DEF InPort
    <3>2. Unread(d)' \in Nat /\ Unread(d)' = Unread(d) + 0 /\ sent'[d] = sent[d] + 0
      BY <2>1, <2>2, <2>3, <2>4, <3>1
    <3> QED
      BY <3>2
  <2> QED
    BY <2>5, <2>6
<1>3. ASSUME NEW d \in Devices PROVE Unread(d)' <= sent'[d]
  <2>1. Unread(d) \in Nat /\ sent[d] \in Nat /\ Unread(d) <= sent[d]
    BY UnreadTypes DEF Fits
  <2> QED
    BY <1>2, <2>1
<1>4. ASSUME Reading', NEW d \in Devices, want' = d
      PROVE  readBefore' + Aside' + Unread(d)' <= sent'[d]
  <2>1. Unread(d) \in Nat /\ sent[d] \in Nat /\ readBefore \in Nat /\ Aside \in {0, 1}
    BY UnreadTypes DEF ReadBeforeType, Aside
  <2>2. Aside' = Aside /\ readBefore' = readBefore
    BY <1>1 DEF Aside
  <2>3. readBefore + Aside + Unread(d) <= sent[d]
    BY <1>1, <1>4 DEF Progress, Reading
  <2> QED
    BY <1>2, <2>1, <2>2, <2>3
<1> QED
  BY <1>3, <1>4 DEF Fits, Progress

(* Steps that only take bytes from the port and the queue.                  *)
LEMMA TakingProgress ==
  ASSUME Types, ReadBeforeType, Fits, Progress, UNCHANGED <<sent, want, readBefore, firstByte>>,
         Reading' => Reading,
         \/ keyboardQueue # <<>> /\ keyboardQueue' = Tail(keyboardQueue) /\ port' = port
         \/ keyboardQueue' = keyboardQueue /\ port # NoByte /\ port' = NoByte
         \/ port.dev = Keyboard /\ port' = NoByte /\ keyboardQueue' = Append(keyboardQueue, port)
         \/ UNCHANGED <<keyboardQueue, port>>
  PROVE  Fits' /\ Progress'
<1>1. \A d \in Devices : Unread(d)' \in Nat /\ Unread(d)' <= Unread(d)
  <2>1. port # NoByte => port.dev \in Devices
    BY ByteFacts DEF Types
  <2>2. ASSUME UNCHANGED <<keyboardQueue, port>>, NEW d \in Devices
        PROVE  Unread(d)' \in Nat /\ Unread(d)' <= Unread(d)
    <3>1. Unread(d)' \in Nat /\ Unread(d)' = Unread(d)
      BY <2>2, UnreadSame
    <3> QED
      BY <3>1
  <2> QED
    BY <2>1, <2>2, UnreadTail, UnreadTaken, UnreadQueued
<1>2. ASSUME NEW d \in Devices PROVE Unread(d)' <= sent'[d]
  <2>1. Unread(d) \in Nat /\ sent[d] \in Nat /\ Unread(d) <= sent[d]
    BY UnreadTypes DEF Fits
  <2> QED
    BY <1>1, <2>1
<1>3. ASSUME Reading', NEW d \in Devices, want' = d
      PROVE  readBefore' + Aside' + Unread(d)' <= sent'[d]
  <2>1. Unread(d) \in Nat /\ sent[d] \in Nat /\ readBefore \in Nat /\ Aside \in {0, 1}
    BY UnreadTypes DEF ReadBeforeType, Aside
  <2>2. Aside' = Aside
    BY DEF Aside
  <2>3. readBefore + Aside + Unread(d) <= sent[d]
    BY <1>3 DEF Progress
  <2> QED
    BY <1>1, <2>1, <2>2, <2>3
<1> QED
  BY <1>2, <1>3 DEF Fits, Progress

LEMMA BeginReadProgress ==
  ASSUME Types, Fits, NEW e \in Devices, NEW exp \in BOOLEAN, NEW will \in BOOLEAN,
         BeginRead(e, exp, will)
  PROVE  Fits' /\ Progress' /\ ReadBeforeType'
<1>1. /\ UNCHANGED <<port, keyboardQueue, sent>> /\ want' = e /\ firstByte' = NoByte
      /\ readBefore' = sent[e] - Unread(e)
  BY DEF BeginRead
<1>2. \A d \in Devices : Unread(d)' = Unread(d)
  BY <1>1, UnreadSame
<1>3. Unread(e) \in Nat /\ sent[e] \in 0..MaxBytes /\ Unread(e) <= sent[e]
  BY UnreadTypes DEF Fits, Types
<1>4. /\ sent[e] - Unread(e) \in 0..MaxBytes
      /\ sent[e] - Unread(e) + 0 + Unread(e) <= sent[e]
  BY <1>3, ConstantsAssumption DEF ConstantsAssumption
<1>5. Aside' = 0
  BY <1>1 DEF Aside
<1> QED
  BY <1>1, <1>2, <1>4, <1>5 DEF Fits, Progress, ReadBeforeType

LEMMA ProgressStep ==
  ASSUME Types, Routing, ReadBeforeType, Fits, Progress, [Next]_vars
  PROVE  Fits' /\ Progress' /\ ReadBeforeType'
<1>1. ASSUME NEW d \in Devices, NEW c \in 0..MaxCommands, Send(d, c)
      PROVE  Fits' /\ Progress' /\ ReadBeforeType'
  BY <1>1, SendProgress DEF Send, reader, ReadBeforeType
<1>2. CASE InterruptHandlerMouse \/ InterruptOccurred \/ UNCHANGED vars
  BY <1>2, TakingProgress
  DEF InterruptHandlerMouse, InterruptOccurred, vars, reader, ReadBeforeType, Reading
<1>3. CASE InterruptHandlerKeyboard
  <2>1. port.dev = Keyboard => port # NoByte
    BY ByteFacts
  <2> QED
    BY <1>3, <2>1, TakingProgress
    DEF InterruptHandlerKeyboard, Enqueue, reader, ReadBeforeType, Reading
<1>4. CASE InterruptLoop \/ InterruptMouseData
  BY <1>4, TakingProgress DEF InterruptLoop, InterruptMouseData, reader, ReadBeforeType, Reading
<1>5. ASSUME NEW d \in Devices, NEW exp \in BOOLEAN, NEW will \in BOOLEAN,
             BeginRead(d, exp, will)
      PROVE  Fits' /\ Progress' /\ ReadBeforeType'
  BY <1>5, BeginReadProgress
<1>6. CASE ReadLoop \/ ReadPolled
  BY <1>6, ReadProgress DEF ReadLoop, ReadPolled, ReadBeforeType
<1>7. CASE ReadTimeout
  <2>1. /\ ~Reading' /\ UNCHANGED <<sent, port, keyboardQueue, readBefore>>
    BY <1>7 DEF ReadTimeout, Return, Reading
  <2>2. \A d \in Devices : Unread(d)' = Unread(d)
    BY <2>1, UnreadSame
  <2> QED
    BY <2>1, <2>2 DEF Fits, Progress, ReadBeforeType
<1> QED
  BY <1>1, <1>2, <1>3, <1>4, <1>5, <1>6, <1>7 DEF Next

(* Answers keep their numbers: a step moves them, takes them away or lets   *)
(* a device give the one it owes.                                           *)
LEMMA AnswerFacts ==
  /\ \A b \in Byte : b.answers \in 0..MaxCommands
  /\ NoByte.answers = 0
  /\ Other(Keyboard) = Mouse /\ Other(Mouse) = Keyboard
  BY ByteFacts DEF Byte, NoByte, Other

(* Where an answer can be after a step.                                     *)
Moved ==
  /\ \A i \in DOMAIN keyboardQueue' :
       \/ keyboardQueue'[i] = port /\ port.dev = Keyboard
       \/ \E j \in DOMAIN keyboardQueue : keyboardQueue'[i] = keyboardQueue[j]
  /\ \/ port' = port \/ port' = NoByte
     \/ /\ port'.dev \in Devices
        /\ port'.answers \in {0, answerDue[port'.dev]}
  /\ \A d \in Devices : answerDue'[d] \in {0, answerDue[d]}

LEMMA MovedSend ==
  ASSUME Types, NEW e \in Devices, NEW c \in 0..MaxCommands, Send(e, c)
  PROVE  Moved
<1>1. /\ port'.dev = e /\ port'.answers \in {0, answerDue[e]} /\ keyboardQueue' = keyboardQueue
  BY DEF Send
<1>2. \A d \in Devices : answerDue'[d] \in {0, answerDue[d]}
  BY DEF Send, Types
<1> QED
  BY <1>1, <1>2 DEF Moved

LEMMA MovedStep ==
  ASSUME Types, Routing, [Next]_vars,
         ~(\E d \in Devices, exp, will \in BOOLEAN : BeginRead(d, exp, will))
  PROVE  Moved
<1>1. ASSUME NEW d \in Devices, NEW c \in 0..MaxCommands, Send(d, c) PROVE Moved
  BY <1>1, MovedSend
<1>2. ASSUME port' \in {port, NoByte}, answerDue' = answerDue,
             \/ keyboardQueue' = keyboardQueue
             \/ keyboardQueue # <<>> /\ keyboardQueue' = Tail(keyboardQueue)
             \/ port.dev = Keyboard /\ keyboardQueue' = Append(keyboardQueue, port)
      PROVE  Moved
  <2>1. keyboardQueue \in Seq(Byte) /\ (port.dev = Keyboard => port \in Byte)
    BY ByteFacts DEF Types
  <2>2. CASE keyboardQueue' = keyboardQueue
    BY <1>2, <2>2 DEF Moved
  <2>3. CASE keyboardQueue # <<>> /\ keyboardQueue' = Tail(keyboardQueue)
    <3>1. \A i \in DOMAIN keyboardQueue' :
            i + 1 \in DOMAIN keyboardQueue /\ keyboardQueue'[i] = keyboardQueue[i + 1]
      BY <2>1, <2>3, QueueFacts
    <3> QED
      BY <1>2, <3>1 DEF Moved
  <2>4. CASE port.dev = Keyboard /\ keyboardQueue' = Append(keyboardQueue, port)
    <3>1. \A i \in DOMAIN keyboardQueue' :
            \/ i \in DOMAIN keyboardQueue /\ keyboardQueue'[i] = keyboardQueue[i]
            \/ keyboardQueue'[i] = port
      BY <2>1, <2>4, AppendFacts
    <3> QED
      BY <1>2, <2>4, <3>1 DEF Moved
  <2> QED
    BY <1>2, <2>2, <2>3, <2>4
<1>3. CASE InterruptHandlerKeyboard
  BY <1>2, <1>3 DEF InterruptHandlerKeyboard, Enqueue
<1>4. CASE InterruptLoop
  BY <1>2, <1>4 DEF InterruptLoop
<1>5. CASE ReadLoop
  BY <1>2, <1>5 DEF ReadLoop
<1>6. CASE \/ InterruptHandlerMouse \/ InterruptOccurred \/ InterruptMouseData \/ ReadPolled
           \/ ReadTimeout \/ UNCHANGED vars
  BY <1>2, <1>6
  DEF InterruptHandlerMouse, InterruptOccurred, InterruptMouseData, ReadPolled, ReadTimeout, vars
<1> QED
  BY <1>1, <1>3, <1>4, <1>5, <1>6 DEF Next

LEMMA MovedKeeps ==
  ASSUME Types, Numbered, Moved, UNCHANGED <<command, expecting, want>>
  PROVE  Numbered'
<1>1. command \in Nat /\ \A d \in Devices : answerDue[d] \in Nat
  BY ConstantsAssumption DEF Types, ConstantsAssumption
<1>2. /\ \A d \in Devices : answerDue[d] <= command
      /\ port.answers <= command
      /\ \A i \in DOMAIN keyboardQueue : keyboardQueue[i].answers <= command
  BY DEF Numbered, Answers
<1>3. NoByte.answers = 0 /\ NoByte.dev \notin Devices
  BY AnswerFacts, ByteFacts
<1>4. \A d \in Devices : answerDue'[d] <= command
  BY <1>1, <1>2 DEF Moved
<1>5. port'.answers <= command
  BY <1>1, <1>2, <1>3 DEF Moved
<1>6. \A i \in DOMAIN keyboardQueue' : keyboardQueue'[i].answers <= command
  BY <1>2 DEF Moved
<1>7. ASSUME command # 0 PROVE OnlyFrom(want, command)'
  <2>1. /\ answerDue[Other(want)] # command
        /\ port.dev # want => port.answers # command
        /\ want = Mouse => \A i \in DOMAIN keyboardQueue : keyboardQueue[i].answers # command
    BY <1>7 DEF Numbered, OnlyFrom
  <2>2. Other(want) \in Devices /\ \A d \in Devices : d # want => d = Other(want)
    BY AnswerFacts, ByteFacts DEF Types
  <2>3. answerDue'[Other(want)] # command
    BY <1>7, <2>1, <2>2 DEF Moved
  <2>4. port'.dev # want => port'.answers # command
    BY <1>3, <1>7, <2>1, <2>2 DEF Moved
  <2>5. want = Mouse => \A i \in DOMAIN keyboardQueue' : keyboardQueue'[i].answers # command
    BY <2>1, ByteFacts DEF Moved
  <2> QED
    BY <2>3, <2>4, <2>5 DEF OnlyFrom, Other
<1>8. Answers(command)'
  BY <1>4, <1>5, <1>6 DEF Answers
<1> QED
  BY <1>7, <1>8 DEF Numbered

LEMMA NumberedStep ==
  ASSUME Types, Routing, Numbered, [Next]_vars
  PROVE  Numbered'
<1>1. ASSUME NEW e \in Devices, NEW exp \in BOOLEAN, NEW will \in BOOLEAN,
             BeginRead(e, exp, will)
      PROVE  Numbered'
  <2>1. /\ command' = command + 1 /\ want' = e /\ UNCHANGED <<port, keyboardQueue>>
        /\ answerDue' = [answerDue EXCEPT ![e] = IF will THEN command + 1 ELSE 0]
    BY <1>1 DEF BeginRead
  <2>2. command \in Nat /\ answerDue \in [Devices -> Nat]
    BY ConstantsAssumption DEF Types, ConstantsAssumption
  <2>3. \A d \in Devices :
          /\ d = e => answerDue'[d] = command + 1 \/ answerDue'[d] = 0
          /\ d # e => answerDue'[d] = answerDue[d]
    BY <2>1, <2>2
  <2>4. port.answers \in Nat /\ \A i \in DOMAIN keyboardQueue : keyboardQueue[i].answers \in Nat
    <3>1. \A b \in Byte \cup {NoByte} : b.answers \in Nat
      BY AnswerFacts, ConstantsAssumption DEF ConstantsAssumption
    <3>2. \A i \in DOMAIN keyboardQueue : keyboardQueue[i] \in Byte
      BY DEF Types
    <3> QED
      BY <3>1, <3>2 DEF Types
  <2>5. /\ \A d \in Devices : answerDue[d] <= command
        /\ port.answers <= command
        /\ \A i \in DOMAIN keyboardQueue : keyboardQueue[i].answers <= command
    BY DEF Numbered, Answers
  <2>6. Other(e) \in Devices /\ Other(e) # e
    BY AnswerFacts, ByteFacts
  <2>7. \A d \in Devices : answerDue'[d] <= command + 1
    BY <2>2, <2>3, <2>5
  <2>8. port.answers <= command + 1 /\ port.answers # command + 1
    BY <2>2, <2>4, <2>5
  <2>9. \A i \in DOMAIN keyboardQueue :
          keyboardQueue[i].answers <= command + 1 /\ keyboardQueue[i].answers # command + 1
    BY <2>2, <2>4, <2>5
  <2>10. answerDue'[Other(e)] # command + 1
    BY <2>2, <2>3, <2>5, <2>6
  <2>11. Answers(command)'
    BY <2>1, <2>7, <2>8, <2>9 DEF Answers
  <2>12. OnlyFrom(want, command)'
    BY <2>1, <2>8, <2>9, <2>10 DEF OnlyFrom, Other
  <2>13. command' # 0
    BY <2>1, <2>2
  <2> QED
    BY <2>11, <2>12, <2>13 DEF Numbered
<1>2. CASE ~(\E d \in Devices, exp, will \in BOOLEAN : BeginRead(d, exp, will))
  <2>1. UNCHANGED <<command, expecting, want>>
    BY <1>2
    DEF Next, vars, reader, Send, InterruptHandlerMouse, InterruptHandlerKeyboard,
        InterruptOccurred, InterruptLoop, InterruptMouseData, ReadLoop, ReadPolled, ReadTimeout
  <2> QED
    BY <1>2, <2>1, MovedStep, MovedKeeps
<1> QED
  BY <1>1, <1>2

(* No answer comes from nowhere; it keeps its place, but for the bytes that *)
(* its device sends before it.                                              *)
LEMMA NoAnswerAppears ==
  ASSUME Types, Numbered, Moved, expecting, UNCHANGED <<command, want>>,
         port' # port /\ port' # NoByte => port'.n = sent[port'.dev] + 1,
         sent'[want] \in {sent[want], sent[want] + 1},
         NEW n, AnswerAt(n)'
  PROVE  \E m : AnswerAt(m) /\ (n = m \/ (m \in Nat /\ n = m + 1))
<1>1. /\ command # 0 /\ answerDue[Other(want)] # command /\ NoByte.answers = 0
      /\ want = Mouse => \A i \in DOMAIN keyboardQueue : keyboardQueue[i].answers # command
  BY AnswerFacts DEF Numbered, OnlyFrom
<1>2. \A d \in Devices : d = want \/ d = Other(want)
  BY AnswerFacts, ByteFacts DEF Types
<1>3. CASE answerDue'[want] = command /\ n = sent'[want] + 1
  <2>1. sent[want] \in Nat /\ answerDue[want] = command /\ AnswerAt(sent[want] + 1)
    BY <1>1, <1>3, UnreadTypes DEF Types, Moved, AnswerAt
  <2>2. sent[want] + 1 \in Nat /\ (n = sent[want] + 1 \/ n = (sent[want] + 1) + 1)
    BY <1>3, <2>1
  <2> QED
    BY <2>1, <2>2
<1>4. CASE port'.answers = command /\ n = port'.n
  BY <1>1, <1>2, <1>4 DEF Moved, AnswerAt
<1>5. CASE \E i \in DOMAIN keyboardQueue' :
             keyboardQueue'[i].answers = command /\ n = keyboardQueue'[i].n
  BY <1>5 DEF Moved, AnswerAt
<1> QED
  BY <1>3, <1>4, <1>5 DEF AnswerAt

LEMMA NumberTypes ==
  ASSUME Types
  PROVE  /\ port.n \in Nat
         /\ \A i \in DOMAIN keyboardQueue : keyboardQueue[i].n \in Nat /\ i \in Nat \ {0}
         /\ InQueue(want) \in Nat /\ Aside \in {0, 1}
<1>1. \A b \in Byte \cup {NoByte} : b.n \in Nat
  BY ByteFacts DEF NoByte
<1>2. /\ port \in Byte \cup {NoByte} /\ keyboardQueue \in Seq(Byte)
      /\ \A i \in DOMAIN keyboardQueue : keyboardQueue[i] \in Byte
  BY DEF Types
<1> QED
  BY <1>1, <1>2 DEF InQueue, Aside

(* The answer of the requested stream is sent. *)
LEMMA FrontSend ==
  ASSUME Types, ReadBeforeType, Progress, Numbered, Front,
         NEW e \in Devices, NEW c \in 0..MaxCommands, Send(e, c)
  PROVE  Front'
<1> SUFFICES ASSUME Reading, command # 0 PROVE Front'
  BY DEF Front, Reading, Send, reader
<1>1. /\ UNCHANGED <<at, command, want, readBefore, firstByte, keyboardQueue>>
      /\ port'.dev = e /\ port'.n = sent[e] + 1 /\ port'.answers \in {0, answerDue[e]}
  BY DEF Send, reader
<1>2. Aside' = Aside /\ InQueue(want)' = InQueue(want)
  BY <1>1 DEF Aside, InQueue
<1>3. ASSUME port'.answers = command PROVE port'.n > readBefore + Aside + InQueue(want)
  <2>1. e = want
    BY <1>1, <1>3, AnswerFacts, ByteFacts DEF Numbered, OnlyFrom, Types
  <2>2. readBefore + Aside + Unread(want) <= sent[want]
    BY DEF Progress, Types
  <2>3. /\ InQueue(want) \in Nat /\ InPort(want) \in Nat
        /\ Unread(want) = InQueue(want) + InPort(want)
    BY UnreadParts DEF Parts, Queued, Types
  <2>4. sent[want] \in Nat /\ readBefore \in Nat /\ Aside \in {0, 1}
    BY UnreadTypes, NumberTypes DEF ReadBeforeType, Types
  <2> QED
    BY <1>1, <2>1, <2>2, <2>3, <2>4
<1> QED
  BY <1>1, <1>2, <1>3 DEF Front

(* The keyboard interrupt handler puts the byte in the port at the end of   *)
(* the queue, or drops it.                                                  *)
LEMMA FrontQueued ==
  ASSUME Types, ReadBeforeType, Numbered, Front, InterruptHandlerKeyboard
  PROVE  Front'
<1> SUFFICES ASSUME Reading, command # 0 PROVE Front'
  BY DEF Front, Reading, InterruptHandlerKeyboard, reader
<1>1. UNCHANGED <<at, command, want, readBefore, firstByte>>
  BY DEF InterruptHandlerKeyboard, reader
<1>2. Aside' = Aside /\ NoByte.answers = 0
  BY <1>1, AnswerFacts DEF Aside
<1>3. CASE UNCHANGED <<port, keyboardQueue>>
  BY <1>1, <1>2, <1>3 DEF Front, InQueue
<1>4. CASE port' = NoByte /\ keyboardQueue' = keyboardQueue
  BY <1>1, <1>2, <1>4 DEF Front
<1>5. CASE port.dev = Keyboard /\ port' = NoByte /\ keyboardQueue' = Append(keyboardQueue, port)
  <2>1. port \in Byte /\ keyboardQueue \in Seq(Byte)
    BY <1>5, ByteFacts DEF Types
  <2>2. \A i \in DOMAIN keyboardQueue' :
          \/ i \in DOMAIN keyboardQueue /\ keyboardQueue'[i] = keyboardQueue[i]
          \/ i = Len(keyboardQueue) + 1 /\ keyboardQueue'[i] = port
    BY <1>5, <2>1, AppendFacts
  <2>3. port.answers = command => want = Keyboard
    BY <1>5, ByteFacts DEF Numbered, OnlyFrom, Types
  <2>4. port.answers = command => port.n > readBefore + Aside + Len(keyboardQueue)
    BY <2>3 DEF Front, InQueue
  <2>5. /\ port.n \in Nat /\ Len(keyboardQueue) \in Nat /\ readBefore \in Nat /\ Aside \in {0, 1}
    BY <2>1, NumberTypes DEF ReadBeforeType
  <2>6. port.answers = command => port.n >= readBefore + Aside + (Len(keyboardQueue) + 1)
    BY <2>4, <2>5
  <2>7. \A i \in DOMAIN keyboardQueue' : keyboardQueue'[i].answers = command =>
          keyboardQueue'[i].n >= readBefore + Aside + i
    BY <2>2, <2>6 DEF Front
  <2> QED
    BY <1>1, <1>2, <1>5, <2>7 DEF Front
<1> QED
  BY <1>3, <1>4, <1>5 DEF InterruptHandlerKeyboard, Enqueue

(* A byte of the requested stream ends the read, or is the first put aside. *)
LEMMA RequestedAside ==
  ASSUME NEW b, Requested(b)
  PROVE  \/ ~Reading' /\ (reply'.answers # 0 \/ ~expecting \/ Aside = 1)
         \/ Reading' /\ Aside = 0 /\ Aside' \in {0, 1}
<1>1. CASE ~expecting /\ Return(b)
  BY <1>1 DEF Return, Reading
<1>2. CASE b.answers # 0 /\ Return(b)
  BY <1>2 DEF Return, Reading
<1>3. CASE firstByte = NoByte /\ at' = "read"
  BY <1>3 DEF Reading, Aside
<1>4. CASE firstByte # NoByte /\ Return(firstByte)
  BY <1>4 DEF Return, Reading, Aside
<1> QED
  BY <1>1, <1>2, <1>3, <1>4 DEF Requested

(* The head of the queue is taken by a request of the keyboard.             *)
LEMMA FrontTail ==
  ASSUME Types, ReadBeforeType, Front, Reading, command # 0, want = Keyboard, keyboardQueue # <<>>,
         keyboardQueue' = Tail(keyboardQueue), Requested(Head(keyboardQueue)),
         UNCHANGED <<port, command, want, readBefore, sent, answerDue>>, Progress
  PROVE  /\ Front'
         /\ Reading' \/ reply'.answers # 0 \/ ~expecting \/ \A n : AnswerAt(n)' => n > readBefore + 2
<1>1. /\ \A i \in DOMAIN keyboardQueue' :
           i + 1 \in DOMAIN keyboardQueue /\ keyboardQueue'[i] = keyboardQueue[i + 1]
      /\ Len(keyboardQueue) \in Nat \ {0} /\ Len(keyboardQueue') + 1 = Len(keyboardQueue)
      /\ \A i \in DOMAIN keyboardQueue' : i \in Nat \ {0} /\ keyboardQueue'[i].n \in Nat
      /\ keyboardQueue' \in Seq(Byte)
  <2>1. keyboardQueue \in Seq(Byte) /\ keyboardQueue' \in Seq(Byte)
    BY DEF Types
  <2>2. \A i \in DOMAIN keyboardQueue' : i \in Nat \ {0} /\ keyboardQueue'[i] \in Byte
    BY <2>1
  <2> QED
    BY <2>1, <2>2, QueueFacts, ByteFacts
<1>2. /\ port.n \in Nat /\ readBefore \in Nat /\ Aside \in {0, 1}
      /\ InQueue(want) = Len(keyboardQueue) /\ InQueue(want)' = Len(keyboardQueue')
  BY NumberTypes DEF ReadBeforeType, InQueue
<1>3. /\ port.answers = command => port.n > readBefore + Aside + Len(keyboardQueue)
      /\ \A i \in DOMAIN keyboardQueue' : keyboardQueue'[i].answers = command =>
           keyboardQueue'[i].n >= readBefore + Aside + (i + 1)
  BY <1>1, <1>2 DEF Front
<1>4. CASE Aside = 0 /\ Aside' \in {0, 1} /\ Reading'
  <2>1. port.answers = command => port.n > readBefore + Aside' + Len(keyboardQueue')
    BY <1>1, <1>2, <1>3, <1>4
  <2>2. ASSUME NEW i \in DOMAIN keyboardQueue', keyboardQueue'[i].answers = command
        PROVE  keyboardQueue'[i].n >= readBefore + Aside' + i
    BY <1>1, <1>2, <1>3, <1>4, <2>2
  <2> QED
    BY <1>2, <1>4, <2>1, <2>2 DEF Front
<1>5. CASE ~Reading' /\ (reply'.answers # 0 \/ ~expecting \/ Aside = 1)
  <2> SUFFICES ASSUME Aside = 1, NEW n, AnswerAt(n)' PROVE n > readBefore + 2
    BY <1>5 DEF Front
  <2>1. CASE n = sent[want] + 1
    <3>1. /\ readBefore + Aside + Unread(want) <= sent[want]
          /\ Unread(want) \in Nat /\ sent[want] \in Nat
          /\ InQueue(want) \in Nat /\ InPort(want) \in Nat
          /\ Unread(want) = InQueue(want) + InPort(want)
      BY UnreadTypes, UnreadParts DEF Progress, Types, Parts, Queued
    <3> QED
      BY <1>1, <1>2, <2>1, <3>1
  <2>2. CASE port.answers = command /\ n = port.n
    BY <1>1, <1>2, <1>3, <2>2
  <2>3. ASSUME NEW i \in DOMAIN keyboardQueue', keyboardQueue'[i].answers = command,
               n = keyboardQueue'[i].n
        PROVE  n > readBefore + 2
    BY <1>1, <1>2, <1>3, <2>3
  <2> QED
    BY <2>1, <2>2, <2>3 DEF AnswerAt
<1>6. \/ ~Reading' /\ (reply'.answers # 0 \/ ~expecting \/ Aside = 1)
      \/ Reading' /\ Aside = 0 /\ Aside' \in {0, 1}
  BY RequestedAside
<1> QED
  BY <1>4, <1>5, <1>6

(* The byte in the port is taken, by a request of its device with an empty  *)
(* queue or of the other one.                                               *)
LEMMA FrontTaken ==
  ASSUME Types, ReadBeforeType, Numbered, Front, Reading, command # 0,
         want = Keyboard => keyboardQueue = <<>>,
         port # NoByte, port' = NoByte, Received(port),
         UNCHANGED <<keyboardQueue, command, want, readBefore, sent, answerDue>>, Progress
  PROVE  /\ Front'
         /\ Reading' \/ reply'.answers # 0 \/ ~expecting \/ \A n : AnswerAt(n)' => n > readBefore + 2
<1>1. /\ NoByte.answers = 0
      /\ \A i \in DOMAIN keyboardQueue : keyboardQueue[i].answers # command
  BY AnswerFacts, ByteFacts DEF Numbered, OnlyFrom, Types
<1>2. Front'
  BY <1>1 DEF Front
<1>3. CASE port.dev # want
  BY <1>2, <1>3 DEF Received, Reading
<1>4. CASE port.dev = want
  <2>1. Requested(port)
    BY <1>4 DEF Received
  <2> SUFFICES ASSUME ~Reading', reply'.answers = 0, expecting, NEW n, AnswerAt(n)'
               PROVE  n > readBefore + 2
    BY <1>2
  <2>2. n = sent[want] + 1
    BY <1>1 DEF AnswerAt
  <2>3. Aside = 1
    BY <2>1 DEF Requested, Return, Reading, Aside
  <2>4. /\ readBefore + Aside + Unread(want) <= sent[want]
        /\ Unread(want) \in Nat /\ sent[want] \in Nat /\ readBefore \in Nat
        /\ InQueue(want) \in Nat /\ InPort(want) = 1
        /\ Unread(want) = InQueue(want) + InPort(want)
    BY <1>4, UnreadTypes, UnreadParts
    DEF Progress, Types, Parts, Queued, ReadBeforeType, InPort
  <2> QED
    BY <2>2, <2>3, <2>4
<1> QED
  BY <1>3, <1>4

LEMMA FrontRead ==
  ASSUME Types, Routing, Polling, ReadBeforeType, Progress, Numbered, Front, ReadLoop \/ ReadPolled
  PROVE  /\ Front'
         /\ command # 0 =>
              Reading' \/ reply'.answers # 0 \/ ~expecting \/ \A n : AnswerAt(n)' => n > readBefore + 2
<1>1. Reading /\ UNCHANGED <<command, want, readBefore, sent, answerDue>>
  BY DEF ReadLoop, ReadPolled, Reading
<1> SUFFICES ASSUME command # 0
             PROVE  /\ Front'
                    /\ \/ Reading' \/ reply'.answers # 0 \/ ~expecting
                       \/ \A n : AnswerAt(n)' => n > readBefore + 2
  BY <1>1 DEF Front
<1>2. CASE ReadLoop /\ want = Keyboard /\ keyboardQueue # <<>>
  BY <1>1, <1>2, FrontTail DEF ReadLoop
<1>3. CASE /\ ReadPolled \/ (ReadLoop /\ ~(want = Keyboard /\ keyboardQueue # <<>>))
           /\ port # NoByte
  <2>1. /\ Received(port) /\ port' = NoByte /\ keyboardQueue' = keyboardQueue
        /\ want = Keyboard => keyboardQueue = <<>>
    BY <1>3 DEF ReadLoop, ReadPolled, Polling
  <2> QED
    BY <1>1, <1>3, <2>1, FrontTaken
<1>4. CASE ReadLoop /\ ~(want = Keyboard /\ keyboardQueue # <<>>) /\ port = NoByte
  <2>1. Reading' /\ UNCHANGED <<port, keyboardQueue, firstByte>>
    BY <1>4 DEF ReadLoop, Reading
  <2> QED
    BY <1>1, <2>1 DEF Front, InQueue, Aside
<1> QED
  BY <1>2, <1>3, <1>4 DEF ReadPolled

LEMMA FrontStep ==
  ASSUME Types, Routing, Polling, ReadBeforeType, Progress, Numbered, Front, [Next]_vars
  PROVE  Front'
<1>1. ASSUME NEW d \in Devices, NEW c \in 0..MaxCommands, Send(d, c) PROVE Front'
  BY <1>1, FrontSend
<1>2. CASE InterruptHandlerMouse \/ UNCHANGED vars
  <2>1. UNCHANGED <<at, command, want, readBefore, firstByte, port, keyboardQueue>>
    BY <1>2 DEF InterruptHandlerMouse, vars, reader
  <2> QED
    BY <2>1 DEF Front, Reading, InQueue, Aside
<1>3. CASE InterruptHandlerKeyboard
  BY <1>3, FrontQueued
<1>4. CASE InterruptOccurred \/ InterruptLoop \/ InterruptMouseData \/ ReadTimeout
  BY <1>4 DEF InterruptOccurred, InterruptLoop, InterruptMouseData, ReadTimeout, Return,
     Front, Reading
<1>5. ASSUME NEW e \in Devices, NEW exp \in BOOLEAN, NEW will \in BOOLEAN,
             BeginRead(e, exp, will)
      PROVE  Front'
  <2>1. command' = command + 1 /\ UNCHANGED <<port, keyboardQueue>> /\ command \in Nat
    BY <1>5, ConstantsAssumption DEF BeginRead, Types, ConstantsAssumption
  <2>2. \A b \in Byte \cup {NoByte} : b.answers \in Nat
    BY AnswerFacts, ConstantsAssumption DEF ConstantsAssumption
  <2>3. port.answers \in Nat /\ \A i \in DOMAIN keyboardQueue : keyboardQueue[i].answers \in Nat
    <3>1. \A i \in DOMAIN keyboardQueue : keyboardQueue[i] \in Byte
      BY DEF Types
    <3> QED
      BY <2>2, <3>1 DEF Types
  <2>4. /\ port.answers # command + 1
        /\ \A i \in DOMAIN keyboardQueue : keyboardQueue[i].answers # command + 1
    BY <2>1, <2>3 DEF Numbered, Answers
  <2> QED
    BY <2>1, <2>4 DEF Front
<1>6. CASE ReadLoop \/ ReadPolled
  BY <1>6, FrontRead
<1> QED
  BY <1>1, <1>2, <1>3, <1>4, <1>5, <1>6 DEF Next

LEMMA MissedStep ==
  ASSUME Types, Types', Routing, Polling, ReadBeforeType, Progress, Numbered, Front, Missed,
         [Next]_vars
  PROVE  Missed'
<1>1. ASSUME UNCHANGED <<environment, want, command, expecting, readBefore, reply>>,
             ~Reading' => ~Reading, Moved,
             port' # port /\ port' # NoByte => port'.n = sent[port'.dev] + 1,
             sent'[want] \in {sent[want], sent[want] + 1}
      PROVE  Missed'
  <2> SUFFICES ASSUME ~environment.late, ~Reading, expecting, reply.answers = 0,
                      NEW n, AnswerAt(n)'
               PROVE  n > readBefore + 2
    BY <1>1 DEF Missed
  <2>1. PICK m : AnswerAt(m) /\ (n = m \/ (m \in Nat /\ n = m + 1))
    BY <1>1, NoAnswerAppears
  <2>2. m > readBefore + 2 /\ readBefore \in Nat
    BY <2>1 DEF Missed, ReadBeforeType
  <2> QED
    BY <2>1, <2>2
<1>2. ASSUME NEW d \in Devices, NEW c \in 0..MaxCommands, Send(d, c) PROVE Missed'
  <2>1. port'.n = sent[port'.dev] + 1 /\ sent' = [sent EXCEPT ![d] = @ + 1]
    BY <1>2 DEF Send
  <2>2. sent'[want] \in {sent[want], sent[want] + 1}
    BY <2>1 DEF Types
  <2> QED
    BY <1>1, <1>2, <2>1, <2>2, MovedSend DEF Send, reader, Reading
<1>3. CASE \/ InterruptHandlerMouse \/ InterruptHandlerKeyboard \/ InterruptOccurred
           \/ InterruptLoop \/ InterruptMouseData \/ UNCHANGED vars
  <2>1. /\ UNCHANGED <<environment, want, command, expecting, readBefore, reply, sent>>
        /\ ~Reading' => ~Reading
        /\ port' \in {port, NoByte}
    BY <1>3 DEF InterruptHandlerMouse, InterruptHandlerKeyboard, InterruptOccurred,
       InterruptLoop, InterruptMouseData, vars, reader, Reading
  <2>2. ~(\E d \in Devices, exp, will \in BOOLEAN : BeginRead(d, exp, will))
          => Moved
    BY MovedStep
  <2>3. ASSUME NEW d \in Devices, NEW exp \in BOOLEAN, NEW will \in BOOLEAN,
               BeginRead(d, exp, will)
        PROVE  FALSE
    <3>1. command' = command + 1 /\ command' = command /\ command \in Nat
      BY <2>1, <2>3, ConstantsAssumption DEF BeginRead, Types, ConstantsAssumption
    <3> QED
      BY <3>1
  <2> QED
    BY <1>1, <2>1, <2>2, <2>3
<1>4. ASSUME NEW d \in Devices, NEW exp \in BOOLEAN, NEW will \in BOOLEAN,
             BeginRead(d, exp, will)
      PROVE  Missed'
  BY <1>4 DEF BeginRead, Missed, Reading
<1>5. CASE ReadLoop \/ ReadPolled
  <2>1. UNCHANGED <<environment, expecting, readBefore, command>>
    BY <1>5 DEF ReadLoop, ReadPolled
  <2>2. \/ Reading' \/ reply'.answers # 0 \/ ~expecting
        \/ \A n : AnswerAt(n)' => n > readBefore + 2
    BY <1>5, FrontRead DEF Numbered
  <2> QED
    BY <2>1, <2>2 DEF Missed
<1>6. CASE ReadTimeout
  <2> SUFFICES ASSUME ~environment.late, expecting PROVE \A n : ~AnswerAt(n)'
    BY <1>6 DEF ReadTimeout, Missed
  <2>1. /\ answerDue[want] = 0 /\ port.answers = 0
        /\ UNCHANGED <<answerDue, port, keyboardQueue, want, command>>
    BY <1>6 DEF ReadTimeout
  <2>2. command # 0
        /\ (want = Mouse => \A i \in DOMAIN keyboardQueue : keyboardQueue[i].answers # command)
    BY DEF Numbered, OnlyFrom
  <2>3. want = Keyboard => keyboardQueue = <<>>
    BY <1>6 DEF ReadTimeout, Polling
  <2>4. ~(\E i \in DOMAIN keyboardQueue : keyboardQueue[i].answers = command)
    BY <2>2, <2>3, ByteFacts DEF Types
  <2> QED
    BY <2>1, <2>2, <2>4 DEF AnswerAt
<1> QED
  BY <1>2, <1>3, <1>4, <1>5, <1>6 DEF Next

LEMMA FitsInit == Init => Fits
<1> SUFFICES ASSUME Init PROVE Fits
  OBVIOUS
<1>1. /\ keyboardQueue = <<>> /\ port = NoByte /\ sent = [d \in Devices |-> 0]
  BY DEF Init
<1>2. \A d \in Devices : sent[d] = 0 /\ Unread(d) = 0
  BY <1>1, ByteFacts DEF Unread
<1> QED
  BY <1>2 DEF Fits

(* "The caller will have never known that asynchronous data arrived at a    *)
(* very bad time": an expecting readDataPort with the one byte it can put   *)
(* aside misses an answer that comes in time only if at least two bytes of  *)
(* the device, read since the command was written, came before the answer,  *)
(* for every size of the queue, number of bytes and commands and every      *)
(* order of interrupts.                                                     *)
THEOREM AnswerFound == Spec => []StrayByteTolerated
<1> DEFINE Inv == /\ Types /\ Routing /\ Polling /\ ReadBeforeType /\ Fits /\ Progress
                  /\ Numbered /\ Front /\ Missed
<1>1. ConstantsAssumption /\ Init => Inv
  <2> SUFFICES ASSUME ConstantsAssumption, Init PROVE Inv
    OBVIOUS
  <2>1. Types /\ Routing
    BY TypesInit
  <2>2. Polling /\ ReadBeforeType /\ Progress /\ Front /\ Missed
    BY DEF Init, Polling, ReadBeforeType, Progress, Front, Missed, Reading, ConstantsAssumption, Keyboard,
       Devices
  <2>3. Fits
    BY FitsInit
  <2>4. Numbered
    BY AnswerFacts DEF Init, Numbered, Answers
  <2> QED
    BY <2>1, <2>2, <2>3, <2>4
<1>2. ConstantsAssumption /\ Inv /\ [Next]_vars => Inv'
  BY TypesStep, PollingStep, ProgressStep, NumberedStep, FrontStep, MissedStep
<1>3. Inv => StrayByteTolerated
  BY DEF Missed, StrayByteTolerated, Reading
<1>4. QED
  BY <1>1, <1>2, <1>3, ConstantsAssumption, PTL DEF Spec

-----------------------------------------------------------------------------
(* The rest of TypeOK.                                                      *)
RequestTypes ==
  /\ irq \in [Devices -> BOOLEAN] /\ signal \in BOOLEAN /\ locked \in BOOLEAN
  /\ expecting \in BOOLEAN
  /\ at \in {"idle", "interrupt", "mouse data", "read", "poll"}
  /\ reply \in Byte \cup {NoByte} /\ lost \subseteq Byte
  /\ Len(keyboardQueue) <= QueueSize

LEMMA ReturnTypes ==
  ASSUME RequestTypes, NEW b \in Byte \cup {NoByte}, Return(b)
  PROVE  /\ reply' \in Byte \cup {NoByte} /\ lost' \subseteq Byte
         /\ at' \in {"idle", "interrupt", "mouse data", "read", "poll"}
  BY DEF RequestTypes, Return

LEMMA RequestedTypes ==
  ASSUME Types, RequestTypes, NEW b \in Byte, Requested(b) \/ Received(b)
  PROVE  /\ reply' \in Byte \cup {NoByte} /\ lost' \subseteq Byte
         /\ at' \in {"idle", "interrupt", "mouse data", "read", "poll"}
<1>1. CASE Requested(b)
  <2>1. \/ Return(b) \/ Return(firstByte)
        \/ at' = "read" /\ UNCHANGED <<reply, lost>>
    BY <1>1 DEF Requested
  <2> QED
    BY <2>1, ReturnTypes DEF Types, RequestTypes
<1>2. CASE ~Requested(b)
  BY <1>2 DEF Received, RequestTypes
<1> QED
  BY <1>1, <1>2

LEMMA QueueLengths ==
  ASSUME Types
  PROVE  /\ Len(keyboardQueue) \in Nat
         /\ keyboardQueue # <<>> => Len(Tail(keyboardQueue)) <= Len(keyboardQueue)
         /\ \A b : Len(Append(keyboardQueue, b)) = Len(keyboardQueue) + 1
  BY DEF Types

LEMMA QueueBounded ==
  ASSUME Types, Types', Len(keyboardQueue) <= QueueSize, [Next]_vars
  PROVE  Len(keyboardQueue') <= QueueSize
<1>1. \/ keyboardQueue' = keyboardQueue
      \/ keyboardQueue # <<>> /\ keyboardQueue' = Tail(keyboardQueue)
      \/ keyboardQueue' = Append(keyboardQueue, port) /\ Len(keyboardQueue) < QueueSize
  BY DEF Next, vars, Send, InterruptHandlerMouse, InterruptHandlerKeyboard, Enqueue,
         InterruptOccurred, InterruptLoop, InterruptMouseData, BeginRead, ReadLoop, ReadPolled,
         ReadTimeout
<1>2. Len(keyboardQueue) \in Nat /\ QueueSize \in Nat
  BY QueueLengths, ConstantsAssumption DEF ConstantsAssumption
<1>3. CASE keyboardQueue # <<>> /\ keyboardQueue' = Tail(keyboardQueue)
  <2>1. Len(keyboardQueue') + 1 = Len(keyboardQueue) /\ Len(keyboardQueue') \in Nat
    BY <1>3 DEF Types
  <2> QED
    BY <1>2, <2>1
<1>4. CASE keyboardQueue' = Append(keyboardQueue, port) /\ Len(keyboardQueue) < QueueSize
  BY <1>2, <1>4, QueueLengths
<1> QED
  BY <1>1, <1>3, <1>4

LEMMA RequestTypesStep ==
  ASSUME Types, Types', RequestTypes, [Next]_vars
  PROVE  RequestTypes'
<1>1. Len(keyboardQueue') <= QueueSize
  BY QueueBounded DEF RequestTypes
<1>2. ASSUME UNCHANGED <<reply, lost>>,
             at' \in {"idle", "interrupt", "mouse data", "read", "poll"},
             UNCHANGED <<irq, signal, locked, expecting>>
      PROVE  RequestTypes'
  BY <1>1, <1>2 DEF RequestTypes
<1>3. ASSUME NEW d \in Devices, NEW c \in 0..MaxCommands, Send(d, c) PROVE RequestTypes'
  BY <1>1, <1>3 DEF Send, reader, RequestTypes
<1>4. CASE InterruptHandlerMouse
  BY <1>1, <1>4 DEF InterruptHandlerMouse, reader, RequestTypes
<1>5. CASE InterruptHandlerKeyboard
  <2>1. lost' = lost \/ (port \in Byte /\ lost' = lost \cup {port})
    BY <1>5, ByteFacts DEF InterruptHandlerKeyboard, Enqueue, Types
  <2> QED
    BY <1>1, <1>5, <2>1 DEF InterruptHandlerKeyboard, reader, RequestTypes
<1>6. CASE InterruptOccurred
  BY <1>1, <1>6 DEF InterruptOccurred, reader, RequestTypes
<1>7. CASE InterruptLoop
  BY <1>1, <1>7 DEF InterruptLoop, reader, RequestTypes
<1>8. CASE InterruptMouseData
  BY <1>1, <1>8 DEF InterruptMouseData, reader, RequestTypes
<1>9. ASSUME NEW d \in Devices, NEW exp \in BOOLEAN, NEW will \in BOOLEAN,
             BeginRead(d, exp, will)
      PROVE  RequestTypes'
  BY <1>1, <1>9 DEF BeginRead, RequestTypes
<1>10. CASE ReadLoop \/ ReadPolled
  <2>1. \/ \E b \in Byte : Requested(b) \/ Received(b)
        \/ at' = "poll" /\ UNCHANGED <<reply, lost>>
    <3>1. keyboardQueue # <<>> => Head(keyboardQueue) \in Byte
      BY QueueFacts DEF Types
    <3> QED
      BY <1>10, <3>1 DEF ReadLoop, ReadPolled, Types
  <2>2. /\ reply' \in Byte \cup {NoByte} /\ lost' \subseteq Byte
        /\ at' \in {"idle", "interrupt", "mouse data", "read", "poll"}
    BY <2>1, RequestedTypes DEF RequestTypes
  <2>3. UNCHANGED <<irq, signal, expecting>> /\ locked' \in BOOLEAN
    BY <1>10 DEF ReadLoop, ReadPolled, RequestTypes
  <2> QED
    BY <1>1, <2>2, <2>3 DEF RequestTypes
<1>11. CASE ReadTimeout
  <2>1. /\ reply' \in Byte \cup {NoByte} /\ lost' \subseteq Byte
        /\ at' \in {"idle", "interrupt", "mouse data", "read", "poll"}
    BY <1>11, ReturnTypes DEF ReadTimeout, Types
  <2> QED
    BY <1>1, <1>11, <2>1 DEF ReadTimeout, RequestTypes
<1>12. CASE UNCHANGED vars
  BY <1>1, <1>12 DEF vars, RequestTypes
<1> QED
  BY <1>3, <1>4, <1>5, <1>6, <1>7, <1>8, <1>9, <1>10, <1>11, <1>12 DEF Next

LEMMA RequestTypesInit == ConstantsAssumption /\ Init => RequestTypes
<1> SUFFICES ASSUME ConstantsAssumption, Init PROVE RequestTypes
  OBVIOUS
<1>1. keyboardQueue = <<>> /\ Len(<<>>) = 0 /\ QueueSize \in Nat /\ 0 <= QueueSize
  BY DEF Init, ConstantsAssumption
<1>2. irq \in [Devices -> BOOLEAN]
  BY DEF Init
<1>3. /\ signal \in BOOLEAN /\ locked \in BOOLEAN /\ expecting \in BOOLEAN
      /\ reply \in Byte \cup {NoByte} /\ lost \subseteq Byte
      /\ at \in {"idle", "interrupt", "mouse data", "read", "poll"}
  BY DEF Init
<1> QED
  BY <1>1, <1>2, <1>3 DEF RequestTypes

(* The byte path is always in a state of the types its declarations give:   *)
(* the queue never grows beyond kKeyboardQueueSize, and the count of bytes  *)
(* read before a command never goes negative.                               *)
THEOREM TypeCorrect == Spec => []TypeOK
<1> DEFINE Inv == /\ Types /\ Routing /\ ReadBeforeType /\ Fits /\ Progress /\ RequestTypes
<1>1. ConstantsAssumption /\ Init => Inv
  <2> SUFFICES ASSUME ConstantsAssumption, Init PROVE Inv
    OBVIOUS
  <2>1. Types /\ Routing
    BY TypesInit
  <2>2. ReadBeforeType /\ Progress
    BY DEF Init, ReadBeforeType, Progress, Reading, ConstantsAssumption
  <2>3. Fits
    BY FitsInit
  <2>4. RequestTypes
    BY RequestTypesInit
  <2> QED
    BY <2>1, <2>2, <2>3, <2>4
<1>2. ConstantsAssumption /\ Inv /\ [Next]_vars => Inv'
  BY TypesStep, ProgressStep, RequestTypesStep
<1>3. Inv => TypeOK
  BY DEF Types, ReadBeforeType, RequestTypes, TypeOK
<1>4. QED
  BY <1>1, <1>2, <1>3, ConstantsAssumption, PTL DEF Spec

-----------------------------------------------------------------------------
(* No wake-up is lost. A keyboard byte in the port has its interrupt still  *)
(* to come; for a byte of the mouse the interrupt, the event source or the  *)
(* loop of interruptOccurred is to come; a byte in the keyboard queue has   *)
(* the event source or that loop; and the lock that keeps the keyboard      *)
(* interrupt out is held by a poll, which ends.                             *)
WakeUpToCome ==
  /\ port.dev = Keyboard => irq[Keyboard]
  /\ port.dev = Mouse => irq[Mouse] \/ signal \/ at \in {"interrupt", "mouse data"}
  /\ keyboardQueue # <<>> => signal \/ at = "interrupt"
  /\ locked => at = "poll"

(* A step that interrupts nothing: it may empty the port and take from the  *)
(* queue, and the work loop stays out of interruptOccurred.                 *)
LEMMA ReadingWakes ==
  ASSUME WakeUpToCome, at \in {"idle", "read", "poll"}, UNCHANGED <<irq, signal>>,
         port' = port \/ port' = NoByte,
         keyboardQueue' = keyboardQueue \/ keyboardQueue # <<>>,
         locked' => at' = "poll"
  PROVE  WakeUpToCome'
<1>1. NoByte.dev # Keyboard /\ NoByte.dev # Mouse
  BY DEF NoByte, Keyboard, Mouse
<1>2. /\ port'.dev = Keyboard => port.dev = Keyboard
      /\ port'.dev = Mouse => port.dev = Mouse
  BY <1>1
<1>3. keyboardQueue' # <<>> => signal
  BY DEF WakeUpToCome
<1>4. port.dev = Mouse => irq[Mouse] \/ signal
  BY DEF WakeUpToCome
<1> QED
  BY <1>2, <1>3, <1>4 DEF WakeUpToCome

LEMMA WakeUpStep ==
  ASSUME RequestTypes, WakeUpToCome, [Next]_vars
  PROVE  WakeUpToCome'
<1>n. NoByte.dev # Keyboard /\ NoByte.dev # Mouse /\ Keyboard # Mouse
  BY DEF NoByte, Keyboard, Mouse
<1>i. irq \in [Devices -> BOOLEAN] /\ Devices = {Keyboard, Mouse}
  BY DEF RequestTypes, Devices
<1>1. ASSUME NEW d \in Devices, NEW c \in 0..MaxCommands, Send(d, c) PROVE WakeUpToCome'
  <2>1. port'.dev = d /\ irq'[d] /\ UNCHANGED <<keyboardQueue, signal, at, locked>>
    BY <1>1, <1>i DEF Send
  <2> QED
    BY <1>i, <1>n, <2>1 DEF WakeUpToCome
<1>2. CASE InterruptHandlerMouse
  <2>1. signal' /\ irq'[Keyboard] = irq[Keyboard] /\ UNCHANGED <<port, keyboardQueue, at, locked>>
    BY <1>2, <1>i, <1>n DEF InterruptHandlerMouse
  <2> QED
    BY <2>1 DEF WakeUpToCome
<1>3. CASE InterruptHandlerKeyboard
  <2>1. irq'[Mouse] = irq[Mouse] /\ ~locked /\ UNCHANGED <<at, locked>>
    BY <1>3, <1>i, <1>n DEF InterruptHandlerKeyboard
  <2>2. CASE port.dev = Keyboard
    <3>1. signal' /\ port' = NoByte
      BY <1>3, <1>n, <2>2 DEF InterruptHandlerKeyboard
    <3> QED
      BY <1>n, <2>1, <3>1 DEF WakeUpToCome
  <2>3. CASE port.dev # Keyboard
    <3>1. UNCHANGED <<port, keyboardQueue>> /\ (signal => signal')
      BY <1>3, <2>3 DEF InterruptHandlerKeyboard
    <3> QED
      BY <2>1, <2>3, <3>1 DEF WakeUpToCome
  <2> QED
    BY <2>2, <2>3
<1>4. CASE InterruptOccurred
  <2>1. at' = "interrupt" /\ at = "idle" /\ UNCHANGED <<port, irq, keyboardQueue, locked>>
    BY <1>4 DEF InterruptOccurred
  <2> QED
    BY <2>1 DEF WakeUpToCome
<1>5. CASE InterruptLoop
  <2>1. at = "interrupt" /\ UNCHANGED <<port, irq, signal, locked>>
    BY <1>5 DEF InterruptLoop
  <2>2. \/ at' = "interrupt"
        \/ /\ keyboardQueue' = <<>>
           /\ at' = IF port.dev = Mouse THEN "mouse data" ELSE "idle"
    BY <1>5 DEF InterruptLoop
  <2> QED
    BY <2>1, <2>2 DEF WakeUpToCome
<1>6. CASE InterruptMouseData
  <2>1. at = "mouse data" /\ at' = "interrupt" /\ port' = NoByte
        /\ UNCHANGED <<irq, signal, locked, keyboardQueue>>
    BY <1>6 DEF InterruptMouseData
  <2> QED
    BY <1>n, <2>1 DEF WakeUpToCome
<1>7. ASSUME NEW d \in Devices, NEW exp \in BOOLEAN, NEW will \in BOOLEAN,
             BeginRead(d, exp, will)
      PROVE  WakeUpToCome'
  <2>1. at = "idle" /\ UNCHANGED <<port, irq, signal, keyboardQueue, locked>>
    BY <1>7 DEF BeginRead
  <2>2. ~locked
    BY <2>1 DEF WakeUpToCome
  <2> QED
    BY <2>1, <2>2, ReadingWakes
<1>8. CASE ReadLoop
  <2>1. at = "read" /\ UNCHANGED <<irq, signal>>
    BY <1>8 DEF ReadLoop
  <2>2. port' = port \/ port' = NoByte
    BY <1>8 DEF ReadLoop
  <2>3. keyboardQueue' = keyboardQueue \/ keyboardQueue # <<>>
    BY <1>8 DEF ReadLoop
  <2>4. ~locked
    BY <2>1 DEF WakeUpToCome
  <2>5. locked' => at' = "poll"
    BY <1>8, <2>4 DEF ReadLoop
  <2> QED
    BY <2>1, <2>2, <2>3, <2>5, ReadingWakes
<1>9. CASE ReadPolled \/ ReadTimeout
  <2>1. at = "poll" /\ ~locked' /\ UNCHANGED <<irq, signal, keyboardQueue>>
    BY <1>9 DEF ReadPolled, ReadTimeout
  <2>2. port' = port \/ port' = NoByte
    BY <1>9 DEF ReadPolled, ReadTimeout
  <2> QED
    BY <2>1, <2>2, ReadingWakes
<1>10. CASE UNCHANGED vars
  BY <1>10 DEF vars, WakeUpToCome
<1> QED
  BY <1>1, <1>2, <1>3, <1>4, <1>5, <1>6, <1>7, <1>8, <1>9, <1>10 DEF Next

(* Whatever interrupts are merged, find a byte of the other device or none, *)
(* or are kept out by a request that polls: a byte that waits in the port   *)
(* or in the keyboard queue has someone still to come for it.               *)
THEOREM BytesAreServed == Spec => []WakeUpToCome
<1> DEFINE Inv == Types /\ Routing /\ RequestTypes /\ WakeUpToCome
<1>1. ConstantsAssumption /\ Init => Inv
  <2>1. Init => WakeUpToCome
    <3> SUFFICES ASSUME Init PROVE WakeUpToCome
      OBVIOUS
    <3>1. port = NoByte /\ keyboardQueue = <<>> /\ locked = FALSE
      BY DEF Init
    <3> QED
      BY <3>1 DEF WakeUpToCome, NoByte, Keyboard, Mouse
  <2> QED
    BY <2>1, TypesInit, RequestTypesInit
<1>2. ConstantsAssumption /\ Inv /\ [Next]_vars => Inv'
  BY TypesStep, RequestTypesStep, WakeUpStep
<1>3. Inv => WakeUpToCome
  OBVIOUS
<1> QED
  BY <1>1, <1>2, <1>3, ConstantsAssumption, PTL DEF Spec
==============================================================================
