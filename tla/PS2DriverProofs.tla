---------------------------- MODULE PS2DriverProofs ----------------------------
(***************************************************************************)
(* Proofs about what the PS/2 drivers do with the two things that share    *)
(* the keyboard's stream of bytes.                                         *)
(*                                                                         *)
(* PS2CommandByte: its type invariant; that with a silent keyboard         *)
(* setCommandByte implements the atomic register, for any drivers and any  *)
(* updates; and that whatever is typed it departs from the atomic register *)
(* only where a byte that is not the answer passes the test.               *)
(*                                                                         *)
(* PS2Keyboard: its type invariant, that the driver follows the user, that *)
(* the parsers agree on the modifier keys, and that the debugger is called *)
(* only when it is meant.  The two parsers are machines that read codes;   *)
(* the inductive invariant says where the codes that are queued and those  *)
(* on their way will take them: to the keys that the user holds.           *)
(***************************************************************************)
EXTENDS PS2CommandByte, PS2Keyboard, TLAPS

LEMMA ApplyType ==
  ASSUME NEW byte \in Bytes, NEW u \in Update
  PROVE  Register!Apply(byte, u) \in Bytes
  BY ConstantsAssumption DEF Register!Apply, Bytes

(* A driver is in setCommandByte exactly while it has an update to make.   *)
InCall == \A d \in Drivers : pc[d] = "idle" <=> update[d] = NoUpdate

LEMMA TypeInit == Init => TypeOK /\ InCall
  <1>1. {} \in Bytes
    BY DEF Bytes
  <1>2. <<>> \in Seq(Bytes) /\ Len(<<>>) = 0
    OBVIOUS
  <1> QED
    BY <1>1, <1>2, ConstantsAssumption
    DEF Init, TypeOK, InCall, Register!RegisterInit

LEMMA TypeStep == TypeOK /\ InCall /\ [Next]_vars => TypeOK' /\ InCall'
  <1> SUFFICES ASSUME TypeOK, InCall, [Next]_vars PROVE TypeOK' /\ InCall'
    OBVIOUS
  <1> USE ConstantsAssumption
  <1>h. stream # <<>> => Head(stream) \in Bytes /\ Tail(stream) \in Seq(Bytes)
    BY DEF TypeOK
  <1>a. Append(stream, commandByte) \in Seq(Bytes)
    BY DEF TypeOK
  <1>e. <<>> \in Seq(Bytes) /\ Len(<<>>) = 0
    OBVIOUS
  <1>n. ahead \in Int /\ ahead - 1 \in Int /\ Len(stream) \in Int
    BY DEF TypeOK
  <1>1. ASSUME NEW d \in Drivers, CallUpdate(d) PROVE TypeOK' /\ InCall'
    BY <1>1 DEF CallUpdate, Register!Call, Goto, TypeOK, InCall
  <1>2. ASSUME NEW d \in Drivers, BeginRead(d) PROVE TypeOK' /\ InCall'
    BY <1>2, <1>a, <1>n DEF BeginRead, GetCommandByte, Goto, TypeOK, InCall
  <1>3. ASSUME NEW d \in Drivers, ReadReply(d) PROVE TypeOK' /\ InCall'
    BY <1>3, <1>h, <1>n DEF ReadReply, ReadByte, Goto, TypeOK, InCall
  <1>4. ASSUME NEW d \in Drivers, BeginTest(d) PROVE TypeOK' /\ InCall'
    BY <1>4, <1>a, <1>n DEF BeginTest, GetCommandByte, Goto, TypeOK, InCall
  <1>5. ASSUME NEW d \in Drivers, TestEqual(d) PROVE TypeOK' /\ InCall'
    BY <1>5, <1>h, <1>e, <1>n DEF TestEqual, ReadByte, Goto, TypeOK, InCall
  <1>6. ASSUME NEW d \in Drivers, TestPutAside(d) PROVE TypeOK' /\ InCall'
    <2>1. <<Head(stream)>> \in Seq(Bytes) /\ Len(<<Head(stream)>>) = 1
      BY <1>6, <1>h DEF TestPutAside, ReadByte
    <2> QED
      BY <1>6, <1>h, <2>1, <1>n DEF TestPutAside, ReadByte, TypeOK, InCall
  <1>7. ASSUME NEW d \in Drivers, TestDifferent(d) PROVE TypeOK' /\ InCall'
    BY <1>7, <1>h, <1>e, <1>n DEF TestDifferent, ReadByte, FailTest, Goto, TypeOK, InCall
  <1>8. ASSUME NEW d \in Drivers, TestTimeout(d) PROVE TypeOK' /\ InCall'
    BY <1>8, <1>e DEF TestTimeout, FailTest, Goto, TypeOK, InCall
  <1>9. ASSUME NEW d \in Drivers, Write(d) PROVE TypeOK' /\ InCall'
    <2>1. old[d] \in Bytes /\ update[d] \in Update
      BY <1>9 DEF Write, TypeOK, InCall
    <2>2. commandByte' \in Bytes
      BY <1>9, <2>1, ApplyType DEF Write
    <2> QED
      BY <1>9, <2>2 DEF Write, Goto, TypeOK, InCall
  <1>10. ASSUME NEW b \in ScanCodes, Scan(b) PROVE TypeOK' /\ InCall'
    <2>1. Append(stream, b) \in Seq(Bytes)
      BY DEF TypeOK
    <2> QED
      BY <1>10, <2>1 DEF Scan, TypeOK, InCall
  <1>11. ASSUME Dispatch PROVE TypeOK' /\ InCall'
    BY <1>11, <1>h DEF Dispatch, TypeOK, InCall
  <1>12. ASSUME UNCHANGED vars PROVE TypeOK' /\ InCall'
    BY <1>12 DEF vars, TypeOK, InCall
  <1> QED
    BY <1>1, <1>2, <1>3, <1>4, <1>5, <1>6, <1>7, <1>8, <1>9, <1>10, <1>11, <1>12
    DEF Next

(* Every variable of setCommandByte keeps its type, whatever is typed.     *)
THEOREM TypeCorrect == Spec => []TypeOK
  BY TypeInit, TypeStep, PTL DEF Spec

-----------------------------------------------------------------------------
(* While no scan code is sent, the stream holds nothing but the answer to   *)
(* the request in the gate, and that answer is the register: so the write   *)
(* at the end of the second request is based on the register as it is.      *)
Reading(d) == pc[d] = "reading" /\ stream = <<commandByte>> /\ firstByte = <<>>
Testing(d) == pc[d] = "testing" /\ \/ stream = <<commandByte>> /\ firstByte = <<>>
                                   \/ stream = <<>> /\ firstByte # <<>>
Writing(d) == pc[d] = "write" /\ old[d] = commandByte /\ stream = <<>> /\ firstByte = <<>>

QuietInv ==
  /\ gate = NoDriver => stream = <<>> /\ firstByte = <<>>
  /\ \A d \in Drivers : gate = d => Reading(d) \/ Testing(d) \/ Writing(d)
  /\ \A d \in Drivers : pc[d] \in {"reading", "testing", "write"} => gate = d

LEMMA QuietStep ==
  ASSUME ScanCodes = {}
  PROVE  TypeOK /\ InCall /\ QuietInv /\ [Next]_vars => QuietInv'
  <1> SUFFICES ASSUME TypeOK, InCall, QuietInv, [Next]_vars PROVE QuietInv'
    OBVIOUS
  <1> USE ConstantsAssumption DEF QuietInv, Reading, Testing, Writing
  <1>a. Append(<<>>, commandByte) = <<commandByte>>
    OBVIOUS
  <1>b. Head(<<commandByte>>) = commandByte /\ Tail(<<commandByte>>) = <<>>
        /\ <<commandByte>> # <<>>
    OBVIOUS
  <1>1. ASSUME NEW d \in Drivers, CallUpdate(d) PROVE QuietInv'
    BY <1>1 DEF CallUpdate, Register!Call, Goto, TypeOK, InCall
  <1>2. ASSUME NEW d \in Drivers, BeginRead(d) PROVE QuietInv'
    BY <1>2, <1>a DEF BeginRead, GetCommandByte, Goto, TypeOK
  <1>3. ASSUME NEW d \in Drivers, ReadReply(d) PROVE QuietInv'
    BY <1>3, <1>b DEF ReadReply, ReadByte, Goto, TypeOK
  <1>4. ASSUME NEW d \in Drivers, BeginTest(d) PROVE QuietInv'
    BY <1>4, <1>a DEF BeginTest, GetCommandByte, Goto, TypeOK
  <1>5. ASSUME NEW d \in Drivers, TestEqual(d) PROVE QuietInv'
    <2>1. gate = d /\ stream = <<commandByte>>
      BY <1>5 DEF TestEqual, ReadByte
    <2> QED
      BY <1>5, <1>b, <2>1 DEF TestEqual, ReadByte, Goto, TypeOK
  <1>6. ASSUME NEW d \in Drivers, TestPutAside(d) PROVE QuietInv'
    <2>1. gate = d /\ stream = <<commandByte>>
      BY <1>6 DEF TestPutAside, ReadByte
    <2>2. <<Head(stream)>> # <<>>
      OBVIOUS
    <2> QED
      BY <1>6, <1>b, <2>1, <2>2 DEF TestPutAside, ReadByte, TypeOK
  <1>7. ASSUME NEW d \in Drivers, TestDifferent(d) PROVE QuietInv'
    BY <1>7 DEF TestDifferent, ReadByte
  <1>8. ASSUME NEW d \in Drivers, TestTimeout(d) PROVE QuietInv'
    BY <1>8 DEF TestTimeout, FailTest, Goto, TypeOK
  <1>9. ASSUME NEW d \in Drivers, Write(d) PROVE QuietInv'
    BY <1>9 DEF Write, Goto, TypeOK
  <1>10. ASSUME Dispatch PROVE QuietInv'
    BY <1>10 DEF Dispatch
  <1>11. ASSUME UNCHANGED vars PROVE QuietInv'
    BY <1>11 DEF vars
  <1> QED
    BY <1>1, <1>2, <1>3, <1>4, <1>5, <1>6, <1>7, <1>8, <1>9, <1>10, <1>11 DEF Next

LEMMA QuietRefines ==
  TypeOK /\ InCall /\ QuietInv /\ [Next]_vars
    => [Register!RegisterNext]_<<commandByte, update>>
  <1> SUFFICES ASSUME TypeOK, InCall, QuietInv, [Next]_vars
               PROVE  Register!RegisterNext \/ UNCHANGED <<commandByte, update>>
    OBVIOUS
  <1>1. ASSUME NEW d \in Drivers, CallUpdate(d) PROVE Register!RegisterNext
    BY <1>1 DEF CallUpdate, Register!RegisterNext
  <1>2. ASSUME NEW d \in Drivers, Write(d) PROVE Register!RegisterNext
    <2>1. old[d] = commandByte /\ update[d] # NoUpdate
      BY <1>2 DEF Write, QuietInv, Reading, Testing, Writing, InCall
    <2> QED
      BY <1>2, <2>1 DEF Write, Register!RegisterNext, Register!Commit
  <1> QED
    BY <1>1, <1>2
    DEF Next, vars, BeginRead, ReadReply, BeginTest, TestEqual, TestPutAside,
        TestDifferent, TestTimeout, FailTest, Scan, Dispatch, ReadByte, GetCommandByte

(* setCommandByte implements the atomic register, for any number of        *)
(* drivers and any updates, as long as no key is pressed meanwhile.        *)
THEOREM QuietUpdatesAtomically ==
  ASSUME ScanCodes = {}
  PROVE  Spec => ImplementsRegister
  <1>1. Init => QuietInv
    BY ConstantsAssumption DEF Init, QuietInv
  <1>2. Init => Register!RegisterInit
    BY DEF Init
  <1> QED
    BY <1>1, <1>2, TypeInit, TypeStep, QuietStep, QuietRefines, PTL
    DEF Spec, ImplementsRegister, Register!RegisterSpec

-----------------------------------------------------------------------------
(* Whatever is typed: until the answer to the request in the gate has been *)
(* read it is in the stream, behind the bytes that history counts, and it  *)
(* is the register; a test that it has passed has shown the register.      *)
Owned == \A d \in Drivers : pc[d] \in {"reading", "testing", "write"} <=> gate = d

AnswerComes ==
  \A d \in Drivers : pc[d] \in {"reading", "testing"} /\ ahead >= 0
    => ahead < Len(stream) /\ stream[ahead + 1] = commandByte
AnswerShown == \A d \in Drivers : pc[d] = "write" /\ ahead = -1 => old[d] = commandByte

AnswerInv == Owned /\ AnswerComes /\ AnswerShown

LEMMA AnswerStep == TypeOK /\ InCall /\ AnswerInv /\ [Next]_vars => AnswerInv'
  <1> SUFFICES ASSUME TypeOK, InCall, AnswerInv, [Next]_vars PROVE AnswerInv'
    OBVIOUS
  <1> USE ConstantsAssumption DEF AnswerInv, Owned, AnswerComes, AnswerShown
  <1>t. stream \in Seq(Bytes) /\ ahead \in Int /\ Len(stream) \in Nat
    BY DEF TypeOK
  <1>r. ASSUME ReadByte
        PROVE  /\ ahead' \in Int
               /\ ahead' = -1 => ahead = 0
               /\ ahead = 0 /\ 0 < Len(stream) => Head(stream) = stream[1]
               /\ ahead' >= 0 /\ ahead < Len(stream)
                    => /\ ahead >= 0
                       /\ ahead' < Len(stream') /\ stream'[ahead' + 1] = stream[ahead + 1]
    BY <1>r, <1>t DEF ReadByte
  <1>1. ASSUME NEW d \in Drivers, CallUpdate(d) PROVE AnswerInv'
    BY <1>1 DEF CallUpdate, Register!Call, Goto, TypeOK, InCall
  <1>g. ASSUME NEW d \in Drivers, GetCommandByte(d)
        PROVE  ahead' = Len(stream) /\ ahead' < Len(stream') /\ stream'[ahead' + 1] = commandByte
    BY <1>g, <1>t DEF GetCommandByte, TypeOK
  <1>2. ASSUME NEW d \in Drivers, BeginRead(d) PROVE AnswerInv'
    <2>1. gate = NoDriver /\ gate' = d
      BY <1>2 DEF BeginRead, GetCommandByte
    <2> QED
      BY <1>2, <1>g, <2>1 DEF BeginRead, Goto, TypeOK
  <1>3. ASSUME NEW d \in Drivers, ReadReply(d) PROVE AnswerInv'
    <2>1. gate = d
      BY <1>3 DEF ReadReply
    <2> QED
      BY <1>3, <2>1 DEF ReadReply, Goto, TypeOK
  <1>4. ASSUME NEW d \in Drivers, BeginTest(d) PROVE AnswerInv'
    <2>1. gate = NoDriver /\ gate' = d
      BY <1>4 DEF BeginTest, GetCommandByte
    <2> QED
      BY <1>4, <1>g, <2>1 DEF BeginTest, Goto, TypeOK
  <1>5. ASSUME NEW d \in Drivers, TestEqual(d) PROVE AnswerInv'
    <2>1. gate = d /\ ReadByte /\ Head(stream) = old[d]
      BY <1>5 DEF TestEqual
    <2>2. ahead' = -1 => old[d] = commandByte
      BY <1>5, <1>r, <1>t, <2>1 DEF TestEqual
    <2> QED
      BY <1>5, <2>1, <2>2 DEF TestEqual, Goto, TypeOK
  <1>6. ASSUME NEW d \in Drivers, TestPutAside(d) PROVE AnswerInv'
    <2>1. gate = d /\ ReadByte
      BY <1>6 DEF TestPutAside
    <2>2. ahead' >= 0 => ahead >= 0
      BY <1>t, <2>1 DEF ReadByte
    <2>3. ahead' >= 0 => ahead' < Len(stream') /\ stream'[ahead' + 1] = commandByte
      BY <1>6, <1>r, <2>1, <2>2 DEF TestPutAside
    <2> QED
      BY <1>6, <2>1, <2>3 DEF TestPutAside, TypeOK
  <1>7. ASSUME NEW d \in Drivers, TestDifferent(d) PROVE AnswerInv'
    <2>1. gate = d
      BY <1>7 DEF TestDifferent
    <2> QED
      BY <1>7, <2>1 DEF TestDifferent, FailTest, Goto, TypeOK
  <1>8. ASSUME NEW d \in Drivers, TestTimeout(d) PROVE AnswerInv'
    <2>1. gate = d
      BY <1>8 DEF TestTimeout
    <2> QED
      BY <1>8, <2>1 DEF TestTimeout, FailTest, Goto, TypeOK
  <1>9. ASSUME NEW d \in Drivers, Write(d) PROVE AnswerInv'
    <2>1. gate = d
      BY <1>9 DEF Write
    <2> QED
      BY <1>9, <2>1 DEF Write, Goto, TypeOK
  <1>10. ASSUME NEW b \in ScanCodes, Scan(b) PROVE AnswerInv'
    <2>1. ahead >= 0 /\ ahead < Len(stream)
            => ahead < Len(stream') /\ stream'[ahead + 1] = stream[ahead + 1]
      BY <1>10, <1>t DEF Scan
    <2> QED
      BY <1>10, <2>1 DEF Scan
  <1>11. ASSUME Dispatch PROVE AnswerInv'
    BY <1>11 DEF Dispatch
  <1>12. ASSUME UNCHANGED vars PROVE AnswerInv'
    BY <1>12 DEF vars
  <1> QED
    BY <1>1, <1>2, <1>3, <1>4, <1>5, <1>6, <1>7, <1>8, <1>9, <1>10, <1>11, <1>12 DEF Next

LEMMA AnswerAllows ==
  TypeOK /\ InCall /\ AnswerInv /\ [Next]_vars
    => [Register!RegisterNext \/ Mistaken]_<<commandByte, update>>
  <1> SUFFICES ASSUME TypeOK, InCall, AnswerInv, [Next]_vars
               PROVE  (Register!RegisterNext \/ Mistaken) \/ UNCHANGED <<commandByte, update>>
    OBVIOUS
  <1>1. ASSUME NEW d \in Drivers, CallUpdate(d) PROVE Register!RegisterNext
    BY <1>1 DEF CallUpdate, Register!RegisterNext
  <1>2. ASSUME NEW d \in Drivers, Write(d), ~Mistaken PROVE Register!RegisterNext
    <2>1. gate = d /\ gate # NoDriver
      BY <1>2, ConstantsAssumption DEF Write, AnswerInv, Owned
    <2>2. old[d] = commandByte /\ update[d] # NoUpdate
      BY <1>2, <2>1 DEF Write, Mistaken, AnswerInv, AnswerShown, InCall
    <2> QED
      BY <1>2, <2>2 DEF Write, Register!RegisterNext, Register!Commit
  <1> QED
    BY <1>1, <1>2
    DEF Next, vars, BeginRead, ReadReply, BeginTest, TestEqual, TestPutAside,
        TestDifferent, TestTimeout, FailTest, Scan, Dispatch, ReadByte, GetCommandByte

(* Whatever is typed meanwhile: a change of the command byte that is not   *)
(* the atomic register's has been allowed by a byte that was not the       *)
(* answer to the test, never by the loop of the driver or the other ones.  *)
THEOREM UpdatesAreAtomic == Spec => UpdatesAtomically
  <1>1. Init => AnswerInv
    BY ConstantsAssumption DEF Init, AnswerInv, Owned, AnswerComes, AnswerShown
  <1> QED
    BY <1>1, TypeInit, TypeStep, AnswerStep, AnswerAllows, PTL DEF Spec, UpdatesAtomically

-----------------------------------------------------------------------------
(* The parsers of the scan codes, as functions of their state and a code:  *)
(* Handle is the keyboard driver's, Escape the controller's.             *)
Ordinary == AllKeys \ {"print screen", "pause"}
Pressed == Keys \cup ScreenshotKeys
Alts == {"left alt", "right alt"}

ModifierOf(code, ext) ==
  IF code \in {"alt", "ctrl", "shift"} THEN Decoded(code, ext) ELSE {}

After(up, before, keys) == IF up THEN before \ keys ELSE before \cup keys

DriverStates == [count : 0 .. 2, keys : SUBSET Pressed]
ControllerStates == [extended : BOOLEAN, modifiers : SUBSET Modifiers]

Driver(n, keys) == [count |-> n, keys |-> keys]
Controller(ext, mods) == [extended |-> ext, modifiers |-> mods]

Handle(d, b) ==
  IF b = Extend THEN Driver(1, d.keys)
  ELSE IF b = PausePrefix THEN Driver(2, d.keys)
  ELSE IF d.count = 2 THEN Driver(1, d.keys)
  ELSE IF d.count = 1 THEN Driver(0, After(b.up, d.keys, Decoded(b.code, TRUE)))
  ELSE Driver(0, After(b.up, d.keys, Decoded(b.code, FALSE)))

Escape(c, b) ==
  IF ~Debugging THEN Controller(FALSE, c.modifiers)
  ELSE IF b = Extend THEN Controller(TRUE, c.modifiers)
  ELSE Controller(FALSE, After(b.up, c.modifiers, ModifierOf(b.code, c.extended)))

(* What the two parsers do to a code that both are given. In a stream that *)
(* is in order the driver has both Alt keys down, and is not in the middle *)
(* of a sequence, when a delete key calls the debugger.                    *)
InOrder(s, b) ==
  b.code = "delete" /\ ~s[1].extended /\ s[1].modifiers = Alts
    => s[2].count = 0 /\ s[2].keys \cap Modifiers = Alts

DriverStep == [x \in DriverStates \X KeyCodes |-> Handle(x[1], x[2])]
ParserStep(ordered) ==
  [x \in {y \in (ControllerStates \X DriverStates) \X KeyCodes : ordered => InOrder(y[1], y[2])} |->
     <<Escape(x[1][1], x[2]), Handle(x[1][2], x[2])>>]

(* The codes take the machine with the step function f from a to z.        *)
Follows(f, codes, d, i) ==
  <<d[i - 1], codes[i]>> \in DOMAIN f /\ d[i] = f[<<d[i - 1], codes[i]>>]
Trace(f, a, codes, z, d) ==
  /\ DOMAIN d = 0 .. Len(codes)
  /\ d[0] = a /\ d[Len(codes)] = z
  /\ \A i \in 1 .. Len(codes) : Follows(f, codes, d, i)
Run(f, a, codes, z) == \E d : Trace(f, a, codes, z, d)

LEMMA RunNothing == \A f, a, z : Run(f, a, <<>>, z) <=> a = z
<1>1. ASSUME NEW f, NEW a, NEW z, Run(f, a, <<>>, z) PROVE a = z
  <2>1. PICK d : Trace(f, a, <<>>, z, d)
    BY <1>1 DEF Run
  <2> QED
    BY <2>1 DEF Trace
<1>2. ASSUME NEW f, NEW a PROVE Run(f, a, <<>>, a)
  <2> DEFINE d == [i \in 0 .. 0 |-> a]
  <2>1. Trace(f, a, <<>>, a, d)
    BY DEF Trace
  <2> QED
    BY <2>1 DEF Run
<1> QED
  BY <1>1, <1>2

(* A first code, and a stretch that another one follows.                   *)
LEMMA RunFirst ==
  ASSUME NEW C, NEW f, NEW a, NEW z, NEW codes \in Seq(C), codes # <<>>, Run(f, a, codes, z)
  PROVE  /\ <<a, Head(codes)>> \in DOMAIN f
         /\ Run(f, f[<<a, Head(codes)>>], Tail(codes), z)
<1>1. PICK d : Trace(f, a, codes, z, d)
  BY DEF Run
<1> DEFINE n == Len(codes)
           e == [i \in 0 .. n - 1 |-> d[i + 1]]
<1>2. n \in Nat /\ n >= 1 /\ Len(Tail(codes)) = n - 1 /\ Head(codes) = codes[1]
      /\ \A i \in 1 .. n - 1 : Tail(codes)[i] = codes[i + 1]
  OBVIOUS
<1>3. d[0] = a /\ d[n] = z /\ \A i \in 1 .. n : Follows(f, codes, d, i)
  BY <1>1 DEF Trace
<1> HIDE DEF n
<1>4. Follows(f, codes, d, 1)
  BY <1>2, <1>3
<1>5. <<a, Head(codes)>> \in DOMAIN f /\ d[1] = f[<<a, Head(codes)>>]
  BY <1>2, <1>3, <1>4 DEF Follows
<1>6. DOMAIN e = 0 .. n - 1 /\ e[0] = d[1] /\ e[n - 1] = z
  BY <1>2, <1>3
<1>7. ASSUME NEW i \in 1 .. n - 1 PROVE Follows(f, Tail(codes), e, i)
  <2>1. i + 1 \in 1 .. n /\ i \in 0 .. n - 1 /\ i - 1 \in 0 .. n - 1
    BY <1>2
  <2>2. Follows(f, codes, d, i + 1)
    BY <1>3, <2>1
  <2>3. e[i - 1] = d[i] /\ e[i] = d[i + 1] /\ Tail(codes)[i] = codes[i + 1] /\ (i + 1) - 1 = i
    BY <1>2, <2>1
  <2> HIDE DEF e
  <2> QED
    BY <2>2, <2>3 DEF Follows
<1> HIDE DEF e
<1>8. Trace(f, d[1], Tail(codes), z, e)
  BY <1>2, <1>6, <1>7 DEF Trace
<1> QED
  BY <1>5, <1>8 DEF Run

LEMMA RunThen ==
  ASSUME NEW C, NEW f, NEW a, NEW m, NEW z, NEW s \in Seq(C), NEW t \in Seq(C),
         Run(f, a, s, m), Run(f, m, t, z)
  PROVE  Run(f, a, s \o t, z)
<1>1. PICK d : Trace(f, a, s, m, d)
  BY DEF Run
<1>2. PICK e : Trace(f, m, t, z, e)
  BY DEF Run
<1> DEFINE n == Len(s)
           k == Len(t)
           g == [i \in 0 .. n + k |-> IF i <= n THEN d[i] ELSE e[i - n]]
<1>3. n \in Nat /\ k \in Nat /\ Len(s \o t) = n + k
      /\ (\A i \in 1 .. n : (s \o t)[i] = s[i])
      /\ (\A i \in n + 1 .. n + k : (s \o t)[i] = t[i - n])
  OBVIOUS
<1>4. d[0] = a /\ d[n] = m /\ \A i \in 1 .. n : Follows(f, s, d, i)
  BY <1>1 DEF Trace
<1>5. e[0] = m /\ e[k] = z /\ \A i \in 1 .. k : Follows(f, t, e, i)
  BY <1>2 DEF Trace
<1> HIDE DEF n, k
<1>6. (\A i \in 0 .. n : g[i] = d[i]) /\ (\A i \in n .. n + k : g[i] = e[i - n])
  <2>1. ASSUME NEW i \in 0 .. n PROVE g[i] = d[i]
    BY <1>3
  <2>2. ASSUME NEW i \in n .. n + k, i # n PROVE g[i] = e[i - n]
    BY <1>3, <2>2
  <2>3. g[n] = e[n - n]
    <3>1. g[n] = d[n]
      BY <1>3
    <3>2. n - n = 0
      BY <1>3
    <3> QED
      BY <1>4, <1>5, <3>1, <3>2
  <2> QED
    BY <2>1, <2>2, <2>3
<1>7. DOMAIN g = 0 .. n + k /\ g[0] = a /\ g[n + k] = z
  BY <1>3, <1>4, <1>5, <1>6
<1> HIDE DEF g
<1>8. ASSUME NEW i \in 1 .. n PROVE Follows(f, s \o t, g, i)
  <2>1. i - 1 \in 0 .. n /\ i \in 0 .. n
    BY <1>3
  <2>2. g[i - 1] = d[i - 1] /\ g[i] = d[i] /\ (s \o t)[i] = s[i]
    BY <1>3, <1>6, <2>1
  <2>3. Follows(f, s, d, i)
    BY <1>4
  <2> QED
    BY <2>2, <2>3 DEF Follows
<1>9. ASSUME NEW i \in n + 1 .. n + k PROVE Follows(f, s \o t, g, i)
  <2>1. i - 1 \in n .. n + k /\ i \in n .. n + k /\ i - n \in 1 .. k /\ (i - n) - 1 = (i - 1) - n
    BY <1>3
  <2>2. g[i - 1] = e[(i - n) - 1] /\ g[i] = e[i - n] /\ (s \o t)[i] = t[i - n]
    BY <1>3, <1>6, <2>1
  <2>3. Follows(f, t, e, i - n)
    BY <1>5, <2>1
  <2> QED
    BY <2>2, <2>3 DEF Follows
<1>10. \A i \in 1 .. n + k : i \in 1 .. n \/ i \in n + 1 .. n + k
  BY <1>3
<1>11. Trace(f, a, s \o t, z, g)
  BY <1>3, <1>7, <1>8, <1>9, <1>10 DEF Trace
<1> QED
  BY <1>11 DEF Run

LEMMA RunOne ==
  ASSUME NEW f, NEW a, NEW b, <<a, b>> \in DOMAIN f
  PROVE  Run(f, a, <<b>>, f[<<a, b>>])
<1> DEFINE z == f[<<a, b>>]
           d == [i \in 0 .. 1 |-> IF i = 0 THEN a ELSE z]
           s == <<b>>
<1>1. d[0] = a /\ d[1] = z /\ DOMAIN d = 0 .. 1
  OBVIOUS
<1>2. s[1] = b /\ Len(s) = 1
  OBVIOUS
<1> HIDE DEF d, s
<1>3. Follows(f, s, d, 1)
  BY <1>1, <1>2 DEF Follows
<1>4. Trace(f, a, s, z, d)
  BY <1>1, <1>2, <1>3 DEF Trace
<1>5. Run(f, a, s, z)
  BY <1>4 DEF Run
<1> QED
  BY <1>5 DEF s

(* Codes that a machine accepts are accepted by one that accepts more.     *)
LEMMA RunWeaker ==
  ASSUME NEW f, NEW g, NEW a, NEW codes, NEW z, Run(f, a, codes, z),
         \A x \in DOMAIN f : x \in DOMAIN g /\ g[x] = f[x]
  PROVE  Run(g, a, codes, z)
<1>1. PICK d : Trace(f, a, codes, z, d)
  BY DEF Run
<1>2. \A i \in 1 .. Len(codes) : Follows(g, codes, d, i)
  BY <1>1 DEF Trace, Follows
<1>3. Trace(g, a, codes, z, d)
  BY <1>1, <1>2 DEF Trace
<1> QED
  BY <1>3 DEF Run

-----------------------------------------------------------------------------
(* The table of the keys.                                                  *)
Screenshot == {"left alt", "left shift", "4"} \cup IF SaveScreenshot THEN {} ELSE {"left ctrl"}

LEMMA Row == \A r, a, b, c : r = <<a, b, c>> => r[1] = a /\ r[2] = b /\ r[3] = c
OBVIOUS

LEMMA KeyRows ==
  \A r \in KeyTable :
    \/ r[1] = "alt" /\ r[2] = FALSE /\ r[3] = {"left alt"}
    \/ r[1] = "alt" /\ r[2] = TRUE /\ r[3] = {"right alt"}
    \/ r[1] = "ctrl" /\ r[2] = FALSE /\ r[3] = {"left ctrl"}
    \/ r[1] = "ctrl" /\ r[2] = TRUE /\ r[3] = {"right ctrl"}
    \/ r[1] = "shift" /\ r[2] = FALSE /\ r[3] = {"left shift"}
    \/ r[1] = "4" /\ r[2] = FALSE /\ r[3] = {"4"}
    \/ r[1] = "delete" /\ r[2] = FALSE /\ r[3] = {"delete"}
    \/ r[1] = "delete" /\ r[2] = TRUE /\ r[3] = {"gray delete"}
    \/ r[1] = "print screen" /\ r[2] = FALSE /\ r[3] = {"keypad star"}
    \/ r[1] = "pause" /\ r[2] = FALSE /\ r[3] = {"num lock"}
    \/ r[1] = "print screen" /\ r[2] = TRUE /\ r[3] = Screenshot
<1> SUFFICES ASSUME NEW r \in KeyTable
      PROVE  \/ r[1] = "alt" /\ r[2] = FALSE /\ r[3] = {"left alt"}
             \/ r[1] = "alt" /\ r[2] = TRUE /\ r[3] = {"right alt"}
             \/ r[1] = "ctrl" /\ r[2] = FALSE /\ r[3] = {"left ctrl"}
             \/ r[1] = "ctrl" /\ r[2] = TRUE /\ r[3] = {"right ctrl"}
             \/ r[1] = "shift" /\ r[2] = FALSE /\ r[3] = {"left shift"}
             \/ r[1] = "4" /\ r[2] = FALSE /\ r[3] = {"4"}
             \/ r[1] = "delete" /\ r[2] = FALSE /\ r[3] = {"delete"}
             \/ r[1] = "delete" /\ r[2] = TRUE /\ r[3] = {"gray delete"}
             \/ r[1] = "print screen" /\ r[2] = FALSE /\ r[3] = {"keypad star"}
             \/ r[1] = "pause" /\ r[2] = FALSE /\ r[3] = {"num lock"}
             \/ r[1] = "print screen" /\ r[2] = TRUE /\ r[3] = Screenshot
  OBVIOUS
<1>0. \/ r = <<"alt", FALSE, {"left alt"}>>
      \/ r = <<"alt", TRUE, {"right alt"}>>
      \/ r = <<"ctrl", FALSE, {"left ctrl"}>>
      \/ r = <<"ctrl", TRUE, {"right ctrl"}>>
      \/ r = <<"shift", FALSE, {"left shift"}>>
      \/ r = <<"4", FALSE, {"4"}>>
      \/ r = <<"delete", FALSE, {"delete"}>>
      \/ r = <<"delete", TRUE, {"gray delete"}>>
      \/ r = <<"print screen", FALSE, {"keypad star"}>>
      \/ r = <<"pause", FALSE, {"num lock"}>>
      \/ r = <<"print screen", TRUE, Screenshot>>
  BY DEF KeyTable, Screenshot
<1>1. r = <<"alt", FALSE, {"left alt"}>> => r[1] = "alt" /\ r[2] = FALSE /\ r[3] = {"left alt"}
  BY Row, Zenon
<1>2. r = <<"alt", TRUE, {"right alt"}>> => r[1] = "alt" /\ r[2] = TRUE /\ r[3] = {"right alt"}
  BY Row, Zenon
<1>3. r = <<"ctrl", FALSE, {"left ctrl"}>> => r[1] = "ctrl" /\ r[2] = FALSE /\ r[3] = {"left ctrl"}
  BY Row, Zenon
<1>4. r = <<"ctrl", TRUE, {"right ctrl"}>> => r[1] = "ctrl" /\ r[2] = TRUE /\ r[3] = {"right ctrl"}
  BY Row, Zenon
<1>5. r = <<"shift", FALSE, {"left shift"}>> => r[1] = "shift" /\ r[2] = FALSE /\ r[3] = {"left shift"}
  BY Row, Zenon
<1>6. r = <<"4", FALSE, {"4"}>> => r[1] = "4" /\ r[2] = FALSE /\ r[3] = {"4"}
  BY Row, Zenon
<1>7. r = <<"delete", FALSE, {"delete"}>> => r[1] = "delete" /\ r[2] = FALSE /\ r[3] = {"delete"}
  BY Row, Zenon
<1>8. r = <<"delete", TRUE, {"gray delete"}>> => r[1] = "delete" /\ r[2] = TRUE /\ r[3] = {"gray delete"}
  BY Row, Zenon
<1>9. r = <<"print screen", FALSE, {"keypad star"}>> => r[1] = "print screen" /\ r[2] = FALSE /\ r[3] = {"keypad star"}
  BY Row, Zenon
<1>10. r = <<"pause", FALSE, {"num lock"}>> => r[1] = "pause" /\ r[2] = FALSE /\ r[3] = {"num lock"}
  BY Row, Zenon
<1>11. r = <<"print screen", TRUE, Screenshot>> => r[1] = "print screen" /\ r[2] = TRUE /\ r[3] = Screenshot
  BY Row, Zenon
<1> QED
  BY <1>0, <1>1, <1>2, <1>3, <1>4, <1>5, <1>6, <1>7, <1>8, <1>9, <1>10, <1>11

(* The only row for a code, or none.                                       *)
Sole(code, ext, keys) ==
  /\ \E r \in KeyTable : r[1] = code /\ r[2] = ext /\ r[3] = keys
  /\ \A r \in KeyTable : r[1] = code /\ r[2] = ext => r[3] = keys
Unlisted(code, ext) == \A r \in KeyTable : ~(r[1] = code /\ r[2] = ext)

LEMMA DecodedIs == \A code, ext, keys : Sole(code, ext, keys) => Decoded(code, ext) = keys
<1> SUFFICES ASSUME NEW code, NEW ext, NEW keys, Sole(code, ext, keys)
             PROVE  Decoded(code, ext) = keys
  OBVIOUS
<1> DEFINE rows == {r \in KeyTable : r[1] = code /\ r[2] = ext}
<1>1. (\E r \in rows : r[3] = keys) /\ (\A r \in rows : r[3] = keys)
  BY DEF Sole
<1>2. Decoded(code, ext) = UNION {r[3] : r \in rows}
  BY DEF Decoded
<1> HIDE DEF rows
<1>3. {r[3] : r \in rows} = {keys}
  BY <1>1
<1>4. UNION {keys} = keys
  OBVIOUS
<1> QED
  BY <1>2, <1>3, <1>4

LEMMA DecodedNothing == \A code, ext : Unlisted(code, ext) => Decoded(code, ext) = {}
<1> SUFFICES ASSUME NEW code, NEW ext, Unlisted(code, ext) PROVE Decoded(code, ext) = {}
  OBVIOUS
<1>1. {r \in KeyTable : r[1] = code /\ r[2] = ext} = {}
  BY DEF Unlisted
<1>2. {row[3] : row \in {r \in KeyTable : r[1] = code /\ r[2] = ext}} = {}
  BY <1>1
<1> QED
  BY <1>2 DEF Decoded

LEMMA DecodedKeys ==
  /\ Decoded("alt", FALSE) = {"left alt"}
  /\ Decoded("alt", TRUE) = {"right alt"}
  /\ Decoded("ctrl", FALSE) = {"left ctrl"}
  /\ Decoded("ctrl", TRUE) = {"right ctrl"}
  /\ Decoded("shift", FALSE) = {"left shift"}
  /\ Decoded("4", FALSE) = {"4"}
  /\ Decoded("delete", FALSE) = {"delete"}
  /\ Decoded("delete", TRUE) = {"gray delete"}
  /\ Decoded("print screen", TRUE) = Screenshot
  /\ Decoded("shift", TRUE) = {} /\ Decoded("pause", TRUE) = {}
<1> DEFINE la == {"left alt"}
           ra == {"right alt"}
           lc == {"left ctrl"}
           rc == {"right ctrl"}
           ls == {"left shift"}
           four == {"4"}
           del == {"delete"}
           gray == {"gray delete"}
           star == {"keypad star"}
           lock == {"num lock"}
<1>1. \A r \in KeyTable :
        \/ r[1] = "alt" /\ r[2] = FALSE /\ r[3] = la
        \/ r[1] = "alt" /\ r[2] = TRUE /\ r[3] = ra
        \/ r[1] = "ctrl" /\ r[2] = FALSE /\ r[3] = lc
        \/ r[1] = "ctrl" /\ r[2] = TRUE /\ r[3] = rc
        \/ r[1] = "shift" /\ r[2] = FALSE /\ r[3] = ls
        \/ r[1] = "4" /\ r[2] = FALSE /\ r[3] = four
        \/ r[1] = "delete" /\ r[2] = FALSE /\ r[3] = del
        \/ r[1] = "delete" /\ r[2] = TRUE /\ r[3] = gray
        \/ r[1] = "print screen" /\ r[2] = FALSE /\ r[3] = star
        \/ r[1] = "pause" /\ r[2] = FALSE /\ r[3] = lock
        \/ r[1] = "print screen" /\ r[2] = TRUE /\ r[3] = Screenshot
  BY KeyRows
<1>2. /\ <<"alt", FALSE, la>> \in KeyTable
      /\ <<"alt", TRUE, ra>> \in KeyTable
      /\ <<"ctrl", FALSE, lc>> \in KeyTable
      /\ <<"ctrl", TRUE, rc>> \in KeyTable
      /\ <<"shift", FALSE, ls>> \in KeyTable
      /\ <<"4", FALSE, four>> \in KeyTable
      /\ <<"delete", FALSE, del>> \in KeyTable
      /\ <<"delete", TRUE, gray>> \in KeyTable
      /\ <<"print screen", TRUE, Screenshot>> \in KeyTable
  BY DEF KeyTable, Screenshot
<1> HIDE DEF la, ra, lc, rc, ls, four, del, gray, star, lock
<1>3. Decoded("alt", FALSE) = la
  <2>1. \E r \in KeyTable : r[1] = "alt" /\ r[2] = FALSE /\ r[3] = la
    BY <1>2, Row
  <2>2. \A r \in KeyTable : r[1] = "alt" /\ r[2] = FALSE => r[3] = la
    BY <1>1
  <2>3. Sole("alt", FALSE, la)
    BY <2>1, <2>2 DEF Sole
  <2> QED
    BY <2>3, DecodedIs
<1>4. Decoded("alt", TRUE) = ra
  <2>1. \E r \in KeyTable : r[1] = "alt" /\ r[2] = TRUE /\ r[3] = ra
    BY <1>2, Row
  <2>2. \A r \in KeyTable : r[1] = "alt" /\ r[2] = TRUE => r[3] = ra
    BY <1>1
  <2>3. Sole("alt", TRUE, ra)
    BY <2>1, <2>2 DEF Sole
  <2> QED
    BY <2>3, DecodedIs
<1>5. Decoded("ctrl", FALSE) = lc
  <2>1. \E r \in KeyTable : r[1] = "ctrl" /\ r[2] = FALSE /\ r[3] = lc
    BY <1>2, Row
  <2>2. \A r \in KeyTable : r[1] = "ctrl" /\ r[2] = FALSE => r[3] = lc
    BY <1>1
  <2>3. Sole("ctrl", FALSE, lc)
    BY <2>1, <2>2 DEF Sole
  <2> QED
    BY <2>3, DecodedIs
<1>6. Decoded("ctrl", TRUE) = rc
  <2>1. \E r \in KeyTable : r[1] = "ctrl" /\ r[2] = TRUE /\ r[3] = rc
    BY <1>2, Row
  <2>2. \A r \in KeyTable : r[1] = "ctrl" /\ r[2] = TRUE => r[3] = rc
    BY <1>1
  <2>3. Sole("ctrl", TRUE, rc)
    BY <2>1, <2>2 DEF Sole
  <2> QED
    BY <2>3, DecodedIs
<1>7. Decoded("shift", FALSE) = ls
  <2>1. \E r \in KeyTable : r[1] = "shift" /\ r[2] = FALSE /\ r[3] = ls
    BY <1>2, Row
  <2>2. \A r \in KeyTable : r[1] = "shift" /\ r[2] = FALSE => r[3] = ls
    BY <1>1
  <2>3. Sole("shift", FALSE, ls)
    BY <2>1, <2>2 DEF Sole
  <2> QED
    BY <2>3, DecodedIs
<1>8. Decoded("4", FALSE) = four
  <2>1. \E r \in KeyTable : r[1] = "4" /\ r[2] = FALSE /\ r[3] = four
    BY <1>2, Row
  <2>2. \A r \in KeyTable : r[1] = "4" /\ r[2] = FALSE => r[3] = four
    BY <1>1
  <2>3. Sole("4", FALSE, four)
    BY <2>1, <2>2 DEF Sole
  <2> QED
    BY <2>3, DecodedIs
<1>9. Decoded("delete", FALSE) = del
  <2>1. \E r \in KeyTable : r[1] = "delete" /\ r[2] = FALSE /\ r[3] = del
    BY <1>2, Row
  <2>2. \A r \in KeyTable : r[1] = "delete" /\ r[2] = FALSE => r[3] = del
    BY <1>1
  <2>3. Sole("delete", FALSE, del)
    BY <2>1, <2>2 DEF Sole
  <2> QED
    BY <2>3, DecodedIs
<1>10. Decoded("delete", TRUE) = gray
  <2>1. \E r \in KeyTable : r[1] = "delete" /\ r[2] = TRUE /\ r[3] = gray
    BY <1>2, Row
  <2>2. \A r \in KeyTable : r[1] = "delete" /\ r[2] = TRUE => r[3] = gray
    BY <1>1
  <2>3. Sole("delete", TRUE, gray)
    BY <2>1, <2>2 DEF Sole
  <2> QED
    BY <2>3, DecodedIs
<1>11. Decoded("print screen", TRUE) = Screenshot
  <2>1. \E r \in KeyTable : r[1] = "print screen" /\ r[2] = TRUE /\ r[3] = Screenshot
    BY <1>2, Row
  <2>2. \A r \in KeyTable : r[1] = "print screen" /\ r[2] = TRUE => r[3] = Screenshot
    BY <1>1
  <2>3. Sole("print screen", TRUE, Screenshot)
    BY <2>1, <2>2 DEF Sole
  <2> QED
    BY <2>3, DecodedIs
<1>12. Decoded("shift", TRUE) = {}
  <2>1. \A r \in KeyTable : ~(r[1] = "shift" /\ r[2] = TRUE)
    BY <1>1
  <2>2. Unlisted("shift", TRUE)
    BY <2>1 DEF Unlisted
  <2> QED
    BY <2>2, DecodedNothing
<1>13. Decoded("pause", TRUE) = {}
  <2>1. \A r \in KeyTable : ~(r[1] = "pause" /\ r[2] = TRUE)
    BY <1>1
  <2>2. Unlisted("pause", TRUE)
    BY <2>1 DEF Unlisted
  <2> QED
    BY <2>2, DecodedNothing
<1> QED
  BY <1>3, <1>4, <1>5, <1>6, <1>7, <1>8, <1>9, <1>10, <1>11, <1>12, <1>13 DEF la, ra, lc, rc, ls, four, del, gray, star, lock

LEMMA DecodedPlace == \A code, ext : Decoded(code, ext) \subseteq DriverKeys
BY DEF Decoded, DriverKeys

LEMMA ModifierKeys ==
  /\ \A code, ext : code \notin {"alt", "ctrl", "shift"} => ModifierOf(code, ext) = {}
  /\ ModifierOf("alt", FALSE) = {"left alt"} /\ ModifierOf("alt", TRUE) = {"right alt"}
  /\ ModifierOf("ctrl", FALSE) = {"left ctrl"} /\ ModifierOf("ctrl", TRUE) = {"right ctrl"}
  /\ ModifierOf("shift", FALSE) = {"left shift"} /\ ModifierOf("shift", TRUE) = {}
BY DecodedKeys DEF ModifierOf

LEMMA ModifierPlace == ASSUME NEW code, NEW ext \in BOOLEAN PROVE ModifierOf(code, ext) \subseteq Modifiers
<1>1. CASE code \notin {"alt", "ctrl", "shift"}
  BY <1>1, ModifierKeys
<1>2. CASE code = "alt"
  <2>1. ModifierOf(code, ext) \in {{"left alt"}, {"right alt"}}
    BY <1>2, ModifierKeys
  <2> QED
    BY <2>1 DEF Modifiers
<1>3. CASE code = "ctrl"
  <2>1. ModifierOf(code, ext) \in {{"left ctrl"}, {"right ctrl"}}
    BY <1>3, ModifierKeys
  <2> QED
    BY <2>1 DEF Modifiers
<1>4. CASE code = "shift"
  <2>1. ModifierOf(code, ext) \in {{"left shift"}, {}}
    BY <1>4, ModifierKeys
  <2> QED
    BY <2>1 DEF Modifiers
<1> QED
  BY <1>1, <1>2, <1>3, <1>4

(* The row of an ordinary key.                                             *)
CodeOf(k, code, ext) ==
  \/ k = "left alt" /\ code = "alt" /\ ext = FALSE
  \/ k = "right alt" /\ code = "alt" /\ ext = TRUE
  \/ k = "left ctrl" /\ code = "ctrl" /\ ext = FALSE
  \/ k = "right ctrl" /\ code = "ctrl" /\ ext = TRUE
  \/ k = "left shift" /\ code = "shift" /\ ext = FALSE
  \/ k = "4" /\ code = "4" /\ ext = FALSE
  \/ k = "delete" /\ code = "delete" /\ ext = FALSE
  \/ k = "gray delete" /\ code = "delete" /\ ext = TRUE

LEMMA OrdinaryRow == ASSUME NEW k \in Ordinary PROVE \E r \in KeyTable : r[3] = {k}
<1>1. \A code, ext : <<code, ext, {k}>>[3] = {k}
  BY Row
<1>2. \E code, ext : <<code, ext, {k}>> \in KeyTable
  <2>1. CASE k = "left alt"
    BY <2>1 DEF KeyTable
  <2>2. CASE k = "right alt"
    BY <2>2 DEF KeyTable
  <2>3. CASE k = "left ctrl"
    BY <2>3 DEF KeyTable
  <2>4. CASE k = "right ctrl"
    BY <2>4 DEF KeyTable
  <2>5. CASE k = "left shift"
    BY <2>5 DEF KeyTable
  <2>6. CASE k = "4"
    BY <2>6 DEF KeyTable
  <2>7. CASE k = "delete"
    BY <2>7 DEF KeyTable
  <2>8. CASE k = "gray delete"
    BY <2>8 DEF KeyTable
  <2> QED
    BY <2>1, <2>2, <2>3, <2>4, <2>5, <2>6, <2>7, <2>8 DEF Ordinary, AllKeys, Modifiers
<1> QED
  BY <1>1, <1>2

LEMMA OrdinaryCode ==
  ASSUME NEW k \in Ordinary
  PROVE  \E code, ext :
           /\ CodeOf(k, code, ext)
           /\ \A up : Sent(k, up) = (IF ext THEN <<Extend>> ELSE <<>>) \o <<[code |-> code, up |-> up]>>
<1> DEFINE row == CHOOSE r \in KeyTable : r[3] = {k}
<1>1. row \in KeyTable /\ row[3] = {k}
  BY OrdinaryRow
<1>2. \A up : Sent(k, up) = (IF row[2] THEN <<Extend>> ELSE <<>>) \o <<[code |-> row[1], up |-> up]>>
  BY DEF Sent, Ordinary
<1> HIDE DEF row
<1>3. {k} # Screenshot
  <2>1. "left alt" \in Screenshot /\ "left shift" \in Screenshot
    BY DEF Screenshot
  <2>2. {k} = Screenshot => "left alt" = k /\ "left shift" = k
    BY <2>1
  <2> QED
    BY <2>2
<1>4. \A x : {k} = {x} => k = x
  OBVIOUS
<1>5. k # "keypad star" /\ k # "num lock"
  BY DEF Ordinary, AllKeys, Modifiers
<1>6. CodeOf(k, row[1], row[2])
  BY <1>1, <1>3, <1>4, <1>5, KeyRows DEF CodeOf
<1> QED
  BY <1>2, <1>6

LEMMA OrdinaryFacts ==
  ASSUME NEW k, NEW code, NEW ext, CodeOf(k, code, ext)
  PROVE  /\ code \in Codes \ {"E0", "E1"} /\ ext \in BOOLEAN
         /\ Decoded(code, ext) = {k} /\ ModifierOf(code, ext) = {k} \cap Modifiers
         /\ code = "delete" => k \notin Modifiers
<1>1. code \in Codes \ {"E0", "E1"} /\ ext \in BOOLEAN
  BY DEF CodeOf, Codes
<1>2. Decoded(code, ext) = {k}
  BY DecodedKeys DEF CodeOf
<1>3. CASE code \in {"alt", "ctrl", "shift"}
  <2>1. k \in Modifiers
    BY <1>3 DEF CodeOf, Modifiers
  <2> QED
    BY <1>1, <1>2, <1>3, <2>1 DEF ModifierOf
<1>4. CASE code \notin {"alt", "ctrl", "shift"}
  <2>1. k \notin Modifiers
    BY <1>4 DEF CodeOf, Modifiers
  <2> QED
    BY <1>1, <1>2, <1>4, <2>1 DEF ModifierOf
<1> QED
  BY <1>3, <1>4

-----------------------------------------------------------------------------
(* What a key typed does to the two parsers, between sequences.            *)
At(mods, keys) == <<Controller(FALSE, mods), Driver(0, keys)>>
Seen(up, mods, keys) == IF Debugging THEN After(up, mods, keys) ELSE mods
Meant(k) ==
  IF k = "pause" THEN {} ELSE IF k = "print screen" THEN ScreenshotKeys ELSE {k}
Ready(ordered, mods, keys) ==
  /\ mods \in SUBSET Modifiers /\ keys \in SUBSET Pressed
  /\ ~Debugging => mods = {}
  /\ ordered /\ mods = Alts => keys \cap Modifiers = Alts

LEMMA CodeFacts ==
  /\ Extend \in KeyCodes /\ PausePrefix \in KeyCodes /\ Extend # PausePrefix
  /\ \A code \in Codes, up \in BOOLEAN :
       /\ [code |-> code, up |-> up] \in KeyCodes
       /\ code \notin {"E0", "E1"} => [code |-> code, up |-> up] \notin {Extend, PausePrefix}
<1>1. Extend = [code |-> "E0", up |-> FALSE] /\ PausePrefix = [code |-> "E1", up |-> FALSE]
  BY DEF Extend, PausePrefix, Make
<1>2. \A x, y : [code |-> x, up |-> y].code = x
  OBVIOUS
<1>3. Extend.code = "E0" /\ PausePrefix.code = "E1"
  BY <1>1
<1>4. Extend \in KeyCodes /\ PausePrefix \in KeyCodes
  BY <1>1 DEF KeyCodes, Codes
<1>5. ASSUME NEW code \in Codes, NEW up \in BOOLEAN
      PROVE  /\ [code |-> code, up |-> up] \in KeyCodes
             /\ code \notin {"E0", "E1"} => [code |-> code, up |-> up] \notin {Extend, PausePrefix}
  BY <1>2, <1>3 DEF KeyCodes
<1> QED
  BY <1>3, <1>4, <1>5

LEMMA StateFacts ==
  /\ \A ext \in BOOLEAN, mods \in SUBSET Modifiers : Controller(ext, mods) \in ControllerStates
  /\ \A n \in 0 .. 2, keys \in SUBSET Pressed : Driver(n, keys) \in DriverStates
  /\ \A ext, mods : Controller(ext, mods).extended = ext /\ Controller(ext, mods).modifiers = mods
  /\ \A n, keys : Driver(n, keys).count = n /\ Driver(n, keys).keys = keys
BY DEF Controller, Driver, ControllerStates, DriverStates

LEMMA ParserStepIs ==
  ASSUME NEW ordered \in BOOLEAN, NEW c \in ControllerStates, NEW d \in DriverStates, NEW b \in KeyCodes,
         ordered => InOrder(<<c, d>>, b)
  PROVE  /\ <<<<c, d>>, b>> \in DOMAIN ParserStep(ordered)
         /\ ParserStep(ordered)[<<<<c, d>>, b>>] = <<Escape(c, b), Handle(d, b)>>
<1> DEFINE x == <<<<c, d>>, b>>
<1>1. x[1] = <<c, d>> /\ x[2] = b /\ x[1][1] = c /\ x[1][2] = d
  OBVIOUS
<1>2. x \in (ControllerStates \X DriverStates) \X KeyCodes
  OBVIOUS
<1> HIDE DEF x
<1>3. x \in {y \in (ControllerStates \X DriverStates) \X KeyCodes : ordered => InOrder(y[1], y[2])}
  BY <1>1, <1>2
<1>4. ParserStep(ordered)[x] = <<Escape(x[1][1], x[2]), Handle(x[1][2], x[2])>>
      /\ x \in DOMAIN ParserStep(ordered)
  BY <1>3 DEF ParserStep
<1> QED
  BY <1>1, <1>4 DEF x

LEMMA RunCode ==
  ASSUME NEW ordered \in BOOLEAN, NEW c \in ControllerStates, NEW d \in DriverStates, NEW b \in KeyCodes,
         ordered => InOrder(<<c, d>>, b)
  PROVE  Run(ParserStep(ordered), <<c, d>>, <<b>>, <<Escape(c, b), Handle(d, b)>>)
<1>1. /\ <<<<c, d>>, b>> \in DOMAIN ParserStep(ordered)
      /\ ParserStep(ordered)[<<<<c, d>>, b>>] = <<Escape(c, b), Handle(d, b)>>
  BY ParserStepIs
<1> QED
  BY <1>1, RunOne

(* The order matters to a delete code without prefix only.                 *)
LEMMA OrderFacts ==
  /\ \A s, b : b.code # "delete" => InOrder(s, b)
  /\ \A s, b : s[1].extended => InOrder(s, b)
  /\ \A s, b : s[1].modifiers = {} => InOrder(s, b)
  /\ \A mods, keys, b : (mods = Alts => keys \cap Modifiers = Alts) => InOrder(At(mods, keys), b)
<1>1. {} # Alts
  BY DEF Alts
<1>2. ASSUME NEW mods, NEW keys, NEW b, mods = Alts => keys \cap Modifiers = Alts
      PROVE  InOrder(At(mods, keys), b)
  <2>1. At(mods, keys)[1] = Controller(FALSE, mods) /\ At(mods, keys)[2] = Driver(0, keys)
    BY DEF At
  <2>2. /\ At(mods, keys)[1].modifiers = mods
        /\ At(mods, keys)[2].count = 0 /\ At(mods, keys)[2].keys = keys
    BY <2>1 DEF Controller, Driver
  <2> QED
    BY <1>2, <2>2 DEF InOrder
<1> QED
  BY <1>1, <1>2 DEF InOrder

LEMMA DispatchIs ==
  ASSUME NEW b, b \notin {Extend, PausePrefix}, NEW keys
  PROVE  /\ Handle(Driver(0, keys), b) = Driver(0, After(b.up, keys, Decoded(b.code, FALSE)))
         /\ Handle(Driver(1, keys), b) = Driver(0, After(b.up, keys, Decoded(b.code, TRUE)))
         /\ Handle(Driver(2, keys), b) = Driver(1, keys)
         /\ \A d : Handle(d, Extend) = Driver(1, d.keys)
         /\ \A d : Extend # PausePrefix => Handle(d, PausePrefix) = Driver(2, d.keys)
<1>2. Handle(Driver(0, keys), b) = Driver(0, After(b.up, keys, Decoded(b.code, FALSE)))
  BY DEF Handle, Driver
<1>3. Handle(Driver(1, keys), b) = Driver(0, After(b.up, keys, Decoded(b.code, TRUE)))
  BY DEF Handle, Driver
<1>4. Handle(Driver(2, keys), b) = Driver(1, keys)
  BY DEF Handle, Driver
<1> QED
  BY <1>2, <1>3, <1>4 DEF Handle

LEMMA EscapeIs ==
  ASSUME NEW b, b # Extend, NEW ext, NEW mods, ~Debugging => mods = {}
  PROVE  /\ Debugging => Escape(Controller(ext, mods), b)
                           = Controller(FALSE, After(b.up, mods, ModifierOf(b.code, ext)))
         /\ ~Debugging => Escape(Controller(ext, mods), b) = Controller(FALSE, mods)
         /\ Debugging => Escape(Controller(ext, mods), Extend) = Controller(TRUE, mods)
         /\ ~Debugging => Escape(Controller(ext, mods), Extend) = Controller(FALSE, mods)
BY StateFacts DEF Escape

LEMMA AfterIn ==
  ASSUME NEW up, NEW W, NEW before \in SUBSET W, NEW keys \in SUBSET W
  PROVE  After(up, before, keys) \in SUBSET W
BY DEF After

(* Short sequences.                                                        *)
LEMMA SameSequence ==
  ASSUME NEW S, NEW s \in Seq(S), NEW t \in Seq(S), Len(s) = Len(t), \A i \in 1 .. Len(s) : s[i] = t[i]
  PROVE  s = t
OBVIOUS

LEMMA EmptySequence == ASSUME NEW S, NEW s \in Seq(S), Len(s) = 0 PROVE s = <<>>
OBVIOUS

Joins(u, s, t) ==
  /\ Len(u) = Len(s) + Len(t)
  /\ \A i \in 1 .. Len(s) : u[i] = s[i]
  /\ \A i \in 1 .. Len(t) : u[Len(s) + i] = t[i]

LEMMA ConcatenatedAt ==
  ASSUME NEW S, NEW s \in Seq(S), NEW t \in Seq(S)
  PROVE  s \o t \in Seq(S) /\ Joins(s \o t, s, t)
BY DEF Joins

LEMMA JoinedTwo ==
  ASSUME NEW S, NEW x \in S, NEW y \in S
  PROVE  <<x>> \in Seq(S) /\ <<x, y>> \in Seq(S) /\ <<x>> \o <<y>> = <<x, y>>
<1> DEFINE s == <<x>>
           t == <<y>>
           u == <<x, y>>
<1>1. s \in Seq(S) /\ t \in Seq(S) /\ u \in Seq(S) /\ Len(s) = 1 /\ Len(t) = 1 /\ Len(u) = 2
      /\ s[1] = x /\ t[1] = y /\ u[1] = x /\ u[2] = y
  OBVIOUS
<1> HIDE DEF s, t, u
<1>2. s \o t \in Seq(S) /\ Len(s \o t) = 2 /\ (s \o t)[1] = x /\ (s \o t)[1 + 1] = y
  <2>1. s \o t \in Seq(S) /\ Joins(s \o t, s, t)
    BY <1>1, ConcatenatedAt
  <2>2. (s \o t)[1] = s[1]
    <3>1. 1 \in 1 .. Len(s)
      BY <1>1
    <3> QED
      BY <2>1, <3>1 DEF Joins
  <2>3. (s \o t)[Len(s) + 1] = t[1]
    <3>1. 1 \in 1 .. Len(t)
      BY <1>1
    <3> QED
      BY <2>1, <3>1 DEF Joins
  <2> QED
    BY <1>1, <2>1, <2>2, <2>3 DEF Joins
<1>3. \A i \in 1 .. 2 : i = 1 \/ i = 1 + 1
  OBVIOUS
<1>4. \A i \in 1 .. 2 : (s \o t)[i] = u[i]
  BY <1>1, <1>2, <1>3
<1>5. s \o t = u
  BY <1>1, <1>2, <1>4, SameSequence
<1> QED
  BY <1>1, <1>5 DEF s, t, u

LEMMA JoinedThree ==
  ASSUME NEW S, NEW x \in S, NEW y \in S, NEW z \in S
  PROVE  <<x, y>> \o <<z>> = <<x, y, z>>
<1> DEFINE s == <<x, y>>
           t == <<z>>
           u == <<x, y, z>>
<1>1. s \in Seq(S) /\ t \in Seq(S) /\ u \in Seq(S) /\ Len(s) = 2 /\ Len(t) = 1 /\ Len(u) = 3
      /\ s[1] = x /\ s[2] = y /\ t[1] = z /\ u[1] = x /\ u[2] = y /\ u[3] = z
  OBVIOUS
<1> HIDE DEF s, t, u
<1>2. s \o t \in Seq(S) /\ Len(s \o t) = 3 /\ (s \o t)[1] = x /\ (s \o t)[2] = y /\ (s \o t)[2 + 1] = z
  <2>1. s \o t \in Seq(S) /\ Joins(s \o t, s, t)
    BY <1>1, ConcatenatedAt
  <2>2. (s \o t)[1] = s[1]
    <3>1. 1 \in 1 .. Len(s)
      BY <1>1
    <3> QED
      BY <2>1, <3>1 DEF Joins
  <2>3. (s \o t)[2] = s[2]
    <3>1. 2 \in 1 .. Len(s)
      BY <1>1
    <3> QED
      BY <2>1, <3>1 DEF Joins
  <2>4. (s \o t)[Len(s) + 1] = t[1]
    <3>1. 1 \in 1 .. Len(t)
      BY <1>1
    <3> QED
      BY <2>1, <3>1 DEF Joins
  <2> QED
    BY <1>1, <2>1, <2>2, <2>3, <2>4 DEF Joins
<1>3. \A i \in 1 .. 3 : i = 1 \/ i = 2 \/ i = 2 + 1
  OBVIOUS
<1>4. \A i \in 1 .. 3 : (s \o t)[i] = u[i]
  BY <1>1, <1>2, <1>3
<1>5. s \o t = u
  BY <1>1, <1>2, <1>4, SameSequence
<1> QED
  BY <1>5 DEF s, t, u

LEMMA JoinedFour ==
  ASSUME NEW S, NEW x \in S, NEW y \in S, NEW v \in S, NEW w \in S
  PROVE  <<x, y>> \o <<v, w>> = <<x, y, v, w>>
<1> DEFINE s == <<x, y>>
           t == <<v, w>>
           u == <<x, y, v, w>>
<1>1. s \in Seq(S) /\ t \in Seq(S) /\ u \in Seq(S) /\ Len(s) = 2 /\ Len(t) = 2 /\ Len(u) = 4
      /\ s[1] = x /\ s[2] = y /\ t[1] = v /\ t[2] = w
      /\ u[1] = x /\ u[2] = y /\ u[3] = v /\ u[4] = w
  OBVIOUS
<1> HIDE DEF s, t, u
<1>2. s \o t \in Seq(S) /\ Len(s \o t) = 4 /\ (s \o t)[1] = x /\ (s \o t)[2] = y
      /\ (s \o t)[2 + 1] = v /\ (s \o t)[2 + 2] = w
  <2>1. s \o t \in Seq(S) /\ Joins(s \o t, s, t)
    BY <1>1, ConcatenatedAt
  <2>2. (s \o t)[1] = s[1]
    <3>1. 1 \in 1 .. Len(s)
      BY <1>1
    <3> QED
      BY <2>1, <3>1 DEF Joins
  <2>3. (s \o t)[2] = s[2]
    <3>1. 2 \in 1 .. Len(s)
      BY <1>1
    <3> QED
      BY <2>1, <3>1 DEF Joins
  <2>4. (s \o t)[Len(s) + 1] = t[1]
    <3>1. 1 \in 1 .. Len(t)
      BY <1>1
    <3> QED
      BY <2>1, <3>1 DEF Joins
  <2>5. (s \o t)[Len(s) + 2] = t[2]
    <3>1. 2 \in 1 .. Len(t)
      BY <1>1
    <3> QED
      BY <2>1, <3>1 DEF Joins
  <2> QED
    BY <1>1, <2>1, <2>2, <2>3, <2>4, <2>5 DEF Joins
<1>3. \A i \in 1 .. 4 : i = 1 \/ i = 2 \/ i = 2 + 1 \/ i = 2 + 2
  OBVIOUS
<1>4. 2 + 1 = 3 /\ 2 + 2 = 4
  OBVIOUS
<1>5. \A i \in 1 .. 4 : (s \o t)[i] = u[i]
  BY <1>1, <1>2, <1>3, <1>4
<1>6. s \o t = u
  BY <1>1, <1>2, <1>5, SameSequence
<1> QED
  BY <1>6 DEF s, t, u

LEMMA RunPlain ==
  ASSUME NEW ordered \in BOOLEAN, NEW mods, NEW keys, Ready(ordered, mods, keys),
         NEW code \in Codes \ {"E0", "E1"}, NEW up \in BOOLEAN
  PROVE  Run(ParserStep(ordered), At(mods, keys), <<[code |-> code, up |-> up]>>,
             At(Seen(up, mods, ModifierOf(code, FALSE)), After(up, keys, Decoded(code, FALSE))))
<1> DEFINE b == [code |-> code, up |-> up]
           c == Controller(FALSE, mods)
           d == Driver(0, keys)
<1>1. b \in KeyCodes /\ b # Extend /\ b \notin {Extend, PausePrefix} /\ b.code = code /\ b.up = up
  BY CodeFacts
<1>2. c \in ControllerStates /\ d \in DriverStates
  BY DEF Ready, Controller, ControllerStates, Driver, DriverStates
<1> HIDE DEF b
<1>3. ordered => InOrder(<<c, d>>, b)
  BY OrderFacts DEF Ready, At
<1>4. Escape(c, b) = Controller(FALSE, Seen(up, mods, ModifierOf(code, FALSE)))
  BY <1>1 DEF Escape, Controller, Ready, Seen
<1>5. Handle(d, b) = Driver(0, After(up, keys, Decoded(code, FALSE)))
  BY <1>1, DispatchIs
<1> HIDE DEF c, d
<1>6. Run(ParserStep(ordered), <<c, d>>, <<b>>, <<Escape(c, b), Handle(d, b)>>)
  BY <1>1, <1>2, <1>3, RunCode
<1> QED
  BY <1>4, <1>5, <1>6 DEF At, b, c, d

LEMMA RunExtended ==
  ASSUME NEW ordered \in BOOLEAN, NEW mods, NEW keys, Ready(FALSE, mods, keys),
         NEW code \in Codes \ {"E0", "E1"}, NEW up \in BOOLEAN
  PROVE  Run(ParserStep(ordered), At(mods, keys), <<Extend, [code |-> code, up |-> up]>>,
             At(Seen(up, mods, ModifierOf(code, TRUE)), After(up, keys, Decoded(code, TRUE))))
<1> DEFINE b == [code |-> code, up |-> up]
           c == Controller(FALSE, mods)
           d == Driver(0, keys)
           c1 == Controller(Debugging, mods)
           d1 == Driver(1, keys)
           z == At(Seen(up, mods, ModifierOf(code, TRUE)), After(up, keys, Decoded(code, TRUE)))
<1>1. b \in KeyCodes /\ b # Extend /\ b \notin {Extend, PausePrefix} /\ b.code = code /\ b.up = up
      /\ Extend \in KeyCodes
  BY CodeFacts
<1>2. /\ c \in ControllerStates /\ d \in DriverStates
      /\ c1 \in ControllerStates /\ d1 \in DriverStates
  BY KeyboardAssumption DEF KeyboardAssumption, Ready, Controller, ControllerStates, Driver, DriverStates
<1> HIDE DEF b
<1>3. InOrder(<<c, d>>, Extend)
  <2>1. Extend.code # "delete"
    BY DEF Extend, Make
  <2> QED
    BY <2>1, OrderFacts
<1>4. InOrder(<<c1, d1>>, b)
  <2>1. <<c1, d1>>[1].extended = Debugging /\ <<c1, d1>>[1].modifiers = mods
    BY DEF Controller
  <2> HIDE DEF c1, d1
  <2>2. <<c1, d1>>[1].extended \/ <<c1, d1>>[1].modifiers = {}
    BY <2>1 DEF Ready
  <2> QED
    BY <2>2, OrderFacts
<1>5. Escape(c, Extend) = c1 /\ Handle(d, Extend) = d1
  <2>1. CASE Debugging
    <3>1. Debugging = TRUE
      BY <2>1, KeyboardAssumption DEF KeyboardAssumption
    <3> QED
      BY <2>1, <3>1 DEF Escape, Handle, Controller, Driver
  <2>2. CASE ~Debugging
    <3>1. Debugging = FALSE
      BY <2>2, KeyboardAssumption DEF KeyboardAssumption
    <3> QED
      BY <2>2, <3>1 DEF Escape, Handle, Controller, Driver
  <2> QED
    BY <2>1, <2>2
<1>6. Escape(c1, b) = Controller(FALSE, Seen(up, mods, ModifierOf(code, TRUE)))
  <2>1. CASE Debugging
    <3>1. Debugging = TRUE
      BY <2>1, KeyboardAssumption DEF KeyboardAssumption
    <3> QED
      BY <1>1, <2>1, <3>1 DEF Escape, Controller, Ready, Seen
  <2>2. CASE ~Debugging
    BY <1>1, <2>2 DEF Escape, Controller, Ready, Seen
  <2> QED
    BY <2>1, <2>2
<1>7. Handle(d1, b) = Driver(0, After(up, keys, Decoded(code, TRUE)))
  BY <1>1, DispatchIs
<1> HIDE DEF c, d, c1, d1
<1>8. Run(ParserStep(ordered), <<c, d>>, <<Extend>>, <<c1, d1>>)
  BY <1>1, <1>2, <1>3, <1>5, RunCode
<1>9. Run(ParserStep(ordered), <<c1, d1>>, <<b>>, z)
  <2>1. Run(ParserStep(ordered), <<c1, d1>>, <<b>>, <<Escape(c1, b), Handle(d1, b)>>)
    BY <1>1, <1>2, <1>4, RunCode
  <2> QED
    BY <1>6, <1>7, <2>1 DEF At
<1>10. <<Extend>> \in Seq(KeyCodes) /\ <<b>> \in Seq(KeyCodes) /\ <<Extend>> \o <<b>> = <<Extend, b>>
  BY <1>1, JoinedTwo
<1> HIDE DEF z
<1>11. Run(ParserStep(ordered), <<c, d>>, <<Extend>> \o <<b>>, z)
  BY <1>8, <1>9, <1>10, RunThen
<1> QED
  BY <1>10, <1>11 DEF At, b, c, d, z

(* Half of the codes of Pause.                                             *)
LEMMA RunPause ==
  ASSUME NEW ordered \in BOOLEAN, NEW mods, NEW keys, Ready(FALSE, mods, keys), NEW up \in BOOLEAN
  PROVE  Run(ParserStep(ordered), At(mods, keys),
             <<PausePrefix, [code |-> "ctrl", up |-> up], [code |-> "pause", up |-> up]>>,
             At(Seen(up, mods, {"left ctrl"}), keys))
<1> DEFINE b == [code |-> "ctrl", up |-> up]
           e == [code |-> "pause", up |-> up]
           seen == Seen(up, mods, {"left ctrl"})
           d == Driver(0, keys)
           d1 == Driver(1, keys)
           d2 == Driver(2, keys)
           c == Controller(FALSE, mods)
           cs == Controller(FALSE, seen)
<1>1. /\ b \in KeyCodes /\ b # Extend /\ b \notin {Extend, PausePrefix} /\ b.code = "ctrl" /\ b.up = up
      /\ e \in KeyCodes /\ e # Extend /\ e \notin {Extend, PausePrefix} /\ e.code = "pause" /\ e.up = up
      /\ PausePrefix \in KeyCodes /\ PausePrefix # Extend
  BY CodeFacts DEF Codes
<1>2. PausePrefix.code = "E1"
  BY DEF PausePrefix, Make
<1>3. seen \in SUBSET Modifiers /\ (~Debugging => seen = {})
  BY DEF Ready, Seen, After, Modifiers
<1>4. /\ c \in ControllerStates /\ cs \in ControllerStates
      /\ d \in DriverStates /\ d1 \in DriverStates /\ d2 \in DriverStates
  <2>1. c \in ControllerStates /\ d \in DriverStates /\ d1 \in DriverStates /\ d2 \in DriverStates
    BY DEF Ready, Controller, ControllerStates, Driver, DriverStates
  <2> HIDE DEF seen
  <2>2. cs \in ControllerStates
    BY <1>3 DEF Controller, ControllerStates
  <2> QED
    BY <2>1, <2>2
<1> HIDE DEF b, e
<1>5. Escape(c, PausePrefix) = c
  <2>1. ModifierOf("E1", FALSE) = {} /\ \A up2 : After(up2, mods, {}) = mods
    BY ModifierKeys DEF After, Ready
  <2> QED
    BY <1>1, <1>2, <2>1 DEF Escape, Controller
<1>6. Escape(c, b) = cs
  BY <1>1, ModifierKeys DEF Escape, Controller, Ready, Seen
<1>7. Escape(cs, e) = cs
  <2>1. ModifierOf("pause", FALSE) = {} /\ \A up2 : After(up2, seen, {}) = seen
    BY <1>3, ModifierKeys DEF After
  <2> HIDE DEF seen
  <2> QED
    BY <1>1, <1>3, <2>1 DEF Escape, Controller
<1>8. Handle(d, PausePrefix) = d2 /\ Handle(d2, b) = d1
  BY <1>1 DEF Handle, Driver
<1>9. Handle(d1, e) = d
  <2>1. Decoded("pause", TRUE) = {} /\ After(up, keys, {}) = keys
    BY DecodedKeys DEF After, Ready
  <2>2. Handle(Driver(1, keys), e) = Driver(0, After(e.up, keys, Decoded(e.code, TRUE)))
    BY <1>1, DispatchIs
  <2> QED
    BY <1>1, <2>1, <2>2
<1>10. b.code # "delete" /\ e.code # "delete" /\ PausePrefix.code # "delete"
  BY <1>1, <1>2
<1> HIDE DEF c, cs, d, d1, d2
<1>11. Run(ParserStep(ordered), <<c, d>>, <<PausePrefix>>, <<c, d2>>)
  BY <1>1, <1>4, <1>5, <1>8, <1>10, OrderFacts, RunCode
<1>12. Run(ParserStep(ordered), <<c, d2>>, <<b>>, <<cs, d1>>)
  BY <1>1, <1>4, <1>6, <1>8, <1>10, OrderFacts, RunCode
<1>13. Run(ParserStep(ordered), <<cs, d1>>, <<e>>, <<cs, d>>)
  BY <1>1, <1>4, <1>7, <1>9, <1>10, OrderFacts, RunCode
<1>14. /\ <<PausePrefix>> \in Seq(KeyCodes) /\ <<b>> \in Seq(KeyCodes) /\ <<e>> \in Seq(KeyCodes)
       /\ <<PausePrefix, b>> \in Seq(KeyCodes)
       /\ <<PausePrefix>> \o <<b>> = <<PausePrefix, b>>
       /\ <<PausePrefix, b>> \o <<e>> = <<PausePrefix, b, e>>
  BY <1>1, JoinedTwo, JoinedThree
<1>15. Run(ParserStep(ordered), <<c, d>>, <<PausePrefix>> \o <<b>>, <<cs, d1>>)
  BY <1>11, <1>12, <1>14, RunThen
<1>16. Run(ParserStep(ordered), <<c, d>>, <<PausePrefix, b>>, <<cs, d1>>)
  BY <1>14, <1>15
<1>17. Run(ParserStep(ordered), <<c, d>>, <<PausePrefix, b>> \o <<e>>, <<cs, d>>)
  BY <1>13, <1>14, <1>16, RunThen
<1>18. Run(ParserStep(ordered), <<c, d>>, <<PausePrefix, b, e>>, <<cs, d>>)
  BY <1>14, <1>17
<1> QED
  BY <1>18 DEF At, b, c, cs, d, e

LEMMA RunOrdinary ==
  ASSUME NEW ordered \in BOOLEAN, NEW mods, NEW keys, Ready(ordered, mods, keys),
         NEW k \in Ordinary, NEW up \in BOOLEAN
  PROVE  /\ Sent(k, up) \in Seq(KeyCodes)
         /\ Run(ParserStep(ordered), At(mods, keys), Sent(k, up),
                At(Seen(up, mods, {k} \cap Modifiers), After(up, keys, {k})))
<1>1. PICK code, ext : /\ CodeOf(k, code, ext)
                       /\ Sent(k, up) = (IF ext THEN <<Extend>> ELSE <<>>) \o <<[code |-> code, up |-> up]>>
  BY OrdinaryCode
<1>2. /\ code \in Codes \ {"E0", "E1"} /\ ext \in BOOLEAN
      /\ Decoded(code, ext) = {k} /\ ModifierOf(code, ext) = {k} \cap Modifiers
  BY <1>1, OrdinaryFacts
<1> DEFINE b == [code |-> code, up |-> up]
<1>3. b \in KeyCodes /\ Extend \in KeyCodes
  BY <1>2, CodeFacts
<1>4. /\ <<b>> \in Seq(KeyCodes) /\ <<Extend, b>> \in Seq(KeyCodes)
      /\ <<Extend>> \o <<b>> = <<Extend, b>> /\ <<>> \o <<b>> = <<b>>
  <2> HIDE DEF b
  <2>1. <<b>> \in Seq(KeyCodes) /\ <<>> \o <<b>> = <<b>>
    BY <1>3
  <2> QED
    BY <1>3, <2>1, JoinedTwo
<1>5. CASE ext = TRUE
  <2>1. Sent(k, up) = <<Extend, b>>
    BY <1>1, <1>4, <1>5
  <2>2. Ready(FALSE, mods, keys)
    BY DEF Ready
  <2>3. Run(ParserStep(ordered), At(mods, keys), <<Extend, b>>,
            At(Seen(up, mods, ModifierOf(code, TRUE)), After(up, keys, Decoded(code, TRUE))))
    BY <1>2, <2>2, RunExtended
  <2> HIDE DEF b
  <2> QED
    BY <1>2, <1>4, <1>5, <2>1, <2>3
<1>6. CASE ext = FALSE
  <2>1. Sent(k, up) = <<b>>
    BY <1>1, <1>4, <1>6
  <2>2. Run(ParserStep(ordered), At(mods, keys), <<b>>,
            At(Seen(up, mods, ModifierOf(code, FALSE)), After(up, keys, Decoded(code, FALSE))))
    BY <1>2, RunPlain
  <2> HIDE DEF b
  <2> QED
    BY <1>2, <1>4, <1>6, <2>1, <2>2
<1> QED
  BY <1>2, <1>5, <1>6

LEMMA RunScreenshot ==
  ASSUME NEW ordered \in BOOLEAN, NEW mods, NEW keys, Ready(ordered, mods, keys), NEW up \in BOOLEAN
  PROVE  /\ Sent("print screen", up) \in Seq(KeyCodes)
         /\ Run(ParserStep(ordered), At(mods, keys), Sent("print screen", up),
                At(mods, After(up, keys, ScreenshotKeys)))
<1> DEFINE p == [code |-> "print screen", up |-> up]
           s == [code |-> "shift", up |-> up]
           then == After(up, keys, ScreenshotKeys)
<1>1. p \in KeyCodes /\ s \in KeyCodes /\ Extend \in KeyCodes
  BY CodeFacts DEF Codes
<1>2. Sent("print screen", up) = IF up THEN <<Extend, p, Extend, s>> ELSE <<Extend, s, Extend, p>>
  BY DEF Sent
<1>3. /\ ModifierOf("print screen", TRUE) = {} /\ ModifierOf("shift", TRUE) = {}
      /\ Decoded("print screen", TRUE) = ScreenshotKeys /\ Decoded("shift", TRUE) = {}
  BY ModifierKeys, DecodedKeys DEF ScreenshotKeys
<1>4. Seen(up, mods, {}) = mods /\ (\A ks \in SUBSET Pressed : After(up, ks, {}) = ks)
  BY DEF Seen, After, Ready
<1>5. then \in SUBSET Pressed /\ keys \in SUBSET Pressed
  BY DEF After, Pressed, Ready
<1>6. Ready(FALSE, mods, keys) /\ Ready(FALSE, mods, then)
  BY <1>5 DEF Ready
<1>7. \A ks \in SUBSET Pressed : Ready(FALSE, mods, ks) =>
        /\ Run(ParserStep(ordered), At(mods, ks), <<Extend, p>>, At(mods, After(up, ks, ScreenshotKeys)))
        /\ Run(ParserStep(ordered), At(mods, ks), <<Extend, s>>, At(mods, ks))
  <2> SUFFICES ASSUME NEW ks \in SUBSET Pressed, Ready(FALSE, mods, ks)
               PROVE  /\ Run(ParserStep(ordered), At(mods, ks), <<Extend, p>>,
                             At(mods, After(up, ks, ScreenshotKeys)))
                      /\ Run(ParserStep(ordered), At(mods, ks), <<Extend, s>>, At(mods, ks))
    OBVIOUS
  <2>1. "print screen" \in Codes \ {"E0", "E1"} /\ "shift" \in Codes \ {"E0", "E1"}
    BY DEF Codes
  <2>2. Run(ParserStep(ordered), At(mods, ks), <<Extend, p>>,
            At(Seen(up, mods, ModifierOf("print screen", TRUE)), After(up, ks, Decoded("print screen", TRUE))))
    BY <2>1, RunExtended
  <2>3. Run(ParserStep(ordered), At(mods, ks), <<Extend, s>>,
            At(Seen(up, mods, ModifierOf("shift", TRUE)), After(up, ks, Decoded("shift", TRUE))))
    BY <2>1, RunExtended
  <2> HIDE DEF p, s
  <2> QED
    BY <1>3, <1>4, <2>2, <2>3
<1> HIDE DEF p, s, then
<1>8. /\ <<Extend, p>> \in Seq(KeyCodes) /\ <<Extend, s>> \in Seq(KeyCodes)
      /\ <<Extend, p>> \o <<Extend, s>> = <<Extend, p, Extend, s>>
      /\ <<Extend, s>> \o <<Extend, p>> = <<Extend, s, Extend, p>>
  BY <1>1, JoinedTwo, JoinedFour
<1>9. /\ Run(ParserStep(ordered), At(mods, keys), <<Extend, p>>, At(mods, then))
      /\ Run(ParserStep(ordered), At(mods, then), <<Extend, s>>, At(mods, then))
      /\ Run(ParserStep(ordered), At(mods, keys), <<Extend, s>>, At(mods, keys))
  BY <1>5, <1>6, <1>7 DEF then
<1>10. Run(ParserStep(ordered), At(mods, keys), <<Extend, p>> \o <<Extend, s>>, At(mods, then))
  BY <1>8, <1>9, RunThen
<1>11. Run(ParserStep(ordered), At(mods, keys), <<Extend, s>> \o <<Extend, p>>, At(mods, then))
  BY <1>8, <1>9, RunThen
<1>12. <<Extend, p, Extend, s>> \in Seq(KeyCodes) /\ <<Extend, s, Extend, p>> \in Seq(KeyCodes)
  BY <1>1
<1> QED
  BY <1>2, <1>8, <1>10, <1>11, <1>12 DEF then

LEMMA RunPauseKey ==
  ASSUME NEW ordered \in BOOLEAN, NEW mods, NEW keys, Ready(ordered, mods, keys), NEW up \in BOOLEAN,
         up \/ mods = {}
  PROVE  /\ Sent("pause", up) \in Seq(KeyCodes)
         /\ Run(ParserStep(ordered), At(mods, keys), Sent("pause", up), At(mods, keys))
<1>1. CASE up
  <2>1. Sent("pause", up) = <<>>
    BY <1>1 DEF Sent
  <2>2. <<>> \in Seq(KeyCodes)
    OBVIOUS
  <2>3. Run(ParserStep(ordered), At(mods, keys), <<>>, At(mods, keys))
    BY RunNothing
  <2> QED
    BY <2>1, <2>2, <2>3
<1>2. CASE ~up
  <2> DEFINE b1 == [code |-> "ctrl", up |-> FALSE]
             e1 == [code |-> "pause", up |-> FALSE]
             b2 == [code |-> "ctrl", up |-> TRUE]
             e2 == [code |-> "pause", up |-> TRUE]
             s == <<PausePrefix, b1, e1>>
             t == <<PausePrefix, b2, e2>>
             u == <<PausePrefix, b1, e1, PausePrefix, b2, e2>>
             seen == Seen(FALSE, mods, {"left ctrl"})
  <2>1. Sent("pause", up) = u
    BY <1>2 DEF Sent, Make, Break
  <2>2. PausePrefix \in KeyCodes /\ b1 \in KeyCodes /\ e1 \in KeyCodes /\ b2 \in KeyCodes /\ e2 \in KeyCodes
    BY CodeFacts DEF Codes
  <2>3. Ready(FALSE, mods, keys) /\ Ready(FALSE, seen, keys) /\ Seen(TRUE, seen, {"left ctrl"}) = mods
    BY <1>2 DEF Ready, Seen, After, Modifiers
  <2>4. Run(ParserStep(ordered), At(mods, keys), s, At(seen, keys))
    BY <2>3, RunPause
  <2> HIDE DEF seen
  <2>5. Run(ParserStep(ordered), At(seen, keys), t, At(mods, keys))
    BY <2>3, RunPause
  <2> HIDE DEF b1, e1, b2, e2
  <2>6. s \in Seq(KeyCodes) /\ t \in Seq(KeyCodes) /\ u \in Seq(KeyCodes)
        /\ Len(s) = 3 /\ Len(t) = 3 /\ Len(u) = 6
        /\ s[1] = u[1] /\ s[2] = u[2] /\ s[3] = u[3] /\ t[1] = u[4] /\ t[2] = u[5] /\ t[3] = u[6]
    BY <2>2
  <2> HIDE DEF s, t, u
  <2>7. s \o t \in Seq(KeyCodes) /\ Joins(s \o t, s, t)
    BY <2>6, ConcatenatedAt
  <2>8. Len(s \o t) = 6 /\ (\A i \in 1 .. 3 : (s \o t)[i] = s[i]) /\ (\A i \in 1 .. 3 : (s \o t)[3 + i] = t[i])
    BY <2>6, <2>7 DEF Joins
  <2>9. \A i \in 1 .. 6 : (s \o t)[i] = u[i]
    <3>1. 1 \in 1 .. 3 /\ 2 \in 1 .. 3 /\ 3 \in 1 .. 3 /\ 3 + 1 = 4 /\ 3 + 2 = 5 /\ 3 + 3 = 6
      OBVIOUS
    <3>2. (s \o t)[1] = s[1] /\ (s \o t)[2] = s[2] /\ (s \o t)[3] = s[3]
      BY <2>8, <3>1
    <3>3. (s \o t)[3 + 1] = t[1] /\ (s \o t)[3 + 2] = t[2] /\ (s \o t)[3 + 3] = t[3]
      BY <2>8, <3>1
    <3>4. \A i \in 1 .. 6 : i = 1 \/ i = 2 \/ i = 3 \/ i = 4 \/ i = 5 \/ i = 6
      OBVIOUS
    <3> QED
      BY <2>6, <3>1, <3>2, <3>3, <3>4
  <2>10. s \o t = u
    BY <2>6, <2>7, <2>8, <2>9, SameSequence
  <2>11. Run(ParserStep(ordered), At(mods, keys), s \o t, At(mods, keys))
    BY <2>4, <2>5, <2>6, RunThen
  <2> QED
    BY <2>1, <2>6, <2>10, <2>11
<1> QED
  BY <1>1, <1>2

LEMMA TypedRun ==
  ASSUME NEW ordered \in BOOLEAN, NEW mods, NEW keys, Ready(ordered, mods, keys),
         NEW k \in AllKeys, NEW up \in BOOLEAN, k = "pause" => up \/ mods = {}
  PROVE  /\ Sent(k, up) \in Seq(KeyCodes)
         /\ Run(ParserStep(ordered), At(mods, keys), Sent(k, up),
                At(Seen(up, mods, {k} \cap Modifiers), After(up, keys, Meant(k))))
<1>1. CASE k = "pause"
  <2>1. {k} \cap Modifiers = {} /\ Meant(k) = {}
    BY <1>1 DEF Modifiers, Meant
  <2>2. Seen(up, mods, {}) = mods /\ After(up, keys, {}) = keys
    BY DEF Seen, After, Ready
  <2> QED
    BY <1>1, <2>1, <2>2, RunPauseKey
<1>2. CASE k = "print screen"
  <2>1. {k} \cap Modifiers = {} /\ Meant(k) = ScreenshotKeys
    BY <1>2 DEF Modifiers, Meant
  <2>2. Seen(up, mods, {}) = mods
    BY DEF Seen, After, Ready
  <2> QED
    BY <1>2, <2>1, <2>2, RunScreenshot
<1>3. CASE k \in Ordinary
  <2>1. Meant(k) = {k}
    BY <1>3 DEF Meant, Ordinary
  <2> QED
    BY <1>3, <2>1, RunOrdinary
<1> QED
  BY <1>1, <1>2, <1>3 DEF Ordinary

-----------------------------------------------------------------------------
(* A step of a machine that ends in a state of its own.                    *)
LEMMA Steps ==
  /\ \A x \in DriverStates \X KeyCodes : x \in DOMAIN DriverStep /\ DriverStep[x] = Handle(x[1], x[2])
  /\ \A ordered : \A x \in DOMAIN ParserStep(ordered) :
       /\ x[1][1] \in ControllerStates /\ x[1][2] \in DriverStates /\ x[2] \in KeyCodes
       /\ ordered => InOrder(x[1], x[2])
       /\ ParserStep(ordered)[x] = <<Escape(x[1][1], x[2]), Handle(x[1][2], x[2])>>
BY DEF DriverStep, ParserStep

LEMMA Place == \A c, d, b : /\ <<<<c, d>>, b>>[1][1] = c /\ <<<<c, d>>, b>>[1][2] = d
                            /\ <<<<c, d>>, b>>[1] = <<c, d>> /\ <<<<c, d>>, b>>[2] = b
                            /\ <<d, b>>[1] = d /\ <<d, b>>[2] = b
OBVIOUS

LEMMA ParsersBegin ==
  ASSUME NEW ordered, NEW c, NEW d, NEW codes \in Seq(KeyCodes), codes # <<>>, NEW z,
         Run(ParserStep(ordered), <<c, d>>, codes, z)
  PROVE  /\ c \in ControllerStates /\ d \in DriverStates
         /\ ordered => InOrder(<<c, d>>, Head(codes))
         /\ Run(ParserStep(ordered), <<Escape(c, Head(codes)), Handle(d, Head(codes))>>, Tail(codes), z)
<1> DEFINE b == Head(codes)
           x == <<<<c, d>>, b>>
<1>1. x \in DOMAIN ParserStep(ordered) /\ Run(ParserStep(ordered), ParserStep(ordered)[x], Tail(codes), z)
  BY RunFirst
<1>2. x[1][1] = c /\ x[1][2] = d /\ x[1] = <<c, d>> /\ x[2] = b
  BY Place
<1> HIDE DEF x, b
<1>3. /\ x[1][1] \in ControllerStates /\ x[1][2] \in DriverStates
      /\ ordered => InOrder(x[1], x[2])
      /\ ParserStep(ordered)[x] = <<Escape(x[1][1], x[2]), Handle(x[1][2], x[2])>>
  BY <1>1, Steps
<1>4. ParserStep(ordered)[x] = <<Escape(c, b), Handle(d, b)>>
  BY <1>2, <1>3
<1> QED
  BY <1>1, <1>2, <1>3, <1>4 DEF b

LEMMA ParsersPlace ==
  ASSUME NEW ordered, NEW c, NEW d, NEW codes \in Seq(KeyCodes),
         NEW mods \in SUBSET Modifiers, NEW keys \in SUBSET Pressed,
         Run(ParserStep(ordered), <<c, d>>, codes, At(mods, keys))
  PROVE  c \in ControllerStates /\ d \in DriverStates
<1>1. CASE codes = <<>>
  <2>1. <<c, d>> = At(mods, keys)
    BY <1>1, RunNothing
  <2>2. c = Controller(FALSE, mods) /\ d = Driver(0, keys)
    BY <2>1 DEF At
  <2>3. FALSE \in BOOLEAN /\ 0 \in 0 .. 2
    OBVIOUS
  <2> QED
    BY <2>2, <2>3, StateFacts
<1>2. CASE codes # <<>>
  BY <1>2, ParsersBegin
<1> QED
  BY <1>1, <1>2

LEMMA DriverBegin ==
  ASSUME NEW d, NEW codes \in Seq(KeyCodes), codes # <<>>, NEW z, Run(DriverStep, d, codes, z)
  PROVE  d \in DriverStates /\ Run(DriverStep, Handle(d, Head(codes)), Tail(codes), z)
<1> DEFINE b == Head(codes)
           x == <<d, b>>
<1>1. x \in DOMAIN DriverStep /\ Run(DriverStep, DriverStep[x], Tail(codes), z)
  BY RunFirst
<1>2. x[1] = d /\ x[2] = b
  BY Place
<1>3. DOMAIN DriverStep = DriverStates \X KeyCodes
  BY DEF DriverStep
<1>4. x \in DriverStates \X KeyCodes
  BY <1>1, <1>3
<1>5. d \in DriverStates
  BY <1>4
<1> HIDE DEF x, b
<1>6. DriverStep[x] = Handle(d, b)
  BY <1>2, <1>4, Steps
<1> QED
  BY <1>1, <1>5, <1>6 DEF b

LEMMA DriverPlace ==
  ASSUME NEW d, NEW codes \in Seq(KeyCodes), NEW z \in DriverStates, Run(DriverStep, d, codes, z)
  PROVE  d \in DriverStates
<1>1. CASE codes = <<>>
  BY <1>1, RunNothing
<1>2. CASE codes # <<>>
  BY <1>2, DriverBegin
<1> QED
  BY <1>1, <1>2

LEMMA DriverOne ==
  ASSUME NEW d \in DriverStates, NEW b \in KeyCodes
  PROVE  Run(DriverStep, d, <<b>>, Handle(d, b))
<1> DEFINE x == <<d, b>>
<1>1. x \in DriverStates \X KeyCodes /\ x[1] = d /\ x[2] = b
  OBVIOUS
<1>2. x \in DOMAIN DriverStep /\ DriverStep[x] = Handle(d, b)
  <2> HIDE DEF x
  <2> QED
    BY <1>1, Steps
<1> QED
  BY <1>2, RunOne

LEMMA RunUnordered ==
  ASSUME NEW a, NEW codes, NEW z, Run(ParserStep(TRUE), a, codes, z)
  PROVE  Run(ParserStep(FALSE), a, codes, z)
<1>1. \A x \in DOMAIN ParserStep(TRUE) :
        x \in DOMAIN ParserStep(FALSE) /\ ParserStep(FALSE)[x] = ParserStep(TRUE)[x]
  BY DEF ParserStep
<1> QED
  BY <1>1, RunWeaker

(* The codes that release the Alt keys.                                    *)
LEMMA RunRelease ==
  ASSUME NEW keys \in SUBSET Pressed
  PROVE  /\ ReleaseAlts \in Seq(KeyCodes) /\ Len(ReleaseAlts) = 3
         /\ Run(DriverStep, Driver(0, keys), ReleaseAlts, Driver(0, keys \ Alts))
<1> DEFINE b == [code |-> "alt", up |-> TRUE]
           k1 == keys \ {"left alt"}
           k2 == k1 \ {"right alt"}
<1>1. b \in KeyCodes /\ b \notin {Extend, PausePrefix} /\ Extend \in KeyCodes /\ Extend # PausePrefix
  BY CodeFacts DEF Codes
<1>2. ReleaseAlts = <<b, Extend, b>>
  BY DEF ReleaseAlts, Break
<1>3. Handle(Driver(0, keys), b) = Driver(0, k1)
  <2>1. Handle(Driver(0, keys), b) = Driver(0, After(b.up, keys, Decoded(b.code, FALSE)))
    BY <1>1, DispatchIs
  <2> QED
    BY <2>1, DecodedKeys DEF After
<1>4. Handle(Driver(0, k1), Extend) = Driver(1, k1)
  BY <1>1 DEF Handle, Driver
<1>5. Handle(Driver(1, k1), b) = Driver(0, k2)
  <2>1. Handle(Driver(1, k1), b) = Driver(0, After(b.up, k1, Decoded(b.code, TRUE)))
    BY <1>1, DispatchIs
  <2> QED
    BY <2>1, DecodedKeys DEF After
<1>6. k2 = keys \ Alts
  BY DEF Alts
<1> HIDE DEF b
<1>7. /\ Driver(0, keys) \in DriverStates /\ Driver(0, k1) \in DriverStates /\ Driver(1, k1) \in DriverStates
  <2>1. k1 \in SUBSET Pressed
    OBVIOUS
  <2>2. 0 \in 0 .. 2 /\ 1 \in 0 .. 2
    OBVIOUS
  <2> HIDE DEF k1
  <2> QED
    BY <2>1, <2>2, StateFacts
<1>8. /\ Run(DriverStep, Driver(0, keys), <<b>>, Driver(0, k1))
      /\ Run(DriverStep, Driver(0, k1), <<Extend>>, Driver(1, k1))
      /\ Run(DriverStep, Driver(1, k1), <<b>>, Driver(0, k2))
  <2>1. Run(DriverStep, Driver(0, keys), <<b>>, Handle(Driver(0, keys), b))
    BY <1>1, <1>7, DriverOne
  <2>2. Run(DriverStep, Driver(0, k1), <<Extend>>, Handle(Driver(0, k1), Extend))
    BY <1>1, <1>7, DriverOne
  <2>3. Run(DriverStep, Driver(1, k1), <<b>>, Handle(Driver(1, k1), b))
    BY <1>1, <1>7, DriverOne
  <2> QED
    BY <1>3, <1>4, <1>5, <2>1, <2>2, <2>3
<1> HIDE DEF k1, k2
<1>9. /\ <<b>> \in Seq(KeyCodes) /\ <<Extend>> \in Seq(KeyCodes) /\ <<b, Extend>> \in Seq(KeyCodes)
      /\ <<b>> \o <<Extend>> = <<b, Extend>> /\ <<b, Extend>> \o <<b>> = <<b, Extend, b>>
  BY <1>1, JoinedTwo, JoinedThree
<1>10. Run(DriverStep, Driver(0, keys), <<b>> \o <<Extend>>, Driver(1, k1))
  BY <1>8, <1>9, RunThen
<1>11. Run(DriverStep, Driver(0, keys), <<b, Extend>> \o <<b>>, Driver(0, k2))
  BY <1>8, <1>9, <1>10, RunThen
<1>12. <<b, Extend, b>> \in Seq(KeyCodes) /\ Len(<<b, Extend, b>>) = 3
  BY <1>1
<1> QED
  BY <1>2, <1>6, <1>9, <1>11, <1>12

-----------------------------------------------------------------------------
(* The inductive invariant.                                                *)
Held(H) == (H \ {"print screen", "pause"})
             \cup (IF "print screen" \in H THEN ScreenshotKeys ELSE {})
Known(H) == IF Debugging THEN H \cap Modifiers ELSE {}
Sound(how) == how \in {"none", "debugger"}

(* The queue takes the driver to mid, and the codes on their way take both *)
(* parsers from there to a state between two sequences.                    *)
Stream(q, w, c, d, H, mid, keys) ==
  /\ Run(DriverStep, d, q, mid)
  /\ Run(ParserStep(TRUE), <<c, mid>>, w, At(Known(H), keys))
Leads(how, q, w, c, d, H) ==
  \E mid, keys :
    /\ keys \in SUBSET Pressed
    /\ Stream(q, w, c, d, H, mid, keys)
    /\ keys \cap Modifiers = Held(H) \cap Modifiers
    /\ how = "none" => keys = Held(H)
Heard(w, c, H) ==
  \E mid, keys : Run(ParserStep(FALSE), <<c, mid>>, w, At(Known(H), keys))
Unmixed(H) == ~("print screen" \in H /\ H \cap ScreenshotKeys # {})

Flows(how, q, w, c, d, H) ==
  /\ Sound(how) => Unmixed(H) /\ Leads(how, q, w, c, d, H)
  /\ ~Sound(how) /\ w # <<>> => Heard(w, c, H)

Parser == Controller(extended, modifiers)
Follower == Driver(extendCount, keysDown)

KeyboardIInv ==
  /\ KeyboardTypeOK
  /\ ~enabled => wire = <<>>
  /\ disturbed = "gray" => wire = <<>>
  /\ Flows(disturbed, queue, wire, Parser, Follower, held)

-----------------------------------------------------------------------------
LEMMA KnownIn == \A H : Known(H) \in SUBSET Modifiers /\ (~Debugging => Known(H) = {})
BY DEF Known

LEMMA ScreenshotAlt == "left alt" \in ScreenshotKeys
<1>1. ScreenshotKeys = Screenshot
  BY DecodedKeys DEF ScreenshotKeys
<1> QED
  BY <1>1 DEF Screenshot

LEMMA ScreenshotIn == "print screen" \notin ScreenshotKeys /\ "pause" \notin ScreenshotKeys
<1>1. ScreenshotKeys = Screenshot
  BY DecodedKeys DEF ScreenshotKeys
<1>2. \A k \in Screenshot : k \in {"left alt", "left shift", "4", "left ctrl"}
  BY DEF Screenshot
<1> QED
  BY <1>1, <1>2

(* A key typed changes what the driver should have down as its codes do.   *)
Typed(k, up, H) == After(up, H, {k})
Apart(k, H) == IF k = "print screen" THEN H \cap ScreenshotKeys = {}
                                     ELSE ~(k \in ScreenshotKeys /\ "print screen" \in H)

LEMMA HeldAfter ==
  ASSUME NEW H, NEW k, NEW up \in BOOLEAN, Apart(k, H)
  PROVE  Held(Typed(k, up, H)) = After(up, Held(H), Meant(k))
<1> DEFINE N == Typed(k, up, H)
           S == ScreenshotKeys
<1> HIDE DEF S
<1>1. CASE k = "pause"
  <2>1. Meant(k) = {} /\ ("print screen" \in N <=> "print screen" \in H)
        /\ N \ {"print screen", "pause"} = H \ {"print screen", "pause"}
    BY <1>1 DEF Meant, Typed, After
  <2>2. Held(N) = Held(H)
    BY <2>1 DEF Held
  <2> QED
    BY <2>1, <2>2 DEF After, Held
<1>2. CASE k = "print screen" /\ up
  <2>1. Meant(k) = S /\ "print screen" \notin N
        /\ N \ {"print screen", "pause"} = H \ {"print screen", "pause"} /\ H \cap S = {}
    BY <1>2 DEF Meant, Typed, After, Apart, S
  <2>2. Held(N) = H \ {"print screen", "pause"}
    BY <2>1 DEF Held
  <2>3. Held(H) \ S = H \ {"print screen", "pause"}
    BY <2>1 DEF Held, S
  <2> QED
    BY <1>2, <2>1, <2>2, <2>3 DEF After
<1>3. CASE k = "print screen" /\ ~up
  <2>1. Meant(k) = S /\ "print screen" \in N
        /\ N \ {"print screen", "pause"} = H \ {"print screen", "pause"}
    BY <1>3 DEF Meant, Typed, After, S
  <2>2. Held(N) = (H \ {"print screen", "pause"}) \cup S
    BY <2>1 DEF Held, S
  <2>3. Held(H) \cup S = (H \ {"print screen", "pause"}) \cup S
    BY DEF Held, S
  <2> QED
    BY <1>3, <2>1, <2>2, <2>3 DEF After
<1>4. CASE k \notin {"pause", "print screen"} /\ up
  <2>1. Meant(k) = {k} /\ N = H \ {k} /\ ("print screen" \in N <=> "print screen" \in H)
        /\ ("print screen" \in H => k \notin S)
    BY <1>4 DEF Meant, Typed, After, Apart, S
  <2>2. Held(N) = Held(H) \ {k}
    BY <2>1 DEF Held, S
  <2> QED
    BY <1>4, <2>1, <2>2 DEF After
<1>5. CASE k \notin {"pause", "print screen"} /\ ~up
  <2>1. Meant(k) = {k} /\ N = H \cup {k} /\ ("print screen" \in N <=> "print screen" \in H)
    BY <1>5 DEF Meant, Typed, After
  <2>2. Held(N) = Held(H) \cup {k}
    BY <1>5, <2>1 DEF Held
  <2> QED
    BY <1>5, <2>1, <2>2 DEF After
<1> QED
  BY <1>1, <1>2, <1>3, <1>4, <1>5

LEMMA UnmixedAfter ==
  ASSUME NEW H, NEW k, NEW up \in BOOLEAN, Apart(k, H), Unmixed(H)
  PROVE  Unmixed(Typed(k, up, H))
BY ScreenshotIn DEF Unmixed, Typed, After, Apart

LEMMA KnownAfter ==
  ASSUME NEW H, NEW k, NEW up \in BOOLEAN
  PROVE  Known(Typed(k, up, H)) = Seen(up, Known(H), {k} \cap Modifiers)
BY DEF Known, Typed, Seen, After

(* Between two sequences the driver agrees with the controller on the Alts.*)
LEMMA ReadyHeld ==
  ASSUME NEW H, NEW keys \in SUBSET Pressed, Unmixed(H), keys \cap Modifiers = Held(H) \cap Modifiers
  PROVE  Ready(TRUE, Known(H), keys)
<1>1. ASSUME Known(H) = Alts PROVE keys \cap Modifiers = Alts
  <2>1. H \cap Modifiers = Alts
    <3>1. Alts # {}
      BY DEF Alts
    <3> QED
      BY <1>1, <3>1 DEF Known
  <2>2. "left alt" \in H
    BY <2>1 DEF Alts
  <2>3. "print screen" \notin H
    BY <2>2, ScreenshotAlt DEF Unmixed
  <2>4. Held(H) = H \ {"print screen", "pause"}
    BY <2>3 DEF Held
  <2>5. "print screen" \notin Modifiers /\ "pause" \notin Modifiers
    BY DEF Modifiers
  <2> QED
    BY <2>1, <2>4, <2>5
<1> QED
  BY <1>1, KnownIn DEF Ready

LEMMA MeantIn == ASSUME NEW k \in Keys PROVE Meant(k) \in SUBSET Pressed
BY DEF Meant, Pressed

-----------------------------------------------------------------------------
(* A key is typed.                                                         *)
LEMMA TypedPlain ==
  ASSUME NEW H, NEW k \in Keys, NEW up \in BOOLEAN, k = "pause" => up \/ H \cap Modifiers = {},
         NEW ordered \in BOOLEAN, NEW keys \in SUBSET Pressed, Ready(ordered, Known(H), keys),
         NEW w \in Seq(KeyCodes), NEW a, Run(ParserStep(ordered), a, w, At(Known(H), keys))
  PROVE  /\ Sent(k, up) \in Seq(KeyCodes)
         /\ Run(ParserStep(ordered), a, w \o Sent(k, up),
                At(Known(Typed(k, up, H)), After(up, keys, Meant(k))))
<1>1. k \in AllKeys
  BY KeyboardAssumption
<1>2. k = "pause" => up \/ Known(H) = {}
  BY DEF Known
<1>3. /\ Sent(k, up) \in Seq(KeyCodes)
      /\ Run(ParserStep(ordered), At(Known(H), keys), Sent(k, up),
             At(Seen(up, Known(H), {k} \cap Modifiers), After(up, keys, Meant(k))))
  BY <1>1, <1>2, TypedRun
<1>4. Run(ParserStep(ordered), a, w \o Sent(k, up),
          At(Seen(up, Known(H), {k} \cap Modifiers), After(up, keys, Meant(k))))
  BY <1>3, RunThen
<1> QED
  BY <1>3, <1>4, KnownAfter

LEMMA TypeFlows ==
  ASSUME NEW H, NEW k \in Keys, NEW up \in BOOLEAN, k = "pause" => up \/ H \cap Modifiers = {},
         NEW how, NEW q, NEW w \in Seq(KeyCodes), NEW c, NEW d, Sound(how), Flows(how, q, w, c, d, H)
  PROVE  /\ Apart(k, H) => Flows(how, q, w \o Sent(k, up), c, d, Typed(k, up, H))
         /\ Flows("other", q, w \o Sent(k, up), c, d, Typed(k, up, H))
<1> DEFINE N == Typed(k, up, H)
           u == w \o Sent(k, up)
<1>1. Unmixed(H) /\ Leads(how, q, w, c, d, H)
  BY DEF Flows
<1>2. PICK mid, keys :
        /\ keys \in SUBSET Pressed
        /\ Stream(q, w, c, d, H, mid, keys)
        /\ keys \cap Modifiers = Held(H) \cap Modifiers
        /\ how = "none" => keys = Held(H)
  BY <1>1 DEF Leads
<1> DEFINE then == After(up, keys, Meant(k))
<1>3. then \in SUBSET Pressed
  BY <1>2, MeantIn, AfterIn
<1>4. Ready(TRUE, Known(H), keys) /\ Ready(FALSE, Known(H), keys)
  BY <1>1, <1>2, ReadyHeld DEF Ready
<1>5. Run(ParserStep(TRUE), <<c, mid>>, w, At(Known(H), keys)) /\ Run(DriverStep, d, q, mid)
  BY <1>2 DEF Stream
<1>6. Run(ParserStep(TRUE), <<c, mid>>, u, At(Known(N), then))
  BY <1>2, <1>4, <1>5, TypedPlain
<1>7. Run(ParserStep(FALSE), <<c, mid>>, u, At(Known(N), then))
  BY <1>6, RunUnordered
<1> HIDE DEF then, N, u
<1>8. Heard(u, c, N)
  BY <1>7 DEF Heard
<1>9. ~Sound("other")
  BY DEF Sound
<1>10. ASSUME Apart(k, H) PROVE Flows(how, q, u, c, d, N)
  <2>1. Held(N) = After(up, Held(H), Meant(k))
    BY <1>10, HeldAfter DEF N
  <2>2. Unmixed(N)
    BY <1>1, <1>10, UnmixedAfter DEF N
  <2>3. then \cap Modifiers = Held(N) \cap Modifiers
    BY <1>2, <2>1 DEF then, After
  <2>4. how = "none" => then = Held(N)
    BY <1>2, <2>1 DEF then
  <2>5. Stream(q, u, c, d, N, mid, then)
    BY <1>5, <1>6 DEF Stream
  <2>6. Leads(how, q, u, c, d, N)
    BY <1>3, <2>3, <2>4, <2>5 DEF Leads
  <2> QED
    BY <2>2, <2>6 DEF Flows
<1>11. Flows("other", q, u, c, d, N)
  BY <1>8, <1>9 DEF Flows
<1> QED
  BY <1>10, <1>11 DEF N, u

(* doEscape lets a code pass, which the queue takes or drops.              *)
LEMMA PassFlows ==
  ASSUME NEW how, NEW q \in Seq(KeyCodes), NEW w \in Seq(KeyCodes), NEW c, NEW d, NEW H,
         Flows(how, q, w, c, d, H), w # <<>>
  PROVE  /\ Flows(how, q \o <<Head(w)>>, Tail(w), Escape(c, Head(w)), d, H)
         /\ \A r : Flows("other", r, Tail(w), Escape(c, Head(w)), d, H)
<1> DEFINE b == Head(w)
           e == Escape(c, b)
<1>0. b \in KeyCodes /\ Tail(w) \in Seq(KeyCodes) /\ <<b>> \in Seq(KeyCodes)
  OBVIOUS
<1>1. ASSUME NEW ordered, NEW mid, NEW z, Run(ParserStep(ordered), <<c, mid>>, w, z)
      PROVE  mid \in DriverStates /\ Run(ParserStep(ordered), <<e, Handle(mid, b)>>, Tail(w), z)
  BY <1>1, ParsersBegin
<1>2. ASSUME Sound(how)
      PROVE  /\ Unmixed(H) /\ Leads(how, q \o <<b>>, Tail(w), e, d, H)
             /\ Heard(Tail(w), e, H)
  <2>1. Unmixed(H) /\ Leads(how, q, w, c, d, H)
    BY <1>2 DEF Flows
  <2>2. PICK mid, keys :
          /\ keys \in SUBSET Pressed
          /\ Stream(q, w, c, d, H, mid, keys)
          /\ keys \cap Modifiers = Held(H) \cap Modifiers
          /\ how = "none" => keys = Held(H)
    BY <2>1 DEF Leads
  <2>3. Run(ParserStep(TRUE), <<c, mid>>, w, At(Known(H), keys)) /\ Run(DriverStep, d, q, mid)
    BY <2>2 DEF Stream
  <2>4. mid \in DriverStates
        /\ Run(ParserStep(TRUE), <<e, Handle(mid, b)>>, Tail(w), At(Known(H), keys))
    BY <1>1, <2>3
  <2> HIDE DEF e, b
  <2>5. Run(DriverStep, mid, <<b>>, Handle(mid, b))
    BY <1>0, <2>4, DriverOne
  <2>6. Run(DriverStep, d, q \o <<b>>, Handle(mid, b))
    BY <1>0, <2>3, <2>5, RunThen
  <2>7. Stream(q \o <<b>>, Tail(w), e, d, H, Handle(mid, b), keys)
    BY <2>4, <2>6 DEF Stream
  <2>8. Leads(how, q \o <<b>>, Tail(w), e, d, H)
    BY <2>2, <2>7 DEF Leads
  <2>9. Run(ParserStep(FALSE), <<e, Handle(mid, b)>>, Tail(w), At(Known(H), keys))
    BY <2>4, RunUnordered
  <2>10. Heard(Tail(w), e, H)
    BY <2>9 DEF Heard
  <2> QED
    BY <2>1, <2>8, <2>10
<1>3. ASSUME ~Sound(how) PROVE Heard(Tail(w), e, H)
  <2>1. PICK mid, keys : Run(ParserStep(FALSE), <<c, mid>>, w, At(Known(H), keys))
    BY <1>3 DEF Flows, Heard
  <2>2. Run(ParserStep(FALSE), <<e, Handle(mid, b)>>, Tail(w), At(Known(H), keys))
    BY <1>1, <2>1
  <2> QED
    BY <2>2 DEF Heard
<1> HIDE DEF b, e
<1>4. ~Sound("other")
  BY DEF Sound
<1>5. Flows(how, q \o <<b>>, Tail(w), e, d, H)
  BY <1>2, <1>3 DEF Flows
<1>6. \A r : Flows("other", r, Tail(w), e, d, H)
  BY <1>2, <1>3, <1>4 DEF Flows
<1> QED
  BY <1>5, <1>6 DEF b, e

(* The debugger has been called, and the modifier keys are released.       *)
LEMMA DebuggerFlows ==
  ASSUME NEW how, NEW q \in Seq(KeyCodes), NEW w \in Seq(KeyCodes), NEW d, NEW H,
         Sound(how), Flows(how, q, w, Controller(FALSE, Alts), d, H),
         w # <<>>, Head(w).code = "delete"
  PROVE  Flows("debugger", q \o ReleaseAlts, <<>>, Controller(FALSE, {}), d, {})
<1> DEFINE c == Controller(FALSE, Alts)
<1>1. Leads(how, q, w, c, d, H)
  BY DEF Flows
<1>2. PICK mid, keys :
        keys \in SUBSET Pressed /\ Stream(q, w, c, d, H, mid, keys)
  BY <1>1 DEF Leads
<1>3. Run(ParserStep(TRUE), <<c, mid>>, w, At(Known(H), keys)) /\ Run(DriverStep, d, q, mid)
  BY <1>2 DEF Stream
<1>4. mid \in DriverStates /\ InOrder(<<c, mid>>, Head(w))
  <2> HIDE DEF c
  <2> QED
    BY <1>3, ParsersBegin
<1>5. mid.count = 0 /\ mid.keys \cap Modifiers = Alts
  BY <1>4, StateFacts DEF InOrder
<1>6. mid = Driver(0, mid.keys) /\ mid.keys \in SUBSET Pressed
  BY <1>4, <1>5 DEF Driver, DriverStates
<1> DEFINE left == mid.keys \ Alts
<1>7. left \in SUBSET Pressed /\ left \cap Modifiers = {}
  BY <1>5, <1>6
<1>8. /\ ReleaseAlts \in Seq(KeyCodes)
      /\ Run(DriverStep, mid, ReleaseAlts, Driver(0, left))
  <2>1. Run(DriverStep, Driver(0, mid.keys), ReleaseAlts, Driver(0, mid.keys \ Alts))
    BY <1>6, RunRelease
  <2> QED
    BY <1>6, <2>1, RunRelease
<1> HIDE DEF left
<1>9. Run(DriverStep, d, q \o ReleaseAlts, Driver(0, left))
  BY <1>3, <1>8, RunThen
<1>10. Known({}) = {} /\ Held({}) = {} /\ Unmixed({})
  BY DEF Known, Held, Unmixed
<1>11. Run(ParserStep(TRUE), <<Controller(FALSE, {}), Driver(0, left)>>, <<>>, At(Known({}), left))
  <2>1. At(Known({}), left) = <<Controller(FALSE, {}), Driver(0, left)>>
    BY <1>10 DEF At
  <2>2. \A a : Run(ParserStep(TRUE), a, <<>>, a)
    BY RunNothing
  <2> QED
    BY <2>1, <2>2
<1>12. Stream(q \o ReleaseAlts, <<>>, Controller(FALSE, {}), d, {}, Driver(0, left), left)
  BY <1>9, <1>11 DEF Stream
<1>13. Leads("debugger", q \o ReleaseAlts, <<>>, Controller(FALSE, {}), d, {})
  <2>1. left \cap Modifiers = Held({}) \cap Modifiers /\ "debugger" # "none"
    BY <1>7, <1>10
  <2> QED
    BY <1>7, <1>12, <2>1 DEF Leads
<1>14. Sound("debugger")
  BY DEF Sound
<1> QED
  BY <1>10, <1>13, <1>14 DEF Flows

(* The driver handles a code.                                              *)
LEMMA DispatchFlows ==
  ASSUME NEW how, NEW q \in Seq(KeyCodes), NEW w, NEW c, NEW d, NEW H,
         Flows(how, q, w, c, d, H), q # <<>>
  PROVE  Flows(how, Tail(q), w, c, Handle(d, Head(q)), H)
<1> DEFINE e == Handle(d, Head(q))
<1>1. ASSUME Sound(how) PROVE Leads(how, Tail(q), w, c, e, H)
  <2>1. PICK mid, keys :
          /\ keys \in SUBSET Pressed
          /\ Stream(q, w, c, d, H, mid, keys)
          /\ keys \cap Modifiers = Held(H) \cap Modifiers
          /\ how = "none" => keys = Held(H)
    BY <1>1 DEF Flows, Leads
  <2>2. Run(ParserStep(TRUE), <<c, mid>>, w, At(Known(H), keys)) /\ Run(DriverStep, d, q, mid)
    BY <2>1 DEF Stream
  <2>3. Run(DriverStep, e, Tail(q), mid)
    BY <2>2, DriverBegin
  <2> HIDE DEF e
  <2>4. Stream(Tail(q), w, c, e, H, mid, keys)
    BY <2>2, <2>3 DEF Stream
  <2> QED
    BY <2>1, <2>4 DEF Leads
<1> HIDE DEF e
<1>2. Flows(how, Tail(q), w, c, e, H)
  BY <1>1 DEF Flows
<1> QED
  BY <1>2 DEF e

(* Once the queue and the wire are empty the parsers are where they lead.  *)
Settled(how, c, d, H) ==
  \E keys : /\ c = Controller(FALSE, Known(H)) /\ d = Driver(0, keys)
            /\ keys \cap Modifiers = Held(H) \cap Modifiers
            /\ how = "none" => keys = Held(H)
LEMMA FlowsOut ==
  ASSUME NEW how, Sound(how), NEW q, NEW w, NEW c, NEW d, NEW H, Flows(how, q, w, c, d, H),
         q = <<>>, w = <<>>
  PROVE  Settled(how, c, d, H)
<1>1. PICK mid, keys :
        /\ keys \in SUBSET Pressed
        /\ Stream(q, w, c, d, H, mid, keys)
        /\ keys \cap Modifiers = Held(H) \cap Modifiers
        /\ how = "none" => keys = Held(H)
  BY DEF Flows, Leads
<1>2. d = mid /\ <<c, mid>> = At(Known(H), keys)
  BY <1>1, RunNothing DEF Stream
<1>3. c = Controller(FALSE, Known(H)) /\ mid = Driver(0, keys)
  BY <1>2 DEF At
<1> QED
  BY <1>1, <1>2, <1>3 DEF Settled

(* In a stream that is in order the driver has only keys of the user down. *)
LEMMA FlowsIn ==
  ASSUME NEW how, Sound(how), NEW q \in Seq(KeyCodes), NEW w \in Seq(KeyCodes), NEW c, NEW d, NEW H,
         Flows(how, q, w, c, d, H)
  PROVE  d \in DriverStates
<1>1. PICK mid, keys : keys \in SUBSET Pressed /\ Stream(q, w, c, d, H, mid, keys)
  BY DEF Flows, Leads
<1>2. mid \in DriverStates
  BY <1>1, KnownIn, ParsersPlace DEF Stream
<1> QED
  BY <1>1, <1>2, DriverPlace DEF Stream

-----------------------------------------------------------------------------
(* Type correctness.                                                       *)
LEMMA SentIn == ASSUME NEW k \in Keys, NEW up \in BOOLEAN PROVE Sent(k, up) \in Seq(KeyCodes)
<1>1. Ready(FALSE, {}, {})
  BY DEF Ready
<1>2. k \in AllKeys /\ (k = "pause" => up \/ {} = {})
  BY KeyboardAssumption
<1> QED
  BY <1>1, <1>2, TypedRun

LEMMA EnqueueIn ==
  ASSUME KeyboardTypeOK, NEW codes \in Seq(KeyCodes), Enqueue(codes)
  PROVE  /\ queue' \in Seq(KeyCodes) /\ Len(queue') <= QueueSize
         /\ ~Overflows(codes) => queue' = queue \o codes
<1> DEFINE all == queue \o codes
           n == IF Len(all) <= QueueSize THEN Len(all) ELSE QueueSize
<1>1. queue \in Seq(KeyCodes) /\ QueueSize \in Nat
  BY KeyboardAssumption DEF KeyboardTypeOK
<1>2. all \in Seq(KeyCodes) /\ Len(all) = Len(queue) + Len(codes)
  BY <1>1
<1>3. queue' = SubSeq(all, 1, n)
  BY DEF Enqueue
<1>4. Overflows(codes) <=> Len(queue) + Len(codes) > QueueSize
  BY DEF Overflows
<1> HIDE DEF all
<1>5. n \in 0 .. Len(all) /\ n <= QueueSize
  BY <1>1, <1>2
<1>6. ~Overflows(codes) => n = Len(all)
  BY <1>1, <1>2, <1>4
<1> HIDE DEF n
<1>7. SubSeq(all, 1, n) \in Seq(KeyCodes) /\ Len(SubSeq(all, 1, n)) = n
  BY <1>2, <1>5
<1>8. SubSeq(all, 1, Len(all)) = all
  BY <1>2
<1> QED
  BY <1>3, <1>5, <1>6, <1>7, <1>8 DEF all

LEMMA EscapeModifierIn ==
  ASSUME KeyboardTypeOK, NEW code
  PROVE  EscapeModifier(code) = ModifierOf(code, extended) /\ EscapeModifier(code) \subseteq Modifiers
<1>1. EscapeModifier(code) = ModifierOf(code, extended)
  BY DEF EscapeModifier, ModifierOf
<1> QED
  BY <1>1, ModifierPlace DEF KeyboardTypeOK

LEMMA TypedTypeOK ==
  ASSUME KeyboardTypeOK, NEW k \in Keys, NEW up \in BOOLEAN, Type(k, up),
         held' \in {held, held \cup {k}, held \ {k}}
  PROVE  KeyboardTypeOK'
<1>1. held' \subseteq Keys
  BY DEF KeyboardTypeOK
<1>2. wire' \in Seq(KeyCodes)
  BY SentIn DEF Type, KeyboardTypeOK
<1>3. disturbed' \in Disturbances
  BY DEF Type, KeyboardTypeOK, Disturbances
<1> QED
  BY <1>1, <1>2, <1>3 DEF Type, KeyboardTypeOK

LEMMA PassTypeOK ==
  ASSUME KeyboardTypeOK, NEW b \in KeyCodes, Pass(b), extended' \in BOOLEAN, modifiers' \subseteq Modifiers
  PROVE  KeyboardTypeOK'
<1>1. Enqueue(<<b>>) /\ <<b>> \in Seq(KeyCodes)
  BY DEF Pass
<1>2. queue' \in Seq(KeyCodes) /\ Len(queue') <= QueueSize
  BY <1>1, EnqueueIn
<1>3. wire' \in Seq(KeyCodes)
  BY DEF Pass, KeyboardTypeOK
<1>4. disturbed' \in Disturbances
  BY DEF Pass, KeyboardTypeOK, Disturbances
<1> QED
  BY <1>2, <1>3, <1>4 DEF Pass, KeyboardTypeOK

LEMMA EscapedTypeOK ==
  ASSUME KeyboardTypeOK, NEW b \in KeyCodes,
         EscapeExtend(b) \/ EscapeModifierKey(b) \/ EscapeToDebugger(b) \/ EscapeOther(b)
  PROVE  KeyboardTypeOK'
<1>1. CASE EscapeExtend(b)
  BY <1>1, PassTypeOK DEF EscapeExtend, KeyboardTypeOK
<1>2. CASE EscapeModifierKey(b)
  <2>1. Pass(b) /\ extended' \in BOOLEAN
    BY <1>2 DEF EscapeModifierKey
  <2>2. modifiers' \subseteq Modifiers
    BY <1>2, EscapeModifierIn DEF EscapeModifierKey, KeyboardTypeOK
  <2> QED
    BY <2>1, <2>2, PassTypeOK
<1>3. CASE EscapeToDebugger(b)
  <2>1. Enqueue(ReleaseAlts) /\ ReleaseAlts \in Seq(KeyCodes)
    <3>1. {} \in SUBSET Pressed
      OBVIOUS
    <3> QED
      BY <1>3, <3>1, RunRelease DEF EscapeToDebugger
  <2>2. queue' \in Seq(KeyCodes) /\ Len(queue') <= QueueSize
    BY <2>1, EnqueueIn
  <2>3. disturbed' \in Disturbances
    BY <1>3 DEF EscapeToDebugger, KeyboardTypeOK, Disturbances
  <2>4. wire' = <<>> /\ held' = {} /\ modifiers' = {} /\ extended' = FALSE
        /\ UNCHANGED <<extendCount, keysDown, enabled>>
    BY <1>3 DEF EscapeToDebugger
  <2>5. wire' \in Seq(KeyCodes)
    BY <2>4
  <2> QED
    BY <2>2, <2>3, <2>4, <2>5 DEF KeyboardTypeOK
<1>4. CASE EscapeOther(b)
  BY <1>4, PassTypeOK DEF EscapeOther, KeyboardTypeOK
<1> QED
  BY <1>1, <1>2, <1>3, <1>4

LEMMA DispatchedTypeOK ==
  ASSUME KeyboardTypeOK, DispatchPrefix \/ DispatchSkip \/ DispatchKey
  PROVE  KeyboardTypeOK'
<1>1. Dequeue
  BY DEF DispatchPrefix, DispatchSkip, DispatchKey
<1>2. queue' \in Seq(KeyCodes) /\ Len(queue') <= QueueSize
  BY <1>1, KeyboardAssumption DEF Dequeue, KeyboardTypeOK
<1>3. extendCount' \in 0 .. 2
  BY DEF DispatchPrefix, DispatchSkip, DispatchKey
<1>4. keysDown' \subseteq DriverKeys
  <2>1. CASE DispatchPrefix \/ DispatchSkip
    BY <2>1 DEF DispatchPrefix, DispatchSkip, KeyboardTypeOK
  <2>2. CASE DispatchKey
    <3> DEFINE keys == Decoded(Head(queue).code, extendCount = 1)
    <3>1. keys \subseteq DriverKeys
      BY DecodedPlace
    <3>2. keysDown' = IF Head(queue).up THEN keysDown \ keys ELSE keysDown \cup keys
      BY <2>2 DEF DispatchKey
    <3> HIDE DEF keys
    <3> QED
      BY <3>1, <3>2 DEF KeyboardTypeOK
  <2> QED
    BY <2>1, <2>2
<1> QED
  BY <1>1, <1>2, <1>3, <1>4 DEF Dequeue, KeyboardTypeOK

LEMMA StepTypeOK ==
  ASSUME KeyboardTypeOK, [KeyboardNext]_keyboardVars
  PROVE  KeyboardTypeOK'
<1>1. ASSUME NEW k \in Keys, Press(k) \/ Release(k) \/ Repeat(k) PROVE KeyboardTypeOK'
  <2>1. CASE Press(k)
    BY <2>1, TypedTypeOK DEF Press
  <2>2. CASE Release(k)
    BY <2>2, TypedTypeOK DEF Release
  <2>3. CASE Repeat(k)
    BY <2>3, TypedTypeOK DEF Repeat
  <2> QED
    BY <1>1, <2>1, <2>2, <2>3
<1>2. ASSUME NEW b \in KeyCodes,
             EscapeExtend(b) \/ EscapeModifierKey(b) \/ EscapeToDebugger(b) \/ EscapeOther(b)
      PROVE  KeyboardTypeOK'
  BY <1>2, EscapedTypeOK
<1>3. CASE DispatchPrefix \/ DispatchSkip \/ DispatchKey
  BY <1>3, DispatchedTypeOK
<1>4. CASE DisableDevice \/ EnableDevice
  BY <1>4 DEF DisableDevice, EnableDevice, KeyboardTypeOK
<1>5. CASE UNCHANGED keyboardVars
  BY <1>5 DEF keyboardVars, KeyboardTypeOK
<1> QED
  BY <1>1, <1>2, <1>3, <1>4, <1>5 DEF KeyboardNext

LEMMA InitTypeOK == ASSUME KeyboardInit PROVE KeyboardTypeOK
<1>1. <<>> \in Seq(KeyCodes) /\ Len(<<>>) <= QueueSize
  BY KeyboardAssumption
<1>2. "none" \in Disturbances
  BY DEF Disturbances
<1>3. 0 \in 0 .. 2
  OBVIOUS
<1> QED
  BY <1>1, <1>2, <1>3 DEF KeyboardInit, KeyboardTypeOK

-----------------------------------------------------------------------------
(* The streams.                                                            *)
Streaming == Flows(disturbed, queue, wire, Parser, Follower, held)

LEMMA InitStreaming == ASSUME KeyboardInit PROVE Streaming
<1>1. Parser = Controller(FALSE, {}) /\ Follower = Driver(0, {})
  BY DEF KeyboardInit, Parser, Follower
<1>2. Known({}) = {} /\ Held({}) = {} /\ Unmixed({})
  BY DEF Known, Held, Unmixed
<1>3. At(Known({}), {}) = <<Controller(FALSE, {}), Driver(0, {})>>
  BY <1>2 DEF At
<1>4. \A f, a : Run(f, a, <<>>, a)
  BY RunNothing
<1>5. Stream(<<>>, <<>>, Parser, Follower, {}, Driver(0, {}), {})
  BY <1>1, <1>3, <1>4 DEF Stream
<1>6. {} \in SUBSET Pressed /\ {} \cap Modifiers = Held({}) \cap Modifiers
  BY <1>2
<1>7. Leads(disturbed, <<>>, <<>>, Parser, Follower, {})
  BY <1>2, <1>5, <1>6 DEF Leads
<1>8. queue = <<>> /\ wire = <<>> /\ held = {}
  BY DEF KeyboardInit
<1> QED
  BY <1>2, <1>7, <1>8 DEF Streaming, Flows

LEMMA TypeStreams ==
  ASSUME KeyboardIInv, NEW k \in Keys, NEW up \in BOOLEAN, Type(k, up),
         held' = Typed(k, up, held), k = "pause" => up \/ held \cap Modifiers = {}
  PROVE  Streaming'
<1>1. Sound(disturbed) /\ wire \in Seq(KeyCodes) /\ Streaming
  BY DEF KeyboardIInv, KeyboardTypeOK, Type, Sound, Streaming
<1>2. Flows(disturbed, queue, wire, Parser, Follower, held)
  BY <1>1 DEF Streaming
<1>3. /\ Apart(k, held) => Flows(disturbed, queue, wire \o Sent(k, up), Parser, Follower, held')
      /\ Flows("other", queue, wire \o Sent(k, up), Parser, Follower, held')
  BY <1>1, <1>2, TypeFlows
<1>4. Parser' = Parser /\ Follower' = Follower /\ queue' = queue
  BY DEF Type, Parser, Follower
<1>5. CASE enabled /\ ~Mixes(k)
  <2>1. Apart(k, held)
    BY <1>5 DEF Apart, Mixes
  <2>2. disturbed' = disturbed /\ wire' = wire \o Sent(k, up)
    BY <1>5 DEF Type
  <2> QED
    BY <1>3, <1>4, <2>1, <2>2 DEF Streaming
<1>6. CASE enabled /\ Mixes(k)
  <2>1. disturbed' = "other" /\ wire' = wire \o Sent(k, up)
    BY <1>6 DEF Type
  <2> QED
    BY <1>3, <1>4, <2>1 DEF Streaming
<1>7. CASE ~enabled
  <2>1. disturbed' = "other" /\ wire' = <<>>
    BY <1>7 DEF Type, KeyboardIInv
  <2> QED
    BY <2>1 DEF Streaming, Flows, Sound
<1> QED
  BY <1>5, <1>6, <1>7

LEMMA PassStreams ==
  ASSUME KeyboardIInv, NEW b \in KeyCodes, Pass(b), Parser' = Escape(Parser, b)
  PROVE  Streaming'
<1>1. queue \in Seq(KeyCodes) /\ wire \in Seq(KeyCodes) /\ wire # <<>> /\ Head(wire) = b
  BY DEF KeyboardIInv, KeyboardTypeOK, Pass
<1>2. Flows(disturbed, queue, wire, Parser, Follower, held)
  BY DEF KeyboardIInv
<1>3. /\ Flows(disturbed, queue \o <<b>>, Tail(wire), Escape(Parser, b), Follower, held)
      /\ \A r : Flows("other", r, Tail(wire), Escape(Parser, b), Follower, held)
  BY <1>1, <1>2, PassFlows
<1>4. wire' = Tail(wire) /\ Follower' = Follower /\ held' = held
  BY DEF Pass, Follower
<1>5. CASE Overflows(<<b>>)
  <2>1. disturbed' = "other"
    BY <1>5 DEF Pass
  <2> QED
    BY <1>3, <1>4, <2>1 DEF Streaming
<1>6. CASE ~Overflows(<<b>>)
  <2>1. disturbed' = disturbed /\ Enqueue(<<b>>)
    BY <1>6 DEF Pass
  <2>2. <<b>> \in Seq(KeyCodes)
    OBVIOUS
  <2>3. queue' = queue \o <<b>>
    BY <1>6, <2>1, <2>2, EnqueueIn DEF KeyboardIInv
  <2> QED
    BY <1>3, <1>4, <2>1, <2>3 DEF Streaming
<1> QED
  BY <1>5, <1>6

LEMMA ParserIs == Parser.extended = extended /\ Parser.modifiers = modifiers
BY DEF Parser, Controller

LEMMA EscapeStreams ==
  ASSUME KeyboardIInv, NEW b \in KeyCodes,
         EscapeExtend(b) \/ EscapeModifierKey(b) \/ EscapeOther(b)
  PROVE  Streaming'
<1>1. CASE EscapeExtend(b)
  <2>1. Parser' = Escape(Parser, b)
    BY <1>1, ParserIs DEF EscapeExtend, Parser, Controller, Escape
  <2> QED
    BY <1>1, <2>1, PassStreams DEF EscapeExtend
<1>2. EscapeModifier(b.code) = ModifierOf(b.code, extended)
  BY EscapeModifierIn DEF KeyboardIInv
<1>3. CASE EscapeModifierKey(b)
  <2>1. Debugging /\ b # Extend /\ extended' = FALSE
        /\ modifiers' = After(b.up, modifiers, ModifierOf(b.code, extended))
    BY <1>2, <1>3 DEF EscapeModifierKey, After
  <2>2. Parser' = Escape(Parser, b)
    BY <2>1, ParserIs DEF Parser, Controller, Escape
  <2> QED
    BY <1>3, <2>2, PassStreams DEF EscapeModifierKey
<1>4. CASE EscapeOther(b)
  <2>1. extended' = FALSE /\ modifiers' = modifiers
    BY <1>4 DEF EscapeOther
  <2>2. Debugging => b # Extend /\ modifiers = After(b.up, modifiers, ModifierOf(b.code, extended))
    <3>1. Debugging => b # Extend /\ ModifierOf(b.code, extended) = {}
      BY <1>2, <1>4 DEF EscapeOther
    <3>2. modifiers \ {} = modifiers /\ modifiers \cup {} = modifiers
      OBVIOUS
    <3> QED
      BY <3>1, <3>2 DEF After
  <2>3. Parser' = Escape(Parser, b)
    BY <2>1, <2>2, ParserIs DEF Parser, Controller, Escape
  <2> QED
    BY <1>4, <2>3, PassStreams DEF EscapeOther
<1> QED
  BY <1>1, <1>3, <1>4

LEMMA DebuggerStreams ==
  ASSUME KeyboardIInv, NEW b \in KeyCodes, EscapeToDebugger(b)
  PROVE  Streaming'
<1>1. /\ wire # <<>> /\ Head(wire) = b /\ b.code = "delete" /\ modifiers = Alts
      /\ held' = {} /\ wire' = <<>> /\ Enqueue(ReleaseAlts)
      /\ modifiers' = {} /\ extended' = FALSE
      /\ disturbed' = IF disturbed = "other" \/ Overflows(ReleaseAlts) THEN "other"
                      ELSE IF extended THEN "gray" ELSE "debugger"
  BY DEF EscapeToDebugger, DebuggerKey, Alts
<1>2. Parser' = Controller(FALSE, {}) /\ Follower' = Follower
  BY <1>1 DEF EscapeToDebugger, Parser, Follower
<1>3. CASE disturbed' # "debugger"
  <2>1. ~Sound(disturbed')
    BY <1>1, <1>3 DEF Sound
  <2> QED
    BY <1>1, <2>1 DEF Streaming, Flows
<1>4. CASE disturbed' = "debugger"
  <2>1. disturbed # "other" /\ ~Overflows(ReleaseAlts) /\ ~extended
    BY <1>1, <1>4
  <2>2. extended = FALSE /\ queue \in Seq(KeyCodes) /\ wire \in Seq(KeyCodes)
    BY <2>1 DEF KeyboardIInv, KeyboardTypeOK
  <2>3. Sound(disturbed)
    BY <1>1, <2>1 DEF Sound, KeyboardIInv, KeyboardTypeOK, Disturbances
  <2>4. Parser = Controller(FALSE, Alts)
    BY <1>1, <2>2 DEF Parser
  <2>5. Flows(disturbed, queue, wire, Controller(FALSE, Alts), Follower, held)
    BY <2>4 DEF KeyboardIInv
  <2>6. Flows("debugger", queue \o ReleaseAlts, <<>>, Controller(FALSE, {}), Follower, {})
    BY <1>1, <2>2, <2>3, <2>5, DebuggerFlows
  <2>7. queue' = queue \o ReleaseAlts
    <3>1. {} \in SUBSET Pressed
      OBVIOUS
    <3>2. ReleaseAlts \in Seq(KeyCodes)
      BY <3>1, RunRelease
    <3> QED
      BY <1>1, <2>1, <3>2, EnqueueIn DEF KeyboardIInv
  <2> QED
    BY <1>1, <1>2, <1>4, <2>6, <2>7 DEF Streaming
<1> QED
  BY <1>3, <1>4

LEMMA DispatchStreams ==
  ASSUME KeyboardIInv, DispatchPrefix \/ DispatchSkip \/ DispatchKey
  PROVE  Streaming'
<1> DEFINE b == Head(queue)
<1>1. Dequeue
  BY DEF DispatchPrefix, DispatchSkip, DispatchKey
<1>2. queue \in Seq(KeyCodes) /\ queue # <<>> /\ queue' = Tail(queue) /\ extendCount \in 0 .. 2
  BY <1>1 DEF Dequeue, KeyboardIInv, KeyboardTypeOK
<1>3. Parser' = Parser /\ wire' = wire /\ held' = held /\ disturbed' = disturbed
  BY <1>1 DEF Dequeue, Parser
<1>4. Follower.count = extendCount /\ Follower.keys = keysDown
  BY DEF Follower, Driver
<1> HIDE DEF b
<1>5. Follower' = Handle(Follower, b)
  <2>1. CASE DispatchPrefix
    <3>1. b \in {Extend, PausePrefix} /\ keysDown' = keysDown
          /\ extendCount' = IF b = Extend THEN 1 ELSE 2
      BY <2>1 DEF DispatchPrefix, b
    <3> QED
      BY <1>4, <3>1 DEF Handle, Follower, Driver
  <2>2. CASE DispatchSkip
    <3>1. b \notin {Extend, PausePrefix} /\ keysDown' = keysDown /\ extendCount = 2 /\ extendCount' = 1
      BY <2>2 DEF DispatchSkip, b
    <3> QED
      BY <1>4, <3>1 DEF Handle, Follower, Driver
  <2>3. CASE DispatchKey
    <3>1. b \notin {Extend, PausePrefix} /\ extendCount < 2 /\ extendCount' = 0
          /\ keysDown' = After(b.up, keysDown, Decoded(b.code, extendCount = 1))
      BY <2>3 DEF DispatchKey, After, b
    <3>2. extendCount = 0 \/ extendCount = 1
      BY <1>2, <3>1
    <3>3. extendCount = 1 => Decoded(b.code, extendCount = 1) = Decoded(b.code, TRUE)
      OBVIOUS
    <3>4. extendCount = 0 => Decoded(b.code, extendCount = 1) = Decoded(b.code, FALSE)
      <4>1. ASSUME extendCount = 0 PROVE (extendCount = 1) = FALSE
        BY <4>1
      <4> QED
        BY <4>1
    <3>5. b # Extend /\ b # PausePrefix /\ extendCount # 2
      BY <3>1, <3>2
    <3> QED
      BY <1>4, <3>1, <3>2, <3>3, <3>4, <3>5 DEF Handle, Follower, Driver
  <2> QED
    BY <2>1, <2>2, <2>3
<1>6. Flows(disturbed, queue, wire, Parser, Follower, held)
  BY DEF KeyboardIInv
<1>7. Flows(disturbed, Tail(queue), wire, Parser, Handle(Follower, b), held)
  BY <1>2, <1>6, DispatchFlows DEF b
<1> QED
  BY <1>2, <1>3, <1>5, <1>7 DEF Streaming

LEMMA InitKeyboard == ASSUME KeyboardInit PROVE KeyboardIInv
<1>1. enabled /\ disturbed # "gray"
  BY DEF KeyboardInit
<1> QED
  BY <1>1, InitTypeOK, InitStreaming DEF KeyboardIInv, Streaming

LEMMA TypedKeyboard ==
  ASSUME KeyboardIInv, NEW k \in Keys, Press(k) \/ Release(k) \/ Repeat(k)
  PROVE  Streaming' /\ (~enabled' => wire' = <<>>) /\ (disturbed' = "gray" => wire' = <<>>)
<1>1. ASSUME NEW up \in BOOLEAN, Type(k, up)
      PROVE  (~enabled' => wire' = <<>>) /\ (disturbed' = "gray" => wire' = <<>>)
  BY <1>1 DEF Type, KeyboardIInv
<1>2. CASE Press(k)
  <2>1. Type(k, FALSE) /\ held' = Typed(k, FALSE, held) /\ (k = "pause" => held \cap Modifiers = {})
    BY <1>2 DEF Press, Typed, After
  <2> QED
    BY <1>1, <2>1, TypeStreams
<1>3. CASE Release(k)
  <2>1. Type(k, TRUE) /\ held' = Typed(k, TRUE, held)
    BY <1>3 DEF Release, Typed, After
  <2> QED
    BY <1>1, <2>1, TypeStreams
<1>4. CASE Repeat(k)
  <2>1. Type(k, FALSE) /\ k \in held /\ held' = held /\ k # "pause"
    BY <1>4 DEF Repeat
  <2>2. held' = Typed(k, FALSE, held)
    BY <2>1 DEF Typed, After
  <2> QED
    BY <1>1, <2>1, <2>2, TypeStreams
<1> QED
  BY <1>2, <1>3, <1>4

LEMMA EscapedKeyboard ==
  ASSUME KeyboardIInv, NEW b \in KeyCodes,
         EscapeExtend(b) \/ EscapeModifierKey(b) \/ EscapeToDebugger(b) \/ EscapeOther(b)
  PROVE  Streaming' /\ (~enabled' => wire' = <<>>) /\ (disturbed' = "gray" => wire' = <<>>)
<1>1. CASE EscapeToDebugger(b)
  <2>1. wire' = <<>>
    BY <1>1 DEF EscapeToDebugger
  <2> QED
    BY <1>1, <2>1, DebuggerStreams
<1>2. CASE EscapeExtend(b) \/ EscapeModifierKey(b) \/ EscapeOther(b)
  <2>1. Pass(b)
    BY <1>2 DEF EscapeExtend, EscapeModifierKey, EscapeOther
  <2>2. enabled' = enabled /\ wire # <<>> /\ disturbed' \in {disturbed, "other"}
    BY <2>1 DEF Pass
  <2>3. enabled' /\ disturbed' # "gray"
    BY <2>2 DEF KeyboardIInv
  <2> QED
    BY <1>2, <2>3, EscapeStreams
<1> QED
  BY <1>1, <1>2

LEMMA StepKeyboard ==
  ASSUME KeyboardIInv, [KeyboardNext]_keyboardVars
  PROVE  KeyboardIInv'
<1>1. KeyboardTypeOK'
  BY StepTypeOK DEF KeyboardIInv
<1>2. Streaming' /\ (~enabled' => wire' = <<>>) /\ (disturbed' = "gray" => wire' = <<>>)
  <2>1. ASSUME NEW k \in Keys, Press(k) \/ Release(k) \/ Repeat(k)
        PROVE  Streaming' /\ (~enabled' => wire' = <<>>) /\ (disturbed' = "gray" => wire' = <<>>)
    BY <2>1, TypedKeyboard
  <2>2. ASSUME NEW b \in KeyCodes,
               EscapeExtend(b) \/ EscapeModifierKey(b) \/ EscapeToDebugger(b) \/ EscapeOther(b)
        PROVE  Streaming' /\ (~enabled' => wire' = <<>>) /\ (disturbed' = "gray" => wire' = <<>>)
    BY <2>2, EscapedKeyboard
  <2>3. CASE DispatchPrefix \/ DispatchSkip \/ DispatchKey
    <3>1. UNCHANGED <<wire, enabled, disturbed>>
      BY <2>3 DEF DispatchPrefix, DispatchSkip, DispatchKey, Dequeue
    <3> QED
      BY <2>3, <3>1, DispatchStreams DEF KeyboardIInv
  <2>4. CASE DisableDevice \/ EnableDevice
    <3>1. wire = <<>> \/ enabled'
      BY <2>4 DEF DisableDevice, EnableDevice
    <3>2. UNCHANGED <<held, wire, extended, modifiers, queue, extendCount, keysDown, disturbed>>
      BY <2>4 DEF DisableDevice, EnableDevice
    <3> QED
      BY <3>1, <3>2 DEF KeyboardIInv, Streaming, Parser, Follower
  <2>5. CASE UNCHANGED keyboardVars
    BY <2>5 DEF keyboardVars, KeyboardIInv, Streaming, Parser, Follower
  <2> QED
    BY <2>1, <2>2, <2>3, <2>4, <2>5 DEF KeyboardNext
<1> QED
  BY <1>1, <1>2 DEF KeyboardIInv, Streaming

LEMMA KeyboardInvariant == KeyboardSpec => []KeyboardIInv
BY InitKeyboard, StepKeyboard, PTL DEF KeyboardSpec

(* Both parsers keep to their states and the queue to its capacity: what   *)
(* doEscape lets pass, also the three codes it makes up for the debugger,  *)
(* never goes beyond kKeyboardQueueSize.                                   *)
THEOREM KeyboardTypeCorrect == KeyboardSpec => []KeyboardTypeOK
<1>1. KeyboardIInv => KeyboardTypeOK
  BY DEF KeyboardIInv
<1> QED
  BY <1>1, KeyboardInvariant, PTL

(* The driver follows the user: whatever keys are typed, in whatever order *)
(* and however far the work loop is behind, dispatchKeyboardEventWith-     *)
(* Scancode never takes a code of a longer sequence for another key, and   *)
(* holds what the user holds when everything has been handled.             *)
THEOREM DriverFollowsUser == KeyboardSpec => []KeysFollowUser
<1>1. ASSUME KeyboardIInv PROVE KeysFollowUser
  <2> SUFFICES ASSUME disturbed = "none"
               PROVE  /\ keysDown \subseteq Keys \cup ScreenshotKeys
                      /\ Quiet => keysDown = Held(held)
    BY DEF KeysFollowUser, Held
  <2>1. /\ Sound(disturbed) /\ Flows(disturbed, queue, wire, Parser, Follower, held)
        /\ queue \in Seq(KeyCodes) /\ wire \in Seq(KeyCodes)
    BY <1>1 DEF KeyboardIInv, KeyboardTypeOK, Sound
  <2>2. \A keys : Driver(extendCount, keysDown) = Driver(0, keys) => keysDown = keys
    BY DEF Driver
  <2>3. Follower \in DriverStates
    BY <2>1, FlowsIn
  <2>4. keysDown \subseteq Pressed
    BY <2>3 DEF Follower, Driver, DriverStates
  <2>5. ASSUME Quiet PROVE keysDown = Held(held)
    <3>1. queue = <<>> /\ wire = <<>>
      BY <2>5 DEF Quiet
    <3>2. PICK keys : Follower = Driver(0, keys) /\ keys = Held(held)
      <4>1. Settled(disturbed, Parser, Follower, held)
        BY <2>1, <3>1, FlowsOut
      <4> QED
        BY <4>1 DEF Settled
    <3> QED
      BY <2>2, <3>2 DEF Follower
  <2> QED
    BY <2>4, <2>5 DEF Pressed
<1> QED
  BY <1>1, KeyboardInvariant, PTL

(* The controller's _modifierState, the driver's _keyBitVector and the     *)
(* user agree on the modifier keys, also after the debugger.               *)
THEOREM ParsersAgree == KeyboardSpec => []ModifiersAgree
<1>1. ASSUME KeyboardIInv PROVE ModifiersAgree
  <2> SUFFICES ASSUME Debugging, Quiet, disturbed \in {"none", "debugger"}, "print screen" \notin held
               PROVE  modifiers = held \cap Modifiers /\ keysDown \cap Modifiers = modifiers
    BY DEF ModifiersAgree
  <2>1. /\ Sound(disturbed) /\ Flows(disturbed, queue, wire, Parser, Follower, held)
        /\ queue = <<>> /\ wire = <<>>
    BY <1>1 DEF KeyboardIInv, Sound, Quiet
  <2>2. PICK keys : /\ Parser = Controller(FALSE, Known(held)) /\ Follower = Driver(0, keys)
                    /\ keys \cap Modifiers = Held(held) \cap Modifiers
    <3>1. Settled(disturbed, Parser, Follower, held)
      BY <2>1, FlowsOut
    <3> QED
      BY <3>1 DEF Settled
  <2>3. modifiers = Known(held)
    BY <2>2 DEF Parser, Controller
  <2>4. keysDown = keys
    BY <2>2 DEF Follower, Driver
  <2>5. "print screen" \notin Modifiers /\ "pause" \notin Modifiers
    BY DEF Modifiers
  <2>6. Held(held) \cap Modifiers = held \cap Modifiers
    BY <2>5 DEF Held
  <2> QED
    BY <2>2, <2>3, <2>4, <2>6 DEF Known
<1> QED
  BY <1>1, KeyboardInvariant, PTL

(* doEscape calls the debugger only when it is meant, whatever has come in *)
(* the way of the stream before: modifiers that it has seen and the user   *)
(* no longer holds never make a delete code call it.                       *)
THEOREM DebuggerOnPurpose == KeyboardSpec => DebuggerMeant
<1>1. ASSUME KeyboardIInv, Len(wire) = 1, NEW b \in KeyCodes, EscapeToDebugger(b)
      PROVE  held \cap Modifiers = {"left alt", "right alt"}
  <2>1. wire \in Seq(KeyCodes) /\ wire # <<>> /\ Head(wire) = b /\ Tail(wire) = <<>>
    <3>1. wire \in Seq(KeyCodes)
      BY <1>1 DEF KeyboardIInv, KeyboardTypeOK
    <3>2. Tail(wire) \in Seq(KeyCodes) /\ Len(Tail(wire)) = 0
      BY <1>1, <3>1
    <3>3. Tail(wire) = <<>>
      BY <3>2, EmptySequence
    <3> QED
      BY <1>1, <3>1, <3>3 DEF EscapeToDebugger
  <2>2. Debugging /\ b.code = "delete" /\ modifiers = Alts
    BY <1>1 DEF EscapeToDebugger, DebuggerKey, Alts
  <2>3. Flows(disturbed, queue, wire, Parser, Follower, held)
    BY <1>1 DEF KeyboardIInv
  <2>4. Heard(wire, Parser, held)
    <3>1. CASE Sound(disturbed)
      <4>1. PICK mid, keys : Stream(queue, wire, Parser, Follower, held, mid, keys)
        BY <2>3, <3>1 DEF Flows, Leads
      <4>2. Run(ParserStep(FALSE), <<Parser, mid>>, wire, At(Known(held), keys))
        BY <4>1, RunUnordered DEF Stream
      <4> QED
        BY <4>2 DEF Heard
    <3>2. CASE ~Sound(disturbed)
      BY <2>1, <2>3, <3>2 DEF Flows
    <3> QED
      BY <3>1, <3>2
  <2>5. PICK mid, keys : Run(ParserStep(FALSE), <<Parser, mid>>, wire, At(Known(held), keys))
    BY <2>4 DEF Heard
  <2>6. Run(ParserStep(FALSE), <<Escape(Parser, b), Handle(mid, b)>>, <<>>, At(Known(held), keys))
    BY <2>1, <2>5, ParsersBegin
  <2>7. Escape(Parser, b) = Controller(FALSE, Known(held))
    <3> DEFINE a == <<Escape(Parser, b), Handle(mid, b)>>
               z == At(Known(held), keys)
    <3>1. a = z
      <4>1. Run(ParserStep(FALSE), a, <<>>, z)
        BY <2>6
      <4> HIDE DEF a, z
      <4> QED
        BY <4>1, RunNothing
    <3> QED
      BY <3>1 DEF At
  <2>8. b # Extend
    BY <2>2 DEF Extend, Make
  <2>9. ModifierOf(b.code, extended) = {}
    BY <2>2 DEF ModifierOf
  <2>10. Escape(Parser, b) = Controller(FALSE, After(b.up, Alts, {}))
    BY <2>2, <2>8, <2>9, ParserIs DEF Escape
  <2>11. Known(held) = Alts
    <3>1. After(b.up, Alts, {}) = Alts
      BY DEF After
    <3> QED
      BY <2>7, <2>10, <3>1 DEF Controller
  <2> QED
    BY <2>2, <2>11 DEF Known, Alts
<1>2. ASSUME KeyboardIInv
      PROVE  Len(wire) = 1 /\ (\E b \in KeyCodes : EscapeToDebugger(b))
               => held \cap Modifiers = {"left alt", "right alt"}
  BY <1>1, <1>2
<1> QED
  BY <1>2, KeyboardInvariant, PTL DEF DebuggerMeant
================================================================================
