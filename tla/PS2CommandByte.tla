---------------------------- MODULE PS2CommandByte ----------------------------
(***************************************************************************)
(* setCommandByte of the keyboard, mouse and touchpad drivers: one request *)
(* reads the command byte of the 8042, a second one reads it again and, if *)
(* it is unchanged, writes the new value; the pair is repeated until the   *)
(* second request succeeds.  The 8042 sends the command byte on the        *)
(* keyboard stream, where the scan codes of an enabled keyboard travel too.*)
(*                                                                         *)
(* A request is executed in the gate, one at a time (PS2RequestQueue       *)
(* without blocking interrupt routines).  The keyboard stream is the       *)
(* keyboard queue followed by the byte in the port (PS2DataPort).          *)
(***************************************************************************)
EXTENDS Integers, Sequences

CONSTANTS
  Drivers, Bits, Update, NoUpdate, Initial, (* see PS2CommandRegister       *)
  NoDriver,   (* nobody holds the gate                                      *)
  ClockOff,   (* kCB_DisableKeyboardClock                                   *)
  ScanCodes,  (* the scan codes of the keys that are pressed, as bytes      *)
  MaxScans,   (* bound on the scan codes sent                               *)
  MaxCalls    (* bound on the calls of setCommandByte                       *)

Bytes == SUBSET Bits

ASSUME ConstantsAssumption ==
  /\ NoDriver \notin Drivers
  /\ NoUpdate \notin Update
  /\ Update \subseteq [set : Bytes, clear : Bytes]
  /\ Initial \subseteq Bytes
  /\ ClockOff \in Bits
  /\ ScanCodes \subseteq Bytes
  /\ MaxScans \in Nat /\ MaxCalls \in Nat

VARIABLES
  commandByte, (* the register in the 8042                                  *)
  update,      (* the call each driver is in                                *)
  pc,          (* where each driver is in setCommandByte                    *)
  old,         (* what each driver read: commandByte in the code            *)
  gate,        (* the driver whose request is being executed, or NoDriver   *)
  stream,      (* bytes of the keyboard stream not read yet                 *)
  firstByte,   (* the byte the second read has put aside, if any            *)
  scans,       (* scan codes sent so far                                    *)
  calls,       (* calls made so far                                         *)
  ahead        (* history: bytes of the stream ahead of the answer to the   *)
               (* request in the gate; -1 when the answer has just been read *)

vars == <<commandByte, update, pc, old, gate, stream, firstByte, scans, calls, ahead>>

TypeOK ==
  /\ commandByte \in Bytes
  /\ update \in [Drivers -> Update \cup {NoUpdate}]
  /\ pc \in [Drivers -> {"idle", "read", "reading", "test", "testing", "write"}]
  /\ old \in [Drivers -> Bytes]
  /\ gate \in Drivers \cup {NoDriver}
  /\ stream \in Seq(Bytes)
  /\ firstByte \in Seq(Bytes) /\ Len(firstByte) <= 1
  /\ scans \in 0..MaxScans
  /\ calls \in 0..MaxCalls
  /\ ahead \in Int

Register == INSTANCE PS2CommandRegister

Init ==
  /\ Register!RegisterInit
  /\ pc = [d \in Drivers |-> "idle"]
  /\ old = [d \in Drivers |-> {}]
  /\ gate = NoDriver
  /\ stream = <<>>
  /\ firstByte = <<>>
  /\ scans = 0
  /\ calls = 0
  /\ ahead = 0

Goto(d, where) == pc' = [pc EXCEPT ![d] = where]

-----------------------------------------------------------------------------
(* A byte of the stream is read, and what the history notes of it.         *)
ReadByte ==
  /\ stream # <<>>
  /\ stream' = Tail(stream)
  /\ ahead' = ahead - 1

(* kCP_GetCommandByte: the register is sent behind what is in the stream.  *)
GetCommandByte(d) ==
  /\ gate = NoDriver
  /\ gate' = d
  /\ stream' = Append(stream, commandByte)
  /\ ahead' = Len(stream)

-----------------------------------------------------------------------------
(* Faulty versions of definitions below: slips the code could have made.   *)

(* The first read is trusted: the register is written without a test.      *)
ReadReplyTrusted(d) ==
  /\ pc[d] = "reading"
  /\ ReadByte
  /\ old' = [old EXCEPT ![d] = Head(stream)]
  /\ gate' = NoDriver
  /\ Goto(d, "write")
  /\ UNCHANGED <<commandByte, update, firstByte, scans, calls>>

(* After a failed test only the test is repeated.                          *)
FailTestRetriesTest(d) ==
  /\ Goto(d, "test")
  /\ gate' = NoDriver
  /\ firstByte' = <<>>

-----------------------------------------------------------------------------
(* A driver calls setCommandByte.                                          *)
CallUpdate(d) ==
  /\ calls < MaxCalls
  /\ Register!Call(d)
  /\ calls' = calls + 1
  /\ Goto(d, "read")
  /\ UNCHANGED <<old, gate, stream, firstByte, scans, ahead>>

(* First request: kCP_GetCommandByte, then ReadDataPort takes whatever the *)
(* keyboard stream has first.                                              *)
BeginRead(d) ==
  /\ pc[d] = "read"
  /\ GetCommandByte(d)
  /\ Goto(d, "reading")
  /\ UNCHANGED <<commandByte, update, old, firstByte, scans, calls>>

ReadReply(d) ==
  /\ pc[d] = "reading"
  /\ ReadByte
  /\ old' = [old EXCEPT ![d] = Head(stream)]
  /\ gate' = NoDriver
  /\ Goto(d, "test")
  /\ UNCHANGED <<commandByte, update, firstByte, scans, calls>>

(* Second request: kCP_GetCommandByte, then ReadDataPortAndCompare.        *)
BeginTest(d) ==
  /\ pc[d] = "test"
  /\ GetCommandByte(d)
  /\ Goto(d, "testing")
  /\ UNCHANGED <<commandByte, update, old, firstByte, scans, calls>>

(* commandsCount is 2: the loop begins again.                              *)
FailTest(d) ==
  /\ Goto(d, "read")
  /\ gate' = NoDriver
  /\ firstByte' = <<>>

(* The expected byte, perhaps behind one that was put aside.               *)
TestEqual(d) ==
  /\ pc[d] = "testing"
  /\ ReadByte /\ Head(stream) = old[d]
  /\ firstByte' = <<>>
  /\ Goto(d, "write")
  /\ UNCHANGED <<commandByte, update, old, gate, scans, calls>>

(* Another byte: put aside if it is the first.                             *)
TestPutAside(d) ==
  /\ pc[d] = "testing"
  /\ ReadByte /\ Head(stream) # old[d]
  /\ firstByte = <<>>
  /\ firstByte' = <<Head(stream)>>
  /\ UNCHANGED <<commandByte, update, pc, old, gate, scans, calls>>

TestDifferent(d) ==
  /\ pc[d] = "testing"
  /\ ReadByte /\ Head(stream) # old[d]
  /\ firstByte # <<>>
  /\ FailTest(d)
  /\ UNCHANGED <<commandByte, update, old, scans, calls>>

(* Nothing follows the byte put aside within 70 ms: it is what the read    *)
(* gives, and it is not the byte expected.  The 8042 itself always answers *)
(* here: the read that finds no byte at all and gives 0 is left out.       *)
TestTimeout(d) ==
  /\ pc[d] = "testing"
  /\ stream = <<>>
  /\ FailTest(d)
  /\ UNCHANGED <<commandByte, update, old, stream, scans, calls, ahead>>

(* kCP_SetCommandByte and the new value; the loop ends.                    *)
Write(d) ==
  /\ pc[d] = "write"
  /\ commandByte' = Register!Apply(old[d], update[d])
  /\ update' = [update EXCEPT ![d] = NoUpdate]
  /\ gate' = NoDriver
  /\ Goto(d, "idle")
  /\ UNCHANGED <<old, stream, firstByte, scans, calls, ahead>>

-----------------------------------------------------------------------------
(* A key is pressed or repeats on a keyboard whose clock is on.            *)
Scan(b) ==
  /\ ClockOff \notin commandByte
  /\ scans < MaxScans
  /\ scans' = scans + 1
  /\ stream' = Append(stream, b)
  /\ UNCHANGED <<commandByte, update, pc, old, gate, firstByte, calls, ahead>>

(* interruptOccurred gives what is queued to the keyboard driver.          *)
Dispatch ==
  /\ gate = NoDriver
  /\ stream # <<>>
  /\ stream' = Tail(stream)
  /\ UNCHANGED <<commandByte, update, pc, old, gate, firstByte, scans, calls, ahead>>

Next ==
  \/ \E d \in Drivers :
       \/ CallUpdate(d)
       \/ BeginRead(d) \/ ReadReply(d)
       \/ BeginTest(d) \/ TestEqual(d) \/ TestPutAside(d) \/ TestDifferent(d)
       \/ TestTimeout(d)
       \/ Write(d)
  \/ \E b \in ScanCodes : Scan(b)
  \/ Dispatch

Spec == Init /\ [][Next]_vars

(* The gate is handed on (strong fairness of the two requests: it is often  *)
(* taken by someone else), and what is in the gate runs on.                 *)
Fairness ==
  \A d \in Drivers :
    /\ SF_vars(BeginRead(d)) /\ SF_vars(BeginTest(d))
    /\ WF_vars(ReadReply(d)) /\ WF_vars(TestEqual(d)) /\ WF_vars(TestPutAside(d))
    /\ WF_vars(TestDifferent(d)) /\ WF_vars(TestTimeout(d)) /\ WF_vars(Write(d))

FairSpec == Spec /\ Fairness

-----------------------------------------------------------------------------
(* setCommandByte "sets the bits setBits and clears the bits clearBits      *)
(* 'atomically' in the controller's Command Byte": each change of the       *)
(* register is that of the atomic register, whatever the other drivers do   *)
(* and however many scan codes come, unless the test that allowed it was    *)
(* passed by a byte that is not its answer.                                 *)
Mistaken == gate # NoDriver /\ ahead # -1
UpdatesAtomically ==
  [][Register!RegisterNext \/ Mistaken]_<<commandByte, update>>

(* Without that exception it implements the atomic register; scan codes     *)
(* that look like command bytes, or push an answer out of place, refute it. *)
ImplementsRegister == Register!RegisterSpec

(* Every call ends: a driver's test fails only because another driver's     *)
(* call succeeded or because of stray bytes.                                *)
UpdateEnds == \A d \in Drivers : update[d] # NoUpdate ~> update[d] = NoUpdate
=============================================================================
