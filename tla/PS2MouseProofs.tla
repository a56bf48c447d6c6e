--------------------------- MODULE PS2MouseProofs ---------------------------
(***************************************************************************)
(* The packet buffer of ApplePS2Mouse, and that a mouse plugged in is      *)
(* enabled, for any limits on resets, lost bytes, plugged mice and sleeps, *)
(* and however deep resets are nested.                                     *)
(***************************************************************************)
EXTENDS PS2Mouse, SequenceTheorems, TLAPS

Mice == [wheel : BOOLEAN, wide : BOOLEAN, reporting : BOOLEAN, sent : 0 .. 3]

(* The buffer is not full and what is in it and in transit are bytes.      *)
Buffered ==
  /\ buffer \in Seq(Byte)
  /\ packetLength \in {Standard, Intellimouse}
  /\ Len(buffer) < packetLength
Fits == mouse \in Mice /\ wire \in Seq(Byte) /\ Buffered

LEMMA MembershipIsBoolean == ASSUME NEW x, NEW S PROVE (x \in S) \in BOOLEAN
  OBVIOUS

LEMMA ZeroIsPlace == 0 \in 0 .. 4
  OBVIOUS

LEMMA ByteFrom ==
  ASSUME NEW k \in {"data", "ack", "aa", "zero", "wheel id"}, NEW p \in 0 .. 4, NEW s \in BOOLEAN
  PROVE  [kind |-> k, place |-> p, sync |-> s] \in Byte
  BY DEF Byte

LEMMA OtherIsByte ==
  ASSUME NEW kind \in {"ack", "aa", "zero", "wheel id"}
  PROVE  Other(kind) \in Byte
<1>1. kind \in {"data", "ack", "aa", "zero", "wheel id"}
  OBVIOUS
<1>2. (kind \in {"ack", "aa"}) \in BOOLEAN
  BY MembershipIsBoolean
<1>3. QED BY <1>1, <1>2, ByteFrom, ZeroIsPlace DEF Other

(* A mouse just plugged in is a mouse.                                     *)
LEMMA FreshMouse ==
  ASSUME NEW m \in [wheel : BOOLEAN, wide : {FALSE}, reporting : {FALSE}, sent : {0}]
  PROVE  m \in Mice
<1>1. {FALSE} \subseteq BOOLEAN /\ {0} \subseteq 0 .. 3
  OBVIOUS
<1>2. m = [wheel |-> m.wheel, wide |-> m.wide, reporting |-> m.reporting, sent |-> m.sent]
  OBVIOUS
<1>3. m.wheel \in BOOLEAN /\ m.wide \in {FALSE} /\ m.reporting \in {FALSE} /\ m.sent \in {0}
  OBVIOUS
<1>4. m.wide \in BOOLEAN /\ m.reporting \in BOOLEAN /\ m.sent \in 0 .. 3
  BY <1>1, <1>3
<1>5. QED BY <1>2, <1>3, <1>4 DEF Mice

LEMMA ShortSequences ==
  ASSUME NEW a \in Byte, NEW b \in Byte
  PROVE  /\ <<a>> \in Seq(Byte) /\ Len(<<a>>) = 1 /\ <<a>>[1] = a
         /\ <<a, b>> \in Seq(Byte) /\ Len(<<a, b>>) = 2 /\ <<a, b>>[1] = a
  OBVIOUS

(* interruptOccurred leaves room in the buffer, with or without a routine  *)
(* installed.                                                              *)
LEMMA DispatchFits ==
  ASSUME Buffered, NEW b \in Byte, NEW now, Dispatch(b, now)
  PROVE  Buffered'
<1>1. CASE ~installed
  BY <1>1 DEF Dispatch, Buffered
<1>2. CASE installed /\ Unexpected(b)
  BY <1>2 DEF Dispatch, InterruptOccurred, Buffered
<1>3. CASE installed /\ ~Unexpected(b)
  <2> DEFINE bytes == Append(buffer, b)
  <2>1. bytes \in Seq(Byte) /\ Len(bytes) = Len(buffer) + 1
    BY AppendProperties DEF Buffered
  <2>2. UNCHANGED packetLength
    BY <1>3 DEF Dispatch
  <2>3. CASE Len(bytes) = packetLength
    <3>1. buffer' = <<>>
      BY <1>3, <2>3 DEF Dispatch, InterruptOccurred
    <3>2. QED BY <2>2, <3>1 DEF Buffered, Standard, Intellimouse
  <2>4. CASE Len(bytes) # packetLength
    <3>1. buffer' = bytes
      BY <1>3, <2>4 DEF Dispatch, InterruptOccurred
    <3> HIDE DEF bytes
    <3>2. Len(bytes) < packetLength
      BY <2>1, <2>4 DEF Buffered, Standard, Intellimouse
    <3>3. QED BY <2>1, <2>2, <3>1, <3>2 DEF Buffered
  <2>5. QED BY <2>3, <2>4
<1>4. QED BY <1>1, <1>2, <1>3

LEMMA NoDispatchFits == ASSUME Buffered, NEW now, NoDispatch(now) PROVE Buffered'
  BY DEF NoDispatch, Buffered

(* readDataPort answers a command out of what is in transit: if the first   *)
(* byte is not the acknowledge there is another one.                        *)
LEMMA AnswerFollows ==
  ASSUME wire \in Seq(Byte), NEW command
  PROVE  /\ Answer(command) \in Seq(Byte) /\ Len(Answer(command)) \in 1 .. 2
         /\ Answer(command)[1] = Ack
<1>1. Ack \in Byte /\ Other("zero") \in Byte /\ Other("wheel id") \in Byte
  BY OtherIsByte DEF Ack
<1>2. CASE command \in {"id", "explorer id"}
  <2>1. \/ Answer(command) = <<Ack, Other("wheel id")>>
        \/ Answer(command) = <<Ack, Other("zero")>>
    BY <1>2 DEF Answer
  <2>2. PICK z \in Byte : Answer(command) = <<Ack, z>>
    BY <1>1, <2>1
  <2>3. /\ Answer(command) \in Seq(Byte) /\ Len(Answer(command)) = 2
        /\ Answer(command)[1] = Ack
    <3>1. /\ <<Ack, z>> \in Seq(Byte) /\ Len(<<Ack, z>>) = 2 /\ <<Ack, z>>[1] = Ack
      BY <1>1, ShortSequences
    <3> QED
      BY <2>2, <3>1
  <2>4. QED BY <2>3
<1>3. CASE command \notin {"id", "explorer id"}
  <2>1. Answer(command) = <<Ack>>
    BY <1>3 DEF Answer
  <2>2. /\ Answer(command) \in Seq(Byte) /\ Len(Answer(command)) = 1
        /\ Answer(command)[1] = Ack
    BY <1>1, <2>1, ShortSequences
  <2>3. QED BY <2>2
<1>4. QED BY <1>2, <1>3

LEMMA ElementOf == ASSUME NEW s \in Seq(Byte), NEW i \in 1 .. Len(s) PROVE s[i] \in Byte
  OBVIOUS

LEMMA TransitFacts ==
  ASSUME wire \in Seq(Byte), NEW command, NEW all, all = wire \o Answer(command)
  PROVE  /\ all \in Seq(Byte) /\ all # <<>> /\ all[1] = Head(all)
         /\ Tail(all) \in Seq(Byte) /\ SubSeq(all, 3, Len(all)) \in Seq(Byte)
         /\ Head(all) # Ack => all[1] \in Byte /\ all[2] \in Byte
<1>1. /\ Answer(command) \in Seq(Byte) /\ Len(Answer(command)) \in 1 .. 2
      /\ Answer(command)[1] = Ack
  BY AnswerFollows
<1>2. /\ all \in Seq(Byte) /\ Len(all) = Len(wire) + Len(Answer(command))
      /\ \A i \in 1 .. Len(wire) + Len(Answer(command)) :
           all[i] = IF i <= Len(wire) THEN wire[i] ELSE Answer(command)[i - Len(wire)]
  BY <1>1, ConcatProperties
<1>3. Len(wire) \in Nat /\ Len(all) \in Nat /\ Len(all) >= 1
  BY <1>1, <1>2
<1>4. all # <<>> /\ all[1] = Head(all)
  BY <1>2, <1>3
<1>5. \A i \in 3 .. Len(all) : all[i] \in Byte
  BY <1>2, <1>3
<1>6. SubSeq(all, 3, Len(all)) \in Seq(Byte)
  BY <1>3, <1>5, SubSeqProperties
<1>7. ASSUME Head(all) # Ack PROVE all[1] \in Byte /\ all[2] \in Byte
  <2>1. Len(wire) # 0
    BY <1>1, <1>2, <1>4, <1>7
  <2>2. Len(all) >= 2
    BY <1>1, <1>2, <1>3, <2>1
  <2>3. 1 \in 1 .. Len(all) /\ 2 \in 1 .. Len(all)
    BY <1>3, <2>2
  <2>4. all \in Seq(Byte)
    BY <1>2
  <2>5. all[1] \in Byte
    BY <2>3, <2>4, ElementOf
  <2>6. all[2] \in Byte
    BY <2>3, <2>4, ElementOf
  <2>7. QED BY <2>5, <2>6
<1>8. Tail(all) \in Seq(Byte)
  BY <1>2, <1>4, HeadTailProperties
<1>9. QED BY <1>2, <1>4, <1>6, <1>7, <1>8

LEMMA CommandedIsMouse ==
  ASSUME mouse \in Mice, NEW command, NEW a \in BOOLEAN, mouse' \in Commanded(command, a)
  PROVE  mouse' \in Mice
<1>1. PICK w \in Widths(command, a) :
        mouse' = [mouse EXCEPT !.sent = 0, !.wide = w,
                    !.reporting = command \notin Disabling /\ (@ \/ command = "enable")]
  BY DEF Commanded
<1>2. w \in BOOLEAN
  <2>1. mouse.wide \in BOOLEAN
    BY DEF Mice
  <2>2. CASE command \in Disabling
    BY <1>1, <2>1, <2>2 DEF Widths
  <2>3. CASE command \notin Disabling
    BY <1>1, <2>3 DEF Widths
  <2>4. QED BY <2>2, <2>3
<1>3. ASSUME NEW v \in BOOLEAN
      PROVE  [mouse EXCEPT !.sent = 0, !.wide = w, !.reporting = v] \in Mice
  <2>1. 0 \in 0 .. 3
    OBVIOUS
  <2>2. QED BY <1>2, <2>1, Zenon DEF Mice
<1>4. (command \notin Disabling /\ (mouse.reporting \/ command = "enable")) \in BOOLEAN
  OBVIOUS
<1>5. QED BY <1>1, <1>3, <1>4

LEMMA SentBytes ==
  ASSUME mouse \in Mice, NEW sync \in BOOLEAN
  PROVE  NextByte(sync) \in Byte /\ Advance \in Mice
<1>1. mouse.sent + 1 \in 0 .. 4 /\ Width(mouse) \in {3, 4}
  BY DEF Mice, Width, Standard, Intellimouse
<1>2. (mouse.sent + 1) % Width(mouse) \in 0 .. 3
  BY <1>1
<1>3. NextByte(sync) \in Byte
  BY <1>1 DEF NextByte, Byte
<1>4. QED BY <1>2, <1>3 DEF Advance, Mice

-----------------------------------------------------------------------------
LEMMA FitsInit == Init => Fits
<1> SUFFICES ASSUME Init PROVE Fits
  OBVIOUS
<1>1. mouse \in Mice
  BY FreshMouse DEF Init
<1>2. wire \in Seq(Byte) /\ Buffered
  BY DEF Init, Buffered, Standard, Intellimouse
<1>3. QED BY <1>1, <1>2 DEF Fits

LEMMA CommandFits == ASSUME Fits, Command PROVE Fits'
<1> DEFINE r == Head(resets)
           all == wire \o Answer(r.at)
           first == Head(all) = Ack
           second == Len(all) > 1 /\ all[2] = Ack
<1>1. /\ mouse' \in Commanded(r.at, first \/ second)
      /\ \/ first /\ wire' = Tail(all) /\ NoDispatch(Continue(r, TRUE))
         \/ /\ ~first /\ wire' = SubSeq(all, 3, Len(all))
            /\ Dispatch(IF second THEN all[1] ELSE all[2], Continue(r, second))
  BY DEF Command
<1>2. wire \in Seq(Byte) /\ Buffered /\ mouse \in Mice
  BY DEF Fits
<1>3. /\ Tail(all) \in Seq(Byte) /\ SubSeq(all, 3, Len(all)) \in Seq(Byte)
      /\ ~first => all[1] \in Byte /\ all[2] \in Byte
  BY <1>2, TransitFacts
<1>4. mouse' \in Mice
  BY <1>1, <1>2, CommandedIsMouse
<1> HIDE DEF all, second
<1>5. CASE first
  BY <1>1, <1>2, <1>3, <1>4, <1>5, NoDispatchFits DEF Fits
<1>6. CASE ~first
  <2>1. PICK b \in Byte : Dispatch(b, Continue(r, second))
    BY <1>1, <1>3, <1>6
  <2>2. Buffered'
    BY <1>2, <2>1, DispatchFits
  <2>3. QED BY <1>1, <1>3, <1>4, <1>6, <2>2 DEF Fits
<1>7. QED BY <1>5, <1>6

LEMMA FitsStep == ASSUME Fits, [Next]_vars PROVE Fits'
<1>1. CASE Interrupt
  <2>1. Head(wire) \in Byte /\ Tail(wire) \in Seq(Byte)
    BY <1>1, HeadTailProperties DEF Interrupt, Fits
  <2>2. QED BY <1>1, <2>1, DispatchFits DEF Interrupt, Fits
<1>2. CASE Command
  BY <1>2, CommandFits
<1>3. CASE IdByte
  <2>1. wire' \in Seq(Byte) /\ mouse' = mouse
    BY <1>3, HeadTailProperties DEF IdByte, Fits
  <2>2. \/ UNCHANGED <<packetLength, buffer>>
        \/ \E wheel \in BOOLEAN : SetPacketLength(wheel)
    BY <1>3 DEF IdByte
  <2>3. Buffered'
    <3>1. CASE UNCHANGED <<packetLength, buffer>>
      BY <3>1 DEF Buffered, Fits
    <3>2. ASSUME NEW wheel \in BOOLEAN, SetPacketLength(wheel) PROVE Buffered'
      BY <3>2 DEF SetPacketLength, Buffered, Standard, Intellimouse
    <3>3. QED BY <2>2, <3>1, <3>2
  <2>4. QED BY <2>1, <2>3 DEF Fits
<1>4. CASE CommandByte
  BY <1>4, NoDispatchFits DEF CommandByte, Fits
<1>5. CASE CommandByteMeetsData
  <2>1. Head(wire) \in Byte /\ Tail(wire) \in Seq(Byte)
    BY <1>5, HeadTailProperties DEF CommandByteMeetsData, Fits
  <2>2. QED BY <1>5, <2>1, DispatchFits DEF CommandByteMeetsData, Fits
<1>6. CASE InstallInterruptAction \/ DisableDevice \/ EnableDevice \/ UNCHANGED vars
  BY <1>6 DEF InstallInterruptAction, DisableDevice, EnableDevice, vars, driverVars, Fits, Buffered
<1>7. CASE SendByte
  <2>1. PICK sync \in BOOLEAN : wire' = Append(wire, NextByte(sync))
    BY <1>7 DEF SendByte
  <2>2. wire' \in Seq(Byte) /\ mouse' \in Mice
    BY <1>7, <2>1, SentBytes, AppendProperties DEF SendByte, Fits
  <2>3. QED BY <1>7, <2>2 DEF SendByte, driverVars, Fits, Buffered
<1>8. CASE LoseByte
  <2>1. mouse' \in Mice
    BY <1>8, SentBytes DEF LoseByte, Fits
  <2>2. QED BY <1>8, <2>1 DEF LoseByte, driverVars, Fits, Buffered
<1>9. CASE HotPlug
  <2>1. mouse' \in Mice
    BY <1>9, FreshMouse DEF HotPlug
  <2>2. <<Other("aa"), Other("zero")>> \in Seq(Byte)
    BY OtherIsByte, ShortSequences
  <2>3. wire' \in Seq(Byte)
    BY <1>9, <2>2, ConcatProperties DEF HotPlug, Fits
  <2>4. QED BY <1>9, <2>1, <2>3 DEF HotPlug, driverVars, Fits, Buffered
<1>10. QED
  BY <1>1, <1>2, <1>3, <1>4, <1>5, <1>6, <1>7, <1>8, <1>9 DEF Next, Driver

(* interruptOccurred never fills the packet buffer without dispatching the  *)
(* packet, although the packet length changes under nested resets.          *)
THEOREM BufferNeverFull == Spec => []PacketFits
<1>1. Fits => PacketFits
  BY DEF Fits, Buffered, PacketFits
<1>2. QED
  BY FitsInit, FitsStep, <1>1, PTL DEF Spec

-----------------------------------------------------------------------------
(* A mouse plugged in. While the driver is at rest with a mouse that does   *)
(* not report, 0xAA and another byte are still to be read, and nothing      *)
(* stands before them that starts a packet; and every reset ends by         *)
(* enabling the mouse, since the driver's "sleep" is only sent asleep.      *)
Ordinary(b) == b.kind = "data" \/ b.sync = (b.kind \in {"ack", "aa"})
Allowed == [at : IF awake THEN Commands \ {"sleep"} ELSE Commands, wheel : BOOLEAN]
Announced ==
  \/ /\ buffer = <<>>
     /\ \E i \in 1 .. Len(wire) - 1 :
          wire[i].kind = "aa" /\ \A j \in 1 .. i : wire[j].kind # "data"
  \/ Len(buffer) = 1 /\ buffer[1].kind = "aa" /\ wire # <<>>
Silent == resets = <<>> /\ awake /\ ~cut /\ ~mouse.reporting

AllOrdinary(s) == \A i \in 1 .. Len(s) : Ordinary(s[i])
Answerable == Silent => installed /\ Announced
EnabledInv == AllOrdinary(wire) /\ resets \in Seq(Allowed) /\ Answerable

LEMMA OtherOrdinary ==
  /\ Ordinary(Other("aa")) /\ Ordinary(Other("zero"))
  /\ Ordinary(Ack) /\ Ordinary(Other("wheel id"))
BY DEF Ordinary, Other, Ack

LEMMA TailOrdinary ==
  ASSUME NEW s \in Seq(Byte), s # <<>>, AllOrdinary(s) PROVE AllOrdinary(Tail(s))
BY HeadTailProperties DEF AllOrdinary

LEMMA DropTwoOrdinary ==
  ASSUME NEW s \in Seq(Byte), AllOrdinary(s), Len(s) >= 1 PROVE AllOrdinary(SubSeq(s, 3, Len(s)))
<1>1. \A i \in 3 .. Len(s) : s[i] \in Byte
  BY ElementOf
<1>2. /\ SubSeq(s, 3, Len(s)) \in Seq(Byte)
      /\ Len(SubSeq(s, 3, Len(s))) = IF 3 <= Len(s) THEN Len(s) - 2 ELSE 0
      /\ \A i \in 1 .. Len(s) - 2 : SubSeq(s, 3, Len(s))[i] = s[i + 2]
  BY <1>1, SubSeqProperties
<1> QED
  BY <1>2 DEF AllOrdinary

LEMMA JoinOrdinary ==
  ASSUME NEW s \in Seq(Byte), NEW t \in Seq(Byte), AllOrdinary(s), AllOrdinary(t)
  PROVE  AllOrdinary(s \o t)
<1>1. /\ Len(s \o t) = Len(s) + Len(t)
      /\ \A i \in 1 .. Len(s) + Len(t) : (s \o t)[i] = IF i <= Len(s) THEN s[i] ELSE t[i - Len(s)]
  BY ConcatProperties
<1> QED
  BY <1>1 DEF AllOrdinary

LEMMA PairOrdinary ==
  ASSUME NEW a \in Byte, NEW b \in Byte, Ordinary(a), Ordinary(b)
  PROVE  AllOrdinary(<<a>>) /\ AllOrdinary(<<a, b>>)
<1>1. /\ Len(<<a>>) = 1 /\ <<a>>[1] = a
      /\ Len(<<a, b>>) = 2 /\ <<a, b>>[1] = a /\ <<a, b>>[2] = b
  OBVIOUS
<1> QED
  BY <1>1 DEF AllOrdinary

LEMMA AnswerOrdinary == ASSUME NEW command PROVE AllOrdinary(Answer(command))
<1>1. Ack \in Byte /\ Other("zero") \in Byte /\ Other("wheel id") \in Byte
  BY OtherIsByte DEF Ack
<1>2. Answer(command) \in {<<Ack, Other("wheel id")>>, <<Ack, Other("zero")>>, <<Ack>>}
  BY DEF Answer
<1> QED
  BY <1>1, <1>2, PairOrdinary, OtherOrdinary

(* Resets that are scheduled and go on.                                    *)
LEMMA Scheduled ==
  ASSUME NEW now \in Seq(Allowed)
  PROVE  ScheduleMouseReset(now) \in Seq(Allowed) /\ ScheduleMouseReset(now) # <<>>
<1>1. Reset("disable") \in Allowed
  BY DEF Reset, Allowed, Commands
<1>2. <<Reset("disable")>> \in Seq(Allowed) /\ Len(<<Reset("disable")>>) = 1
  BY <1>1
<1>3. /\ <<Reset("disable")>> \o now \in Seq(Allowed)
      /\ Len(<<Reset("disable")>> \o now) = 1 + Len(now)
  BY <1>2, ConcatProperties
<1> QED
  BY <1>3 DEF ScheduleMouseReset

LEMMA DispatchResets ==
  ASSUME NEW b, NEW now \in Seq(Allowed), Dispatch(b, now)
  PROVE  resets' \in Seq(Allowed) /\ (resets' = <<>> => now = <<>>)
<1>1. resets' = now \/ resets' = ScheduleMouseReset(now)
  BY DEF Dispatch, InterruptOccurred
<1> QED
  BY <1>1, Scheduled

LEMMA Replaced ==
  ASSUME resets \in Seq(Allowed), resets # <<>>, NEW r \in Allowed
  PROVE  /\ <<r>> \o Tail(resets) \in Seq(Allowed) /\ <<r>> \o Tail(resets) # <<>>
         /\ Tail(resets) \in Seq(Allowed)
<1>1. Tail(resets) \in Seq(Allowed)
  BY HeadTailProperties
<1>2. <<r>> \in Seq(Allowed) /\ Len(<<r>>) = 1
  OBVIOUS
<1>3. <<r>> \o Tail(resets) \in Seq(Allowed) /\ Len(<<r>> \o Tail(resets)) = 1 + Len(Tail(resets))
  BY <1>1, <1>2, ConcatProperties
<1> QED
  BY <1>1, <1>3

LEMMA Continued ==
  ASSUME resets \in Seq(Allowed), resets # <<>>, Head(resets).at \in AckCommands, NEW a \in BOOLEAN
  PROVE  /\ Continue(Head(resets), a) \in Seq(Allowed)
         /\ Continue(Head(resets), a) = <<>> => Head(resets).at \in {"sleep", "enable"}
<1> DEFINE r == Head(resets)
<1>1. r \in Allowed
  BY HeadTailProperties
<1>2. CASE r.at \in {"sleep", "enable"}
  BY <1>1, <1>2, Replaced DEF Continue
<1>3. CASE r.at \notin {"sleep", "enable"}
  <2>1. r.at \in {"disable", "defaults", "resolution", "rates", "id", "explorer rates",
                  "explorer id", "restore"}
    BY <1>3 DEF AckCommands, Commands
  <2>2. After(r, a) \in Commands \ {"sleep"}
    BY <2>1 DEF After, Commands
  <2>3. [r EXCEPT !.at = After(r, a)] \in Allowed
    BY <1>1, <2>2 DEF Allowed
  <2> QED
    BY <1>3, <2>3, Replaced DEF Continue
<1> QED
  BY <1>2, <1>3

-----------------------------------------------------------------------------
LEMMA EnabledInit == Init => EnabledInv
<1> SUFFICES ASSUME Init PROVE EnabledInv
  OBVIOUS
<1>1. Reset("defaults") \in Allowed
  BY DEF Init, Reset, Allowed, Commands
<1>2. resets \in Seq(Allowed) /\ Len(resets) = 1
  BY <1>1 DEF Init
<1>3. AllOrdinary(wire)
  BY DEF Init, AllOrdinary
<1> QED
  BY <1>2, <1>3 DEF EnabledInv, Answerable, Silent

(* The byte the driver reads at rest: it may reset the mouse; if it does    *)
(* not, the announcement is still to come or half read.                     *)
LEMMA InterruptAnswerable ==
  ASSUME Fits, EnabledInv, Interrupt PROVE Answerable'
<1> SUFFICES ASSUME Silent' PROVE installed' /\ Announced'
  BY DEF Answerable
<1>1. Silent /\ installed /\ Announced /\ installed' = installed
  BY DEF Silent, Interrupt, EnabledInv, Answerable
<1> DEFINE b == Head(wire)
<1>2. /\ wire \in Seq(Byte) /\ buffer \in Seq(Byte) /\ b \in Byte /\ wire' = Tail(wire) /\ b = wire[1]
      /\ Len(wire) \in Nat \ {0} /\ Len(Tail(wire)) = Len(wire) - 1
      /\ \A i \in 1 .. Len(wire) - 1 : Tail(wire)[i] = wire[i + 1]
  BY HeadTailProperties DEF Interrupt, Fits, Buffered
<1>3. InterruptOccurred(b, <<>>) /\ UNCHANGED packetLength
  BY <1>1 DEF Interrupt, Dispatch
<1>4. resets' = <<>> /\ ScheduleMouseReset(<<>>) # <<>>
  <2>1. <<>> \in Seq(Allowed)
    OBVIOUS
  <2> QED
    BY <2>1, Scheduled DEF Silent
<1> HIDE DEF b
<1>5. CASE buffer = <<>>
  <2>1. PICK i \in 1 .. Len(wire) - 1 :
          wire[i].kind = "aa" /\ \A j \in 1 .. i : wire[j].kind # "data"
    BY <1>1, <1>5 DEF Announced
  <2>2. CASE i = 1
    <3>1. b.kind = "aa"
      BY <1>2, <2>1, <2>2
    <3>2. b.sync
      <4>1. Ordinary(b)
        BY <1>2 DEF EnabledInv, AllOrdinary
      <4> QED
        BY <3>1, <4>1 DEF Ordinary
    <3>3. ~Unexpected(b)
      BY <3>1, <3>2 DEF Unexpected
    <3>4. Append(buffer, b) = <<b>> /\ Len(<<b>>) = 1 /\ <<b>>[1] = b
      BY <1>5
    <3>5. packetLength # 1
      BY DEF Fits, Buffered, Standard, Intellimouse
    <3>6. buffer' = <<b>>
      BY <1>3, <3>3, <3>4, <3>5 DEF InterruptOccurred
    <3>7. wire' # <<>>
      <4>1. Len(wire') >= 1
        BY <1>2, <2>1, <2>2
      <4> QED
        BY <4>1
    <3> QED
      BY <1>1, <3>1, <3>4, <3>6, <3>7 DEF Announced
  <2>3. CASE i # 1
    <3>1. b.kind # "data"
      BY <1>2, <2>1
    <3>2. Unexpected(b) \/ b.kind = "aa"
      <4>1. Ordinary(b)
        BY <1>2 DEF EnabledInv, AllOrdinary
      <4> QED
        BY <1>5, <3>1, <4>1 DEF Ordinary, Unexpected
    <3>3. i - 1 \in 1 .. Len(wire') - 1 /\ wire'[i - 1].kind = "aa"
      BY <1>2, <2>1, <2>3
    <3>4. \A j \in 1 .. i - 1 : wire'[j].kind # "data"
      BY <1>2, <2>1
    <3>5. CASE Unexpected(b)
      <4>1. buffer' = <<>>
        BY <1>3, <1>5, <3>5 DEF InterruptOccurred
      <4> QED
        BY <1>1, <3>3, <3>4, <4>1 DEF Announced
    <3>6. CASE ~Unexpected(b)
      <4>1. Append(buffer, b) = <<b>> /\ Len(<<b>>) = 1 /\ <<b>>[1] = b
        BY <1>5
      <4>2. packetLength # 1
        BY DEF Fits, Buffered, Standard, Intellimouse
      <4>3. buffer' = <<b>>
        BY <1>3, <3>6, <4>1, <4>2 DEF InterruptOccurred
      <4>4. wire' # <<>>
        <5>1. Len(wire') >= 1
          BY <1>2, <2>1, <2>3
        <5> QED
          BY <5>1
      <4> QED
        BY <1>1, <3>2, <3>6, <4>1, <4>3, <4>4 DEF Announced
    <3> QED
      BY <3>5, <3>6
  <2> QED
    BY <2>2, <2>3
<1>6. CASE buffer # <<>>
  <2>1. Len(buffer) = 1 /\ buffer[1].kind = "aa"
    BY <1>1, <1>6 DEF Announced
  <2>2. Len(Append(buffer, b)) = 2 /\ Append(buffer, b)[1] = buffer[1]
    <3>1. Len(Append(buffer, b)) = Len(buffer) + 1
      BY <1>2, AppendProperties
    <3>2. \A i \in 1 .. Len(buffer) : Append(buffer, b)[i] = buffer[i]
      BY <1>2, AppendProperties
    <3> QED
      BY <2>1, <3>1, <3>2
  <2>3. packetLength # 2
    BY DEF Fits, Buffered, Standard, Intellimouse
  <2>4. ~Unexpected(b) /\ Plugged(Append(buffer, b))
    BY <1>6, <2>1, <2>2 DEF Unexpected, Plugged
  <2>5. resets' = ScheduleMouseReset(<<>>)
    BY <1>3, <2>2, <2>3, <2>4 DEF InterruptOccurred
  <2> QED
    BY <1>4, <2>5
<1> QED
  BY <1>5, <1>6

(* The last command of the last reset enables the mouse.                    *)
LEMMA CommandEnables ==
  ASSUME Fits, EnabledInv, Command PROVE EnabledInv'
<1> DEFINE r == Head(resets)
           all == wire \o Answer(r.at)
           first == Head(all) = Ack
           second == Len(all) > 1 /\ all[2] = Ack
<1>1. /\ mouse' \in Commanded(r.at, first \/ second)
      /\ \/ first /\ wire' = Tail(all) /\ NoDispatch(Continue(r, TRUE))
         \/ /\ ~first /\ wire' = SubSeq(all, 3, Len(all))
            /\ Dispatch(IF second THEN all[1] ELSE all[2], Continue(r, second))
      /\ resets # <<>> /\ r.at \in AckCommands /\ UNCHANGED <<installed, awake, cut>>
  BY DEF Command
<1>2. wire \in Seq(Byte) /\ resets \in Seq(Allowed) /\ AllOrdinary(wire) /\ mouse \in Mice
  BY DEF Fits, EnabledInv
<1>3. Allowed' = Allowed
  BY <1>1 DEF Allowed
<1>4. AllOrdinary(wire')
  <2>1. Answer(r.at) \in Seq(Byte)
    BY <1>2, AnswerFollows
  <2>2. AllOrdinary(all)
    BY <1>2, <2>1, AnswerOrdinary, JoinOrdinary
  <2>3. all \in Seq(Byte) /\ all # <<>>
    BY <1>2, TransitFacts
  <2> HIDE DEF all
  <2>4. Len(all) >= 1
    BY <2>3
  <2> QED
    BY <1>1, <2>2, <2>3, <2>4, TailOrdinary, DropTwoOrdinary
<1>5. PICK a \in BOOLEAN :
        /\ resets' \in Seq(Allowed)
        /\ resets' = <<>> => Continue(r, a) = <<>>
  <2>1. first \in BOOLEAN /\ second \in BOOLEAN
    OBVIOUS
  <2>2. Continue(r, TRUE) \in Seq(Allowed) /\ Continue(r, second) \in Seq(Allowed)
    BY <1>1, <1>2, <2>1, Continued
  <2> HIDE DEF r, all, first, second
  <2> QED
    BY <1>1, <2>1, <2>2, DispatchResets DEF NoDispatch
<1>6. Answerable'
  <2> SUFFICES ASSUME Silent' PROVE FALSE
    BY DEF Answerable
  <2>1. Continue(r, a) = <<>> /\ awake /\ ~mouse'.reporting
    BY <1>1, <1>5 DEF Silent
  <2>2. r.at \in {"sleep", "enable"}
    BY <1>1, <1>2, <2>1, Continued
  <2>3. r.at # "sleep"
    <3>1. r \in Allowed
      BY <1>1, <1>2, HeadTailProperties
    <3> QED
      BY <2>1, <3>1 DEF Allowed
  <2>4. r.at = "enable"
    BY <2>2, <2>3
  <2>5. PICK w : mouse' = [mouse EXCEPT !.sent = 0, !.wide = w,
                    !.reporting = r.at \notin Disabling /\ (@ \/ r.at = "enable")]
    BY <1>1 DEF Commanded
  <2>6. mouse'.reporting = (r.at \notin Disabling /\ (mouse.reporting \/ r.at = "enable"))
    BY <1>2, <2>5 DEF Mice
  <2> QED
    BY <2>1, <2>4, <2>6 DEF Disabling
<1> QED
  BY <1>3, <1>4, <1>5, <1>6 DEF EnabledInv

LEMMA EnabledStep ==
  ASSUME Fits, EnabledInv, [Next]_vars PROVE EnabledInv'
<1>0. wire \in Seq(Byte) /\ resets \in Seq(Allowed) /\ AllOrdinary(wire)
  BY DEF Fits, EnabledInv
<1>1. CASE Interrupt
  <2>1. Allowed' = Allowed
    BY <1>1 DEF Interrupt, Allowed
  <2>2. AllOrdinary(wire')
    BY <1>0, <1>1, TailOrdinary DEF Interrupt
  <2>3. <<>> \in Seq(Allowed)
    OBVIOUS
  <2>4. resets' \in Seq(Allowed)
    BY <1>1, <2>3, DispatchResets DEF Interrupt
  <2> QED
    BY <1>1, <2>1, <2>2, <2>4, InterruptAnswerable DEF EnabledInv
<1>2. CASE Command
  BY <1>2, CommandEnables
<1>3. CASE IdByte
  <2>1. Allowed' = Allowed /\ resets # <<>>
    BY <1>3 DEF IdByte, Allowed
  <2>2. AllOrdinary(wire')
    <3>1. AllOrdinary(<<>>)
      BY DEF AllOrdinary
    <3> QED
      BY <1>0, <1>3, <3>1, TailOrdinary DEF IdByte
  <2>3. PICK r \in Allowed : resets' = <<r>> \o Tail(resets)
    <3>1. PICK wheel \in BOOLEAN :
            \/ resets' = <<[at |-> "explorer rates", wheel |-> TRUE]>> \o Tail(resets)
            \/ resets' = <<[at |-> "restore", wheel |-> wheel]>> \o Tail(resets)
      BY <1>3 DEF IdByte
    <3>2. /\ [at |-> "explorer rates", wheel |-> TRUE] \in Allowed
          /\ [at |-> "restore", wheel |-> wheel] \in Allowed
      BY DEF Allowed, Commands
    <3> QED
      BY <3>1, <3>2
  <2>4. resets' \in Seq(Allowed) /\ resets' # <<>>
    BY <1>0, <2>1, <2>3, Replaced
  <2> QED
    BY <2>1, <2>2, <2>4 DEF EnabledInv, Answerable, Silent
<1>4. CASE CommandByte
  <2>1. Allowed' = Allowed /\ resets # <<>> /\ wire' = wire
        /\ resets' = <<[Head(resets) EXCEPT !.at = "enable"]>> \o Tail(resets)
    BY <1>4 DEF CommandByte, NoDispatch, Allowed
  <2>2. [Head(resets) EXCEPT !.at = "enable"] \in Allowed
    <3>1. Head(resets) \in Allowed
      BY <1>0, <2>1, HeadTailProperties
    <3> QED
      BY <3>1 DEF Allowed, Commands
  <2>3. resets' \in Seq(Allowed) /\ resets' # <<>>
    BY <1>0, <2>1, <2>2, Replaced
  <2> QED
    BY <1>0, <2>1, <2>3 DEF EnabledInv, Answerable, Silent
<1>5. CASE CommandByteMeetsData
  <2>1. Allowed' = Allowed /\ resets # <<>>
    BY <1>5 DEF CommandByteMeetsData, Allowed
  <2>2. AllOrdinary(wire')
    BY <1>0, <1>5, TailOrdinary DEF CommandByteMeetsData
  <2>3. resets' \in Seq(Allowed) /\ resets' # <<>>
    BY <1>0, <1>5, <2>1, DispatchResets DEF CommandByteMeetsData
  <2> QED
    BY <2>1, <2>2, <2>3 DEF EnabledInv, Answerable, Silent
<1>6. CASE InstallInterruptAction
  <2>1. UNCHANGED <<wire, resets, awake, cut, mouse>> /\ ~installed
    BY <1>6 DEF InstallInterruptAction, driverVars
  <2>2. ~Silent
    BY <2>1 DEF EnabledInv, Answerable
  <2>3. ~Silent' /\ Allowed' = Allowed
    BY <2>1, <2>2 DEF Silent, Allowed
  <2> QED
    BY <1>0, <2>1, <2>3 DEF EnabledInv, Answerable
<1>7. CASE DisableDevice
  <2>1. wire' = wire /\ ~awake' /\ resets' = <<Reset("sleep")>>
    BY <1>7 DEF DisableDevice
  <2>2. Reset("sleep") \in Allowed'
    BY <2>1 DEF Allowed, Reset, Commands
  <2> QED
    BY <1>0, <2>1, <2>2 DEF EnabledInv, Answerable, Silent
<1>8. CASE EnableDevice
  <2>1. wire' = wire /\ awake' /\ resets' = <<Reset("defaults")>>
    BY <1>8 DEF EnableDevice
  <2>2. Reset("defaults") \in Allowed' /\ <<Reset("defaults")>> # <<>>
    BY <2>1 DEF Allowed, Reset, Commands
  <2> QED
    BY <1>0, <2>1, <2>2 DEF EnabledInv, Answerable, Silent
<1>9. CASE SendByte \/ LoseByte
  <2>1. /\ mouse.reporting /\ mouse' = Advance
        /\ UNCHANGED <<resets, awake>>
    BY <1>9 DEF SendByte, LoseByte, driverVars
  <2>2. mouse'.reporting /\ Allowed' = Allowed
    BY <2>1 DEF Advance, Fits, Mice, Allowed
  <2>3. AllOrdinary(wire')
    <3>1. CASE SendByte
      <4>1. PICK sync \in BOOLEAN : wire' = Append(wire, NextByte(sync))
        BY <3>1 DEF SendByte
      <4>2. NextByte(sync) \in Byte /\ Ordinary(NextByte(sync))
        BY SentBytes DEF Fits, NextByte, Ordinary
      <4>3. /\ Len(wire') = Len(wire) + 1
            /\ \A i \in 1 .. Len(wire) : wire'[i] = wire[i]
            /\ wire'[Len(wire) + 1] = NextByte(sync)
        BY <1>0, <4>1, <4>2, AppendProperties
      <4>4. Len(wire) \in Nat
        BY <1>0
      <4> QED
        BY <1>0, <4>2, <4>3, <4>4 DEF AllOrdinary
    <3>2. CASE LoseByte
      BY <1>0, <3>2 DEF LoseByte
    <3> QED
      BY <1>9, <3>1, <3>2
  <2> QED
    BY <1>0, <2>1, <2>2, <2>3 DEF EnabledInv, Answerable, Silent
<1>10. CASE HotPlug
  <2> DEFINE plug == <<Other("aa"), Other("zero")>>
  <2>1. /\ UNCHANGED <<resets, awake, installed, buffer>> /\ wire' = wire \o plug
        /\ cut' = (cut \/ ~installed \/ buffer # <<>> \/ mouse.sent # 0 \/ DataUnread)
    BY <1>10 DEF HotPlug, driverVars
  <2>2. /\ plug \in Seq(Byte) /\ Len(plug) = 2 /\ plug[1] = Other("aa") /\ AllOrdinary(plug)
    BY OtherIsByte, OtherOrdinary, ShortSequences, PairOrdinary
  <2>3. Allowed' = Allowed
    BY <2>1 DEF Allowed
  <2> HIDE DEF plug
  <2>4. /\ Len(wire') = Len(wire) + 2 /\ Len(wire) \in Nat
        /\ \A i \in 1 .. Len(wire) : wire'[i] = wire[i]
        /\ wire'[Len(wire) + 1] = Other("aa")
    <3>1. /\ Len(wire') = Len(wire) + Len(plug) /\ Len(wire) \in Nat
          /\ \A i \in 1 .. Len(wire) + Len(plug) :
               wire'[i] = IF i <= Len(wire) THEN wire[i] ELSE plug[i - Len(wire)]
      <4>1. /\ Len(wire \o plug) = Len(wire) + Len(plug) /\ Len(wire) \in Nat
            /\ \A i \in 1 .. Len(wire) + Len(plug) :
                 (wire \o plug)[i] = IF i <= Len(wire) THEN wire[i] ELSE plug[i - Len(wire)]
        <5>1. wire \in Seq(Byte) /\ plug \in Seq(Byte)
          BY <1>0, <2>2
        <5> QED
          BY <5>1, ConcatProperties
      <4> QED
        BY <2>1, <4>1
    <3>2. \A i \in 1 .. Len(wire) : wire'[i] = wire[i]
      BY <2>2, <3>1
    <3>3. wire'[Len(wire) + 1] = plug[1]
      BY <2>2, <3>1
    <3> QED
      BY <2>2, <3>1, <3>2, <3>3
  <2>5. Answerable'
    <3> SUFFICES ASSUME ~cut' PROVE installed' /\ Announced'
      BY DEF Answerable, Silent
    <3>1. installed' /\ buffer' = <<>> /\ ~DataUnread
      BY <2>1
    <3>2. Other("aa").kind = "aa"
      BY DEF Other
    <3>3. \A j \in 1 .. Len(wire) + 1 : wire'[j].kind # "data"
      BY <2>4, <3>1, <3>2 DEF DataUnread
    <3>4. Len(wire) + 1 \in 1 .. Len(wire') - 1
      BY <2>4
    <3> QED
      BY <2>4, <3>1, <3>2, <3>3, <3>4 DEF Announced
  <2>6. AllOrdinary(wire')
    BY <1>0, <2>1, <2>2, JoinOrdinary
  <2> QED
    BY <1>0, <2>1, <2>3, <2>5, <2>6 DEF EnabledInv
<1>11. CASE UNCHANGED vars
  BY <1>11 DEF vars, driverVars, EnabledInv, AllOrdinary, Allowed, Answerable, Silent, Announced
<1> QED
  BY <1>1, <1>2, <1>3, <1>4, <1>5, <1>6, <1>7, <1>8, <1>9, <1>10, <1>11 DEF Next, Driver

(* A mouse plugged in between two packets reports again when all it has     *)
(* said is read, for any limits on resets, stray and lost bytes, mice and   *)
(* sleeps, and wherever its 0xAA 0x00 is met.                               *)
THEOREM PluggedReports == Spec => []PluggedIsEnabled
<1>1. EnabledInv => PluggedIsEnabled
  <2> SUFFICES ASSUME EnabledInv, AtRest, ~cut, ~mouse.reporting PROVE FALSE
    BY DEF PluggedIsEnabled
  <2>1. Announced /\ wire = <<>>
    BY DEF EnabledInv, Answerable, Silent, AtRest
  <2> QED
    BY <2>1 DEF Announced
<1> QED
  BY <1>1, FitsInit, FitsStep, EnabledInit, EnabledStep, PTL DEF Spec

-----------------------------------------------------------------------------
(* The rest of TypeOK.                                                     *)
Flags == installed \in BOOLEAN /\ awake \in BOOLEAN /\ whole \in BOOLEAN /\ cut \in BOOLEAN
Tries == resetCount \in 0 .. ResetLimit
Incidents == [odd : 0 .. MaxOdd, lost : 0 .. MaxGlitches, strays : 0 .. MaxStrays,
              plugs : 0 .. MaxPlugs, sleeps : 0 .. MaxSleeps]
Counted == incidents \in Incidents
RestTypes == Flags /\ Tries /\ Counted

LEMMA DispatchTypes ==
  ASSUME Tries, whole \in BOOLEAN, NEW b, NEW now, Dispatch(b, now)
  PROVE  Tries' /\ whole' \in BOOLEAN
<1>1. CASE resetCount' = resetCount /\ whole' = whole
  BY <1>1 DEF Tries
<1>2. CASE MayReset /\ resetCount' = resetCount + 1 /\ whole' = whole
  BY <1>2, MouseAssumption DEF Tries, MayReset
<1>3. CASE resetCount' = 0 /\ whole' \in BOOLEAN
  BY <1>3, MouseAssumption DEF Tries
<1>4. \A bytes : IsPacket(bytes) \in BOOLEAN
  BY DEF IsPacket
<1> QED
  BY <1>1, <1>2, <1>3, <1>4 DEF Dispatch, InterruptOccurred

LEMMA MoreIncidents ==
  ASSUME Counted
  PROVE  /\ incidents.lost < MaxGlitches => [incidents EXCEPT !.lost = @ + 1] \in Incidents
         /\ incidents.plugs < MaxPlugs => [incidents EXCEPT !.plugs = @ + 1] \in Incidents
         /\ incidents.sleeps < MaxSleeps => [incidents EXCEPT !.sleeps = @ + 1] \in Incidents
BY MouseAssumption DEF Counted, Incidents

LEMMA RestTypesStep == RestTypes /\ [Next]_vars => RestTypes'
<1> SUFFICES ASSUME RestTypes, [Next]_vars PROVE RestTypes'
  OBVIOUS
<1> USE DEF RestTypes
<1>1. CASE Interrupt
  <2>1. Dispatch(Head(wire), <<>>) /\ UNCHANGED <<installed, awake, cut, incidents>>
    BY <1>1 DEF Interrupt
  <2> QED
    BY <2>1, DispatchTypes DEF Flags, Counted
<1>2. CASE Command
  <2>1. UNCHANGED <<installed, awake, cut, incidents>>
    BY <1>2 DEF Command
  <2>2. Tries' /\ whole' \in BOOLEAN
    <3>1. ASSUME NEW now, NoDispatch(now) PROVE Tries' /\ whole' \in BOOLEAN
      BY <3>1 DEF NoDispatch, Tries, Flags
    <3>2. ASSUME NEW b, NEW now, Dispatch(b, now) PROVE Tries' /\ whole' \in BOOLEAN
      BY <3>2, DispatchTypes DEF Flags
    <3> QED
      BY <1>2, <3>1, <3>2 DEF Command
  <2> QED
    BY <2>1, <2>2 DEF Flags, Counted
<1>3. CASE IdByte
  <2>1. UNCHANGED <<resetCount, installed, awake, whole, cut, incidents>>
    BY <1>3 DEF IdByte
  <2> QED
    BY <2>1 DEF Flags, Tries, Counted
<1>4. CASE CommandByte
  <2>1. UNCHANGED <<resetCount, installed, awake, whole, cut, incidents>>
    BY <1>4 DEF CommandByte, NoDispatch
  <2> QED
    BY <2>1 DEF Flags, Tries, Counted
<1>5. CASE CommandByteMeetsData
  <2>1. Dispatch(Head(wire), resets) /\ UNCHANGED <<installed, awake, cut, incidents>>
    BY <1>5 DEF CommandByteMeetsData
  <2> QED
    BY <2>1, DispatchTypes DEF Flags, Counted
<1>6. CASE InstallInterruptAction \/ EnableDevice \/ UNCHANGED vars
  BY <1>6 DEF InstallInterruptAction, EnableDevice, vars, driverVars, Flags, Tries, Counted
<1>7. CASE DisableDevice
  BY <1>7, MoreIncidents DEF DisableDevice, Flags, Tries, Counted
<1>8. CASE SendByte
  <2>1. incidents' \in Incidents
    <3>1. PICK odd \in {0, 1}, stray \in {0, 1} :
            /\ odd = 1 => incidents.odd < MaxOdd
            /\ stray = 1 => incidents.strays < MaxStrays
            /\ incidents' = [incidents EXCEPT !.odd = @ + odd, !.strays = @ + stray]
      BY <1>8 DEF SendByte
    <3>2. /\ incidents.odd + odd \in 0 .. MaxOdd
          /\ incidents.strays + stray \in 0 .. MaxStrays
      BY <3>1, MouseAssumption DEF Counted, Incidents
    <3> QED
      BY <3>1, <3>2 DEF Counted, Incidents
  <2>2. UNCHANGED <<resetCount, installed, awake, whole, cut>>
    BY <1>8 DEF SendByte, driverVars
  <2> QED
    BY <2>1, <2>2, MoreIncidents DEF Flags, Tries, Counted
<1>9. CASE LoseByte
  BY <1>9, MoreIncidents DEF LoseByte, driverVars, Flags, Tries, Counted
<1>10. CASE HotPlug
  <2>1. cut' \in BOOLEAN
    BY <1>10 DEF HotPlug
  <2> QED
    BY <1>10, <2>1, MoreIncidents DEF HotPlug, driverVars, Flags, Tries, Counted
<1> QED
  BY <1>1, <1>2, <1>3, <1>4, <1>5, <1>6, <1>7, <1>8, <1>9, <1>10 DEF Next, Driver

LEMMA LargerSeq == ASSUME NEW S, NEW T, S \subseteq T, NEW s \in Seq(S) PROVE s \in Seq(T)
OBVIOUS

LEMMA AllowedAreResets ==
  ASSUME NEW s \in Seq(Allowed) PROVE s \in Seq([at : Commands, wheel : BOOLEAN])
<1>1. Allowed \subseteq [at : Commands, wheel : BOOLEAN]
  BY DEF Allowed
<1> QED
  BY <1>1, LargerSeq

(* The driver resets the mouse at most _mouseResetCount's limit times in a *)
(* row, and its nested resets are always at one of their commands.         *)
THEOREM TypeCorrect == Spec => []TypeOK
<1>1. Init => RestTypes
  <2> SUFFICES ASSUME Init PROVE RestTypes
    OBVIOUS
  <2>1. installed = FALSE /\ awake = TRUE /\ whole = TRUE /\ cut = FALSE /\ resetCount = 0
        /\ incidents = [odd |-> 0, lost |-> 0, strays |-> 0, plugs |-> 0, sleeps |-> 0]
    BY DEF Init
  <2>2. [odd |-> 0, lost |-> 0, strays |-> 0, plugs |-> 0, sleeps |-> 0] \in Incidents
        /\ 0 \in 0 .. ResetLimit
    BY MouseAssumption DEF Incidents
  <2> QED
    BY <2>1, <2>2 DEF RestTypes, Flags, Tries, Counted
<1>2. Fits /\ EnabledInv /\ RestTypes => TypeOK
  <2> SUFFICES ASSUME Fits, EnabledInv, RestTypes PROVE TypeOK
    OBVIOUS
  <2>1. resets \in Seq(Allowed)
    BY DEF EnabledInv
  <2>2. resets \in Seq([at : Commands, wheel : BOOLEAN])
    BY <2>1, AllowedAreResets
  <2> QED
    BY <2>2 DEF Fits, Mice, Buffered, RestTypes, Flags, Tries, Counted, Incidents, TypeOK
<1> QED
  BY <1>1, <1>2, FitsInit, FitsStep, EnabledInit, EnabledStep, RestTypesStep, PTL DEF Spec
=============================================================================
