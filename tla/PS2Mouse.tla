------------------------------ MODULE PS2Mouse ------------------------------
(***************************************************************************)
(* The packets of ApplePS2Mouse and its resets: interruptOccurred puts the *)
(* bytes of the mouse together to packets of three or four bytes, and      *)
(* resets the mouse from there when they do not fit or when it has been    *)
(* plugged in again. The commands of a reset go through readDataPort,      *)
(* which may meet bytes of the mouse before the acknowledge, and give one  *)
(* of them to interruptOccurred: a reset can start in the middle of        *)
(* another one.                                                            *)
(*                                                                         *)
(* A byte is what the driver tells apart: the acknowledge, the AA a mouse  *)
(* sends when it is powered, or another one with bit 3 set ("sync") or     *)
(* clear. A byte of data carries its place in its packet for the history.  *)
(***************************************************************************)
EXTENDS Naturals, Sequences

CONSTANTS
  ResetLimit,   (* resets without a packet between them (5)                *)
  MaxOdd,       (* bound: bytes after the first of a packet with bit 3 set *)
  MaxUnread,    (* bytes of data between the mouse and the driver          *)
  MaxStrays,    (* bound: bytes sent while a reset is under way            *)
  MaxGlitches,  (* bound: bytes lost                                       *)
  MaxPlugs,     (* bound: mice plugged in                                  *)
  MaxSleeps     (* bound: sleeps                                           *)

ASSUME MouseAssumption ==
  /\ ResetLimit \in Nat /\ MaxOdd \in Nat /\ MaxUnread \in Nat /\ MaxStrays \in Nat
  /\ MaxGlitches \in Nat /\ MaxPlugs \in Nat /\ MaxSleeps \in Nat

Standard == 3     (* kPacketLengthStandard                                 *)
Intellimouse == 4 (* kPacketLengthIntellimouse                             *)

Byte == [kind : {"data", "ack", "aa", "zero", "wheel id"}, place : 0 .. 4, sync : BOOLEAN]
Other(kind) == [kind |-> kind, place |-> 0, sync |-> kind \in {"ack", "aa"}]
Ack == Other("ack")

VARIABLES
  mouse,        (* the mouse: has a wheel, sends wide packets, reports, and *)
                (* how many bytes of a packet it has sent                  *)
  wire,         (* bytes sent and not read                                 *)
  buffer,       (* _packetBuffer as far as _packetByteCount                *)
  packetLength, (* _packetLength                                           *)
  resetCount,   (* _mouseResetCount                                        *)
  resets,       (* the resets under way, the innermost first               *)
  installed,    (* _interruptHandlerInstalled                              *)
  awake,        (* between EnableDevice and DisableDevice                  *)
  whole,        (* history: the last packet was one the mouse sent         *)
  cut,          (* history: a mouse was plugged in amid a packet           *)
  incidents     (* history: how many bytes were odd, were lost, came amid  *)
                (* a reset, mice were plugged in, and sleeps               *)

driverVars == <<buffer, packetLength, resetCount, resets, whole>>
vars == <<mouse, wire, driverVars, installed, awake, cut, incidents>>

Width(m) == IF m.wide THEN Intellimouse ELSE Standard

(* A reset: the command it comes to and the mouse it has found. The        *)
(* commands of a sleep are one, those of a reset the list from "disable"   *)
(* (scheduleMouseReset) or "defaults" (resetMouse). "resolution" stands    *)
(* for the query of the first reset too, "rates" for three requests.       *)
Commands == {"sleep", "disable", "defaults", "resolution", "rates", "id", "id byte",
             "explorer rates", "explorer id", "explorer byte", "restore", "command byte", "enable"}
Reset(command) == [at |-> command, wheel |-> FALSE]

TypeOK ==
  /\ mouse \in [wheel : BOOLEAN, wide : BOOLEAN, reporting : BOOLEAN, sent : 0 .. 3]
  /\ wire \in Seq(Byte) /\ buffer \in Seq(Byte)
  /\ packetLength \in {Standard, Intellimouse}
  /\ resetCount \in 0 .. ResetLimit
  /\ resets \in Seq([at : Commands, wheel : BOOLEAN])
  /\ installed \in BOOLEAN /\ awake \in BOOLEAN /\ whole \in BOOLEAN /\ cut \in BOOLEAN
  /\ incidents \in [odd : 0 .. MaxOdd, lost : 0 .. MaxGlitches, strays : 0 .. MaxStrays,
                    plugs : 0 .. MaxPlugs, sleeps : 0 .. MaxSleeps]

(* start: the mouse is disabled, resetMouse comes before the interrupt     *)
(* routine is installed.                                                   *)
Init ==
  /\ mouse \in [wheel : BOOLEAN, wide : {FALSE}, reporting : {FALSE}, sent : {0}]
  /\ wire = <<>> /\ buffer = <<>> /\ packetLength = Standard /\ resetCount = 0
  /\ resets = <<Reset("defaults")>>
  /\ installed = FALSE /\ awake = TRUE /\ whole = TRUE /\ cut = FALSE
  /\ incidents = [odd |-> 0, lost |-> 0, strays |-> 0, plugs |-> 0, sleeps |-> 0]

-----------------------------------------------------------------------------
(* Faulty versions of definitions below: slips the code could have made.   *)

(* Faulty: a packet starts with any byte but an acknowledge.               *)
UnexpectedAckOnly(b) == buffer = <<>> /\ b.kind = "ack"

(* Faulty: the bytes of before the reset stay in the packet buffer.        *)
SetPacketLengthOnly(wheel) ==
  /\ packetLength' = IF wheel THEN Intellimouse ELSE Standard
  /\ UNCHANGED buffer

(* Faulty: a plugged mouse is not told from a moving one.                  *)
PluggedNever(bytes) == FALSE

-----------------------------------------------------------------------------
(* interruptOccurred: a byte that cannot start a packet resets the mouse,  *)
(* unless it has been reset in vain too often.                             *)
Unexpected(b) == buffer = <<>> /\ (b.kind = "ack" \/ ~b.sync)
MayReset == resetCount < ResetLimit

(* "0xAA 0x00" after a hardware reset; only the first byte is looked at.   *)
Plugged(bytes) == Len(bytes) = 2 /\ bytes[1].kind = "aa"

(* scheduleMouseReset, called amid the reset that has led here, if any.    *)
ScheduleMouseReset(now) == <<Reset("disable")>> \o now

(* A packet of the driver is a packet of the mouse.                        *)
IsPacket(bytes) ==
  /\ Len(bytes) = Width(mouse)
  /\ \A i \in 1 .. Len(bytes) : bytes[i].kind = "data" /\ bytes[i].place = i

(* The byte b is given to interruptOccurred while the resets "now" are     *)
(* under way.                                                              *)
InterruptOccurred(b, now) ==
  IF Unexpected(b)
  THEN /\ IF MayReset
          THEN resetCount' = resetCount + 1 /\ resets' = ScheduleMouseReset(now)
          ELSE resetCount' = resetCount /\ resets' = now
       /\ UNCHANGED <<buffer, whole>>
  ELSE LET bytes == Append(buffer, b)
       IN  IF Len(bytes) = packetLength
           THEN /\ buffer' = <<>> /\ resetCount' = 0 /\ resets' = now
                /\ whole' = IsPacket(bytes)
           ELSE /\ buffer' = bytes
                /\ resets' = IF Plugged(bytes) THEN ScheduleMouseReset(now) ELSE now
                /\ UNCHANGED <<resetCount, whole>>

(* dispatchDriverInterrupt, while no routine is installed and after.       *)
Dispatch(b, now) ==
  IF installed
  THEN InterruptOccurred(b, now) /\ UNCHANGED packetLength
  ELSE resets' = now /\ UNCHANGED <<buffer, packetLength, resetCount, whole>>

NoDispatch(now) ==
  resets' = now /\ UNCHANGED <<buffer, packetLength, resetCount, whole>>

Interrupt ==
  /\ resets = <<>> /\ awake /\ wire # <<>>
  /\ wire' = Tail(wire)
  /\ Dispatch(Head(wire), <<>>)
  /\ UNCHANGED <<mouse, installed, awake, cut, incidents>>

-----------------------------------------------------------------------------
(* What a command may make of the mouse; it drops a packet it has begun.   *)
(* Three sample rates in a row make a mouse with a wheel send wide packets *)
(* if they arrive (a rate is sent after the acknowledge of its command),   *)
(* and the defaults may make it send narrow ones again.                    *)
Disabling == {"sleep", "disable", "defaults"}
Widths(command, acknowledged) ==
  IF command \in Disabling THEN {FALSE, mouse.wide}
  ELSE {mouse.wide \/ (command = "rates" /\ acknowledged /\ mouse.wheel)}
Commanded(command, acknowledged) ==
  {[mouse EXCEPT !.sent = 0, !.wide = w,
                 !.reporting = command \notin Disabling /\ (@ \/ command = "enable")]
     : w \in Widths(command, acknowledged)}

(* The bytes with which it answers.                                        *)
Answer(command) ==
  IF command \in {"id", "explorer id"}
  THEN <<Ack, Other(IF mouse.wheel /\ mouse.wide THEN "wheel id" ELSE "zero")>>
  ELSE <<Ack>>

(* The command a reset goes on with, and the resets left when it is done.  *)
After(r, acknowledged) ==
  CASE r.at = "disable" -> "defaults"
    [] r.at = "defaults" -> "resolution"
    [] r.at = "resolution" -> "rates"
    [] r.at = "rates" -> "id"
    [] r.at = "id" -> IF acknowledged THEN "id byte" ELSE "restore"
    [] r.at = "explorer rates" -> "explorer id"
    [] r.at = "explorer id" -> IF acknowledged THEN "explorer byte" ELSE "restore"
    [] r.at = "restore" -> "command byte"
Continue(r, acknowledged) ==
  IF r.at \in {"sleep", "enable"} THEN Tail(resets)
  ELSE <<[r EXCEPT !.at = After(r, acknowledged)]>> \o Tail(resets)

(* A command and its acknowledge, read with readDataPort(kDT_Mouse,        *)
(* kSC_Acknowledge): one unexpected byte is put aside and dispatched when  *)
(* the acknowledge follows; a second one is dispatched instead of it and   *)
(* the command has failed, as it has when nothing more comes. The command  *)
(* that follows the last mouse ID has set _packetLength before.            *)
AckCommands == Commands \ {"id byte", "explorer byte", "command byte"}

Command ==
  /\ resets # <<>> /\ Head(resets).at \in AckCommands
  /\ LET r == Head(resets)
         all == wire \o Answer(r.at)
         first == Head(all) = Ack
         second == Len(all) > 1 /\ all[2] = Ack
     IN  /\ mouse' \in Commanded(r.at, first \/ second)
         /\ IF first
            THEN wire' = Tail(all) /\ NoDispatch(Continue(r, TRUE))
            ELSE /\ wire' = SubSeq(all, 3, Len(all))
                 /\ Dispatch(IF second THEN all[1] ELSE all[2], Continue(r, second))
  /\ UNCHANGED <<installed, awake, cut, incidents>>

(* setIntellimouseMode has found out the kind of mouse: resetMouse sets    *)
(* the packet length and throws the packet away that had begun.            *)
SetPacketLength(wheel) ==
  /\ packetLength' = IF wheel THEN Intellimouse ELSE Standard
  /\ buffer' = <<>>

(* The mouse's ID is whatever byte comes next, data included; a second     *)
(* query follows for a mouse with a wheel, whose answer does not matter.   *)
IdByte ==
  /\ resets # <<>> /\ Head(resets).at \in {"id byte", "explorer byte"}
  /\ LET r == Head(resets)
     IN  \E wheel \in BOOLEAN :
           /\ IF r.at = "explorer byte" THEN wheel = r.wheel
              ELSE IF wire # <<>> /\ Head(wire).kind = "data" THEN ~Head(wire).sync \/ ~wheel
              ELSE wheel = (wire # <<>> /\ Head(wire).kind = "wheel id")
           /\ wire' = IF wire = <<>> THEN <<>> ELSE Tail(wire)
           /\ IF r.at = "id byte" /\ wheel
              THEN /\ resets' = <<[at |-> "explorer rates", wheel |-> TRUE]>> \o Tail(resets)
                   /\ UNCHANGED <<packetLength, buffer>>
              ELSE /\ resets' = <<[at |-> "restore", wheel |-> wheel]>> \o Tail(resets)
                   /\ SetPacketLength(wheel)
  /\ UNCHANGED <<mouse, resetCount, installed, awake, whole, cut, incidents>>

(* setCommandByte reads the keyboard's stream: what the mouse sends in the *)
(* meantime is dispatched.                                                 *)
CommandByte ==
  /\ resets # <<>> /\ Head(resets).at = "command byte"
  /\ NoDispatch(<<[Head(resets) EXCEPT !.at = "enable"]>> \o Tail(resets))
  /\ UNCHANGED <<mouse, wire, installed, awake, cut, incidents>>

CommandByteMeetsData ==
  /\ resets # <<>> /\ Head(resets).at = "command byte" /\ wire # <<>>
  /\ wire' = Tail(wire) /\ Dispatch(Head(wire), resets)
  /\ UNCHANGED <<mouse, installed, awake, cut, incidents>>

(* start goes on: the interrupt routine is installed.                      *)
InstallInterruptAction ==
  /\ resets = <<>> /\ ~installed
  /\ installed' = TRUE
  /\ UNCHANGED <<mouse, wire, driverVars, awake, cut, incidents>>

(* setDevicePowerState                                                     *)
DisableDevice ==
  /\ resets = <<>> /\ installed /\ awake /\ incidents.sleeps < MaxSleeps
  /\ awake' = FALSE /\ resets' = <<Reset("sleep")>>
  /\ incidents' = [incidents EXCEPT !.sleeps = @ + 1]
  /\ UNCHANGED <<mouse, wire, buffer, packetLength, resetCount, installed, whole, cut>>

EnableDevice ==
  /\ resets = <<>> /\ ~awake
  /\ awake' = TRUE /\ resets' = <<Reset("defaults")>>
  /\ UNCHANGED <<mouse, wire, buffer, packetLength, resetCount, installed, whole, cut, incidents>>

-----------------------------------------------------------------------------
(* The mouse is moved and sends the next byte of a packet. The first has   *)
(* bit 3 set; another one with bit 3 set may be taken for a first one.     *)
NextByte(sync) == [kind |-> "data", place |-> mouse.sent + 1, sync |-> sync]
Advance == [mouse EXCEPT !.sent = (@ + 1) % Width(mouse)]

SendByte ==
  /\ mouse.reporting /\ Len(wire) < MaxUnread
  /\ \E sync \in BOOLEAN :
       /\ mouse.sent = 0 => sync
       /\ wire' = Append(wire, NextByte(sync))
       /\ LET odd == IF mouse.sent > 0 /\ sync THEN 1 ELSE 0
              stray == IF resets # <<>> THEN 1 ELSE 0
          IN  /\ odd = 1 => incidents.odd < MaxOdd
              /\ stray = 1 => incidents.strays < MaxStrays
              /\ incidents' = [incidents EXCEPT !.odd = @ + odd, !.strays = @ + stray]
  /\ mouse' = Advance
  /\ UNCHANGED <<driverVars, installed, awake, cut>>

LoseByte ==
  /\ mouse.reporting /\ incidents.lost < MaxGlitches
  /\ mouse' = Advance
  /\ incidents' = [incidents EXCEPT !.lost = @ + 1]
  /\ UNCHANGED <<wire, driverVars, installed, awake, cut>>

DataUnread == \E i \in 1 .. Len(wire) : wire[i].kind = "data"

(* Another mouse, or the same one, is plugged in.                          *)
HotPlug ==
  /\ incidents.plugs < MaxPlugs
  /\ mouse' \in [wheel : BOOLEAN, wide : {FALSE}, reporting : {FALSE}, sent : {0}]
  /\ wire' = wire \o <<Other("aa"), Other("zero")>>
  /\ cut' = (cut \/ ~installed \/ buffer # <<>> \/ mouse.sent # 0 \/ DataUnread)
  /\ incidents' = [incidents EXCEPT !.plugs = @ + 1]
  /\ UNCHANGED <<driverVars, installed, awake>>

Driver ==
  \/ Interrupt \/ Command \/ IdByte
  \/ CommandByte \/ CommandByteMeetsData \/ InstallInterruptAction

Next == Driver \/ DisableDevice \/ EnableDevice \/ SendByte \/ LoseByte \/ HotPlug

(* The work loop goes on, a computer that sleeps wakes up, and the mouse   *)
(* is moved again and again.                                               *)
Fairness == WF_vars(Driver) /\ WF_vars(EnableDevice) /\ WF_vars(SendByte)

Spec == Init /\ [][Next]_vars /\ Fairness

-----------------------------------------------------------------------------
(* The packet buffer never holds a packet's worth: interruptOccurred       *)
(* compares the count for equality, and beyond it would write past the end *)
(* of _packetBuffer. The length changes while resets are nested.           *)
PacketFits == Len(buffer) < packetLength

(* The driver is at rest, the mouse would say all it has to say.           *)
AtRest == resets = <<>> /\ wire = <<>> /\ installed /\ awake

(* "Reset the mouse and hope for the best": a mouse that is plugged in     *)
(* between two packets is enabled again.                                   *)
PluggedIsEnabled == AtRest /\ ~cut => mouse.reporting

(* "Reset the mouse when packet synchronization is lost": however bytes    *)
(* are lost, taken for others, or met amid resets and sleeps, the driver   *)
(* takes a whole packet again in the end; it neither stays shifted nor     *)
(* resets the mouse for ever nor leaves it disabled. Left out is a mouse   *)
(* that is not enabled because it was plugged in amid a packet (see cut).  *)
SynchronisesAgain == ~whole ~> (whole \/ (cut /\ ~mouse.reporting))
=============================================================================
