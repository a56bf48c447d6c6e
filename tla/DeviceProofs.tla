---------------------------- MODULE DeviceProofs -----------------------------
(***************************************************************************)
(* Proofs about the battery manager and the ATA driver, which share        *)
(* nothing.                                                                *)
(*                                                                         *)
(* What a poll of a battery publishes agrees with it, for any set of       *)
(* batteries and any number of changes, failures and wake-ups: each step   *)
(* of a poll during which nothing changed has brought one more part up to  *)
(* date.                                                                   *)
(*                                                                         *)
(* The ATA timings are safe, for any drives, cables and sequences of       *)
(* requests: the copies hold the timings selected, which suit what was     *)
(* asked; each register that is not still to be written agrees with the    *)
(* copies in the fields of its channel; and a write leaves the fields of   *)
(* the other channel alone.                                                *)
(***************************************************************************)
EXTENDS ACPIBattery, PIIXTimings, TLAPS

(* How far a poll in which nothing has changed or failed has come.         *)
AtPoll ==
  /\ poll \in Polling \cup {None}
  /\ fresh /\ poll \in {"bif", "bst"} => Present /\ installed
  /\ fresh /\ poll = "bst" => info = battery
  /\ fresh /\ poll \in {"arm", None} => Agrees

LEMMA PollNames == Polling = {"sta", "bif", "bst", "arm"} /\ None \notin Polling
  BY DEF Polling, None

(* Nobody polls, and neither the battery nor what is published changes.    *)
LEMMA AgreesStays ==
  ASSUME Agrees, UNCHANGED <<battery, charge, published>>
  PROVE  Agrees'
  BY DEF Agrees, Present, published

LEMMA FreshInit == Init => AtPoll
  BY PollNames DEF Init, AtPoll, None

LEMMA FreshStep ==
  ASSUME AtPoll, [Next]_vars
  PROVE  AtPoll'
<1> USE PollNames
<1>1. CASE PollingTimeOut
  BY <1>1 DEF PollingTimeOut, BeginPoll, AtPoll, None
<1>2. CASE PollSTA
  <2>1. CASE ~fresh'
    BY <1>2, <2>1 DEF PollSTA, AtPoll
  <2>2. CASE fresh' /\ Present
    BY <1>2, <2>2 DEF PollSTA, AtPoll, Present, hardware, None
  <2>3. CASE fresh' /\ ~Present
    <3>1. poll' = "arm" /\ NoBattery /\ UNCHANGED hardware
      BY <1>2, <2>3 DEF PollSTA
    <3>2. Agrees'
      BY <2>3, <3>1 DEF NoBattery, ClearBatteryState, Agrees, Present, hardware
    <3>3. QED BY <3>1, <3>2 DEF AtPoll
  <2>4. QED BY <2>1, <2>2, <2>3
<1>3. CASE PollBIF
  <2>1. poll = "bif" /\ poll' = "bst" /\ UNCHANGED <<battery, installed>>
    BY <1>3 DEF PollBIF, hardware
  <2>2. CASE Fails
    BY <2>1, <2>2 DEF Fails, AtPoll, None
  <2>3. CASE Succeeds /\ info' = battery
    BY <2>1, <2>3 DEF Succeeds, AtPoll, Present, None
  <2>4. QED BY <1>3, <2>2, <2>3 DEF PollBIF
<1>4. CASE PollBST
  <2>1. /\ poll = "bst" /\ poll' = "arm"
        /\ UNCHANGED <<battery, charge, installed, info>>
    BY <1>4 DEF PollBST, hardware
  <2>2. CASE Fails
    BY <2>1, <2>2 DEF Fails, AtPoll, None
  <2>3. CASE /\ Succeeds /\ status' = battery
             /\ fullyCharged' = (charge = "charged") /\ isCharging' = (charge = "charging")
    <3>1. fresh' => Agrees'
      BY <2>1, <2>3 DEF Succeeds, AtPoll, Agrees, Present
    <3>2. QED BY <2>1, <3>1 DEF AtPoll, None
  <2>4. QED BY <1>4, <2>2, <2>3 DEF PollBST
<1>5. CASE EndPoll
  <2>1. poll = "arm" /\ poll' = None /\ UNCHANGED <<battery, charge, published, fresh>>
    BY <1>5 DEF EndPoll, hardware
  <2>2. fresh => Agrees'
    BY <2>1, AgreesStays DEF AtPoll
  <2>3. QED BY <2>1, <2>2 DEF AtPoll, None
<1>6. CASE MakeGates \/ Message \/ Compare \/ UNCHANGED vars
  <2>1. UNCHANGED <<battery, charge, published, fresh, poll>>
    BY <1>6 DEF MakeGates, Message, Compare, vars, hardware
  <2>2. Agrees => Agrees'
    BY <2>1, AgreesStays
  <2>3. QED BY <2>1, <2>2 DEF AtPoll, Present, published
<1>7. CASE WakeUp \/ HandleBatteryInserted \/ Alarm
  <2>1. poll' = "sta"
    BY <1>7 DEF WakeUp, HandleBatteryInserted, Alarm, BeginPoll
  <2>2. QED BY <2>1 DEF AtPoll, None
<1>8. CASE HandleBatteryRemoved
  BY <1>8 DEF HandleBatteryRemoved, GateFree, AtPoll
<1>9. CASE Change
  BY <1>9 DEF Change, AtPoll
<1>10. QED
  BY <1>1, <1>2, <1>3, <1>4, <1>5, <1>6, <1>7, <1>8, <1>9 DEF Next, WorkLoop, Notification

(* When nobody polls, and nothing changed or failed while the last poll was *)
(* under way, what is published is the battery that is in, or that none is. *)
THEOREM FreshAgreement == Spec => []FreshAgrees
<1>1. AtPoll => FreshAgrees
  BY DEF AtPoll, FreshAgrees
<1>2. QED
  BY FreshInit, FreshStep, <1>1, PTL DEF Spec

(* Whatever starts a poll or cancels the timer, when nobody polls the next  *)
(* poll is on its way.                                                      *)
THEOREM TimerRunsOn == Spec => []NextPollComes
<1>1. Init => NextPollComes
  BY DEF Init, NextPollComes, None
<1>2. NextPollComes /\ [Next]_vars => NextPollComes'
  <2> SUFFICES ASSUME NextPollComes, [Next]_vars PROVE NextPollComes'
    OBVIOUS
  <2> USE DEF NextPollComes
  <2>1. CASE PollingTimeOut \/ WakeUp \/ HandleBatteryInserted \/ Alarm
    BY <2>1 DEF PollingTimeOut, WakeUp, HandleBatteryInserted, Alarm, BeginPoll, None
  <2>2. CASE PollSTA \/ PollBIF \/ PollBST
    BY <2>2 DEF PollSTA, PollBIF, PollBST, None
  <2>3. CASE EndPoll
    BY <2>3 DEF EndPoll, RestartTimer
  <2>4. CASE \/ MakeGates \/ Message \/ Compare \/ HandleBatteryRemoved \/ Change
             \/ UNCHANGED vars
    BY <2>4 DEF MakeGates, Message, Compare, HandleBatteryRemoved, Change, vars
  <2>5. QED
    BY <2>1, <2>2, <2>3, <2>4 DEF Next, WorkLoop, Notification
<1>3. QED
  BY <1>1, <1>2, PTL DEF Spec

(* The battery manager never publishes anything but a battery that was in  *)
(* or none, and a poll is always at one of its steps.                      *)
THEOREM BatteryTypeCorrect == Spec => []TypeOK
<1> USE BatteryAssumption
<1>1. Init => TypeOK
  <2>1. [changes |-> 0, failures |-> 0, wakes |-> 0]
          \in [changes : 0 .. MaxChanges, failures : 0 .. MaxFailures, wakes : 0 .. MaxWakes]
    OBVIOUS
  <2> SUFFICES ASSUME Init PROVE TypeOK
    OBVIOUS
  <2>2. /\ battery \in Batteries \cup {None} /\ charge \in States /\ pending = 0
        /\ fBatteryGate = FALSE /\ fBatterySTA = FALSE /\ noticed = None
        /\ poll = "sta" /\ armed = FALSE /\ fBatteryPresent = FALSE
        /\ installed = FALSE /\ info = None /\ status = None
        /\ fullyCharged = FALSE /\ isCharging = FALSE /\ fresh = TRUE
    BY DEF Init
  <2>3. incidents = [changes |-> 0, failures |-> 0, wakes |-> 0]
    BY DEF Init
  <2> QED
    BY <2>1, <2>2, <2>3 DEF TypeOK, Polling
<1>2. TypeOK /\ [Next]_vars => TypeOK'
  <2> SUFFICES ASSUME TypeOK, [Next]_vars PROVE TypeOK'
    OBVIOUS
  <2>f. incidents.failures < MaxFailures
          => [incidents EXCEPT !.failures = @ + 1]
               \in [changes : 0 .. MaxChanges, failures : 0 .. MaxFailures, wakes : 0 .. MaxWakes]
    BY DEF TypeOK
  <2>c. incidents.changes < MaxChanges
          => [incidents EXCEPT !.changes = @ + 1]
               \in [changes : 0 .. MaxChanges, failures : 0 .. MaxFailures, wakes : 0 .. MaxWakes]
    BY DEF TypeOK
  <2>w. incidents.wakes < MaxWakes
          => [incidents EXCEPT !.wakes = @ + 1]
               \in [changes : 0 .. MaxChanges, failures : 0 .. MaxFailures, wakes : 0 .. MaxWakes]
    BY DEF TypeOK
  <2>s. Succeeds \/ Fails
          => /\ fresh' \in BOOLEAN
             /\ incidents' \in [changes : 0 .. MaxChanges, failures : 0 .. MaxFailures, wakes : 0 .. MaxWakes]
    BY <2>f DEF Succeeds, Fails, TypeOK
  <2> USE DEF TypeOK, Polling, hardware, published
  <2>1. CASE PollingTimeOut \/ HandleBatteryInserted \/ Alarm
    BY <2>1 DEF PollingTimeOut, HandleBatteryInserted, Alarm, BeginPoll
  <2>2. CASE WakeUp
    BY <2>2, <2>w DEF WakeUp, BeginPoll
  <2>3. CASE PollSTA
    BY <2>3, <2>f DEF PollSTA, NoBattery, ClearBatteryState, Present
  <2>4. CASE PollBIF
    <3>1. info' \in Batteries \cup {None}
      BY <2>4 DEF PollBIF
    <3>2. (Succeeds \/ Fails) /\ poll' = "bst"
      BY <2>4 DEF PollBIF
    <3>3. UNCHANGED <<battery, charge, pending, fBatteryGate, fBatterySTA, noticed, armed,
                      fBatteryPresent, installed, status, fullyCharged, isCharging>>
      BY <2>4 DEF PollBIF
    <3> QED
      BY <2>s, <3>1, <3>2, <3>3
  <2>5. CASE PollBST
    <3>1. /\ status' \in Batteries \cup {None} /\ fullyCharged' \in BOOLEAN
          /\ isCharging' \in BOOLEAN
      BY <2>5 DEF PollBST
    <3>2. (Succeeds \/ Fails) /\ poll' = "arm"
      BY <2>5 DEF PollBST
    <3>3. UNCHANGED <<battery, charge, pending, fBatteryGate, fBatterySTA, noticed, armed,
                      fBatteryPresent, installed, info>>
      BY <2>5 DEF PollBST
    <3> QED
      BY <2>s, <3>1, <3>2, <3>3
  <2>6. CASE EndPoll
    BY <2>6 DEF EndPoll, RestartTimer
  <2>11. CASE MakeGates
    BY <2>11 DEF MakeGates
  <2>12. CASE UNCHANGED vars
    BY <2>12 DEF vars
  <2>7. CASE Message
    <3>1. pending' \in Nat
      BY <2>7 DEF Message
    <3> QED
      BY <2>7, <2>f, <3>1 DEF Message, Notices
  <2>8. CASE Compare
    BY <2>8 DEF Compare, Notices
  <2>9. CASE HandleBatteryRemoved
    BY <2>9 DEF HandleBatteryRemoved, ClearBatteryState
  <2>10. CASE Change
    <3>1. pending' \in Nat
      BY <2>10 DEF Change
    <3>2. battery' \in Batteries \cup {None} /\ charge' \in States
      BY <2>10 DEF Change
    <3>3. incidents' \in [changes : 0 .. MaxChanges, failures : 0 .. MaxFailures, wakes : 0 .. MaxWakes]
      BY <2>10, <2>c DEF Change
    <3>4. fresh' \in BOOLEAN
      BY <2>10 DEF Change
    <3>5. UNCHANGED <<fBatteryGate, fBatterySTA, noticed, poll, armed, fBatteryPresent, installed,
                      info, status, fullyCharged, isCharging>>
      BY <2>10 DEF Change
    <3> QED
      BY <3>1, <3>2, <3>3, <3>4, <3>5
  <2> QED
    BY <2>1, <2>2, <2>3, <2>4, <2>5, <2>6, <2>7, <2>8, <2>9, <2>10, <2>11, <2>12
    DEF Next, WorkLoop, Notification
<1> QED
  BY <1>1, <1>2, PTL DEF Spec

-----------------------------------------------------------------------------
(* The tables of the modes.                                                *)
LEMMA PIOTable ==
  /\ PIOTiming[0].index = 1 /\ PIOTiming[1].index = 1 /\ PIOTiming[2].index = 2
  /\ PIOTiming[3].index = 3 /\ PIOTiming[4].index = 4
  /\ PIOTiming[0].cycleTime = 600 /\ PIOTiming[1].cycleTime = 383 /\ PIOTiming[2].cycleTime = 240
  /\ PIOTiming[3].cycleTime = 180 /\ PIOTiming[4].cycleTime = 120
BY DEF PIOTiming

LEMMA DMATable ==
  /\ DMATiming[0].index = 1 /\ DMATiming[1].index = 3 /\ DMATiming[2].index = 4
  /\ DMATiming[0].cycleTime = 480 /\ DMATiming[1].cycleTime = 180 /\ DMATiming[2].cycleTime = 120
BY DEF DMATiming

LEMMA UDMATable ==
  /\ UDMATiming[0].udmatim = {} /\ UDMATiming[1].udmatim = {0} /\ UDMATiming[2].udmatim = {1}
  /\ UDMATiming[3].udmatim = {0} /\ UDMATiming[4].udmatim = {1} /\ UDMATiming[5].udmatim = {0}
  /\ UDMATiming[0].udmaClock = {} /\ UDMATiming[1].udmaClock = {} /\ UDMATiming[2].udmaClock = {}
  /\ UDMATiming[3].udmaClock = {0} /\ UDMATiming[4].udmaClock = {0} /\ UDMATiming[5].udmaClock = {12}
  /\ UDMATiming[0].cycle = 120 /\ UDMATiming[1].cycle = 90 /\ UDMATiming[2].cycle = 60
  /\ UDMATiming[3].cycle = 45 /\ UDMATiming[4].cycle = 30 /\ UDMATiming[5].cycle = 20
BY DEF UDMATiming, PCB0, FAST_PCB0

(* The cycle time the chip makes of an index.                              *)
Speed(index) == IF index = 1 THEN 600 ELSE IF index = 2 THEN 240 ELSE IF index = 3 THEN 180 ELSE 120

Timings == [pio : 0 .. 4, dma : -1 .. 2, udma : -1 .. 5]
Copies == [idetim : [Units -> SUBSET (0 .. 15)], sidetim : SUBSET (0 .. 7),
           udmactl : SUBSET (0 .. 3), udmatim : SUBSET (0 .. 15), ideConfig : SUBSET (0 .. 15)]

LEMMA SmallNumbers ==
  /\ \A m \in 0 .. 4 : m = 0 \/ m = 1 \/ m = 2 \/ m = 3 \/ m = 4
  /\ \A m \in 0 .. 5 : m = 0 \/ m = 1 \/ m = 2 \/ m = 3 \/ m = 4 \/ m = 5
  /\ \A m \in 0 .. 2 : m = 0 \/ m = 1 \/ m = 2
  /\ \A m \in 1 .. 4 : m = 1 \/ m = 2 \/ m = 3 \/ m = 4
OBVIOUS

LEMMA IndexFacts ==
  ASSUME NEW t \in Timings
  PROVE  /\ Index(t) \in 1 .. 4 /\ Cycle(t) \in Nat /\ Cycle(t) <= Speed(Index(t)) /\ Speed(Index(t)) <= 600
         /\ t.dma # NoMode => Cycle(t) = DMATiming[t.dma].cycleTime
         /\ t.dma = 0 => Index(t) = 1
<1>1. t.pio \in 0 .. 4 /\ (t.dma # NoMode => t.dma \in 0 .. 2)
  BY DEF Timings, NoMode
<1>2. CASE t.dma = NoMode
  <2>1. Index(t) = PIOTiming[t.pio].index /\ Cycle(t) = PIOTiming[t.pio].cycleTime
    BY <1>2 DEF Index, Cycle
  <2>2. t.pio = 0 \/ t.pio = 1 \/ t.pio = 2 \/ t.pio = 3 \/ t.pio = 4
    BY <1>1
  <2>3. Index(t) \in 1 .. 4 /\ Cycle(t) \in Nat /\ Cycle(t) <= Speed(Index(t)) /\ Speed(Index(t)) <= 600
    BY <2>1, <2>2, PIOTable DEF Speed
  <2> QED
    BY <1>2, <2>3 DEF NoMode
<1>3. CASE t.dma # NoMode
  <2>1. Index(t) = DMATiming[t.dma].index /\ Cycle(t) = DMATiming[t.dma].cycleTime
    BY <1>3 DEF Index, Cycle
  <2>2. t.dma = 0 \/ t.dma = 1 \/ t.dma = 2
    BY <1>1, <1>3
  <2>3. Index(t) \in 1 .. 4 /\ Cycle(t) \in Nat /\ Cycle(t) <= Speed(Index(t)) /\ Speed(Index(t)) <= 600
    BY <2>1, <2>2, DMATable DEF Speed
  <2>4. t.dma = 0 => Index(t) = 1
    BY <2>1, DMATable
  <2> QED
    BY <2>1, <2>3, <2>4
<1> QED
  BY <1>2, <1>3

(* The fields of the registers.                                            *)
LEMMA Places ==
  /\ SideMask(0) = {0, 1, 2, 3} /\ SideMask(1) = {4, 5, 6, 7}
  /\ UDMATIMMask(0, 0) = {0, 1} /\ UDMATIMMask(0, 1) = {4, 5}
  /\ UDMATIMMask(1, 0) = {8, 9} /\ UDMATIMMask(1, 1) = {12, 13}
  /\ ClockMask(0, 0) = {0, 12} /\ ClockMask(0, 1) = {1, 13}
  /\ ClockMask(1, 0) = {2, 14} /\ ClockMask(1, 1) = {3, 15}
  /\ UDMAEnable(0, 0) = 0 /\ UDMAEnable(0, 1) = 1 /\ UDMAEnable(1, 0) = 2 /\ UDMAEnable(1, 1) = 3
<1>1. SideMask(0) = {0, 1, 2, 3} /\ SideMask(1) = {4, 5, 6, 7}
  BY DEF SideMask, Shift
<1>2. /\ UDMATIMMask(0, 0) = {0, 1} /\ UDMATIMMask(0, 1) = {4, 5}
      /\ UDMATIMMask(1, 0) = {8, 9} /\ UDMATIMMask(1, 1) = {12, 13}
  BY DEF UDMATIMMask, Shift
<1>3. /\ ClockMask(0, 0) = {0, 12} /\ ClockMask(0, 1) = {1, 13}
      /\ ClockMask(1, 0) = {2, 14} /\ ClockMask(1, 1) = {3, 15}
  BY DEF ClockMask, ClockShift, Shift, PCB0, FAST_PCB0
<1> QED
  BY <1>1, <1>2, <1>3 DEF UDMAEnable

LEMMA IDETIMs ==
  /\ IDETIM(1, 0) = {15} /\ IDETIM(2, 0) = {15, 0, 1, 2, 12} /\ IDETIM(3, 0) = {15, 0, 1, 2, 13, 8}
  /\ IDETIM(4, 0) = {15, 0, 1, 2, 13, 9, 8}
  /\ IDETIM(1, 1) = {15, 14}
  /\ \A i \in {2, 3, 4} : IDETIM(i, 1) = {15, 4, 5, 6, 14}
<1>1. Fast(0) = {0, 1, 2} /\ Fast(1) = {4, 5, 6}
  BY DEF Fast, Shift
<1>2. Points[1] = {} /\ Points[2] = {12} /\ Points[3] = {13, 8} /\ Points[4] = {13, 9, 8}
  BY DEF Points
<1> QED
  BY <1>1, <1>2 DEF IDETIM, IDE, SITRE

LEMMA SIDETIMs ==
  /\ SIDETIM(1, 0) = {} /\ SIDETIM(2, 0) = {2} /\ SIDETIM(3, 0) = {3, 0} /\ SIDETIM(4, 0) = {3, 1, 0}
  /\ SIDETIM(1, 1) = {} /\ SIDETIM(2, 1) = {6} /\ SIDETIM(3, 1) = {7, 4} /\ SIDETIM(4, 1) = {7, 5, 4}
<1>1. SidePoints[1] = {} /\ SidePoints[2] = {2} /\ SidePoints[3] = {3, 0} /\ SidePoints[4] = {3, 1, 0}
  BY DEF SidePoints
<1> QED
  BY <1>1 DEF SIDETIM, Shift

-----------------------------------------------------------------------------
(* Two registers that agree on a field.                                    *)
Alike(S, T, M) == \A b \in M : b \in S <=> b \in T

(* The copies r hold the timing t of a unit.                               *)
HasTiming(r, t, unit) == r.idetim[unit] = IDETIM(Index(t), unit)
HasSide(r, t, channel) == Alike(r.sidetim, SIDETIM(Index(t), channel), SideMask(channel))
HasUDMA(r, t, channel, unit) ==
  /\ UDMAEnable(channel, unit) \in r.udmactl <=> t.udma # NoMode
  /\ t.udma # NoMode =>
       /\ Alike(r.udmatim, Shift(UDMATiming[t.udma].udmatim, 8 * channel + 4 * unit),
                UDMATIMMask(channel, unit))
       /\ Alike(r.ideConfig, Shift(UDMATiming[t.udma].udmaClock, ClockShift(channel, unit)),
                ClockMask(channel, unit))
Holds(r, t, channel, unit) ==
  /\ HasTiming(r, t, unit)
  /\ unit = 1 => HasSide(r, t, channel)
  /\ HasUDMA(r, t, channel, unit)

LEMMA TimingBits ==
  ASSUME NEW t \in Timings, NEW unit \in Units
  PROVE  /\ IDETIM(Index(t), unit) \subseteq 0 .. 15
         /\ IDETIM(Index(t), unit) \ (IF SlowPIO(t) THEN {DTE(unit)} ELSE {}) = IDETIM(Index(t), unit)
<1>1. Index(t) = 1 \/ Index(t) = 2 \/ Index(t) = 3 \/ Index(t) = 4
  BY IndexFacts, SmallNumbers
<1>2. unit = 0 \/ unit = 1
  BY DEF Units
<1>3. DTE(0) = 3 /\ DTE(1) = 7
  BY DEF DTE
<1>4. IDETIM(Index(t), unit) \subseteq 0 .. 15 /\ DTE(unit) \notin IDETIM(Index(t), unit)
  <2>1. CASE unit = 0
    BY <1>1, <1>3, <2>1, IDETIMs
  <2>2. CASE unit = 1
    BY <1>1, <1>3, <2>2, IDETIMs
  <2> QED
    BY <1>2, <2>1, <2>2
<1> QED
  BY <1>4

LEMMA SideBits ==
  ASSUME NEW t \in Timings, NEW channel \in Channels
  PROVE  SIDETIM(Index(t), channel) \subseteq SideMask(channel) /\ SideMask(channel) \subseteq 0 .. 7
<1>1. Index(t) = 1 \/ Index(t) = 2 \/ Index(t) = 3 \/ Index(t) = 4
  BY IndexFacts, SmallNumbers
<1>2. CASE channel = 0
  BY <1>1, <1>2, SIDETIMs, Places
<1>3. CASE channel = 1
  BY <1>1, <1>3, SIDETIMs, Places
<1> QED
  BY <1>2, <1>3 DEF Channels

LEMMA ShiftIs == ASSUME NEW n \in Int
                 PROVE  /\ Shift({}, n) = {} /\ Shift({0}, n) = {n} /\ Shift({1}, n) = {n + 1}
                        /\ Shift({12}, n) = {n + 12}
BY DEF Shift

LEMMA ShiftIn ==
  /\ \A n \in Int, X \in {{}, {0}, {1}} : Shift(X, n) \subseteq {n, n + 1}
  /\ \A n \in Int, X \in {{}, {0}, {12}} : Shift(X, n) \subseteq {n, n + 12}
BY ShiftIs

LEMMA UDMABits ==
  ASSUME NEW m \in 0 .. 5, NEW channel \in Channels, NEW unit \in Units
  PROVE  /\ Shift(UDMATiming[m].udmatim, 8 * channel + 4 * unit) \subseteq UDMATIMMask(channel, unit)
         /\ Shift(UDMATiming[m].udmaClock, ClockShift(channel, unit)) \subseteq ClockMask(channel, unit)
         /\ UDMATIMMask(channel, unit) \subseteq 0 .. 15 /\ ClockMask(channel, unit) \subseteq 0 .. 15
         /\ UDMAEnable(channel, unit) \in 0 .. 3
<1>1. m = 0 \/ m = 1 \/ m = 2 \/ m = 3 \/ m = 4 \/ m = 5
  BY SmallNumbers
<1>2. channel \in Int /\ unit \in Int
  BY DEF Channels, Units
<1>3. UDMATIMMask(channel, unit) = {8 * channel + 4 * unit, 8 * channel + 4 * unit + 1}
  BY <1>2 DEF UDMATIMMask, Shift
<1>4. ClockMask(channel, unit) = {ClockShift(channel, unit), ClockShift(channel, unit) + 12}
      /\ ClockShift(channel, unit) = 2 * channel + unit
  BY <1>2 DEF ClockMask, ClockShift, Shift, PCB0, FAST_PCB0
<1>5. UDMATiming[m].udmatim \in {{}, {0}, {1}} /\ UDMATiming[m].udmaClock \in {{}, {0}, {12}}
  BY <1>1, UDMATable
<1>6. Shift(UDMATiming[m].udmatim, 8 * channel + 4 * unit) \subseteq UDMATIMMask(channel, unit)
  <2> DEFINE p == 8 * channel + 4 * unit
  <2>1. p \in Int
    BY <1>2
  <2>2. UDMATIMMask(channel, unit) = {p, p + 1}
    BY <1>3
  <2> HIDE DEF p
  <2>3. Shift(UDMATiming[m].udmatim, p) \subseteq UDMATIMMask(channel, unit)
    BY <1>5, <2>1, <2>2, ShiftIn
  <2> QED
    BY <2>3 DEF p
<1>7. Shift(UDMATiming[m].udmaClock, ClockShift(channel, unit)) \subseteq ClockMask(channel, unit)
  <2> DEFINE p == ClockShift(channel, unit)
  <2>1. p \in Int /\ ClockMask(channel, unit) = {p, p + 12}
    BY <1>2, <1>4
  <2> HIDE DEF p
  <2>2. Shift(UDMATiming[m].udmaClock, p) \subseteq ClockMask(channel, unit)
    BY <1>5, <2>1, ShiftIn
  <2> QED
    BY <2>2 DEF p
<1>8. UDMAEnable(channel, unit) \in 0 .. 3 /\ UDMATIMMask(channel, unit) \subseteq 0 .. 15
      /\ ClockMask(channel, unit) \subseteq 0 .. 15
  BY <1>3, <1>4 DEF UDMAEnable, Channels, Units
<1> QED
  BY <1>6, <1>7, <1>8

(* computeTimingRegisters.                                                 *)
LEMMA TimingComputed ==
  ASSUME NEW r \in Copies, NEW t \in Timings, NEW channel \in Channels, NEW unit \in Units
  PROVE  LET n == ComputeTiming(r, t, channel, unit)
         IN  /\ n \in Copies
             /\ HasTiming(n, t, unit)
             /\ unit = 1 => HasSide(n, t, channel)
             /\ \A v \in Units \ {unit} : n.idetim[v] = r.idetim[v]
             /\ unit = 0 => n.sidetim = r.sidetim
             /\ n.udmactl = r.udmactl /\ n.udmatim = r.udmatim
             /\ Alike(n.ideConfig, r.ideConfig, (0 .. 15) \ {10})
<1> DEFINE n == ComputeTiming(r, t, channel, unit)
           side == (r.sidetim \ SideMask(channel)) \cup SIDETIM(Index(t), channel)
<1>1. n = [r EXCEPT !.idetim[unit] = IDETIM(Index(t), unit),
                    !.sidetim = IF unit = 1 THEN side ELSE r.sidetim,
                    !.ideConfig = r.ideConfig \cup {10}]
  BY TimingBits DEF ComputeTiming, WR_PP_EN, Copies
<1>2. /\ n.idetim = [r.idetim EXCEPT ![unit] = IDETIM(Index(t), unit)]
      /\ n.sidetim = (IF unit = 1 THEN side ELSE r.sidetim)
      /\ n.ideConfig = r.ideConfig \cup {10}
      /\ n.udmactl = r.udmactl /\ n.udmatim = r.udmatim
      /\ n = [idetim |-> n.idetim, sidetim |-> n.sidetim, udmactl |-> n.udmactl,
              udmatim |-> n.udmatim, ideConfig |-> n.ideConfig]
  BY <1>1 DEF Copies
<1> HIDE DEF n
<1>3. side \subseteq 0 .. 7 /\ Alike(side, SIDETIM(Index(t), channel), SideMask(channel))
  BY SideBits DEF Copies, Alike
<1> HIDE DEF side
<1>4. n.idetim \in [Units -> SUBSET (0 .. 15)] /\ n.idetim[unit] = IDETIM(Index(t), unit)
      /\ \A v \in Units \ {unit} : n.idetim[v] = r.idetim[v]
  BY <1>2, TimingBits DEF Copies
<1>5. n \in Copies
  BY <1>2, <1>3, <1>4 DEF Copies
<1>6. unit = 1 => HasSide(n, t, channel)
  BY <1>2, <1>3 DEF HasSide
<1>7. Alike(n.ideConfig, r.ideConfig, (0 .. 15) \ {10})
  BY <1>2 DEF Alike
<1>8. unit = 0 => n.sidetim = r.sidetim
  BY <1>2
<1> QED
  BY <1>2, <1>4, <1>5, <1>6, <1>7, <1>8 DEF HasTiming, n

(* computeUDMATimingRegisters.                                             *)
LEMMA UDMAComputed ==
  ASSUME NEW r \in Copies, NEW t \in Timings, NEW channel \in Channels, NEW unit \in Units
  PROVE  LET n == ComputeUDMA(r, t, channel, unit)
         IN  /\ n \in Copies
             /\ HasUDMA(n, t, channel, unit)
             /\ n.idetim = r.idetim /\ n.sidetim = r.sidetim
             /\ Alike(n.udmactl, r.udmactl, (0 .. 3) \ {UDMAEnable(channel, unit)})
             /\ Alike(n.udmatim, r.udmatim, (0 .. 15) \ UDMATIMMask(channel, unit))
             /\ Alike(n.ideConfig, r.ideConfig, (0 .. 15) \ ClockMask(channel, unit))
<1> DEFINE n == ComputeUDMA(r, t, channel, unit)
<1>1. CASE t.udma = NoMode
  <2>1. n = [r EXCEPT !.udmactl = r.udmactl \ {UDMAEnable(channel, unit)}]
    BY <1>1 DEF ComputeUDMA, Copies
  <2>2. /\ n.udmactl = r.udmactl \ {UDMAEnable(channel, unit)}
        /\ n.idetim = r.idetim /\ n.sidetim = r.sidetim /\ n.udmatim = r.udmatim
        /\ n.ideConfig = r.ideConfig /\ n \in Copies
    BY <2>1 DEF Copies
  <2> HIDE DEF n
  <2>3. HasUDMA(n, t, channel, unit)
    BY <1>1, <2>2 DEF HasUDMA
  <2> QED
    BY <2>2, <2>3 DEF Alike, n
<1>2. CASE t.udma # NoMode
  <2> DEFINE tim == Shift(UDMATiming[t.udma].udmatim, 8 * channel + 4 * unit)
             clock == Shift(UDMATiming[t.udma].udmaClock, ClockShift(channel, unit))
             M == UDMATIMMask(channel, unit)
             C == ClockMask(channel, unit)
             e == UDMAEnable(channel, unit)
  <2>1. n = [r EXCEPT !.udmactl = r.udmactl \cup {e}, !.udmatim = (r.udmatim \ M) \cup tim,
                      !.ideConfig = (r.ideConfig \ C) \cup clock]
    BY <1>2 DEF ComputeUDMA, NewClock, Copies
  <2>2. t.udma \in 0 .. 5
    BY <1>2 DEF Timings, NoMode
  <2>3. tim \subseteq M /\ clock \subseteq C /\ M \subseteq 0 .. 15 /\ C \subseteq 0 .. 15 /\ e \in 0 .. 3
    BY <2>2, UDMABits
  <2> HIDE DEF tim, clock, M, C, e
  <2>4. /\ n.udmactl = r.udmactl \cup {e} /\ n.udmatim = (r.udmatim \ M) \cup tim
        /\ n.ideConfig = (r.ideConfig \ C) \cup clock
        /\ n.idetim = r.idetim /\ n.sidetim = r.sidetim
        /\ n = [idetim |-> n.idetim, sidetim |-> n.sidetim, udmactl |-> n.udmactl,
                udmatim |-> n.udmatim, ideConfig |-> n.ideConfig]
    BY <2>1 DEF Copies
  <2> HIDE DEF n
  <2>5. n \in Copies
    BY <2>3, <2>4 DEF Copies
  <2>6. Alike(n.udmatim, tim, M) /\ Alike(n.ideConfig, clock, C)
    BY <2>4 DEF Alike
  <2>7. /\ Alike(n.udmactl, r.udmactl, (0 .. 3) \ {e})
        /\ Alike(n.udmatim, r.udmatim, (0 .. 15) \ M)
        /\ Alike(n.ideConfig, r.ideConfig, (0 .. 15) \ C)
    BY <2>3, <2>4 DEF Alike
  <2>8. HasUDMA(n, t, channel, unit)
    BY <1>2, <2>4, <2>6 DEF HasUDMA, tim, clock, M, C, e
  <2> QED
    BY <2>4, <2>5, <2>7, <2>8 DEF n, M, C, e
<1> QED
  BY <1>1, <1>2

(* The fields of different drives, and what else is in IDECONFIG.          *)
LEMMA FieldsApart ==
  ASSUME NEW c \in Channels, NEW u \in Units, NEW d \in Channels, NEW v \in Units, c # d \/ u # v
  PROVE  /\ UDMAEnable(c, u) \in (0 .. 3) \ {UDMAEnable(d, v)}
         /\ UDMATIMMask(c, u) \subseteq (0 .. 15) \ UDMATIMMask(d, v)
         /\ ClockMask(c, u) \subseteq (0 .. 15) \ ClockMask(d, v)
<1>1. (c = 0 \/ c = 1) /\ (u = 0 \/ u = 1) /\ (d = 0 \/ d = 1) /\ (v = 0 \/ v = 1)
  BY DEF Channels, Units
<1>2. UDMAEnable(c, u) \in (0 .. 3) \ {UDMAEnable(d, v)}
  BY <1>1 DEF UDMAEnable
<1>3. UDMATIMMask(c, u) = {8 * c + 4 * u, 8 * c + 4 * u + 1} /\ UDMATIMMask(d, v) = {8 * d + 4 * v, 8 * d + 4 * v + 1}
  BY <1>1, Places
<1>4. ClockMask(c, u) = {2 * c + u, 2 * c + u + 12} /\ ClockMask(d, v) = {2 * d + v, 2 * d + v + 12}
  BY <1>1, Places
<1>5. UDMATIMMask(c, u) \subseteq (0 .. 15) \ UDMATIMMask(d, v)
  BY <1>1, <1>3
<1>6. ClockMask(c, u) \subseteq (0 .. 15) \ ClockMask(d, v)
  BY <1>1, <1>4
<1> QED
  BY <1>2, <1>5, <1>6

LEMMA ClockPlace ==
  ASSUME NEW c \in Channels, NEW u \in Units
  PROVE  ClockMask(c, u) \subseteq (0 .. 15) \ ((4 .. 7) \cup {10})
<1>1. (c = 0 \/ c = 1) /\ (u = 0 \/ u = 1)
  BY DEF Channels, Units
<1>2. ClockMask(c, u) = {2 * c + u, 2 * c + u + 12}
  BY <1>1, Places
<1> QED
  BY <1>1, <1>2

LEMMA Computed ==
  ASSUME NEW r \in Copies, NEW t \in Timings, NEW c \in Channels, NEW u \in Units
  PROVE  /\ Compute(r, t, c, u) \in Copies
         /\ Holds(Compute(r, t, c, u), t, c, u)
         /\ Alike(Compute(r, t, c, u).ideConfig, r.ideConfig, 4 .. 7)
         /\ \A v \in Units \ {u} : \A s : Holds(r, s, c, v) => Holds(Compute(r, t, c, u), s, c, v)
<1> DEFINE m == ComputeTiming(r, t, c, u)
           n == ComputeUDMA(m, t, c, u)
<1>1. /\ m \in Copies /\ HasTiming(m, t, u) /\ (u = 1 => HasSide(m, t, c))
      /\ \A v \in Units \ {u} : m.idetim[v] = r.idetim[v]
      /\ u = 0 => m.sidetim = r.sidetim
      /\ m.udmactl = r.udmactl /\ m.udmatim = r.udmatim
      /\ Alike(m.ideConfig, r.ideConfig, (0 .. 15) \ {10})
  BY TimingComputed
<1> HIDE DEF m
<1>2. /\ n \in Copies /\ HasUDMA(n, t, c, u)
      /\ n.idetim = m.idetim /\ n.sidetim = m.sidetim
      /\ Alike(n.udmactl, m.udmactl, (0 .. 3) \ {UDMAEnable(c, u)})
      /\ Alike(n.udmatim, m.udmatim, (0 .. 15) \ UDMATIMMask(c, u))
      /\ Alike(n.ideConfig, m.ideConfig, (0 .. 15) \ ClockMask(c, u))
  BY <1>1, UDMAComputed
<1>3. Compute(r, t, c, u) = n
  BY DEF Compute, m
<1> HIDE DEF n
<1>4. Holds(n, t, c, u)
  BY <1>1, <1>2 DEF Holds, HasTiming, HasSide
<1>5. \A b \in 4 .. 7 : b \in (0 .. 15) \ {10} /\ b \notin ClockMask(c, u)
  BY ClockPlace
<1>6. Alike(n.ideConfig, r.ideConfig, 4 .. 7)
  BY <1>1, <1>2, <1>5 DEF Alike
<1>7. ASSUME NEW v \in Units \ {u}, NEW s, Holds(r, s, c, v) PROVE Holds(n, s, c, v)
  <2>1. HasTiming(n, s, v)
    BY <1>1, <1>2, <1>7 DEF Holds, HasTiming
  <2>2. v = 1 => HasSide(n, s, c)
    <3>1. v = 1 => u = 0
      BY DEF Units
    <3> QED
      BY <1>1, <1>2, <1>7, <3>1 DEF Holds, HasSide
  <2>3. /\ UDMAEnable(c, v) \in (0 .. 3) \ {UDMAEnable(c, u)}
        /\ UDMATIMMask(c, v) \subseteq (0 .. 15) \ UDMATIMMask(c, u)
        /\ ClockMask(c, v) \subseteq (0 .. 15) \ ClockMask(c, u)
        /\ ClockMask(c, v) \subseteq (0 .. 15) \ {10}
    BY FieldsApart, ClockPlace
  <2>4. /\ UDMAEnable(c, v) \in n.udmactl <=> UDMAEnable(c, v) \in r.udmactl
        /\ \A b \in UDMATIMMask(c, v) : b \in n.udmatim <=> b \in r.udmatim
        /\ \A b \in ClockMask(c, v) : b \in n.ideConfig <=> b \in r.ideConfig
    BY <1>1, <1>2, <2>3 DEF Alike
  <2>5. HasUDMA(n, s, c, v)
    BY <1>7, <2>4 DEF Holds, HasUDMA, Alike
  <2> QED
    BY <2>1, <2>2, <2>5 DEF Holds
<1> QED
  BY <1>2, <1>3, <1>4, <1>6, <1>7

-----------------------------------------------------------------------------
(* selectConfig chooses no mode that is faster than what is asked.         *)
LEMMA MaxIn == ASSUME NEW S \in SUBSET (0 .. 4), S # {} PROVE Max(S) \in S
<1>1. \E x \in S : \A y \in S : x >= y
  <2>1. CASE 4 \in S
    BY <2>1
  <2>2. CASE 4 \notin S /\ 3 \in S
    BY <2>2
  <2>3. CASE 4 \notin S /\ 3 \notin S /\ 2 \in S
    BY <2>3
  <2>4. CASE 4 \notin S /\ 3 \notin S /\ 2 \notin S /\ 1 \in S
    BY <2>4
  <2>5. CASE 4 \notin S /\ 3 \notin S /\ 2 \notin S /\ 1 \notin S
    <3>1. \A y \in S : y = 0
      BY <2>5, SmallNumbers
    <3>2. 0 \in S
      BY <3>1
    <3> QED
      BY <3>1, <3>2
  <2> QED
    BY <2>1, <2>2, <2>3, <2>4, <2>5
<1> QED
  BY <1>1 DEF Max

LEMMA PIOSelected ==
  ASSUME NEW a \in Requests
  PROVE  /\ SelectPIO(a) \in 0 .. 4
         /\ SelectPIO(a) = 0 \/ a.pioCycle <= PIOTiming[SelectPIO(a)].cycleTime
<1> DEFINE S == {0} \cup {m \in PIOModes : m <= a.pio /\ a.pioCycle <= PIOTiming[m].cycleTime}
<1>1. SelectPIO(a) = IF a.pio \notin PIOModes THEN 0 ELSE Max(S)
  BY DEF SelectPIO
<1>2. S \in SUBSET (0 .. 4) /\ S # {}
  <2>1. PIOModes \subseteq 0 .. 4 /\ 0 \in 0 .. 4
    BY TimingsAssumption
  <2>2. 0 \in S
    OBVIOUS
  <2>3. S \subseteq 0 .. 4
    BY <2>1
  <2> HIDE DEF S
  <2> QED
    BY <2>2, <2>3
<1>3. \A m \in S : m = 0 \/ a.pioCycle <= PIOTiming[m].cycleTime
  OBVIOUS
<1> HIDE DEF S
<1>4. Max(S) \in S
  BY <1>2, MaxIn
<1>5. Max(S) \in 0 .. 4 /\ (Max(S) = 0 \/ a.pioCycle <= PIOTiming[Max(S)].cycleTime)
  BY <1>2, <1>3, <1>4
<1>6. SelectPIO(a) = 0 \/ SelectPIO(a) = Max(S)
  BY <1>1
<1> QED
  BY <1>5, <1>6

LEMMA DMASelected ==
  ASSUME NEW a \in Requests, Supported(a)
  PROVE  /\ SelectDMA(a) \in -1 .. 2
         /\ SelectDMA(a) # NoMode =>
              /\ SelectDMA(a) \in 0 .. 2 /\ a.dma \in 0 .. 2 /\ SelectDMA(a) <= a.dma
              /\ SelectDMA(a) = 0 \/ a.dmaCycle <= DMATiming[SelectDMA(a)].cycleTime
<1> DEFINE S == {0} \cup {n \in DMAModes : n <= a.dma /\ a.dmaCycle <= DMATiming[n].cycleTime}
<1>1. SelectDMA(a) = IF a.dma # NoMode /\ Max(S) \in DMAModes THEN Max(S) ELSE NoMode
  BY DEF SelectDMA
<1>2. S \in SUBSET (0 .. 4) /\ S # {} /\ S \subseteq 0 .. 2
  <2>1. DMAModes \subseteq 0 .. 2 /\ 0 \in 0 .. 2 /\ 0 .. 2 \subseteq 0 .. 4
    BY TimingsAssumption
  <2>2. 0 \in S
    OBVIOUS
  <2>3. S \subseteq 0 .. 2
    BY <2>1
  <2> HIDE DEF S
  <2> QED
    BY <2>1, <2>2, <2>3
<1>3. \A m \in S : m = 0 \/ (m <= a.dma /\ a.dmaCycle <= DMATiming[m].cycleTime)
  OBVIOUS
<1> HIDE DEF S
<1>4. Max(S) \in S
  BY <1>2, MaxIn
<1>5. CASE a.dma # NoMode /\ Max(S) \in DMAModes
  <2>1. a.dma \in 0 .. 2
    BY <1>5 DEF Requests, NoMode
  <2>2. SelectDMA(a) = Max(S) /\ Max(S) \in 0 .. 2
    BY <1>1, <1>2, <1>4, <1>5
  <2>3. Max(S) <= a.dma
    BY <1>3, <1>4, <2>1
  <2> QED
    BY <1>3, <1>4, <2>1, <2>2, <2>3
<1>6. CASE ~(a.dma # NoMode /\ Max(S) \in DMAModes)
  BY <1>1, <1>6 DEF NoMode
<1> QED
  BY <1>5, <1>6

(* The timing t suits what is asked of a drive and its cable.              *)
Suits(t, a, cables, c, u) ==
  /\ t.pio = 0 \/ a.pioCycle <= PIOTiming[t.pio].cycleTime
  /\ t.dma # NoMode => /\ a.dma \in 0 .. 2 /\ t.dma <= a.dma
                       /\ t.dma = 0 \/ a.dmaCycle <= DMATiming[t.dma].cycleTime
  /\ t.udma = NoMode <=> a.udma = NoMode
  /\ t.udma <= a.udma
  /\ t.udma > 2 => CableBit(c, u) \in cables

LEMMA SelectedSuits ==
  ASSUME NEW a \in Requests, Supported(a), NEW r \in Copies, NEW c \in Channels, NEW u \in Units
  PROVE  Selected(a, r, c, u) \in Timings /\ Suits(Selected(a, r, c, u), a, r.ideConfig, c, u)
<1> DEFINE t == Selected(a, r, c, u)
           pio == SelectPIO(a)
           dma == SelectDMA(a)
           udma == SelectUDMA(a, r, c, u)
<1>1. t = [pio |-> IF dma # NoMode /\ PIOTiming[pio].cycleTime # DMATiming[dma].cycleTime THEN 0 ELSE pio,
           dma |-> dma, udma |-> udma]
  BY DEF Selected
<1>2. pio \in 0 .. 4 /\ (pio = 0 \/ a.pioCycle <= PIOTiming[pio].cycleTime)
  BY PIOSelected
<1>3. /\ dma \in -1 .. 2
      /\ dma # NoMode => /\ a.dma \in 0 .. 2 /\ dma <= a.dma
                         /\ dma = 0 \/ a.dmaCycle <= DMATiming[dma].cycleTime
  BY DMASelected
<1>4. /\ a.udma \in -1 .. 5 /\ udma \in -1 .. 5 /\ udma <= a.udma
      /\ udma = NoMode <=> a.udma = NoMode
      /\ udma > 2 => CableBit(c, u) \in r.ideConfig
  BY DEF SelectUDMA, Requests, NoMode
<1> HIDE DEF pio, dma, udma
<1>5. t.dma = dma /\ t.udma = udma /\ t.pio \in 0 .. 4 /\ (t.pio = 0 \/ t.pio = pio) /\ t \in Timings
  BY <1>1, <1>2, <1>3, <1>4 DEF Timings
<1> HIDE DEF t
<1>6. t.pio = 0 \/ a.pioCycle <= PIOTiming[t.pio].cycleTime
  BY <1>2, <1>5
<1>7. Suits(t, a, r.ideConfig, c, u)
  BY <1>3, <1>4, <1>5, <1>6 DEF Suits
<1> QED
  BY <1>5, <1>7 DEF t

-----------------------------------------------------------------------------
(* The registers, and the fields that a channel has in them.               *)
PCI == [idetim : [Channels -> SUBSET (0 .. 15)], sidetim : SUBSET (0 .. 7),
        udmactl : SUBSET (0 .. 3), udmatim : SUBSET (0 .. 15), ideconfig : SUBSET (0 .. 19)]
RegisterNames == {"IDETIM", "SIDETIM", "UDMACTL", "UDMATIM", "IDECONFIG"}

ClocksAlike(S, T, c) == \A u \in Units : Alike(S, T, ClockMask(c, u))
FieldsAlike(p, q, c) ==
  /\ p.idetim[c] = q.idetim[c]
  /\ Alike(p.sidetim, q.sidetim, SideMask(c))
  /\ \A u \in Units : /\ UDMAEnable(c, u) \in p.udmactl <=> UDMAEnable(c, u) \in q.udmactl
                      /\ Alike(p.udmatim, q.udmatim, UDMATIMMask(c, u))
  /\ ClocksAlike(p.ideconfig, q.ideconfig, c)

Matches(register, p, r, c) ==
  /\ register = "IDETIM" => p.idetim[c] = r.idetim[0] \cup r.idetim[1]
  /\ register = "SIDETIM" => Alike(p.sidetim, r.sidetim, SideMask(c))
  /\ register = "UDMACTL" =>
       \A u \in Units : UDMAEnable(c, u) \in p.udmactl <=> UDMAEnable(c, u) \in r.udmactl
  /\ register = "UDMATIM" => \A u \in Units : Alike(p.udmatim, r.udmatim, UDMATIMMask(c, u))
  /\ register = "IDECONFIG" => ClocksAlike(p.ideconfig, r.ideConfig, c)

LEMMA FieldsMatch ==
  ASSUME NEW p, NEW q, NEW c, FieldsAlike(p, q, c), NEW register, NEW r, Matches(register, q, r, c)
  PROVE  Matches(register, p, r, c)
<1>1. register = "IDETIM" => p.idetim[c] = r.idetim[0] \cup r.idetim[1]
  BY DEF FieldsAlike, Matches
<1>2. register = "SIDETIM" => Alike(p.sidetim, r.sidetim, SideMask(c))
  BY DEF FieldsAlike, Matches, Alike
<1>3. register = "UDMACTL" =>
       \A u \in Units : UDMAEnable(c, u) \in p.udmactl <=> UDMAEnable(c, u) \in r.udmactl
  BY DEF FieldsAlike, Matches
<1>4. register = "UDMATIM" => \A u \in Units : Alike(p.udmatim, r.udmatim, UDMATIMMask(c, u))
  BY DEF FieldsAlike, Matches, Alike
<1>5. register = "IDECONFIG" => ClocksAlike(p.ideconfig, r.ideConfig, c)
  BY DEF FieldsAlike, Matches, Alike, ClocksAlike
<1> QED
  BY <1>1, <1>2, <1>3, <1>4, <1>5 DEF Matches

(* The chip sees of a channel's drives what is in its fields.              *)
LEMMA ChipBits ==
  ASSUME NEW c \in Channels, NEW u \in Units
  PROVE  /\ \A i \in 0 .. 3 : 4 * c + i \in SideMask(c)
         /\ 8 * c + 4 * u + 1 \in UDMATIMMask(c, u) /\ 8 * c + 4 * u \in UDMATIMMask(c, u)
         /\ FAST_PCB0 + ClockShift(c, u) \in ClockMask(c, u) /\ PCB0 + ClockShift(c, u) \in ClockMask(c, u)
<1>1. (c = 0 \/ c = 1) /\ (u = 0 \/ u = 1)
  BY DEF Channels, Units
<1>2. SideMask(c) = {4 * c, 4 * c + 1, 4 * c + 2, 4 * c + 3}
  BY <1>1, Places
<1>3. UDMATIMMask(c, u) = {8 * c + 4 * u, 8 * c + 4 * u + 1}
  BY <1>1, Places
<1>4. ClockMask(c, u) = {2 * c + u, 2 * c + u + 12}
  BY <1>1, Places
<1>5. FAST_PCB0 + ClockShift(c, u) = 2 * c + u + 12 /\ PCB0 + ClockShift(c, u) = 2 * c + u
  BY <1>1 DEF FAST_PCB0, PCB0, ClockShift
<1>6. \A i \in 0 .. 3 : 4 * c + i \in SideMask(c)
  BY <1>1, <1>2
<1> QED
  BY <1>3, <1>4, <1>5, <1>6

LEMMA FieldAlike ==
  ASSUME NEW S, NEW T, NEW high, NEW low, high \in S <=> high \in T, low \in S <=> low \in T
  PROVE  Field(S, high, low) = Field(T, high, low)
BY DEF Field

LEMMA ChipAlike ==
  ASSUME NEW c \in Channels, NEW u \in Units, FieldsAlike(pci', pci, c)
  PROVE  Chip(c, u)' = Chip(c, u)
<1>1. pci'.idetim[c] = pci.idetim[c]
  BY DEF FieldsAlike
<1>2. SideCycle(pci'.sidetim, 4 * c) = SideCycle(pci.sidetim, 4 * c)
  <2>1. \A i \in 0 .. 3 : 4 * c + i \in pci'.sidetim <=> 4 * c + i \in pci.sidetim
    BY ChipBits DEF FieldsAlike, Alike
  <2>2. 4 * c + 0 = 4 * c
    BY DEF Channels
  <2>3. /\ 4 * c \in pci'.sidetim <=> 4 * c \in pci.sidetim
        /\ 4 * c + 1 \in pci'.sidetim <=> 4 * c + 1 \in pci.sidetim
        /\ 4 * c + 2 \in pci'.sidetim <=> 4 * c + 2 \in pci.sidetim
        /\ 4 * c + 3 \in pci'.sidetim <=> 4 * c + 3 \in pci.sidetim
    <3>1. 0 \in 0 .. 3 /\ 1 \in 0 .. 3 /\ 2 \in 0 .. 3 /\ 3 \in 0 .. 3
      OBVIOUS
    <3> QED
      BY <2>1, <2>2, <3>1
  <2> QED
    BY <2>3, FieldAlike DEF SideCycle
<1>3. DMACycle(c, u)' = DMACycle(c, u)
  BY <1>1, <1>2 DEF DMACycle
<1>4. PIOCycle(c, u)' = PIOCycle(c, u)
  BY <1>1, <1>3 DEF PIOCycle
<1>5. UDMAClocks(c, u)' = UDMAClocks(c, u)
  <2>1. /\ 8 * c + 4 * u + 1 \in pci'.udmatim <=> 8 * c + 4 * u + 1 \in pci.udmatim
        /\ 8 * c + 4 * u \in pci'.udmatim <=> 8 * c + 4 * u \in pci.udmatim
    BY ChipBits DEF FieldsAlike, Alike
  <2> QED
    BY <2>1, FieldAlike DEF UDMAClocks
<1>6. /\ FAST_PCB0 + ClockShift(c, u) \in pci'.ideconfig <=> FAST_PCB0 + ClockShift(c, u) \in pci.ideconfig
      /\ PCB0 + ClockShift(c, u) \in pci'.ideconfig <=> PCB0 + ClockShift(c, u) \in pci.ideconfig
      /\ UDMAEnable(c, u) \in pci'.udmactl <=> UDMAEnable(c, u) \in pci.udmactl
  BY ChipBits DEF FieldsAlike, ClocksAlike, Alike
<1>7. UDMACycle(c, u)' = UDMACycle(c, u)
  BY <1>5, <1>6 DEF UDMACycle
<1> QED
  BY <1>3, <1>4, <1>7 DEF Chip

(* writeTimingRegisters writes one register, and of it the channel's own   *)
(* fields only.                                                            *)
LEMMA MaskedIs ==
  ASSUME NEW S, NEW D, NEW M
  PROVE  /\ \A b : b \in M => (b \in Masked(S, D, M) <=> b \in D)
         /\ \A b : b \notin M => (b \in Masked(S, D, M) <=> b \in S)
         /\ \A W : S \subseteq W /\ D \subseteq W => Masked(S, D, M) \subseteq W
BY DEF Masked

LEMMA OtherMasks ==
  ASSUME NEW c \in Channels, NEW d \in Channels, c # d
  PROVE  /\ \A b \in SideMask(c) : b \notin SideMask(d)
         /\ \A u \in Units : UDMAEnable(c, u) \notin {UDMAEnable(d, v) : v \in Units}
         /\ \A u \in Units : \A b \in UDMATIMMask(c, u) : b \notin UDMATIMMask(d, 0) \cup UDMATIMMask(d, 1)
         /\ \A u \in Units : \A b \in ClockMask(c, u) : b \notin IDECONFIGMask(d)
<1>1. \A b \in SideMask(c) : b \notin SideMask(d)
  <2>1. (c = 0 /\ d = 1) \/ (c = 1 /\ d = 0)
    BY DEF Channels
  <2> QED
    BY <2>1, Places
<1>2. ASSUME NEW u \in Units, NEW v \in Units
      PROVE  /\ UDMAEnable(c, u) # UDMAEnable(d, v)
             /\ \A b \in UDMATIMMask(c, u) : b \notin UDMATIMMask(d, v)
             /\ \A b \in ClockMask(c, u) : b \notin ClockMask(d, v)
  BY FieldsApart
<1>3. 0 \in Units /\ 1 \in Units
  BY DEF Units
<1>4. \A u \in Units : UDMAEnable(c, u) \notin {UDMAEnable(d, v) : v \in Units}
  BY <1>2
<1>5. \A u \in Units : \A b \in UDMATIMMask(c, u) : b \notin UDMATIMMask(d, 0) \cup UDMATIMMask(d, 1)
  BY <1>2, <1>3
<1>6. \A u \in Units : \A b \in ClockMask(c, u) : b \notin IDECONFIGMask(d)
  <2>1. \A u \in Units : \A b \in ClockMask(c, u) : b # 10
    BY ClockPlace
  <2> QED
    BY <1>2, <1>3, <2>1 DEF IDECONFIGMask, WR_PP_EN
<1> QED
  BY <1>1, <1>4, <1>5, <1>6

LEMMA OwnMasks ==
  ASSUME NEW c \in Channels
  PROVE  /\ \A u \in Units : UDMAEnable(c, u) \in {UDMAEnable(c, v) : v \in Units}
         /\ \A u \in Units : UDMATIMMask(c, u) \subseteq UDMATIMMask(c, 0) \cup UDMATIMMask(c, 1)
         /\ \A u \in Units : ClockMask(c, u) \subseteq IDECONFIGMask(c)
         /\ \A b \in 4 .. 7 : b \notin IDECONFIGMask(c)
<1>1. \A u \in Units : u = 0 \/ u = 1
  BY DEF Units
<1>2. \A u \in Units : ClockMask(c, u) \subseteq IDECONFIGMask(c)
  BY <1>1 DEF IDECONFIGMask
<1>3. \A b \in 4 .. 7 : b \notin IDECONFIGMask(c)
  <2>1. 0 \in Units /\ 1 \in Units
    BY DEF Units
  <2>2. \A b \in 4 .. 7 : b \notin ClockMask(c, 0) /\ b \notin ClockMask(c, 1)
    BY <2>1, ClockPlace
  <2> QED
    BY <2>2 DEF IDECONFIGMask, WR_PP_EN
<1> QED
  BY <1>1, <1>2, <1>3

LEMMA WrittenIs ==
  ASSUME pci \in PCI, NEW r \in Copies, NEW c \in Channels
  PROVE  /\ Written("IDETIM", r, c)
              = [pci EXCEPT !.idetim = [pci.idetim EXCEPT ![c] = r.idetim[0] \cup r.idetim[1]]]
         /\ Written("SIDETIM", r, c)
              = [pci EXCEPT !.sidetim = Masked(pci.sidetim, r.sidetim, SideMask(c))]
         /\ Written("UDMACTL", r, c)
              = [pci EXCEPT !.udmactl = Masked(pci.udmactl, r.udmactl, {UDMAEnable(c, u) : u \in Units})]
         /\ Written("UDMATIM", r, c)
              = [pci EXCEPT !.udmatim = Masked(pci.udmatim, r.udmatim,
                                               UDMATIMMask(c, 0) \cup UDMATIMMask(c, 1))]
         /\ Written("IDECONFIG", r, c)
              = [pci EXCEPT !.ideconfig = Masked(pci.ideconfig, r.ideConfig, IDECONFIGMask(c))]
BY DEF Written, PCI

AlikeButFor(register, p, q) ==
  /\ register # "IDETIM" => p.idetim = q.idetim
  /\ register # "SIDETIM" => p.sidetim = q.sidetim
  /\ register # "UDMACTL" => p.udmactl = q.udmactl
  /\ register # "UDMATIM" => p.udmatim = q.udmatim
  /\ register # "IDECONFIG" => p.ideconfig = q.ideconfig
(* What writing a register does: w are the registers after it.             *)
WritesOwn(register, w, p, r, c) ==
  /\ w \in PCI
  /\ AlikeButFor(register, w, p)
  /\ Matches(register, w, r, c)
  /\ \A d \in Channels : d # c => FieldsAlike(w, p, d)
  /\ Alike(w.ideconfig, p.ideconfig, 4 .. 7)

LEMMA AlikeSelf == \A S, M : Alike(S, S, M)
BY DEF Alike

LEMMA WrittenOwn ==
  ASSUME pci \in PCI, NEW r \in Copies, NEW c \in Channels, NEW register \in RegisterNames
  PROVE  WritesOwn(register, Written(register, r, c), pci, r, c)
<1> DEFINE w == Written(register, r, c)
<1>0. r.idetim[0] \cup r.idetim[1] \subseteq 0 .. 15
  BY DEF Copies, Units
<1>1. CASE register = "IDETIM"
  <2>1. w = [pci EXCEPT !.idetim = [pci.idetim EXCEPT ![c] = r.idetim[0] \cup r.idetim[1]]]
    BY <1>1, WrittenIs
  <2>2. /\ w.idetim = [pci.idetim EXCEPT ![c] = r.idetim[0] \cup r.idetim[1]]
        /\ AlikeButFor(register, w, pci) /\ w \in PCI
    BY <1>0, <1>1, <2>1 DEF PCI, AlikeButFor
  <2> HIDE DEF w
  <2>3. w.idetim[c] = r.idetim[0] \cup r.idetim[1] /\ \A d \in Channels : d # c => w.idetim[d] = pci.idetim[d]
    BY <2>2 DEF PCI
  <2>4. Matches(register, w, r, c)
    BY <1>1, <2>3 DEF Matches
  <2>5. /\ w.sidetim = pci.sidetim /\ w.udmactl = pci.udmactl /\ w.udmatim = pci.udmatim
        /\ w.ideconfig = pci.ideconfig
    BY <1>1, <2>2 DEF AlikeButFor
  <2>6. \A d \in Channels : d # c => FieldsAlike(w, pci, d)
    BY <2>3, <2>5, AlikeSelf DEF FieldsAlike, ClocksAlike
  <2>7. WritesOwn(register, w, pci, r, c)
    BY <2>2, <2>4, <2>5, <2>6, AlikeSelf DEF WritesOwn
  <2> QED
    BY <2>7 DEF w
<1>2. CASE register = "SIDETIM"
  <2>1. w = [pci EXCEPT !.sidetim = Masked(pci.sidetim, r.sidetim, SideMask(c))]
    BY <1>2, WrittenIs
  <2>2. Masked(pci.sidetim, r.sidetim, SideMask(c)) \subseteq 0 .. 7
    BY MaskedIs DEF PCI, Copies
  <2>3. /\ w.sidetim = Masked(pci.sidetim, r.sidetim, SideMask(c))
        /\ AlikeButFor(register, w, pci) /\ w \in PCI
    BY <1>2, <2>1, <2>2 DEF PCI, AlikeButFor
  <2> HIDE DEF w
  <2>4. Matches(register, w, r, c)
    BY <1>2, <2>3, MaskedIs DEF Matches, Alike
  <2>5. /\ w.idetim = pci.idetim /\ w.udmactl = pci.udmactl /\ w.udmatim = pci.udmatim
        /\ w.ideconfig = pci.ideconfig
    BY <1>2, <2>3 DEF AlikeButFor
  <2>6. ASSUME NEW d \in Channels, d # c PROVE Alike(w.sidetim, pci.sidetim, SideMask(d))
    BY <2>3, <2>6, MaskedIs, OtherMasks DEF Alike
  <2>7. \A d \in Channels : d # c => FieldsAlike(w, pci, d)
    BY <2>5, <2>6, AlikeSelf DEF FieldsAlike, ClocksAlike
  <2>8. WritesOwn(register, w, pci, r, c)
    BY <2>3, <2>4, <2>5, <2>7, AlikeSelf DEF WritesOwn
  <2> QED
    BY <2>8 DEF w
<1>3. CASE register = "UDMACTL"
  <2> DEFINE M == {UDMAEnable(c, u) : u \in Units}
  <2>1. w = [pci EXCEPT !.udmactl = Masked(pci.udmactl, r.udmactl, M)]
    BY <1>3, WrittenIs
  <2>2. Masked(pci.udmactl, r.udmactl, M) \subseteq 0 .. 3
    BY MaskedIs DEF PCI, Copies
  <2>3. (\A u \in Units : UDMAEnable(c, u) \in M)
        /\ \A d \in Channels, u \in Units : d # c => UDMAEnable(d, u) \notin M
    BY OtherMasks
  <2> HIDE DEF M
  <2>4. /\ w.udmactl = Masked(pci.udmactl, r.udmactl, M)
        /\ AlikeButFor(register, w, pci) /\ w \in PCI
    BY <1>3, <2>1, <2>2 DEF PCI, AlikeButFor
  <2> HIDE DEF w
  <2>5. Matches(register, w, r, c)
    BY <1>3, <2>3, <2>4, MaskedIs DEF Matches
  <2>6. /\ w.idetim = pci.idetim /\ w.sidetim = pci.sidetim /\ w.udmatim = pci.udmatim
        /\ w.ideconfig = pci.ideconfig
    BY <1>3, <2>4 DEF AlikeButFor
  <2>7. ASSUME NEW d \in Channels, d # c, NEW u \in Units
        PROVE  UDMAEnable(d, u) \in w.udmactl <=> UDMAEnable(d, u) \in pci.udmactl
    BY <2>3, <2>4, <2>7, MaskedIs
  <2>8. \A d \in Channels : d # c => FieldsAlike(w, pci, d)
    BY <2>6, <2>7, AlikeSelf DEF FieldsAlike, ClocksAlike
  <2>9. WritesOwn(register, w, pci, r, c)
    BY <2>4, <2>5, <2>6, <2>8, AlikeSelf DEF WritesOwn
  <2> QED
    BY <2>9 DEF w
<1>4. CASE register = "UDMATIM"
  <2> DEFINE M == UDMATIMMask(c, 0) \cup UDMATIMMask(c, 1)
  <2>1. w = [pci EXCEPT !.udmatim = Masked(pci.udmatim, r.udmatim, M)]
    BY <1>4, WrittenIs
  <2>2. Masked(pci.udmatim, r.udmatim, M) \subseteq 0 .. 15
    BY MaskedIs DEF PCI, Copies
  <2>3. (\A u \in Units : UDMATIMMask(c, u) \subseteq M)
        /\ \A d \in Channels, u \in Units : d # c => \A b \in UDMATIMMask(d, u) : b \notin M
    BY OtherMasks, OwnMasks
  <2> HIDE DEF M
  <2>4. /\ w.udmatim = Masked(pci.udmatim, r.udmatim, M)
        /\ AlikeButFor(register, w, pci) /\ w \in PCI
    BY <1>4, <2>1, <2>2 DEF PCI, AlikeButFor
  <2> HIDE DEF w
  <2>5. Matches(register, w, r, c)
    BY <1>4, <2>3, <2>4, MaskedIs DEF Matches, Alike
  <2>6. /\ w.idetim = pci.idetim /\ w.sidetim = pci.sidetim /\ w.udmactl = pci.udmactl
        /\ w.ideconfig = pci.ideconfig
    BY <1>4, <2>4 DEF AlikeButFor
  <2>7. ASSUME NEW d \in Channels, d # c, NEW u \in Units
        PROVE  Alike(w.udmatim, pci.udmatim, UDMATIMMask(d, u))
    BY <2>3, <2>4, <2>7, MaskedIs DEF Alike
  <2>8. \A d \in Channels : d # c => FieldsAlike(w, pci, d)
    BY <2>6, <2>7, AlikeSelf DEF FieldsAlike, ClocksAlike
  <2>9. WritesOwn(register, w, pci, r, c)
    BY <2>4, <2>5, <2>6, <2>8, AlikeSelf DEF WritesOwn
  <2> QED
    BY <2>9 DEF w
<1>5. CASE register = "IDECONFIG"
  <2> DEFINE M == IDECONFIGMask(c)
  <2>1. w = [pci EXCEPT !.ideconfig = Masked(pci.ideconfig, r.ideConfig, M)]
    BY <1>5, WrittenIs
  <2>2. Masked(pci.ideconfig, r.ideConfig, M) \subseteq 0 .. 19
    <3>1. r.ideConfig \subseteq 0 .. 19
      BY DEF Copies
    <3> QED
      BY <3>1, MaskedIs DEF PCI
  <2>3. /\ \A u \in Units : ClockMask(c, u) \subseteq M
        /\ \A d \in Channels, u \in Units : d # c => \A b \in ClockMask(d, u) : b \notin M
        /\ \A b \in 4 .. 7 : b \notin M
    BY OtherMasks, OwnMasks
  <2> HIDE DEF M
  <2>4. /\ w.ideconfig = Masked(pci.ideconfig, r.ideConfig, M)
        /\ AlikeButFor(register, w, pci) /\ w \in PCI
    BY <1>5, <2>1, <2>2 DEF PCI, AlikeButFor
  <2> HIDE DEF w
  <2>5. Matches(register, w, r, c)
    BY <1>5, <2>3, <2>4, MaskedIs DEF Matches, Alike, ClocksAlike
  <2>6. /\ w.idetim = pci.idetim /\ w.sidetim = pci.sidetim /\ w.udmactl = pci.udmactl
        /\ w.udmatim = pci.udmatim
    BY <1>5, <2>4 DEF AlikeButFor
  <2>7. ASSUME NEW d \in Channels, d # c PROVE ClocksAlike(w.ideconfig, pci.ideconfig, d)
    BY <2>3, <2>4, <2>7, MaskedIs DEF Alike, ClocksAlike
  <2>8. \A d \in Channels : d # c => FieldsAlike(w, pci, d)
    BY <2>6, <2>7, AlikeSelf DEF FieldsAlike
  <2>9. Alike(w.ideconfig, pci.ideconfig, 4 .. 7)
    BY <2>3, <2>4, MaskedIs DEF Alike
  <2>10. WritesOwn(register, w, pci, r, c)
    BY <2>4, <2>5, <2>8, <2>9 DEF WritesOwn
  <2> QED
    BY <2>10 DEF w
<1> QED
  BY <1>1, <1>2, <1>3, <1>4, <1>5 DEF RegisterNames

LEMMA OthersMatch ==
  ASSUME NEW register, NEW p, NEW q, AlikeButFor(register, p, q), NEW other, other # register,
         NEW r, NEW c, Matches(other, q, r, c)
  PROVE  Matches(other, p, r, c)
BY DEF AlikeButFor, Matches

-----------------------------------------------------------------------------
(* What is still to be done.                                               *)
PowerSteps == {"drive off", "drive on"}
Steps == RegisterNames \cup PowerSteps \cup {"reset unit 1"}
Elements(s) == {s[i] : i \in DOMAIN s}
Due(c) == Elements(job[c])

LEMMA NotEmpty ==
  ASSUME NEW S, NEW s \in Seq(S), Len(s) > 0
  PROVE  s # <<>>
OBVIOUS

LEMMA ElementsAppend ==
  ASSUME NEW S, NEW s \in Seq(S), NEW e \in S
  PROVE  /\ s \o <<e>> \in Seq(S) /\ s \o <<e>> # <<>>
         /\ Elements(s \o <<e>>) = Elements(s) \cup {e}
<1> DEFINE t == s \o <<e>>
           n == Len(s)
<1>1. /\ n \in Nat /\ t \in Seq(S) /\ Len(t) = n + 1 /\ DOMAIN s = 1 .. n /\ DOMAIN t = 1 .. n + 1
      /\ \A i \in 1 .. n : t[i] = s[i]
      /\ t[n + 1] = e
  OBVIOUS
<1> HIDE DEF t, n
<1>2. \A i \in 1 .. n + 1 : i \in 1 .. n \/ i = n + 1
  BY <1>1
<1>3. (\A i \in 1 .. n : i \in 1 .. n + 1) /\ n + 1 \in 1 .. n + 1
  BY <1>1
<1>4. \A a \in Elements(t) : a \in Elements(s) \/ a = e
  BY <1>1, <1>2 DEF Elements
<1>5. (\A a \in Elements(s) : a \in Elements(t)) /\ e \in Elements(t)
  BY <1>1, <1>3 DEF Elements
<1>6. Elements(t) = Elements(s) \cup {e}
  BY <1>4, <1>5
<1>7. Len(t) > 0
  BY <1>1
<1>8. t # <<>>
  BY <1>1, <1>7, NotEmpty
<1> QED
  BY <1>1, <1>6, <1>8 DEF t

LEMMA ElementsTail ==
  ASSUME NEW S, NEW s \in Seq(S), s # <<>>
  PROVE  /\ Tail(s) \in Seq(S) /\ Head(s) \in S /\ Head(s) \in Elements(s)
         /\ Elements(s) = {Head(s)} \cup Elements(Tail(s))
         /\ Tail(s) # s
<1> DEFINE n == Len(s)
           t == Tail(s)
<1>1. /\ n \in Nat /\ n >= 1 /\ Len(s) = n /\ t \in Seq(S) /\ Len(t) = n - 1 /\ Head(s) = s[1] /\ Head(s) \in S
      /\ \A i \in 1 .. n - 1 : t[i] = s[i + 1]
      /\ DOMAIN s = 1 .. n /\ DOMAIN t = 1 .. n - 1
  OBVIOUS
<1> HIDE DEF n, t
<1>2. t # s
  BY <1>1
<1>3. ASSUME NEW e \in Elements(s) PROVE e = Head(s) \/ e \in Elements(t)
  <2>1. PICK i \in 1 .. n : e = s[i]
    BY <1>1, <1>3 DEF Elements
  <2>2. CASE i = 1
    BY <1>1, <2>1, <2>2
  <2>3. CASE i # 1
    <3>1. i - 1 \in 1 .. n - 1 /\ (i - 1) + 1 = i
      BY <1>1, <2>3
    <3>2. t[i - 1] = e
      BY <1>1, <2>1, <3>1
    <3> QED
      BY <1>1, <3>1, <3>2 DEF Elements
  <2> QED
    BY <2>2, <2>3
<1>4. ASSUME NEW e \in Elements(t) PROVE e \in Elements(s)
  <2>1. PICK i \in 1 .. n - 1 : e = t[i]
    BY <1>1, <1>4 DEF Elements
  <2>2. i + 1 \in 1 .. n /\ e = s[i + 1]
    BY <1>1, <2>1
  <2> QED
    BY <1>1, <2>2 DEF Elements
<1>5. Head(s) \in Elements(s)
  <2>1. 1 \in 1 .. n
    BY <1>1
  <2> QED
    BY <1>1, <2>1 DEF Elements
<1>6. Elements(s) = {Head(s)} \cup Elements(t)
  BY <1>3, <1>4, <1>5
<1> QED
  BY <1>1, <1>2, <1>5, <1>6 DEF t

LEMMA RegistersDue ==
  /\ Registers \in Seq(Steps) /\ Registers # <<>> /\ Elements(Registers) = RegisterNames
  /\ Registers \o <<"reset unit 1">> \in Seq(Steps) /\ Registers \o <<"reset unit 1">> # <<>>
  /\ Elements(Registers \o <<"reset unit 1">>) = RegisterNames \cup {"reset unit 1"}
  /\ Elements(<<>>) = {}
  /\ \A step \in PowerSteps : <<step>> \in Seq(Steps) /\ <<step>> # <<>> /\ Elements(<<step>>) = {step}
  /\ \A i \in DOMAIN Registers : Registers[i] \in RegisterNames
<1>1. /\ Registers \in Seq(Steps) /\ Len(Registers) = 5
      /\ Registers[1] = "IDETIM" /\ Registers[2] = "SIDETIM" /\ Registers[3] = "UDMACTL"
      /\ Registers[4] = "UDMATIM" /\ Registers[5] = "IDECONFIG"
  BY DEF Registers, Steps, RegisterNames
<1>2. DOMAIN Registers = 1 .. 5 /\ \A i \in 1 .. 5 : i = 1 \/ i = 2 \/ i = 3 \/ i = 4 \/ i = 5
  BY <1>1
<1>3. 1 \in 1 .. 5 /\ 2 \in 1 .. 5 /\ 3 \in 1 .. 5 /\ 4 \in 1 .. 5 /\ 5 \in 1 .. 5
  OBVIOUS
<1>4. Elements(Registers) = RegisterNames
  <2>1. \A e \in Elements(Registers) : e \in RegisterNames
    BY <1>1, <1>2 DEF Elements, RegisterNames
  <2>2. \A e \in RegisterNames : e \in Elements(Registers)
    BY <1>1, <1>2, <1>3 DEF Elements, RegisterNames
  <2> QED
    BY <2>1, <2>2
<1>5. "reset unit 1" \in Steps /\ \A step \in PowerSteps : step \in Steps
  BY DEF Steps
<1>6. Registers # <<>>
  <2>1. Len(Registers) > 0
    BY <1>1
  <2> HIDE DEF Registers
  <2> QED
    BY <1>1, <2>1, NotEmpty
<1>7. /\ Registers \o <<"reset unit 1">> \in Seq(Steps) /\ Registers \o <<"reset unit 1">> # <<>>
      /\ Elements(Registers \o <<"reset unit 1">>) = RegisterNames \cup {"reset unit 1"}
  <2> DEFINE r == Registers
             e == "reset unit 1"
  <2>1. r \in Seq(Steps) /\ e \in Steps
    BY <1>1, <1>5
  <2>2. Elements(r) = RegisterNames
    BY <1>4
  <2> HIDE DEF r, e
  <2>3. r \o <<e>> \in Seq(Steps) /\ r \o <<e>> # <<>> /\ Elements(r \o <<e>>) = Elements(r) \cup {e}
    BY <2>1, ElementsAppend
  <2>4. r \o <<e>> \in Seq(Steps) /\ r \o <<e>> # <<>> /\ Elements(r \o <<e>>) = RegisterNames \cup {e}
    BY <2>2, <2>3
  <2> QED
    BY <2>4 DEF r, e
<1>8. Elements(<<>>) = {}
  BY DEF Elements
<1>9. ASSUME NEW step \in PowerSteps
      PROVE  <<step>> \in Seq(Steps) /\ <<step>> # <<>> /\ Elements(<<step>>) = {step}
  <2>1. step \in Steps
    BY <1>5
  <2>2. DOMAIN <<step>> = {1} /\ <<step>>[1] = step
    OBVIOUS
  <2> QED
    BY <2>1, <2>2 DEF Elements
<1>10. \A i \in DOMAIN Registers : Registers[i] \in RegisterNames
  BY <1>4 DEF Elements
<1> QED
  BY <1>1, <1>4, <1>5, <1>6, <1>7, <1>8, <1>9, <1>10

-----------------------------------------------------------------------------
(* The inductive invariant.                                                *)
(* What a driver has still to do: nothing before its start, and the power  *)
(* of a drive is not switched amid something else.                         *)
JobOK ==
  /\ job \in [Channels -> Seq(Steps)] /\ asleep \subseteq started
  /\ \A c \in Channels : /\ c \notin started => Due(c) = {}
                         /\ Due(c) \subseteq PowerSteps \/ Due(c) \cap PowerSteps = {}

(* What has been read of the cables stays true.                            *)
CableOK ==
  \A c \in Channels :
    /\ c \in started => Alike(copies[c].ideConfig, pci.ideconfig, 4 .. 7)
    /\ Powering(c) => Alike(seen[c], pci.ideconfig, 4 .. 7)

(* IDECONFIG as it is to be written back holds the clocks of all channels  *)
(* but those that overtook it.                                             *)
PowerOK ==
  \A d \in Channels, c \in Channels :
    Powering(d) /\ c \notin overtaken => ClocksAlike(seen[d], pci.ideconfig, c)

(* The copies hold the timings, which suit what was asked.                 *)
Unreset(c, u) == u = 1 /\ (c \notin started \/ "reset unit 1" \in Due(c))
CopyOK ==
  \A c \in started, u \in Units : Unreset(c, u) \/ Holds(copies[c], timings[c][u], c, u)
AskOK ==
  \A c \in Channels, u \in Units :
    /\ Suits(timings[c][u], asked[c][u], pci.ideconfig, c, u)
    /\ c \notin started \/ "reset unit 1" \in Due(c) => timings[c][u] = Slowest

(* What is not still to be written has been.                               *)
WrittenOK ==
  \A c \in started \ asleep : \A register \in RegisterNames \ Due(c) :
    (register = "IDECONFIG" => c \notin overtaken) => Matches(register, pci, copies[c], c)

TimingsIInv ==
  TimingsTypeOK /\ JobOK /\ CableOK /\ PowerOK /\ CopyOK /\ AskOK /\ WrittenOK

LEMMA AlikeSym == ASSUME NEW S, NEW T, NEW M, Alike(S, T, M) PROVE Alike(T, S, M)
BY DEF Alike

LEMMA AlikeTrans ==
  ASSUME NEW S, NEW T, NEW U, NEW M, Alike(S, T, M), Alike(T, U, M) PROVE Alike(S, U, M)
BY DEF Alike

LEMMA ClocksTrans ==
  ASSUME NEW S, NEW T, NEW U, NEW c, ClocksAlike(S, T, c), ClocksAlike(T, U, c) PROVE ClocksAlike(S, U, c)
BY DEF Alike, ClocksAlike

LEMMA CableBits ==
  ASSUME NEW c \in Channels, NEW u \in Units
  PROVE  CableBit(c, u) \in 4 .. 7
BY DEF CableBit, Channels, Units

LEMMA SuitsAlike ==
  ASSUME NEW c \in Channels, NEW u \in Units, NEW t, NEW a, NEW S, NEW T, Alike(S, T, 4 .. 7),
         Suits(t, a, S, c, u)
  PROVE  Suits(t, a, T, c, u)
<1>1. CableBit(c, u) \in S <=> CableBit(c, u) \in T
  BY CableBits DEF Alike
<1> QED
  BY <1>1 DEF Suits

LEMMA UnsetIs ==
  ASSUME NEW cable \in SUBSET (Channels \X Units)
  PROVE  /\ Unset(cable) \in PCI
         /\ Unset(cable).ideconfig = {CableBit(d[1], d[2]) : d \in cable}
<1>1. \A d \in cable : d[1] \in Channels /\ d[2] \in Units
  OBVIOUS
<1>2. {CableBit(d[1], d[2]) : d \in cable} \subseteq 4 .. 7
  BY <1>1, CableBits
<1> DEFINE B == {CableBit(d[1], d[2]) : d \in cable}
<1>3. B \in SUBSET (0 .. 19)
  BY <1>2
<1>4. Unset(cable) = [idetim |-> [c \in Channels |-> {15}], sidetim |-> {}, udmactl |-> {}, udmatim |-> {},
                      ideconfig |-> B]
  BY DEF Unset, IDE
<1> HIDE DEF B
<1>5. [c \in Channels |-> {15}] \in [Channels -> SUBSET (0 .. 15)]
  OBVIOUS
<1>6. Unset(cable) \in PCI /\ Unset(cable).ideconfig = B
  BY <1>3, <1>4, <1>5 DEF PCI
<1> QED
  BY <1>6 DEF B

LEMMA CablesKept ==
  ASSUME NEW S
  PROVE  LET cable == {d \in Channels \X Units : CableBit(d[1], d[2]) \in S}
         IN  cable \in SUBSET (Channels \X Units) /\ Alike(Unset(cable).ideconfig, S, 4 .. 7)
<1> DEFINE cable == {d \in Channels \X Units : CableBit(d[1], d[2]) \in S}
<1>1. cable \in SUBSET (Channels \X Units)
  OBVIOUS
<1>2. Unset(cable).ideconfig = {CableBit(d[1], d[2]) : d \in cable}
  BY <1>1, UnsetIs
<1>3. ASSUME NEW b \in 4 .. 7 PROVE \E d \in Channels \X Units : CableBit(d[1], d[2]) = b
  <2>1. b = 4 \/ b = 5 \/ b = 6 \/ b = 7
    OBVIOUS
  <2>2. CableBit(0, 0) = 4 /\ CableBit(0, 1) = 5 /\ CableBit(1, 0) = 6 /\ CableBit(1, 1) = 7
    BY DEF CableBit
  <2>3. <<0, 0>> \in Channels \X Units /\ <<0, 1>> \in Channels \X Units
        /\ <<1, 0>> \in Channels \X Units /\ <<1, 1>> \in Channels \X Units
    BY DEF Channels, Units
  <2>4. \E d1 \in Channels, d2 \in Units : CableBit(d1, d2) = b
    BY <2>1, <2>2 DEF Channels, Units
  <2>5. PICK d1 \in Channels, d2 \in Units : CableBit(d1, d2) = b
    BY <2>4
  <2>6. <<d1, d2>> \in Channels \X Units /\ <<d1, d2>>[1] = d1 /\ <<d1, d2>>[2] = d2
    OBVIOUS
  <2> QED
    BY <2>5, <2>6
<1>4. ASSUME NEW b \in 4 .. 7, b \in S PROVE b \in Unset(cable).ideconfig
  <2>1. PICK d \in Channels \X Units : CableBit(d[1], d[2]) = b
    BY <1>3
  <2>2. d \in cable
    BY <1>4, <2>1
  <2> QED
    BY <1>2, <2>1, <2>2
<1>5. ASSUME NEW b \in Unset(cable).ideconfig PROVE b \in S
  BY <1>2, <1>5
<1> QED
  BY <1>1, <1>4, <1>5 DEF Alike

LEMMA TypeIs ==
  TimingsTypeOK <=>
    /\ pci \in PCI
    /\ started \subseteq Channels /\ asleep \subseteq Channels /\ overtaken \subseteq Channels
    /\ timings \in [Channels -> [Units -> Timings]]
    /\ copies \in [Channels -> Copies]
    /\ seen \in [Channels -> SUBSET (0 .. 19)]
    /\ drivePowerOn \in [Channels -> BOOLEAN]
    /\ asked \in [Channels -> [Units -> Requests]]
BY DEF TimingsTypeOK, PCI, Timings, Copies

LEMMA SlowestIs == Slowest \in Timings /\ Slowest.pio = 0 /\ Slowest.dma = NoMode /\ Slowest.udma = NoMode
BY DEF Slowest, Timings, NoMode

LEMMA CompatibleIs ==
  /\ Compatible \in Requests
  /\ Compatible.udma = NoMode
BY DEF Compatible, Requests, NoMode

LEMMA SlowestSuits ==
  ASSUME NEW S, NEW c, NEW u
  PROVE  Suits(Slowest, Compatible, S, c, u)
<1>1. Slowest.pio = 0
  BY SlowestIs
<1>2. ~(Slowest.udma > 2)
  BY SlowestIs DEF NoMode
<1>3. Slowest.udma <= Compatible.udma
  BY SlowestIs, CompatibleIs DEF NoMode
<1> QED
  BY <1>1, <1>2, <1>3, SlowestIs, CompatibleIs DEF Suits

LEMMA InitOK == TimingsInit => TimingsIInv
<1> SUFFICES ASSUME TimingsInit PROVE TimingsIInv
  OBVIOUS
<1> USE DEF TimingsInit
<1>1. TimingsTypeOK
  <2>1. PICK cable \in Cables : pci = Unset(cable)
    OBVIOUS
  <2>2. cable \in SUBSET (Channels \X Units)
    BY TimingsAssumption DEF TimingsAssumption
  <2>3. pci \in PCI
    BY <2>1, <2>2, UnsetIs
  <2>4. copies \in [Channels -> Copies]
    BY DEF Copies
  <2>5. timings \in [Channels -> [Units -> Timings]] /\ asked \in [Channels -> [Units -> Requests]]
    BY SlowestIs, CompatibleIs
  <2> QED
    BY <2>3, <2>4, <2>5, TypeIs
<1>2. \A c \in Channels : job[c] = <<>> /\ Due(c) = {}
  BY RegistersDue DEF Due
<1>3. JobOK
  <2>1. job \in [Channels -> Seq(Steps)]
    OBVIOUS
  <2> QED
    BY <1>2, <2>1 DEF JobOK
<1>4. CableOK /\ PowerOK
  BY <1>2 DEF CableOK, PowerOK, Powering
<1>5. AskOK
  BY SlowestSuits DEF AskOK
<1> QED
  BY <1>1, <1>3, <1>4, <1>5 DEF TimingsIInv, CopyOK, WrittenOK

-----------------------------------------------------------------------------
(* The steps. What a driver's first step tells of what it has to do.       *)
LEMMA HeadIs ==
  ASSUME JobOK, NEW c \in Channels, job[c] # <<>>
  PROVE  /\ c \in started /\ Head(job[c]) \in Steps /\ Head(job[c]) \in Due(c)
         /\ Tail(job[c]) \in Seq(Steps)
         /\ Due(c) = {Head(job[c])} \cup Elements(Tail(job[c]))
         /\ Tail(job[c]) # job[c]
         /\ Powering(c) <=> Head(job[c]) \in PowerSteps
         /\ Powering(c) => Due(c) \subseteq PowerSteps
         /\ ~Powering(c) => Due(c) \cap PowerSteps = {}
<1> DEFINE s == job[c]
<1>1. s \in Seq(Steps) /\ s # <<>>
  BY DEF JobOK
<1>2. (c \notin started => Due(c) = {}) /\ (Due(c) \subseteq PowerSteps \/ Due(c) \cap PowerSteps = {})
  BY DEF JobOK
<1>3. Powering(c) <=> Head(s) \in PowerSteps
  BY <1>1 DEF Powering, PowerSteps
<1>4. Due(c) = Elements(s)
  BY DEF Due
<1> HIDE DEF s
<1>5. /\ Tail(s) \in Seq(Steps) /\ Head(s) \in Steps /\ Head(s) \in Elements(s)
      /\ Elements(s) = {Head(s)} \cup Elements(Tail(s)) /\ Tail(s) # s
  BY <1>1, ElementsTail
<1>6. /\ c \in started /\ Head(s) \in Steps /\ Head(s) \in Due(c) /\ Tail(s) \in Seq(Steps)
      /\ Due(c) = {Head(s)} \cup Elements(Tail(s)) /\ Tail(s) # s
      /\ Powering(c) => Due(c) \subseteq PowerSteps
      /\ ~Powering(c) => Due(c) \cap PowerSteps = {}
  BY <1>2, <1>3, <1>4, <1>5
<1> QED
  BY <1>3, <1>6 DEF s

LEMMA NamesApart ==
  /\ RegisterNames \cap PowerSteps = {} /\ "reset unit 1" \notin RegisterNames \cup PowerSteps
  /\ \A step \in Steps : step \in RegisterNames \/ step \in PowerSteps \/ step = "reset unit 1"
BY DEF RegisterNames, PowerSteps, Steps

LEMMA HeadRegisters ==
  /\ Head(Registers) = "IDETIM" /\ Head(Registers \o <<"reset unit 1">>) = "IDETIM"
  /\ <<>> \in Seq(Steps)
BY DEF Registers

LEMMA Ranges == 16 .. 17 \subseteq 0 .. 19 /\ 4 .. 7 \subseteq 0 .. 15
OBVIOUS

LEMMA AtRestIs ==
  ASSUME NEW c \in Channels, job[c] = <<>>
  PROVE  Due(c) = {} /\ ~Powering(c)
BY RegistersDue DEF Due, Powering

(* A new job of one channel.                                               *)
LEMMA JobGiven ==
  ASSUME JobOK, NEW c \in Channels, NEW s \in Seq(Steps), job' = [job EXCEPT ![c] = s],
         started' = started \/ started' = started \cup {c},
         c \in started', asleep' \subseteq asleep, Elements(s) \subseteq PowerSteps \/ Elements(s) \cap PowerSteps = {}
  PROVE  /\ JobOK' /\ Due(c)' = Elements(s)
         /\ \A d \in Channels : d # c => Due(d)' = Due(d) /\ (Powering(d)' <=> Powering(d))
<1>1. job \in [Channels -> Seq(Steps)]
  BY DEF JobOK
<1>2. asleep' \subseteq started' /\ job' \in [Channels -> Seq(Steps)] /\ job'[c] = s /\ \A d \in Channels : d # c => job'[d] = job[d]
  BY <1>1 DEF JobOK
<1>3. Due(c)' = Elements(s)
  BY <1>2 DEF Due
<1>4. \A d \in Channels : d # c => Due(d)' = Due(d) /\ (Powering(d)' <=> Powering(d))
  BY <1>2 DEF Due, Powering
<1>5. JobOK'
  <2>1. ASSUME NEW d \in Channels
        PROVE  /\ d \notin started' => Due(d)' = {}
               /\ Due(d)' \subseteq PowerSteps \/ Due(d)' \cap PowerSteps = {}
    BY <1>3, <1>4 DEF JobOK
  <2> QED
    BY <1>2, <2>1 DEF JobOK
<1> QED
  BY <1>3, <1>4, <1>5

(* All that setPowerState changes is what a channel has to do.             *)
LEMMA SleepSteps ==
  ASSUME TimingsIInv, NEW c \in Channels, SetPowerStateOff(c)
  PROVE  TimingsIInv'
<1> USE DEF SetPowerStateOff, TimingsIInv
<1>1. /\ pci' = pci /\ started' = started /\ timings' = timings /\ copies' = copies /\ job' = job
      /\ seen' = seen /\ drivePowerOn' = drivePowerOn /\ asked' = asked /\ overtaken' = overtaken
      /\ asleep' = asleep \cup {c}
  OBVIOUS
<1>2. TimingsTypeOK'
  BY <1>1 DEF TimingsTypeOK
<1>3. \A d \in Channels : Due(d)' = Due(d) /\ (Powering(d)' <=> Powering(d))
  BY <1>1 DEF Due, Powering
<1>4. JobOK'
  BY <1>1, <1>3 DEF JobOK
<1>5. CableOK' /\ PowerOK'
  BY <1>1, <1>3 DEF CableOK, PowerOK
<1>6. CopyOK' /\ AskOK'
  BY <1>1, <1>3, TypeIs DEF CopyOK, AskOK, Unreset
<1>7. WrittenOK'
  BY <1>1, <1>3, TypeIs DEF WrittenOK
<1> QED
  BY <1>2, <1>4, <1>5, <1>6, <1>7

LEMMA WakeSteps ==
  ASSUME TimingsIInv, NEW c \in Channels, SetPowerStateOn(c)
  PROVE  TimingsIInv'
<1> USE DEF SetPowerStateOn, TimingsIInv
<1>1. /\ pci' = pci /\ started' = started /\ timings' = timings /\ copies' = copies
      /\ seen' = seen /\ drivePowerOn' = drivePowerOn /\ asked' = asked /\ overtaken' = overtaken
      /\ asleep' = asleep \ {c} /\ job' = [job EXCEPT ![c] = Registers] /\ job[c] = <<>>
  OBVIOUS
<1>2. TimingsTypeOK'
  BY <1>1 DEF TimingsTypeOK
<1>0. c \in started'
  BY <1>1 DEF JobOK
<1>3. /\ JobOK' /\ Due(c)' = RegisterNames
      /\ \A d \in Channels : d # c => Due(d)' = Due(d) /\ (Powering(d)' <=> Powering(d))
  BY <1>0, <1>1, JobGiven, RegistersDue, NamesApart
<1>4. ~Powering(c)' /\ Due(c) = {}
  <2>1. job'[c] = Registers
    BY <1>1 DEF JobOK
  <2>2. Head(Registers) = "IDETIM"
    BY HeadRegisters
  <2>3. Due(c) = {}
    BY <1>1, AtRestIs
  <2> QED
    BY <2>1, <2>2, <2>3 DEF Powering
<1>5. CableOK' /\ PowerOK'
  BY <1>1, <1>3, <1>4 DEF CableOK, PowerOK
<1>6. \A d \in Channels : "reset unit 1" \in Due(d)' <=> "reset unit 1" \in Due(d)
  BY <1>3, <1>4, NamesApart
<1>7. CopyOK' /\ AskOK'
  BY <1>1, <1>6, TypeIs DEF CopyOK, AskOK, Unreset
<1>8. WrittenOK'
  BY <1>1, <1>3, TypeIs DEF WrittenOK
<1> QED
  BY <1>2, <1>3, <1>5, <1>7, <1>8

(* A change of the registers that keeps the cable bits.                    *)
LEMMA CablesStay ==
  ASSUME CableOK, AskOK, Alike(pci'.ideconfig, pci.ideconfig, 4 .. 7)
  PROVE  /\ \A c \in Channels :
              /\ c \in started => Alike(copies[c].ideConfig, pci'.ideconfig, 4 .. 7)
              /\ Powering(c) => Alike(seen[c], pci'.ideconfig, 4 .. 7)
         /\ \A c \in Channels, u \in Units : Suits(timings[c][u], asked[c][u], pci'.ideconfig, c, u)
<1>1. Alike(pci.ideconfig, pci'.ideconfig, 4 .. 7)
  BY AlikeSym
<1>2. ASSUME NEW c \in Channels
      PROVE  /\ c \in started => Alike(copies[c].ideConfig, pci'.ideconfig, 4 .. 7)
             /\ Powering(c) => Alike(seen[c], pci'.ideconfig, 4 .. 7)
  BY <1>1, AlikeTrans DEF CableOK
<1>3. ASSUME NEW c \in Channels, NEW u \in Units
      PROVE  Suits(timings[c][u], asked[c][u], pci'.ideconfig, c, u)
  <2>1. Suits(timings[c][u], asked[c][u], pci.ideconfig, c, u)
    BY DEF AskOK
  <2> QED
    BY <1>1, <2>1, SuitsAlike
<1> QED
  BY <1>2, <1>3

LEMMA LossSteps ==
  ASSUME TimingsIInv, LoseRegisters
  PROVE  TimingsIInv'
<1> USE DEF LoseRegisters, TimingsIInv
<1> DEFINE cable == {d \in Channels \X Units : CableBit(d[1], d[2]) \in pci.ideconfig}
<1>1. /\ started' = started /\ timings' = timings /\ copies' = copies /\ job' = job
      /\ seen' = seen /\ drivePowerOn' = drivePowerOn /\ asked' = asked /\ overtaken' = overtaken
      /\ asleep' = asleep /\ asleep = Channels /\ pci' = Unset(cable)
      /\ \A c \in Channels : job[c] = <<>>
  OBVIOUS
<1>2. cable \in SUBSET (Channels \X Units) /\ Alike(Unset(cable).ideconfig, pci.ideconfig, 4 .. 7)
  BY CablesKept
<1> HIDE DEF cable
<1>3. pci' \in PCI /\ Alike(pci'.ideconfig, pci.ideconfig, 4 .. 7)
  BY <1>1, <1>2, UnsetIs
<1>4. TimingsTypeOK'
  BY <1>1, <1>3, TypeIs DEF TimingsTypeOK, PCI
<1>5. \A d \in Channels : Due(d)' = Due(d) /\ (Powering(d)' <=> Powering(d)) /\ ~Powering(d)
  BY <1>1 DEF Due, Powering
<1>6. JobOK'
  BY <1>1, <1>5 DEF JobOK
<1>7. CableOK' /\ PowerOK'
  BY <1>1, <1>3, <1>5, CablesStay DEF CableOK, PowerOK
<1>8. CopyOK' /\ AskOK'
  BY <1>1, <1>3, <1>5, TypeIs, CablesStay DEF CopyOK, AskOK, Unreset
<1>9. WrittenOK'
  BY <1>1, TypeIs DEF WrittenOK
<1> QED
  BY <1>4, <1>6, <1>7, <1>8, <1>9

(* The power of a drive.                                                   *)
LEMMA TurnSteps ==
  ASSUME TimingsIInv, NEW c \in Channels, NEW step \in PowerSteps, TurnDrive(c, step)
  PROVE  TimingsIInv'
<1> USE DEF TurnDrive, TimingsIInv
<1>1. /\ pci' = pci /\ started' = started /\ timings' = timings /\ copies' = copies
      /\ asked' = asked /\ overtaken' = overtaken /\ asleep' = asleep
      /\ job' = [job EXCEPT ![c] = <<step>>] /\ job[c] = <<>> /\ c \in started
      /\ drivePowerOn' = [drivePowerOn EXCEPT ![c] = TRUE]
      /\ seen' = [seen EXCEPT ![c] = pci.ideconfig]
  BY DEF AtRest
<1>2. pci.ideconfig \in SUBSET (0 .. 19) /\ seen \in [Channels -> SUBSET (0 .. 19)]
  BY TypeIs DEF PCI
<1>3. TimingsTypeOK'
  BY <1>1, <1>2 DEF TimingsTypeOK
<1>4. <<step>> \in Seq(Steps) /\ Elements(<<step>>) = {step}
  BY RegistersDue
<1>5. /\ JobOK' /\ Due(c)' = {step}
      /\ \A d \in Channels : d # c => Due(d)' = Due(d) /\ (Powering(d)' <=> Powering(d))
  BY <1>1, <1>4, JobGiven
<1>6. Due(c) = {} /\ ~Powering(c)
  BY <1>1, AtRestIs
<1>7. seen'[c] = pci.ideconfig /\ \A d \in Channels : d # c => seen'[d] = seen[d]
  BY <1>1, <1>2
<1>8. CableOK' /\ PowerOK'
  BY <1>1, <1>5, <1>7, AlikeSelf DEF CableOK, PowerOK, ClocksAlike
<1>9. \A d \in Channels : "reset unit 1" \in Due(d)' <=> "reset unit 1" \in Due(d)
  BY <1>5, <1>6, NamesApart
<1>10. CopyOK' /\ AskOK'
  BY <1>1, <1>9, TypeIs DEF CopyOK, AskOK, Unreset
<1>11. \A d \in Channels, register \in RegisterNames : register \in Due(d)' <=> register \in Due(d)
  BY <1>5, <1>6, NamesApart
<1>12. WrittenOK'
  BY <1>1, <1>11, TypeIs DEF WrittenOK
<1> QED
  BY <1>3, <1>5, <1>8, <1>10, <1>12

LEMMA SignalPlace ==
  /\ SignalMode \subseteq 16 .. 17 /\ DriveLow \subseteq 16 .. 17
  /\ \A b \in 4 .. 7 : b \notin 16 .. 17
  /\ \A c \in Channels, u \in Units : \A b \in ClockMask(c, u) : b \notin 16 .. 17
<1>1. ASSUME NEW c \in Channels, NEW u \in Units, NEW b \in ClockMask(c, u) PROVE b \notin 16 .. 17
  <2>1. b \in 0 .. 15
    BY ClockPlace
  <2> QED
    BY <2>1
<1> QED
  BY <1>1 DEF SignalMode, DriveLow

LEMMA SignalSteps ==
  ASSUME TimingsIInv, NEW c \in Channels, WriteSignalMode(c)
  PROVE  TimingsIInv'
<1> USE DEF WriteSignalMode, TimingsIInv
<1> DEFINE low == IF Head(job[c]) = "drive off" THEN DriveLow ELSE {}
           S == (seen[c] \ SignalMode) \cup low
           on == Head(job[c]) = "drive on"
<1>1. /\ started' = started /\ timings' = timings /\ copies' = copies
      /\ asked' = asked /\ overtaken' = overtaken /\ asleep' = asleep
      /\ job' = [job EXCEPT ![c] = <<>>] /\ job[c] # <<>> /\ Powering(c)
      /\ seen' = [seen EXCEPT ![c] = {}] /\ drivePowerOn' = [drivePowerOn EXCEPT ![c] = on]
      /\ pci' = [pci EXCEPT !.ideconfig = S]
  BY DEF Powering
<1>2. low \subseteq 16 .. 17 /\ SignalMode \subseteq 16 .. 17
  BY SignalPlace
<1>3. seen \in [Channels -> SUBSET (0 .. 19)] /\ pci \in PCI /\ on \in BOOLEAN
  BY TypeIs
<1>4. S \in SUBSET (0 .. 19)
  <2>1. seen[c] \subseteq 0 .. 19
    BY <1>3
  <2>2. low \subseteq 0 .. 19
    <3> HIDE DEF low
    <3> QED
      BY <1>2, Ranges
  <2> HIDE DEF low
  <2> QED
    BY <2>1, <2>2
<1>5. Alike(S, seen[c], 4 .. 7) /\ \A d \in Channels : ClocksAlike(S, seen[c], d)
  BY <1>2, SignalPlace DEF Alike, ClocksAlike
<1> HIDE DEF S, low, on
<1>6. /\ pci' \in PCI /\ pci'.ideconfig = S /\ pci'.idetim = pci.idetim /\ pci'.sidetim = pci.sidetim
      /\ pci'.udmactl = pci.udmactl /\ pci'.udmatim = pci.udmatim
  BY <1>1, <1>3, <1>4 DEF PCI
<1>7. TimingsTypeOK'
  <2>1. seen' \in [Channels -> SUBSET (0 .. 19)] /\ drivePowerOn' \in [Channels -> BOOLEAN]
    BY <1>1, <1>3, TypeIs
  <2> QED
    BY <1>1, <1>6, <2>1 DEF TimingsTypeOK, PCI
<1>8. c \in started /\ Due(c) \subseteq PowerSteps
  BY <1>1, HeadIs
<1>9. <<>> \in Seq(Steps) /\ Elements(<<>>) = {}
  BY HeadRegisters, RegistersDue
<1>10. /\ JobOK' /\ Due(c)' = {}
       /\ \A d \in Channels : d # c => Due(d)' = Due(d) /\ (Powering(d)' <=> Powering(d))
  BY <1>1, <1>8, <1>9, JobGiven
<1>11. ~Powering(c)'
  BY <1>1 DEF Powering, JobOK
<1>12. \A d \in Channels : d # c => seen'[d] = seen[d]
  BY <1>1, <1>3
<1>13. Alike(pci'.ideconfig, pci.ideconfig, 4 .. 7)
  <2>1. Alike(seen[c], pci.ideconfig, 4 .. 7)
    BY <1>1 DEF CableOK
  <2> QED
    BY <1>5, <1>6, <2>1, AlikeTrans
<1>14. \A d \in Channels : d \notin overtaken => ClocksAlike(pci'.ideconfig, pci.ideconfig, d)
  <2> SUFFICES ASSUME NEW d \in Channels, d \notin overtaken PROVE ClocksAlike(pci'.ideconfig, pci.ideconfig, d)
    OBVIOUS
  <2>1. ClocksAlike(seen[c], pci.ideconfig, d)
    BY <1>1 DEF PowerOK
  <2> QED
    BY <1>5, <1>6, <2>1, ClocksTrans
<1>15. CableOK'
  BY <1>1, <1>10, <1>11, <1>12, <1>13, CablesStay DEF CableOK
<1>16. PowerOK'
  <2> SUFFICES ASSUME NEW e \in Channels, NEW d \in Channels, Powering(e)', d \notin overtaken'
               PROVE  ClocksAlike(seen'[e], pci'.ideconfig, d)
    BY DEF PowerOK
  <2>1. e # c /\ Powering(e) /\ d \notin overtaken /\ seen'[e] = seen[e]
    BY <1>1, <1>10, <1>11, <1>12
  <2>2. ClocksAlike(seen[e], pci.ideconfig, d)
    BY <2>1 DEF PowerOK
  <2>3. ClocksAlike(pci.ideconfig, pci'.ideconfig, d)
    BY <1>14, <2>1 DEF ClocksAlike, Alike
  <2> QED
    BY <2>1, <2>2, <2>3, ClocksTrans
<1>17. \A d \in Channels : "reset unit 1" \in Due(d)' <=> "reset unit 1" \in Due(d)
  BY <1>8, <1>10, NamesApart
<1>18. CopyOK'
  BY <1>1, <1>17, TypeIs DEF CopyOK, Unreset
<1>19. AskOK'
  <2> SUFFICES ASSUME NEW d \in Channels, NEW v \in Units
               PROVE  /\ Suits(timings'[d][v], asked'[d][v], pci'.ideconfig, d, v)
                      /\ d \notin started' \/ "reset unit 1" \in Due(d)' => timings'[d][v] = Slowest
    BY DEF AskOK
  <2>1. Suits(timings[d][v], asked[d][v], pci'.ideconfig, d, v)
    BY <1>13, CablesStay
  <2>2. d \notin started \/ "reset unit 1" \in Due(d) => timings[d][v] = Slowest
    BY DEF AskOK
  <2> QED
    BY <1>1, <1>17, <2>1, <2>2
<1>20. WrittenOK'
  <2> SUFFICES ASSUME NEW d \in started \ asleep, NEW register \in RegisterNames, register \notin Due(d)',
                      register = "IDECONFIG" => d \notin overtaken
               PROVE  Matches(register, pci', copies[d], d)
    BY <1>1 DEF WrittenOK
  <2>1. d \in Channels /\ register \notin Due(d)
    BY <1>8, <1>10, NamesApart, TypeIs
  <2>2. Matches(register, pci, copies[d], d)
    BY <2>1 DEF WrittenOK
  <2>3. register = "IDECONFIG" => ClocksAlike(pci'.ideconfig, pci.ideconfig, d)
    BY <1>14, <2>1
  <2> QED
    BY <1>6, <2>2, <2>3 DEF Matches, ClocksAlike, Alike
<1> QED
  BY <1>7, <1>10, <1>15, <1>16, <1>18, <1>19, <1>20

(* selectConfig.                                                           *)
LEMMA SelectSteps ==
  ASSUME TimingsIInv, NEW c \in Channels, NEW u \in Units, NEW a \in Requests, SelectConfig(c, u, a)
  PROVE  TimingsIInv'
<1> USE DEF SelectConfig, TimingsIInv
<1> DEFINE t == Selected(a, copies[c], c, u)
           r == Compute(copies[c], t, c, u)
<1>1. /\ pci' = pci /\ started' = started /\ seen' = seen /\ drivePowerOn' = drivePowerOn
      /\ overtaken' = overtaken /\ asleep' = asleep
      /\ timings' = [timings EXCEPT ![c] = [timings[c] EXCEPT ![u] = t]]
      /\ copies' = [copies EXCEPT ![c] = r]
      /\ asked' = [asked EXCEPT ![c] = [asked[c] EXCEPT ![u] = a]]
      /\ job' = [job EXCEPT ![c] = Registers] /\ job[c] = <<>> /\ c \in started /\ Supported(a)
  BY DEF AtRest
<1>2. /\ copies \in [Channels -> Copies] /\ copies[c] \in Copies
      /\ timings \in [Channels -> [Units -> Timings]] /\ timings[c] \in [Units -> Timings]
      /\ asked \in [Channels -> [Units -> Requests]] /\ asked[c] \in [Units -> Requests]
  BY TypeIs
<1>3. t \in Timings /\ Suits(t, a, copies[c].ideConfig, c, u)
  BY <1>1, <1>2, SelectedSuits
<1> HIDE DEF t
<1>4. /\ r \in Copies /\ Holds(r, t, c, u) /\ Alike(r.ideConfig, copies[c].ideConfig, 4 .. 7)
      /\ \A v \in Units \ {u} : \A s : Holds(copies[c], s, c, v) => Holds(r, s, c, v)
  BY <1>2, <1>3, Computed
<1> HIDE DEF r
<1>5. /\ copies' \in [Channels -> Copies] /\ copies'[c] = r
      /\ \A d \in Channels : d # c => copies'[d] = copies[d]
  BY <1>1, <1>2, <1>4
<1>6. /\ timings' \in [Channels -> [Units -> Timings]] /\ timings'[c][u] = t
      /\ \A d \in Channels, v \in Units : d # c \/ v # u => timings'[d][v] = timings[d][v]
  BY <1>1, <1>2, <1>3
<1>7. /\ asked' \in [Channels -> [Units -> Requests]] /\ asked'[c][u] = a
      /\ \A d \in Channels, v \in Units : d # c \/ v # u => asked'[d][v] = asked[d][v]
  BY <1>1, <1>2
<1>8. TimingsTypeOK'
  <2>1. TimingsTypeOK
    OBVIOUS
  <2> QED
    BY <1>1, <1>5, <1>6, <1>7, <2>1 DEF TimingsTypeOK, Timings, Copies
<1>9. /\ JobOK' /\ Due(c)' = RegisterNames
      /\ \A d \in Channels : d # c => Due(d)' = Due(d) /\ (Powering(d)' <=> Powering(d))
  BY <1>1, JobGiven, RegistersDue, NamesApart
<1>10. ~Powering(c)' /\ Due(c) = {}
  <2>1. job'[c] = Registers
    BY <1>1 DEF JobOK
  <2>2. Head(Registers) = "IDETIM"
    BY HeadRegisters
  <2>3. Due(c) = {}
    BY <1>1, AtRestIs
  <2> QED
    BY <2>1, <2>2, <2>3 DEF Powering
<1>11. Alike(copies[c].ideConfig, pci.ideconfig, 4 .. 7)
  BY <1>1 DEF CableOK
<1>12. CableOK'
  <2>1. Alike(copies'[c].ideConfig, pci.ideconfig, 4 .. 7)
    BY <1>4, <1>5, <1>11, AlikeTrans
  <2> QED
    BY <1>1, <1>5, <1>9, <1>10, <2>1 DEF CableOK
<1>13. PowerOK'
  BY <1>1, <1>9, <1>10 DEF PowerOK
<1>14. \A d \in Channels : "reset unit 1" \in Due(d)' <=> "reset unit 1" \in Due(d)
  BY <1>9, <1>10, NamesApart
<1>15. CopyOK'
  <2> SUFFICES ASSUME NEW d \in started, NEW v \in Units, ~Unreset(d, v)'
               PROVE  Holds(copies'[d], timings'[d][v], d, v)
    BY <1>1 DEF CopyOK
  <2>1. d \in Channels /\ Holds(copies[d], timings[d][v], d, v) /\ ~Unreset(d, v)
    BY <1>1, <1>14, TypeIs DEF CopyOK, Unreset
  <2>2. CASE d # c
    BY <1>5, <1>6, <2>1, <2>2
  <2>3. CASE d = c /\ v # u
    <3>1. timings'[d][v] = timings[d][v] /\ v \in Units \ {u}
      BY <1>6, <2>1, <2>3
    <3> QED
      BY <1>4, <1>5, <2>1, <2>3, <3>1
  <2>4. CASE d = c /\ v = u
    BY <1>4, <1>5, <1>6, <2>4
  <2> QED
    BY <2>2, <2>3, <2>4
<1>16. AskOK'
  <2>1. Suits(t, a, pci.ideconfig, c, u)
    BY <1>3, <1>11, SuitsAlike
  <2>2. "reset unit 1" \notin Due(c)'
    BY <1>9, NamesApart
  <2> SUFFICES ASSUME NEW d \in Channels, NEW v \in Units
               PROVE  /\ Suits(timings'[d][v], asked'[d][v], pci.ideconfig, d, v)
                      /\ d \notin started \/ "reset unit 1" \in Due(d)' => timings'[d][v] = Slowest
    BY <1>1 DEF AskOK
  <2>3. CASE d = c /\ v = u
    BY <1>1, <1>6, <1>7, <2>1, <2>2, <2>3
  <2>4. CASE d # c \/ v # u
    <3>1. timings'[d][v] = timings[d][v] /\ asked'[d][v] = asked[d][v]
      BY <1>6, <1>7, <2>4
    <3>2. /\ Suits(timings[d][v], asked[d][v], pci.ideconfig, d, v)
          /\ d \notin started \/ "reset unit 1" \in Due(d) => timings[d][v] = Slowest
      BY DEF AskOK
    <3> QED
      BY <1>14, <3>1, <3>2
  <2> QED
    BY <2>3, <2>4
<1>17. WrittenOK'
  <2> SUFFICES ASSUME NEW d \in started \ asleep, NEW register \in RegisterNames, register \notin Due(d)',
                      register = "IDECONFIG" => d \notin overtaken
               PROVE  Matches(register, pci, copies'[d], d)
    BY <1>1 DEF WrittenOK
  <2>1. d \in Channels /\ d # c /\ register \notin Due(d) /\ copies'[d] = copies[d]
    BY <1>5, <1>9, TypeIs
  <2> QED
    BY <2>1 DEF WrittenOK
<1> QED
  BY <1>8, <1>9, <1>12, <1>13, <1>15, <1>16, <1>17

(* start and resetTimingsForDevice.                                        *)
LEMMA StartSteps ==
  ASSUME TimingsIInv, NEW c \in Channels, Start(c)
  PROVE  TimingsIInv'
<1> USE DEF Start, TimingsIInv
<1> DEFINE s == Registers \o <<"reset unit 1">>
           B == pci.ideconfig \cap (0 .. 15)
           q == [copies[c] EXCEPT !.ideConfig = B]
           r == Compute(q, Slowest, c, 0)
<1>1. /\ pci' = pci /\ started' = started \cup {c} /\ timings' = timings /\ asked' = asked
      /\ seen' = seen /\ drivePowerOn' = drivePowerOn /\ overtaken' = overtaken /\ asleep' = asleep
      /\ copies' = [copies EXCEPT ![c] = r] /\ job' = [job EXCEPT ![c] = s] /\ c \notin started
  OBVIOUS
<1>2. copies \in [Channels -> Copies] /\ copies[c] \in Copies /\ started \subseteq Channels
  BY TypeIs
<1>3. s \in Seq(Steps) /\ Elements(s) = RegisterNames \cup {"reset unit 1"}
  BY RegistersDue
<1>4. s # <<>> /\ Head(s) = "IDETIM"
  BY HeadRegisters, RegistersDue
<1> HIDE DEF s
<1>5. q \in Copies /\ q.ideConfig = B
  BY <1>2 DEF Copies
<1>6. Alike(B, pci.ideconfig, 4 .. 7)
  BY Ranges DEF Alike
<1> HIDE DEF B, q
<1>7. r \in Copies /\ Holds(r, Slowest, c, 0) /\ Alike(r.ideConfig, B, 4 .. 7)
  <2>1. 0 \in Units
    BY DEF Units
  <2> QED
    BY <1>5, <2>1, SlowestIs, Computed
<1> HIDE DEF r
<1>8. /\ copies' \in [Channels -> Copies] /\ copies'[c] = r
      /\ \A d \in Channels : d # c => copies'[d] = copies[d]
  BY <1>1, <1>2, <1>7
<1>9. TimingsTypeOK'
  <2>1. TimingsTypeOK
    OBVIOUS
  <2> QED
    BY <1>1, <1>8, <2>1 DEF TimingsTypeOK, Copies
<1>10. /\ JobOK' /\ Due(c)' = RegisterNames \cup {"reset unit 1"}
       /\ \A d \in Channels : d # c => Due(d)' = Due(d) /\ (Powering(d)' <=> Powering(d))
  <2>1. Elements(s) \cap PowerSteps = {}
    BY <1>3, NamesApart
  <2>2. JobOK
    OBVIOUS
  <2>3. c \in started'
    BY <1>1
  <2> QED
    BY <1>1, <1>3, <2>1, <2>2, <2>3, JobGiven
<1>11. ~Powering(c)'
  <2>1. job'[c] = s
    BY <1>1 DEF JobOK
  <2> QED
    BY <1>4, <2>1 DEF Powering
<1>12. CableOK'
  <2>1. Alike(copies'[c].ideConfig, pci.ideconfig, 4 .. 7)
    BY <1>6, <1>7, <1>8, AlikeTrans
  <2> QED
    BY <1>1, <1>8, <1>10, <1>11, <2>1 DEF CableOK
<1>13. PowerOK'
  BY <1>1, <1>10, <1>11 DEF PowerOK
<1>14. \A v \in Units : timings[c][v] = Slowest
  BY <1>1 DEF AskOK
<1>15. CopyOK'
  <2> SUFFICES ASSUME NEW d \in started', NEW v \in Units, ~Unreset(d, v)'
               PROVE  Holds(copies'[d], timings'[d][v], d, v)
    BY DEF CopyOK
  <2>1. CASE d = c
    <3>1. v = 0
      BY <1>10, <2>1 DEF Unreset, Units
    <3> QED
      BY <1>1, <1>7, <1>8, <1>14, <2>1, <3>1
  <2>2. CASE d # c
    <3>1. d \in started /\ d \in Channels
      BY <1>1, <1>2, <2>2
    <3>2. ~Unreset(d, v)
      BY <1>10, <2>2, <3>1 DEF Unreset
    <3> QED
      BY <1>1, <1>8, <2>2, <3>1, <3>2 DEF CopyOK
  <2> QED
    BY <2>1, <2>2
<1>16. AskOK'
  <2> SUFFICES ASSUME NEW d \in Channels, NEW v \in Units
               PROVE  /\ Suits(timings'[d][v], asked'[d][v], pci'.ideconfig, d, v)
                      /\ d \notin started' \/ "reset unit 1" \in Due(d)' => timings'[d][v] = Slowest
    BY DEF AskOK
  <2>1. Suits(timings[d][v], asked[d][v], pci.ideconfig, d, v)
    BY DEF AskOK
  <2>2. CASE d = c
    BY <1>1, <1>14, <2>1, <2>2
  <2>3. CASE d # c
    <3>1. Due(d)' = Due(d) /\ (d \in started' <=> d \in started)
      BY <1>1, <1>10, <2>3
    <3>2. d \notin started \/ "reset unit 1" \in Due(d) => timings[d][v] = Slowest
      BY DEF AskOK
    <3> QED
      BY <1>1, <2>1, <3>1, <3>2
  <2> QED
    BY <2>2, <2>3
<1>17. WrittenOK'
  <2> SUFFICES ASSUME NEW d \in started' \ asleep, NEW register \in RegisterNames, register \notin Due(d)',
                      register = "IDECONFIG" => d \notin overtaken
               PROVE  Matches(register, pci, copies'[d], d)
    <3>1. pci' = pci /\ asleep' = asleep /\ overtaken' = overtaken
      BY <1>1
    <3> QED
      BY <3>1 DEF WrittenOK
  <2>1. d # c
    BY <1>10
  <2>2. d \in Channels /\ d \in started \ asleep /\ register \notin Due(d) /\ copies'[d] = copies[d]
    BY <1>1, <1>2, <1>8, <1>10, <2>1
  <2> QED
    BY <2>2 DEF WrittenOK
<1> QED
  BY <1>9, <1>10, <1>12, <1>13, <1>15, <1>16, <1>17

LEMMA ResetSteps ==
  ASSUME TimingsIInv, NEW c \in Channels, ResetUnit1(c)
  PROVE  TimingsIInv'
<1> USE DEF ResetUnit1, TimingsIInv
<1> DEFINE r == Compute(copies[c], Slowest, c, 1)
<1>1. /\ pci' = pci /\ started' = started /\ timings' = timings /\ asked' = asked
      /\ seen' = seen /\ drivePowerOn' = drivePowerOn /\ overtaken' = overtaken /\ asleep' = asleep
      /\ copies' = [copies EXCEPT ![c] = r] /\ job' = [job EXCEPT ![c] = Registers]
      /\ job[c] # <<>> /\ Head(job[c]) = "reset unit 1"
  OBVIOUS
<1>2. copies \in [Channels -> Copies] /\ copies[c] \in Copies /\ started \subseteq Channels
  BY TypeIs
<1>3. c \in started /\ "reset unit 1" \in Due(c)
  BY <1>1, HeadIs
<1>4. /\ r \in Copies /\ Holds(r, Slowest, c, 1) /\ Alike(r.ideConfig, copies[c].ideConfig, 4 .. 7)
      /\ \A v \in Units \ {1} : \A t : Holds(copies[c], t, c, v) => Holds(r, t, c, v)
  <2>1. 1 \in Units
    BY DEF Units
  <2> QED
    BY <1>2, <2>1, SlowestIs, Computed
<1> HIDE DEF r
<1>5. /\ copies' \in [Channels -> Copies] /\ copies'[c] = r
      /\ \A d \in Channels : d # c => copies'[d] = copies[d]
  BY <1>1, <1>2, <1>4
<1>6. TimingsTypeOK'
  <2>1. TimingsTypeOK
    OBVIOUS
  <2> QED
    BY <1>1, <1>5, <2>1 DEF TimingsTypeOK, Copies
<1>7. /\ JobOK' /\ Due(c)' = RegisterNames
      /\ \A d \in Channels : d # c => Due(d)' = Due(d) /\ (Powering(d)' <=> Powering(d))
  BY <1>1, <1>3, JobGiven, RegistersDue, NamesApart
<1>8. ~Powering(c)'
  <2>1. job'[c] = Registers
    BY <1>1 DEF JobOK
  <2>2. Head(Registers) = "IDETIM"
    BY HeadRegisters
  <2> QED
    BY <2>1, <2>2 DEF Powering
<1>9. CableOK'
  <2>1. Alike(copies[c].ideConfig, pci.ideconfig, 4 .. 7)
    BY <1>3 DEF CableOK
  <2>2. Alike(copies'[c].ideConfig, pci.ideconfig, 4 .. 7)
    BY <1>4, <1>5, <2>1, AlikeTrans
  <2> QED
    BY <1>1, <1>5, <1>7, <1>8, <2>2 DEF CableOK
<1>10. PowerOK'
  BY <1>1, <1>7, <1>8 DEF PowerOK
<1>11. \A v \in Units : timings[c][v] = Slowest
  BY <1>3 DEF AskOK
<1>12. CopyOK'
  <2> SUFFICES ASSUME NEW d \in started, NEW v \in Units, ~Unreset(d, v)'
               PROVE  Holds(copies'[d], timings[d][v], d, v)
    BY <1>1 DEF CopyOK
  <2>1. CASE d = c /\ v = 1
    BY <1>4, <1>5, <1>11, <2>1
  <2>2. CASE d = c /\ v # 1
    <3>1. v \in Units \ {1} /\ ~Unreset(c, v)
      BY <2>2 DEF Unreset
    <3>2. Holds(copies[c], timings[c][v], c, v)
      BY <1>3, <3>1 DEF CopyOK
    <3> QED
      BY <1>4, <1>5, <2>2, <3>1, <3>2
  <2>3. CASE d # c
    <3>1. d \in Channels /\ ~Unreset(d, v)
      BY <1>1, <1>2, <1>7, <2>3 DEF Unreset
    <3> QED
      BY <1>5, <2>3, <3>1 DEF CopyOK
  <2> QED
    BY <2>1, <2>2, <2>3
<1>13. AskOK'
  <2>1. \A d \in Channels : "reset unit 1" \in Due(d)' => "reset unit 1" \in Due(d)
    BY <1>3, <1>7
  <2> QED
    BY <1>1, <2>1 DEF AskOK
<1>14. WrittenOK'
  <2> SUFFICES ASSUME NEW d \in started \ asleep, NEW register \in RegisterNames, register \notin Due(d)',
                      register = "IDECONFIG" => d \notin overtaken
               PROVE  Matches(register, pci, copies'[d], d)
    BY <1>1 DEF WrittenOK
  <2>1. d # c
    BY <1>7
  <2>2. d \in Channels /\ register \notin Due(d) /\ copies'[d] = copies[d]
    BY <1>2, <1>5, <1>7, <2>1
  <2> QED
    BY <2>2 DEF WrittenOK
<1> QED
  BY <1>6, <1>7, <1>9, <1>10, <1>12, <1>13, <1>14

(* writeTimingRegisters.                                                   *)
LEMMA NoPowerStep ==
  ASSUME NEW S, NEW s \in Seq(S), s # <<>>, Elements(s) \cap PowerSteps = {}
  PROVE  Head(s) \notin PowerSteps
BY ElementsTail

LEMMA WriteSteps ==
  ASSUME TimingsIInv, NEW c \in Channels, WriteTimingRegister(c)
  PROVE  TimingsIInv'
<1> USE DEF WriteTimingRegister, TimingsIInv
<1> DEFINE h == Head(job[c])
           s == Tail(job[c])
           r == copies[c]
<1>1. /\ started' = started /\ timings' = timings /\ copies' = copies /\ asked' = asked
      /\ seen' = seen /\ drivePowerOn' = drivePowerOn /\ asleep' = asleep
      /\ job' = [job EXCEPT ![c] = s] /\ job[c] # <<>> /\ pci' = Written(h, r, c)
  OBVIOUS
<1>2. /\ h # "IDECONFIG" => overtaken' = overtaken
      /\ overtaken' \subseteq overtaken \cup {c} /\ overtaken \subseteq overtaken' \cup {c}
      /\ h = "IDECONFIG" /\ (\E d \in Channels \ {c} : Powering(d)) => c \in overtaken'
  OBVIOUS
<1>3. h \in RegisterNames
  BY RegistersDue
<1>4. copies \in [Channels -> Copies] /\ r \in Copies /\ started \subseteq Channels /\ pci \in PCI
      /\ overtaken \subseteq Channels
  BY TypeIs
<1>5. WritesOwn(h, pci', pci, r, c)
  BY <1>1, <1>3, <1>4, WrittenOwn
<1>6. /\ c \in started /\ s \in Seq(Steps) /\ Due(c) = {h} \cup Elements(s)
      /\ Powering(c) <=> h \in PowerSteps
      /\ ~Powering(c) => Due(c) \cap PowerSteps = {}
  BY <1>1, HeadIs
<1>7. h \notin PowerSteps /\ h # "reset unit 1"
  BY <1>3, NamesApart
<1>8. Elements(s) \cap PowerSteps = {}
  BY <1>6, <1>7
<1> HIDE DEF h, s, r
<1>9. /\ JobOK' /\ Due(c)' = Elements(s)
      /\ \A d \in Channels : d # c => Due(d)' = Due(d) /\ (Powering(d)' <=> Powering(d))
  <2>1. JobOK
    OBVIOUS
  <2> QED
    BY <1>1, <1>6, <1>8, <2>1, JobGiven
<1>10. ~Powering(c)' /\ ~Powering(c)
  <2>1. job'[c] = s
    BY <1>1 DEF JobOK
  <2>2. s # <<>> => Head(s) \notin PowerSteps
    BY <1>6, <1>8, NoPowerStep
  <2> QED
    BY <1>6, <1>7, <2>1, <2>2 DEF Powering, PowerSteps
<1>11. /\ pci' \in PCI /\ AlikeButFor(h, pci', pci) /\ Matches(h, pci', r, c)
       /\ \A d \in Channels : d # c => FieldsAlike(pci', pci, d)
       /\ Alike(pci'.ideconfig, pci.ideconfig, 4 .. 7)
  BY <1>5 DEF WritesOwn
<1>12. TimingsTypeOK'
  <2>1. overtaken' \subseteq Channels
    BY <1>2, <1>4
  <2>2. TimingsTypeOK
    OBVIOUS
  <2> QED
    BY <1>1, <1>11, <2>1, <2>2 DEF TimingsTypeOK, PCI
<1>13. CableOK'
  <2>1. CableOK /\ AskOK
    OBVIOUS
  <2> QED
    BY <1>1, <1>9, <1>10, <1>11, <2>1, CablesStay DEF CableOK
<1>14. PowerOK'
  <2> SUFFICES ASSUME NEW d \in Channels, NEW e \in Channels, Powering(d)', e \notin overtaken'
               PROVE  ClocksAlike(seen[d], pci'.ideconfig, e)
    BY <1>1 DEF PowerOK
  <2>1. d # c /\ Powering(d)
    BY <1>9, <1>10
  <2>2. CASE e = c
    <3>1. h # "IDECONFIG" /\ c \notin overtaken
      BY <1>2, <2>1, <2>2
    <3>2. pci'.ideconfig = pci.ideconfig
      BY <1>11, <3>1 DEF AlikeButFor
    <3> QED
      BY <2>1, <2>2, <3>1, <3>2 DEF PowerOK
  <2>3. CASE e # c
    <3>1. ClocksAlike(pci.ideconfig, pci'.ideconfig, e)
      BY <1>11, <2>3 DEF FieldsAlike, ClocksAlike, Alike
    <3>2. ClocksAlike(seen[d], pci.ideconfig, e)
      BY <1>2, <2>1, <2>3 DEF PowerOK
    <3> QED
      BY <3>1, <3>2, ClocksTrans
  <2> QED
    BY <2>2, <2>3
<1>15. \A d \in Channels : "reset unit 1" \in Due(d)' <=> "reset unit 1" \in Due(d)
  BY <1>6, <1>7, <1>9
<1>16. CopyOK'
  BY <1>1, <1>4, <1>15 DEF CopyOK, Unreset
<1>17. AskOK'
  <2>1. CableOK /\ AskOK
    OBVIOUS
  <2> QED
    BY <1>1, <1>11, <1>15, <2>1, CablesStay DEF AskOK
<1>18. WrittenOK'
  <2> SUFFICES ASSUME NEW d \in started \ asleep, NEW register \in RegisterNames, register \notin Due(d)',
                      register = "IDECONFIG" => d \notin overtaken'
               PROVE  Matches(register, pci', copies[d], d)
    BY <1>1 DEF WrittenOK
  <2>0. d \in Channels
    BY <1>4
  <2>1. CASE d = c /\ register = h
    BY <1>11, <2>1 DEF r
  <2>2. CASE d = c /\ register # h
    <3>1. register \notin Due(c)
      BY <1>6, <1>9, <2>2
    <3>2. register = "IDECONFIG" => c \notin overtaken
      BY <1>2, <2>2
    <3>3. Matches(register, pci, copies[c], c)
      BY <2>2, <3>1, <3>2 DEF WrittenOK
    <3> QED
      BY <1>11, <2>2, <3>3, OthersMatch
  <2>3. CASE d # c
    <3>1. register \notin Due(d) /\ (register = "IDECONFIG" => d \notin overtaken)
      BY <1>2, <1>9, <2>0, <2>3
    <3>2. Matches(register, pci, copies[d], d)
      BY <3>1 DEF WrittenOK
    <3> QED
      BY <1>11, <2>0, <2>3, <3>2, FieldsMatch
  <2> QED
    BY <2>1, <2>2, <2>3
<1> QED
  BY <1>9, <1>12, <1>13, <1>14, <1>16, <1>17, <1>18

LEMMA NextOK == TimingsIInv /\ [TimingsNext]_timingsVars => TimingsIInv'
<1> SUFFICES ASSUME TimingsIInv, [TimingsNext]_timingsVars PROVE TimingsIInv'
  OBVIOUS
<1>1. ASSUME NEW c \in Channels, Start(c) PROVE TimingsIInv'
  BY <1>1, StartSteps
<1>2. ASSUME NEW c \in Channels, ResetUnit1(c) PROVE TimingsIInv'
  BY <1>2, ResetSteps
<1>3. ASSUME NEW c \in Channels, WriteTimingRegister(c) PROVE TimingsIInv'
  BY <1>3, WriteSteps
<1>4. ASSUME NEW c \in Channels, TurnOffDrive(c) \/ TurnOnDrive(c) PROVE TimingsIInv'
  BY <1>4, TurnSteps DEF TurnOffDrive, TurnOnDrive, PowerSteps
<1>5. ASSUME NEW c \in Channels, WriteSignalMode(c) PROVE TimingsIInv'
  BY <1>5, SignalSteps
<1>6. ASSUME NEW c \in Channels, SetPowerStateOff(c) PROVE TimingsIInv'
  BY <1>6, SleepSteps
<1>7. ASSUME NEW c \in Channels, SetPowerStateOn(c) PROVE TimingsIInv'
  BY <1>7, WakeSteps
<1>8. ASSUME NEW c \in Channels, NEW u \in Units, <<c, u>> \in Drives, NEW a \in Configs[<<c, u>>],
             SelectConfig(c, u, a)
      PROVE  TimingsIInv'
  <2>1. a \in Requests
    BY <1>8, TimingsAssumption DEF TimingsAssumption
  <2> QED
    BY <1>8, <2>1, SelectSteps
<1>9. CASE LoseRegisters
  BY <1>9, LossSteps
<1>10. CASE UNCHANGED timingsVars
  <2>1. \A c \in Channels : Due(c)' = Due(c) /\ (Powering(c)' <=> Powering(c))
    BY <1>10 DEF timingsVars, Due, Powering
  <2>2. TimingsTypeOK' /\ JobOK'
    BY <1>10, <2>1 DEF timingsVars, TimingsIInv, TimingsTypeOK, JobOK
  <2>3. CableOK' /\ PowerOK'
    BY <1>10, <2>1 DEF timingsVars, TimingsIInv, CableOK, PowerOK
  <2>4. CopyOK' /\ AskOK'
    BY <1>10, <2>1, TypeIs DEF timingsVars, TimingsIInv, CopyOK, AskOK, Unreset
  <2>5. WrittenOK'
    BY <1>10, <2>1, TypeIs DEF timingsVars, TimingsIInv, WrittenOK
  <2> QED
    BY <2>2, <2>3, <2>4, <2>5 DEF TimingsIInv
<1> QED
  BY <1>1, <1>2, <1>3, <1>4, <1>5, <1>6, <1>7, <1>8, <1>9, <1>10 DEF TimingsNext

LEMMA TimingsInvariant == TimingsSpec => []TimingsIInv
<1>1. TimingsInit => TimingsIInv
  BY InitOK
<1>2. TimingsIInv /\ [TimingsNext]_timingsVars => TimingsIInv'
  BY NextOK
<1> QED
  BY <1>1, <1>2, PTL DEF TimingsSpec

(* The registers, the copies and all that a driver holds stay in their     *)
(* widths: no field is written over its register's end.                    *)
THEOREM TimingsTypeCorrect == TimingsSpec => []TimingsTypeOK
<1>1. TimingsIInv => TimingsTypeOK
  BY DEF TimingsIInv
<1> QED
  BY <1>1, TimingsInvariant, PTL

-----------------------------------------------------------------------------
(* The cycle times of a channel that has written all its registers.        *)
Held(c) ==
  /\ \A u \in Units : Holds(copies[c], timings[c][u], c, u)
  /\ \A register \in RegisterNames : Matches(register, pci, copies[c], c)

LEMMA SettledHeld ==
  ASSUME TimingsIInv, NEW c \in Channels, Settled(c)
  PROVE  Held(c)
<1>1. c \in started /\ job[c] = <<>> /\ c \notin asleep /\ c \notin overtaken
  BY DEF Settled, AtRest
<1>2. Due(c) = {}
  BY <1>1, AtRestIs
<1>3. \A u \in Units : Holds(copies[c], timings[c][u], c, u)
  BY <1>1, <1>2 DEF TimingsIInv, CopyOK, Unreset
<1>4. \A register \in RegisterNames : Matches(register, pci, copies[c], c)
  BY <1>1, <1>2 DEF TimingsIInv, WrittenOK
<1> QED
  BY <1>3, <1>4 DEF Held

LEMMA Speeds == Speed(1) = 600 /\ Speed(2) = 240 /\ Speed(3) = 180 /\ Speed(4) = 120
BY DEF Speed

(* The bits that make the timing of a channel's drives.                    *)
LEMMA HeldBits ==
  ASSUME NEW c \in Channels, Held(c), NEW i \in 1 .. 4, NEW j \in 1 .. 4,
         i = Index(timings[c][0]), j = Index(timings[c][1])
  PROVE  /\ pci.idetim[c] = IDETIM(i, 0) \cup IDETIM(j, 1)
         /\ Alike(pci.sidetim, SIDETIM(j, c), SideMask(c))
<1>1. 0 \in Units /\ 1 \in Units
  BY DEF Units
<1>2. copies[c].idetim[0] = IDETIM(i, 0) /\ copies[c].idetim[1] = IDETIM(j, 1)
      /\ Alike(copies[c].sidetim, SIDETIM(j, c), SideMask(c))
  BY <1>1 DEF Held, Holds, HasTiming, HasSide
<1>3. pci.idetim[c] = copies[c].idetim[0] \cup copies[c].idetim[1]
      /\ Alike(pci.sidetim, copies[c].sidetim, SideMask(c))
  BY DEF Held, Matches, RegisterNames
<1> QED
  BY <1>2, <1>3, AlikeTrans

LEMMA FastSpeed ==
  ASSUME NEW S, NEW i \in 1 .. 4, NEW j \in 1 .. 4, S = IDETIM(i, 0) \cup IDETIM(j, 1)
  PROVE  /\ 0 \in S <=> i # 1
         /\ 4 \in S <=> j # 1
         /\ 14 \in S /\ 3 \notin S /\ 7 \notin S
         /\ i # 1 => FastCycle(S, 8) = Speed(i)
<1>1. (i = 1 \/ i = 2 \/ i = 3 \/ i = 4) /\ (j = 1 \/ j = 2 \/ j = 3 \/ j = 4)
  BY SmallNumbers
<1>2. IDETIM(j, 1) = (IF j = 1 THEN {15, 14} ELSE {15, 4, 5, 6, 14})
  BY <1>1, IDETIMs
<1>3. /\ 0 \in S <=> i # 1
      /\ 4 \in S <=> j # 1
      /\ 14 \in S /\ 3 \notin S /\ 7 \notin S
  BY <1>1, <1>2, IDETIMs
<1>4. FastCycle(S, 8) = 30 * (9 - Field(S, 13, 12) - Field(S, 9, 8))
  BY DEF FastCycle
<1>5. CASE i = 2
  <2>1. 12 \in S /\ 13 \notin S /\ 8 \notin S /\ 9 \notin S
    BY <1>2, <1>5, IDETIMs
  <2> QED
    BY <1>3, <1>4, <1>5, <2>1, Speeds DEF Field
<1>6. CASE i = 3
  <2>1. 12 \notin S /\ 13 \in S /\ 8 \in S /\ 9 \notin S
    BY <1>2, <1>6, IDETIMs
  <2> QED
    BY <1>3, <1>4, <1>6, <2>1, Speeds DEF Field
<1>7. CASE i = 4
  <2>1. 12 \notin S /\ 13 \in S /\ 8 \in S /\ 9 \in S
    BY <1>2, <1>7, IDETIMs
  <2> QED
    BY <1>3, <1>4, <1>7, <2>1, Speeds DEF Field
<1> QED
  BY <1>1, <1>3, <1>5, <1>6, <1>7

LEMMA SideSpeed ==
  ASSUME NEW c \in Channels, NEW T, NEW j \in 1 .. 4, Alike(T, SIDETIM(j, c), SideMask(c)), j # 1
  PROVE  SideCycle(T, 4 * c) = Speed(j)
<1>1. (c = 0 \/ c = 1) /\ (j = 2 \/ j = 3 \/ j = 4)
  BY SmallNumbers DEF Channels
<1>2. SideCycle(T, 4 * c) = 30 * (9 - Field(T, 4 * c + 3, 4 * c + 2) - Field(T, 4 * c + 1, 4 * c))
  BY DEF SideCycle
<1>3. CASE c = 0
  <2>1. SideCycle(T, 4 * c) = 30 * (9 - Field(T, 3, 2) - Field(T, 1, 0))
    BY <1>2, <1>3
  <2>2. \A b \in {0, 1, 2, 3} : b \in T <=> b \in SIDETIM(j, 0)
    BY <1>3, Places DEF Alike
  <2> QED
    BY <1>1, <2>1, <2>2, SIDETIMs, Speeds DEF Field
<1>4. CASE c = 1
  <2>1. SideCycle(T, 4 * c) = 30 * (9 - Field(T, 7, 6) - Field(T, 5, 4))
    BY <1>2, <1>4
  <2>2. \A b \in {4, 5, 6, 7} : b \in T <=> b \in SIDETIM(j, 1)
    BY <1>4, Places DEF Alike
  <2> QED
    BY <1>1, <2>1, <2>2, SIDETIMs, Speeds DEF Field
<1> QED
  BY <1>1, <1>3, <1>4

LEMMA ChipSpeed ==
  ASSUME NEW c \in Channels, Held(c), NEW u \in Units, timings \in [Channels -> [Units -> Timings]]
  PROVE  /\ DMACycle(c, u) = Speed(Index(timings[c][u]))
         /\ PIOCycle(c, u) = DMACycle(c, u)
<1> DEFINE i == Index(timings[c][0])
           j == Index(timings[c][1])
           S == pci.idetim[c]
<1>1. i \in 1 .. 4 /\ j \in 1 .. 4
  <2>1. timings[c][0] \in Timings /\ timings[c][1] \in Timings
    BY DEF Units
  <2> QED
    BY <2>1, IndexFacts
<1>2. S = IDETIM(i, 0) \cup IDETIM(j, 1) /\ Alike(pci.sidetim, SIDETIM(j, c), SideMask(c))
  BY <1>1, HeldBits
<1> HIDE DEF i, j, S
<1>3. /\ 0 \in S <=> i # 1
      /\ 4 \in S <=> j # 1
      /\ 14 \in S /\ 3 \notin S /\ 7 \notin S
      /\ i # 1 => FastCycle(S, 8) = Speed(i)
  BY <1>1, <1>2, FastSpeed
<1>4. j # 1 => SideCycle(pci.sidetim, 4 * c) = Speed(j)
  BY <1>1, <1>2, SideSpeed
<1>5. CASE u = 0
  <2>1. TIME(u) = 0 /\ DTE(u) = 3 /\ u # 1 /\ CompatibleCycle = 600
    BY <1>5 DEF TIME, DTE, CompatibleCycle
  <2>2. DMACycle(c, u) = (IF 0 \notin S THEN 600 ELSE FastCycle(S, 8))
    BY <2>1 DEF DMACycle, S
  <2>3. DMACycle(c, u) = Speed(i)
    BY <1>3, <2>2, Speeds
  <2>4. PIOCycle(c, u) = DMACycle(c, u)
    BY <1>3, <2>1 DEF PIOCycle, S
  <2> QED
    BY <1>5, <2>3, <2>4 DEF i
<1>6. CASE u = 1
  <2>1. TIME(u) = 4 /\ DTE(u) = 7 /\ CompatibleCycle = 600
    BY <1>6 DEF TIME, DTE, CompatibleCycle
  <2>2. DMACycle(c, u) = (IF 4 \notin S THEN 600 ELSE SideCycle(pci.sidetim, 4 * c))
    BY <1>3, <1>6, <2>1 DEF DMACycle, S, SITRE
  <2>3. DMACycle(c, u) = Speed(j)
    BY <1>3, <1>4, <2>2, Speeds
  <2>4. PIOCycle(c, u) = DMACycle(c, u)
    BY <1>3, <2>1 DEF PIOCycle, S
  <2> QED
    BY <1>6, <2>3, <2>4 DEF j
<1> QED
  BY <1>5, <1>6 DEF Units

LEMMA HeldUDMA ==
  ASSUME NEW c \in Channels, Held(c), NEW u \in Units, NEW m, m = timings[c][u].udma
  PROVE  /\ UDMAEnable(c, u) \in pci.udmactl <=> m # NoMode
         /\ m # NoMode =>
              /\ Alike(pci.udmatim, Shift(UDMATiming[m].udmatim, 8 * c + 4 * u), UDMATIMMask(c, u))
              /\ Alike(pci.ideconfig, Shift(UDMATiming[m].udmaClock, ClockShift(c, u)), ClockMask(c, u))
<1>1. /\ UDMAEnable(c, u) \in copies[c].udmactl <=> m # NoMode
      /\ m # NoMode =>
           /\ Alike(copies[c].udmatim, Shift(UDMATiming[m].udmatim, 8 * c + 4 * u), UDMATIMMask(c, u))
           /\ Alike(copies[c].ideConfig, Shift(UDMATiming[m].udmaClock, ClockShift(c, u)), ClockMask(c, u))
  BY DEF Held, Holds, HasUDMA
<1>2. /\ UDMAEnable(c, u) \in pci.udmactl <=> UDMAEnable(c, u) \in copies[c].udmactl
      /\ Alike(pci.udmatim, copies[c].udmatim, UDMATIMMask(c, u))
      /\ Alike(pci.ideconfig, copies[c].ideConfig, ClockMask(c, u))
  BY DEF Held, Matches, RegisterNames, ClocksAlike
<1> QED
  BY <1>1, <1>2, AlikeTrans

LEMMA UDMASpeed ==
  ASSUME NEW c \in Channels, Held(c), NEW u \in Units, NEW m \in 0 .. 5, m = timings[c][u].udma
  PROVE  UDMACycle(c, u) = UDMATiming[m].cycle
<1> DEFINE n == 8 * c + 4 * u
           k == ClockShift(c, u)
<1>1. m # NoMode /\ n \in Int /\ k \in Int /\ (m = 0 \/ m = 1 \/ m = 2 \/ m = 3 \/ m = 4 \/ m = 5)
  BY SmallNumbers DEF NoMode, ClockShift, Channels, Units
<1>2. /\ UDMAEnable(c, u) \in pci.udmactl
      /\ Alike(pci.udmatim, Shift(UDMATiming[m].udmatim, n), UDMATIMMask(c, u))
      /\ Alike(pci.ideconfig, Shift(UDMATiming[m].udmaClock, k), ClockMask(c, u))
  BY <1>1, HeldUDMA
<1>3. n \in UDMATIMMask(c, u) /\ n + 1 \in UDMATIMMask(c, u) /\ k \in ClockMask(c, u) /\ k + 12 \in ClockMask(c, u)
      /\ FAST_PCB0 + k = k + 12 /\ PCB0 + k = k
  BY <1>1, ChipBits DEF FAST_PCB0, PCB0
<1>4. UDMAClocks(c, u) = 4 - Field(pci.udmatim, n + 1, n)
  BY DEF UDMAClocks
<1>5. UDMACycle(c, u) = (IF k + 12 \in pci.ideconfig THEN (20 * UDMAClocks(c, u)) \div 3
                         ELSE IF k \in pci.ideconfig THEN 15 * UDMAClocks(c, u) ELSE 30 * UDMAClocks(c, u))
  BY <1>2, <1>3 DEF UDMACycle
<1> HIDE DEF n, k
<1>6. /\ n \in pci.udmatim <=> n \in Shift(UDMATiming[m].udmatim, n)
      /\ n + 1 \in pci.udmatim <=> n + 1 \in Shift(UDMATiming[m].udmatim, n)
      /\ k \in pci.ideconfig <=> k \in Shift(UDMATiming[m].udmaClock, k)
      /\ k + 12 \in pci.ideconfig <=> k + 12 \in Shift(UDMATiming[m].udmaClock, k)
  BY <1>2, <1>3 DEF Alike
<1>7. /\ Shift({}, n) = {} /\ Shift({0}, n) = {n} /\ Shift({1}, n) = {n + 1}
      /\ Shift({}, k) = {} /\ Shift({0}, k) = {k} /\ Shift({12}, k) = {k + 12}
  BY <1>1, ShiftIs
<1>8. /\ m = 0 => Field(pci.udmatim, n + 1, n) = 0
      /\ m \in {1, 3, 5} => Field(pci.udmatim, n + 1, n) = 1
      /\ m \in {2, 4} => Field(pci.udmatim, n + 1, n) = 2
  <2> DEFINE X == UDMATiming[m].udmatim
  <2>1. /\ m = 0 => X = {}
        /\ m \in {1, 3, 5} => X = {0}
        /\ m \in {2, 4} => X = {1}
    BY UDMATable
  <2>2. (n \in pci.udmatim <=> n \in Shift(X, n)) /\ (n + 1 \in pci.udmatim <=> n + 1 \in Shift(X, n))
    BY <1>6
  <2>3. n + 1 # n
    BY <1>1
  <2> HIDE DEF X
  <2>4. /\ X = {} => n \notin pci.udmatim /\ n + 1 \notin pci.udmatim
        /\ X = {0} => n \in pci.udmatim /\ n + 1 \notin pci.udmatim
        /\ X = {1} => n \notin pci.udmatim /\ n + 1 \in pci.udmatim
    BY <1>7, <2>2, <2>3
  <2> QED
    BY <2>1, <2>4 DEF Field
<1>9. /\ m \in {0, 1, 2} => k \notin pci.ideconfig /\ k + 12 \notin pci.ideconfig
      /\ m \in {3, 4} => k \in pci.ideconfig /\ k + 12 \notin pci.ideconfig
      /\ m = 5 => k + 12 \in pci.ideconfig
  <2> DEFINE X == UDMATiming[m].udmaClock
  <2>1. /\ m \in {0, 1, 2} => X = {}
        /\ m \in {3, 4} => X = {0}
        /\ m = 5 => X = {12}
    BY UDMATable
  <2>2. (k \in pci.ideconfig <=> k \in Shift(X, k)) /\ (k + 12 \in pci.ideconfig <=> k + 12 \in Shift(X, k))
    BY <1>6
  <2>3. k + 12 # k
    BY <1>1
  <2> HIDE DEF X
  <2>4. /\ X = {} => k \notin pci.ideconfig /\ k + 12 \notin pci.ideconfig
        /\ X = {0} => k \in pci.ideconfig /\ k + 12 \notin pci.ideconfig
        /\ X = {12} => k + 12 \in pci.ideconfig
    BY <1>7, <2>2, <2>3
  <2> QED
    BY <2>1, <2>4
<1>10. (20 * 3) \div 3 = 20
  OBVIOUS
<1>11. CASE m \in {0, 1, 2}
  BY <1>4, <1>5, <1>8, <1>9, <1>11, UDMATable
<1>12. CASE m \in {3, 4}
  BY <1>4, <1>5, <1>8, <1>9, <1>12, UDMATable
<1>13. CASE m = 5
  <2>1. UDMAClocks(c, u) = 3
    BY <1>4, <1>8, <1>13
  <2>2. UDMACycle(c, u) = (20 * 3) \div 3
    BY <1>5, <1>9, <1>13, <2>1
  <2> QED
    BY <1>10, <1>13, <2>2, UDMATable
<1> QED
  BY <1>1, <1>11, <1>12, <1>13

(* A slower mode has the longer cycle.                                     *)
LEMMA Slower ==
  /\ \A m \in 0 .. 2, n \in 0 .. 2 : m <= n => DMATiming[m].cycleTime >= DMATiming[n].cycleTime
  /\ \A m \in 0 .. 5, n \in 0 .. 5 : m <= n => UDMATiming[m].cycle >= UDMATiming[n].cycle
  /\ \A m \in 0 .. 2 : DMATiming[m].cycleTime <= 480
  /\ \A m \in 0 .. 5 : UDMATiming[m].cycle \in 20 .. 120
<1>1. \A m \in 0 .. 2, n \in 0 .. 2 : m <= n => DMATiming[m].cycleTime >= DMATiming[n].cycleTime
  <2> SUFFICES ASSUME NEW m \in 0 .. 2, NEW n \in 0 .. 2, m <= n
               PROVE  DMATiming[m].cycleTime >= DMATiming[n].cycleTime
    OBVIOUS
  <2>1. (m = 0 \/ m = 1 \/ m = 2) /\ (n = 0 \/ n = 1 \/ n = 2)
    BY SmallNumbers
  <2> QED
    BY <2>1, DMATable
<1>2. \A m \in 0 .. 5, n \in 0 .. 5 : m <= n => UDMATiming[m].cycle >= UDMATiming[n].cycle
  <2> SUFFICES ASSUME NEW m \in 0 .. 5, NEW n \in 0 .. 5, m <= n
               PROVE  UDMATiming[m].cycle >= UDMATiming[n].cycle
    OBVIOUS
  <2>1. (m = 0 \/ m = 1 \/ m = 2 \/ m = 3 \/ m = 4 \/ m = 5)
        /\ (n = 0 \/ n = 1 \/ n = 2 \/ n = 3 \/ n = 4 \/ n = 5)
    BY SmallNumbers
  <2> QED
    BY <2>1, UDMATable
<1>3. \A m \in 0 .. 2 : DMATiming[m].cycleTime <= 480
  BY SmallNumbers, DMATable
<1>4. \A m \in 0 .. 5 : UDMATiming[m].cycle \in 20 .. 120
  BY SmallNumbers, UDMATable
<1> QED
  BY <1>1, <1>2, <1>3, <1>4

LEMMA SettledAsAsked ==
  ASSUME TimingsIInv, NEW c \in Channels, NEW u \in Units, Settled(c)
  PROVE  /\ DMAAsAsked(c, u) /\ UDMAAsAsked(c, u)
         /\ ~SlowPIO(timings[c][u]) => PIOAsAsked(c, u)
<1> DEFINE t == timings[c][u]
           a == asked[c][u]
<1>1. t \in Timings /\ a \in Requests /\ timings \in [Channels -> [Units -> Timings]]
  BY TypeIs DEF TimingsIInv
<1>2. Held(c)
  BY SettledHeld
<1>3. Suits(t, a, pci.ideconfig, c, u)
  BY DEF TimingsIInv, AskOK
<1>4. DMACycle(c, u) = Speed(Index(t)) /\ PIOCycle(c, u) = DMACycle(c, u)
  BY <1>1, <1>2, ChipSpeed
<1>5. Index(t) \in 1 .. 4 /\ Cycle(t) \in Nat /\ Cycle(t) <= Speed(Index(t)) /\ Speed(Index(t)) <= 600
      /\ (t.dma # NoMode => Cycle(t) = DMATiming[t.dma].cycleTime)
      /\ (t.dma = 0 => Index(t) = 1)
  BY <1>1, IndexFacts
<1>6. /\ a.pioCycle \in Nat /\ a.dma \in -1 .. 2 /\ a.dmaCycle \in Nat /\ a.udma \in -1 .. 5
      /\ t.pio \in 0 .. 4 /\ t.dma \in -1 .. 2 /\ t.udma \in -1 .. 5
  BY <1>1 DEF Timings, Requests
<1>7. Speed(Index(t)) \in Int
  BY <1>5 DEF Speed
<1>8. /\ t.pio = 0 \/ a.pioCycle <= PIOTiming[t.pio].cycleTime
      /\ t.dma # NoMode => /\ a.dma \in 0 .. 2 /\ t.dma <= a.dma
                           /\ t.dma = 0 \/ a.dmaCycle <= DMATiming[t.dma].cycleTime
      /\ t.udma = NoMode <=> a.udma = NoMode
      /\ t.udma <= a.udma
      /\ t.udma > 2 => CableBit(c, u) \in pci.ideconfig
  BY <1>3 DEF Suits
<1>9. t.udma # NoMode => UDMACycle(c, u) = UDMATiming[t.udma].cycle
  BY <1>2, <1>6, UDMASpeed DEF NoMode
<1>10. t.udma = NoMode => UDMACycle(c, u) = NoMode
  BY <1>2, HeldUDMA DEF UDMACycle
<1>11. timings[c][u] = t /\ asked[c][u] = a
  OBVIOUS
<1> HIDE DEF t, a
<1>12. DMAAsAsked(c, u)
  <2> SUFFICES ASSUME t.dma # NoMode
               PROVE  /\ DMACycle(c, u) >= a.dmaCycle \/ DMACycle(c, u) = 600
                      /\ DMACycle(c, u) >= DMATiming[a.dma].cycleTime
    BY <1>11 DEF DMAAsAsked, NotBelow, CompatibleCycle
  <2>1. t.dma \in 0 .. 2 /\ a.dma \in 0 .. 2 /\ t.dma <= a.dma
    BY <1>6, <1>8 DEF NoMode
  <2>2. DMATiming[t.dma].cycleTime >= DMATiming[a.dma].cycleTime /\ DMATiming[a.dma].cycleTime <= 480
    BY <2>1, Slower
  <2>3. DMATiming[t.dma].cycleTime \in Int /\ DMATiming[a.dma].cycleTime \in Int
    BY <2>1, SmallNumbers, DMATable
  <2>4. DMACycle(c, u) >= DMATiming[t.dma].cycleTime /\ DMACycle(c, u) \in Int
    BY <1>4, <1>5, <1>7
  <2>5. t.dma = 0 => DMACycle(c, u) = 600
    BY <1>4, <1>5, Speeds
  <2> QED
    BY <1>6, <1>8, <2>2, <2>3, <2>4, <2>5
<1>13. UDMAAsAsked(c, u)
  <2>1. CASE a.udma = NoMode
    BY <1>8, <1>10, <1>11, <2>1 DEF UDMAAsAsked
  <2>2. CASE a.udma # NoMode
    <3>1. t.udma # NoMode /\ t.udma \in 0 .. 5 /\ a.udma \in 0 .. 5
      BY <1>6, <1>8, <2>2 DEF NoMode
    <3>2. UDMACycle(c, u) = UDMATiming[t.udma].cycle
      BY <1>9, <3>1
    <3>3. UDMACycle(c, u) >= UDMATiming[a.udma].cycle
      BY <1>8, <3>1, <3>2, Slower
    <3>4. CableBit(c, u) \notin pci.ideconfig => UDMACycle(c, u) >= UDMATiming[2].cycle
      <4>1. CableBit(c, u) \notin pci.ideconfig => t.udma <= 2
        BY <1>8, <3>1
      <4> QED
        BY <3>1, <3>2, <4>1, Slower
    <3> QED
      BY <1>11, <2>2, <3>3, <3>4 DEF UDMAAsAsked
  <2> QED
    BY <2>1, <2>2
<1>14. ~SlowPIO(t) => PIOAsAsked(c, u)
  <2> SUFFICES ASSUME ~SlowPIO(t) PROVE PIOCycle(c, u) >= a.pioCycle \/ PIOCycle(c, u) = 600
    BY <1>11 DEF PIOAsAsked, NotBelow, CompatibleCycle
  <2>1. Cycle(t) = PIOTiming[t.pio].cycleTime
    BY DEF SlowPIO
  <2>2. t.pio = 0 => Cycle(t) = 600
    BY <2>1, PIOTable
  <2> QED
    BY <1>4, <1>5, <1>6, <1>7, <1>8, <2>1, <2>2
<1> QED
  BY <1>12, <1>13, <1>14 DEF t

(* No drive is run faster than was asked for it and its cable allows, and  *)
(* U-DMA is on exactly if it was asked for, whatever the drives of the two *)
(* channels were given, in any order, and after a sleep.                   *)
THEOREM SafeSpeeds == TimingsSpec => []NoFasterThanAsked
<1>1. TimingsIInv => NoFasterThanAsked
  <2> SUFFICES ASSUME TimingsIInv, NEW d \in Drives, Settled(d[1])
               PROVE  /\ DMAAsAsked(d[1], d[2]) /\ UDMAAsAsked(d[1], d[2])
                      /\ ~SlowPIO(timings[d[1]][d[2]]) => PIOAsAsked(d[1], d[2])
    BY DEF NoFasterThanAsked
  <2>1. d[1] \in Channels /\ d[2] \in Units
    BY TimingsAssumption DEF TimingsAssumption
  <2> QED
    BY <2>1, SettledAsAsked
<1> QED
  BY <1>1, TimingsInvariant, PTL

(* While a channel writes its timings, the drives of the other keep        *)
(* theirs; only a sleep, and the power of a drive switched amid a write of *)
(* IDECONFIG, change them from outside.                                    *)
OthersKept ==
  \A c \in Channels :
    (job'[c] = job[c] /\ asleep # Channels /\ c \notin overtaken)
      => \A u \in Units : Chip(c, u)' = Chip(c, u)

LEMMA FieldsSelf == ASSUME NEW p, NEW c PROVE FieldsAlike(p, p, c)
BY AlikeSelf DEF FieldsAlike, ClocksAlike

LEMMA OthersKeep ==
  ASSUME TimingsIInv, [TimingsNext]_timingsVars, NEW c \in Channels,
         job'[c] = job[c], asleep # Channels, c \notin overtaken
  PROVE  FieldsAlike(pci', pci, c)
<1>1. CASE pci' = pci
  BY <1>1, FieldsSelf
<1>2. ASSUME NEW d \in Channels, WriteTimingRegister(d) PROVE FieldsAlike(pci', pci, c)
  <2> DEFINE h == Head(job[d])
  <2>1. /\ pci' = Written(h, copies[d], d) /\ h \in RegisterNames /\ job[d] # <<>>
        /\ job' = [job EXCEPT ![d] = Tail(job[d])]
    BY <1>2, RegistersDue DEF WriteTimingRegister
  <2>2. copies[d] \in Copies /\ pci \in PCI /\ JobOK
    BY TypeIs DEF TimingsIInv
  <2>3. job'[d] # job[d]
    <3>1. Tail(job[d]) # job[d]
      BY <2>1, <2>2, HeadIs
    <3> QED
      BY <2>1, <2>2, <3>1 DEF JobOK
  <2>4. WritesOwn(h, pci', pci, copies[d], d)
    BY <2>1, <2>2, WrittenOwn
  <2> QED
    BY <2>3, <2>4 DEF WritesOwn
<1>3. ASSUME NEW d \in Channels, WriteSignalMode(d) PROVE FieldsAlike(pci', pci, c)
  <2> DEFINE low == IF Head(job[d]) = "drive off" THEN DriveLow ELSE {}
             S == (seen[d] \ SignalMode) \cup low
  <2>1. Powering(d) /\ pci' = [pci EXCEPT !.ideconfig = S] /\ low \subseteq 16 .. 17
    BY <1>3, SignalPlace DEF WriteSignalMode
  <2>2. ClocksAlike(S, seen[d], c)
    BY <2>1, SignalPlace DEF Alike, ClocksAlike
  <2> HIDE DEF S, low
  <2>3. ClocksAlike(seen[d], pci.ideconfig, c)
    BY <2>1 DEF TimingsIInv, PowerOK
  <2>4. ClocksAlike(S, pci.ideconfig, c)
    BY <2>2, <2>3, ClocksTrans
  <2>5. pci \in PCI
    BY TypeIs DEF TimingsIInv
  <2>6. /\ pci'.ideconfig = S /\ pci'.idetim = pci.idetim /\ pci'.sidetim = pci.sidetim
        /\ pci'.udmactl = pci.udmactl /\ pci'.udmatim = pci.udmatim
    BY <2>1, <2>5 DEF PCI
  <2> QED
    BY <2>4, <2>6, AlikeSelf DEF FieldsAlike
<1>4. \/ pci' = pci
      \/ \E d \in Channels : WriteTimingRegister(d)
      \/ \E d \in Channels : WriteSignalMode(d)
  BY DEF TimingsNext, Start, ResetUnit1, TurnOffDrive, TurnOnDrive, TurnDrive, SetPowerStateOff,
         SetPowerStateOn, SelectConfig, LoseRegisters, timingsVars
<1> QED
  BY <1>1, <1>2, <1>3, <1>4

(* Whatever one channel does to the registers the two share, the chip goes *)
(* on seeing the other channel's timings as they were.                     *)
THEOREM ChannelsApart == TimingsSpec => OtherChannelKeepsTimings
<1>1. TimingsIInv /\ [TimingsNext]_timingsVars => [OthersKept]_timingsVars
  <2> SUFFICES ASSUME TimingsIInv, [TimingsNext]_timingsVars PROVE OthersKept
    OBVIOUS
  <2> SUFFICES ASSUME NEW c \in Channels, job'[c] = job[c], asleep # Channels, c \notin overtaken,
                      NEW u \in Units
               PROVE  Chip(c, u)' = Chip(c, u)
    BY DEF OthersKept
  <2>1. FieldsAlike(pci', pci, c)
    BY OthersKeep
  <2> QED
    BY <2>1, ChipAlike
<1>2. TimingsSpec => [][OthersKept]_timingsVars
  BY <1>1, TimingsInvariant, PTL DEF TimingsSpec
<1> QED
  BY <1>2 DEF OtherChannelKeepsTimings, OthersKept
=============================================================================
