----------------------------- MODULE PIIXTimings -----------------------------
(***************************************************************************)
(* The transfer timings AppleIntelPIIXPATA gives the drives of the two ATA *)
(* channels of a PIIX3 or later (no shared drive timings). Each channel    *)
(* has a driver instance with copies of the timing registers; the          *)
(* registers themselves are in the PCI configuration space and most of     *)
(* them hold fields of both channels, which AppleIntelPIIXATARoot reads,   *)
(* masks and writes under a lock. A drive is powered down and up through   *)
(* one of these registers without it. A sleep loses them.                  *)
(*                                                                         *)
(* A register is the set of the numbers of its one bits.                   *)
(***************************************************************************)
EXTENDS Integers, Sequences, FiniteSetsExt

CONSTANTS
  PIOModes, DMAModes, UDMAModes,  (* the modes the controller supports     *)
  Drives,     (* the drives there are, [channel, unit]                     *)
  Configs,    (* what is asked for each drive, as IOATADevConfigs          *)
  Cables,     (* the cables there may be: sets of drives on one with 80    *)
              (* conductors                                                *)
  Ejectable   (* channels with a "media-notify" ACPI device                *)

Channels == {0, 1}   (* kPIIX_CHANNEL_PRIMARY, kPIIX_CHANNEL_SECONDARY     *)
Units == {0, 1}      (* kATADevice0DeviceID, kATADevice1DeviceID           *)
NoMode == -1

Requests ==
  [pio : 0 .. 4, pioCycle : Nat, dma : -1 .. 2, dmaCycle : Nat, udma : -1 .. 5]

ASSUME TimingsAssumption ==
  /\ PIOModes \subseteq 0 .. 4 /\ DMAModes \subseteq 0 .. 2 /\ UDMAModes \subseteq 0 .. 5
  /\ Drives \subseteq Channels \X Units
  /\ Configs \in [Drives -> SUBSET Requests]
  /\ Cables \subseteq SUBSET Drives
  /\ Ejectable \subseteq Channels

Shift(bits, n) == {b + n : b \in bits}

(* AppleIntelPIIXATATiming.h: register index and cycle time of the modes.  *)
PIOTiming == [m \in 0 .. 4 |->
  [index |-> <<1, 1, 2, 3, 4>>[m + 1], cycleTime |-> <<600, 383, 240, 180, 120>>[m + 1]]]
DMATiming == [m \in 0 .. 2 |->
  [index |-> <<1, 3, 4>>[m + 1], cycleTime |-> <<480, 180, 120>>[m + 1]]]

(* UDMATIM bits, U-DMA clock bits of the primary drive 0, and cycle.       *)
PCB0 == 0
FAST_PCB0 == 12
UDMATiming == [m \in 0 .. 5 |->
  [udmatim |-> <<{}, {0}, {1}, {0}, {1}, {0}>>[m + 1],
   udmaClock |-> <<{}, {}, {}, {PCB0}, {PCB0}, {FAST_PCB0}>>[m + 1],
   cycle |-> <<120, 90, 60, 45, 30, 20>>[m + 1]]]

(* IDETIM: decode enable 15, slave timing enable 14, sample point 13-12,   *)
(* recovery time 9-8, and per unit: DMA timing only, prefetch, sample      *)
(* point enable, fast timing.                                              *)
IDE == 15
SITRE == 14
DTE(unit) == 3 + 4 * unit
TIME(unit) == 4 * unit
Fast(unit) == Shift({0, 1, 2}, 4 * unit)
Points == <<{}, {12}, {13, 8}, {13, 9, 8}>>
IDETIM(index, unit) ==
  {IDE} \cup (IF index = 1 THEN {} ELSE Fast(unit))
        \cup (IF unit = 0 THEN Points[index] ELSE {SITRE})

(* SIDETIM: sample point and recovery time of the two slaves.              *)
SidePoints == <<{}, {2}, {3, 0}, {3, 1, 0}>>
SIDETIM(index, channel) == Shift(SidePoints[index], 4 * channel)
SideMask(channel) == Shift(0 .. 3, 4 * channel)

(* UDMACTL, UDMATIM and IDECONFIG: the fields of a drive.                  *)
UDMAEnable(channel, unit) == 2 * channel + unit
UDMATIMMask(channel, unit) == Shift({0, 1}, 8 * channel + 4 * unit)
ClockShift(channel, unit) == 2 * channel + unit
ClockMask(channel, unit) == Shift({PCB0, FAST_PCB0}, ClockShift(channel, unit))
CableBit(channel, unit) == 4 + 2 * channel + unit
WR_PP_EN == 10
SignalMode == {16, 17}
DriveLow == {17}

VARIABLES
  pci,        (* the registers                                             *)
  started,    (* has the driver of a channel been started?                 *)
  timings,    (* _pioTiming, _dmaTiming and _udmaTiming of the units       *)
  copies,     (* _idetim, _sidetim, _udmactl, _udmatim and _ideConfig      *)
  job,        (* what a driver has still to do                             *)
  seen,       (* IDECONFIG as read by turnOffDrive or turnOnDrive          *)
  drivePowerOn, (* _drivePowerOn                                           *)
  asleep,     (* channels whose setPowerState has been told to sleep       *)
  asked,      (* history: the configuration a drive was given last         *)
  overtaken   (* history: channels whose write of IDECONFIG came between   *)
              (* the read and the write of another one's drive power       *)

timingsVars == <<pci, started, timings, copies, job, seen, drivePowerOn, asleep, asked, overtaken>>

Registers == <<"IDETIM", "SIDETIM", "UDMACTL", "UDMATIM", "IDECONFIG">>

(* A configuration with which nothing is asked of the controller.          *)
Compatible == [pio |-> 0, pioCycle |-> 600, dma |-> NoMode, dmaCycle |-> 0, udma |-> NoMode]
Slowest == [pio |-> 0, dma |-> NoMode, udma |-> NoMode]

(* The registers after power up, with what the firmware has found out      *)
(* about the cables.                                                       *)
Unset(cable) ==
  [idetim |-> [c \in Channels |-> {IDE}], sidetim |-> {}, udmactl |-> {}, udmatim |-> {},
   ideconfig |-> {CableBit(d[1], d[2]) : d \in cable}]

TimingsTypeOK ==
  /\ pci \in [idetim : [Channels -> SUBSET (0 .. 15)], sidetim : SUBSET (0 .. 7),
              udmactl : SUBSET (0 .. 3), udmatim : SUBSET (0 .. 15),
              ideconfig : SUBSET (0 .. 19)]
  /\ started \subseteq Channels /\ asleep \subseteq Channels /\ overtaken \subseteq Channels
  /\ timings \in [Channels -> [Units -> [pio : 0 .. 4, dma : -1 .. 2, udma : -1 .. 5]]]
  /\ copies \in [Channels -> [idetim : [Units -> SUBSET (0 .. 15)], sidetim : SUBSET (0 .. 7),
                              udmactl : SUBSET (0 .. 3), udmatim : SUBSET (0 .. 15),
                              ideConfig : SUBSET (0 .. 15)]]
  /\ seen \in [Channels -> SUBSET (0 .. 19)]
  /\ drivePowerOn \in [Channels -> BOOLEAN]
  /\ asked \in [Channels -> [Units -> Requests]]

TimingsInit ==
  /\ \E cable \in Cables : pci = Unset(cable)
  /\ started = {} /\ asleep = {} /\ overtaken = {}
  /\ timings = [c \in Channels |-> [u \in Units |-> Slowest]]
  /\ copies = [c \in Channels |->
                [idetim |-> [u \in Units |-> {}], sidetim |-> {}, udmactl |-> {},
                 udmatim |-> {}, ideConfig |-> {}]]
  /\ job = [c \in Channels |-> <<>>]
  /\ seen = [c \in Channels |-> {}]
  /\ drivePowerOn = [c \in Channels |-> TRUE]
  /\ asked = [c \in Channels |-> [u \in Units |-> Compatible]]

-----------------------------------------------------------------------------
(* Faulty versions of definitions below: the clock of an earlier U-DMA     *)
(* mode is not cleared, and IDECONFIG is written whole.                    *)
NewClockAdded(r, t, channel, unit) ==
  r.ideConfig \cup Shift(UDMATiming[t.udma].udmaClock, ClockShift(channel, unit))

IDECONFIGMaskWhole(c) == 0 .. 15

-----------------------------------------------------------------------------
(* computeTimingRegisters: r are the copies, t the timings of the unit.    *)
Cycle(t) == IF t.dma # NoMode THEN DMATiming[t.dma].cycleTime ELSE PIOTiming[t.pio].cycleTime
Index(t) == IF t.dma # NoMode THEN DMATiming[t.dma].index ELSE PIOTiming[t.pio].index
SlowPIO(t) == Cycle(t) # PIOTiming[t.pio].cycleTime

ComputeTiming(r, t, channel, unit) ==
  [r EXCEPT
     !.idetim[unit] = IDETIM(Index(t), unit) \ (IF SlowPIO(t) THEN {DTE(unit)} ELSE {}),
     !.sidetim = IF unit = 1
                 THEN (@ \ SideMask(channel)) \cup SIDETIM(Index(t), channel)
                 ELSE @,
     !.ideConfig = @ \cup {WR_PP_EN}]

(* computeUDMATimingRegisters                                              *)
NewClock(r, t, channel, unit) ==
  (r.ideConfig \ ClockMask(channel, unit))
    \cup Shift(UDMATiming[t.udma].udmaClock, ClockShift(channel, unit))

ComputeUDMA(r, t, channel, unit) ==
  IF t.udma = NoMode
  THEN [r EXCEPT !.udmactl = @ \ {UDMAEnable(channel, unit)}]
  ELSE [r EXCEPT
          !.udmactl = @ \cup {UDMAEnable(channel, unit)},
          !.udmatim = (@ \ UDMATIMMask(channel, unit))
                        \cup Shift(UDMATiming[t.udma].udmatim, 8 * channel + 4 * unit),
          !.ideConfig = NewClock(r, t, channel, unit)]

Compute(r, t, channel, unit) ==
  ComputeUDMA(ComputeTiming(r, t, channel, unit), t, channel, unit)

-----------------------------------------------------------------------------
(* selectConfig: the modes for what is asked. A mode whose cycle time is   *)
(* too short for the drive is replaced by the next slower one.             *)
SelectPIO(config) ==
  IF config.pio \notin PIOModes THEN 0
  ELSE Max({0} \cup {m \in PIOModes :
                       m <= config.pio /\ config.pioCycle <= PIOTiming[m].cycleTime})

SelectDMA(config) ==
  LET m == Max({0} \cup {n \in DMAModes :
                           n <= config.dma /\ config.dmaCycle <= DMATiming[n].cycleTime})
  IN  IF config.dma # NoMode /\ m \in DMAModes THEN m ELSE NoMode

(* Above mode 2 a cable with 80 conductors is needed.                      *)
SelectUDMA(config, r, channel, unit) ==
  IF config.udma > 2 /\ CableBit(channel, unit) \notin r.ideConfig THEN 2 ELSE config.udma

Supported(config) ==
  /\ config.dma # NoMode => config.dma \in DMAModes
  /\ config.udma # NoMode => config.udma \in UDMAModes

Selected(config, r, channel, unit) ==
  LET pio == SelectPIO(config)
      dma == SelectDMA(config)
      differ == dma # NoMode /\ PIOTiming[pio].cycleTime # DMATiming[dma].cycleTime
  IN  [pio |-> IF differ THEN 0 ELSE pio, dma |-> dma,
       udma |-> SelectUDMA(config, r, channel, unit)]

(* A driver that is not in the middle of something.                        *)
AtRest(c) == c \in started /\ job[c] = <<>>

(* An unsupported DMA mode is refused and leaves everything as it is.      *)
SelectConfig(c, unit, config) ==
  /\ AtRest(c) /\ c \notin asleep
  /\ Supported(config)
  /\ LET t == Selected(config, copies[c], c, unit)
     IN  /\ timings' = [timings EXCEPT ![c][unit] = t]
         /\ copies' = [copies EXCEPT ![c] = Compute(@, t, c, unit)]
  /\ asked' = [asked EXCEPT ![c][unit] = config]
  /\ job' = [job EXCEPT ![c] = Registers]
  /\ UNCHANGED <<pci, started, seen, drivePowerOn, asleep, overtaken>>

(* start: IDECONFIG is read, then resetTimingsForDevice for both units.    *)
Start(c) ==
  /\ c \notin started
  /\ started' = started \cup {c}
  /\ copies' = [copies EXCEPT
       ![c] = Compute([@ EXCEPT !.ideConfig = pci.ideconfig \cap (0 .. 15)], Slowest, c, 0)]
  /\ job' = [job EXCEPT ![c] = Registers \o <<"reset unit 1">>]
  /\ UNCHANGED <<pci, timings, seen, drivePowerOn, asleep, asked, overtaken>>

ResetUnit1(c) ==
  /\ job[c] # <<>> /\ Head(job[c]) = "reset unit 1"
  /\ copies' = [copies EXCEPT ![c] = Compute(@, Slowest, c, 1)]
  /\ job' = [job EXCEPT ![c] = Registers]
  /\ UNCHANGED <<pci, started, timings, seen, drivePowerOn, asleep, asked, overtaken>>

(* writeTimingRegisters: the next register. pciConfigWrite8 and            *)
(* pciConfigWrite16 read, mask and write it under the lock.                *)
Masked(register, data, mask) == (register \ mask) \cup (data \cap mask)

IDECONFIGMask(c) == ClockMask(c, 0) \cup ClockMask(c, 1) \cup {WR_PP_EN}

Written(register, r, c) ==
  CASE register = "IDETIM" -> [pci EXCEPT !.idetim[c] = r.idetim[0] \cup r.idetim[1]]
    [] register = "SIDETIM" -> [pci EXCEPT !.sidetim = Masked(@, r.sidetim, SideMask(c))]
    [] register = "UDMACTL" ->
         [pci EXCEPT !.udmactl = Masked(@, r.udmactl, {UDMAEnable(c, u) : u \in Units})]
    [] register = "UDMATIM" ->
         [pci EXCEPT !.udmatim = Masked(@, r.udmatim, UDMATIMMask(c, 0) \cup UDMATIMMask(c, 1))]
    [] register = "IDECONFIG" ->
         [pci EXCEPT !.ideconfig = Masked(@, r.ideConfig, IDECONFIGMask(c))]

Powering(c) == job[c] # <<>> /\ Head(job[c]) \in {"drive off", "drive on"}

WriteTimingRegister(c) ==
  /\ job[c] # <<>> /\ \E i \in DOMAIN Registers : Head(job[c]) = Registers[i]
  /\ pci' = Written(Head(job[c]), copies[c], c)
  /\ overtaken' = IF Head(job[c]) # "IDECONFIG" THEN overtaken
                  ELSE IF \E d \in Channels \ {c} : Powering(d) THEN overtaken \cup {c}
                  ELSE overtaken \ {c}
  /\ job' = [job EXCEPT ![c] = Tail(@)]
  /\ UNCHANGED <<started, timings, copies, seen, drivePowerOn, asleep, asked>>

-----------------------------------------------------------------------------
(* turnOffDrive, after a command that quiesces the drive, and turnOnDrive, *)
(* before the next command or when a medium is inserted: IDECONFIG is read *)
(* and written as 32 bits, without the lock. _drivePowerOn is set before,  *)
(* and cleared after.                                                      *)
TurnDrive(c, step) ==
  /\ AtRest(c) /\ c \in Ejectable /\ c \notin asleep
  /\ job' = [job EXCEPT ![c] = <<step>>]
  /\ drivePowerOn' = [drivePowerOn EXCEPT ![c] = TRUE]
  /\ seen' = [seen EXCEPT ![c] = pci.ideconfig]
  /\ UNCHANGED <<pci, started, timings, copies, asleep, asked, overtaken>>

TurnOffDrive(c) == drivePowerOn[c] /\ TurnDrive(c, "drive off")
TurnOnDrive(c) == ~drivePowerOn[c] /\ TurnDrive(c, "drive on")

WriteSignalMode(c) ==
  /\ Powering(c)
  /\ pci' = [pci EXCEPT !.ideconfig =
               (seen[c] \ SignalMode) \cup (IF Head(job[c]) = "drive off" THEN DriveLow ELSE {})]
  /\ drivePowerOn' = [drivePowerOn EXCEPT ![c] = Head(job[c]) = "drive on"]
  /\ seen' = [seen EXCEPT ![c] = {}]
  /\ job' = [job EXCEPT ![c] = <<>>]
  /\ UNCHANGED <<started, timings, copies, asleep, asked, overtaken>>

-----------------------------------------------------------------------------
(* setPowerState: off sets _initTimingRegisters; on writes the registers   *)
(* again from the copies.                                                  *)
SetPowerStateOff(c) ==
  /\ AtRest(c) /\ c \notin asleep /\ started = Channels
  /\ asleep' = asleep \cup {c}
  /\ UNCHANGED <<pci, started, timings, copies, job, seen, drivePowerOn, asked, overtaken>>

LoseRegisters ==
  /\ asleep = Channels /\ \A c \in Channels : job[c] = <<>>
  /\ pci' = Unset({d \in Channels \X Units : CableBit(d[1], d[2]) \in pci.ideconfig})
  /\ UNCHANGED <<started, timings, copies, job, seen, drivePowerOn, asleep, asked, overtaken>>

SetPowerStateOn(c) ==
  /\ c \in asleep /\ job[c] = <<>>
  /\ asleep' = asleep \ {c}
  /\ job' = [job EXCEPT ![c] = Registers]
  /\ UNCHANGED <<pci, started, timings, copies, seen, drivePowerOn, asked, overtaken>>

TimingsNext ==
  \/ \E c \in Channels :
       \/ Start(c) \/ ResetUnit1(c) \/ WriteTimingRegister(c)
       \/ TurnOffDrive(c) \/ TurnOnDrive(c) \/ WriteSignalMode(c)
       \/ SetPowerStateOff(c) \/ SetPowerStateOn(c)
       \/ \E u \in {v \in Units : <<c, v>> \in Drives} :
            \E config \in Configs[<<c, u>>] : SelectConfig(c, u, config)
  \/ LoseRegisters

TimingsSpec == TimingsInit /\ [][TimingsNext]_timingsVars

-----------------------------------------------------------------------------
(* What the chip makes of the registers: PIO and DMA cycle times in ns     *)
(* from clocks of 30 ns, and the U-DMA cycle or NoMode.                    *)
Field(bits, high, low) == (IF high \in bits THEN 2 ELSE 0) + (IF low \in bits THEN 1 ELSE 0)
FastCycle(bits, low) ==
  30 * (9 - Field(bits, low + 5, low + 4) - Field(bits, low + 1, low))
SideCycle(bits, low) ==
  30 * (9 - Field(bits, low + 3, low + 2) - Field(bits, low + 1, low))

CompatibleCycle == 600
DMACycle(c, u) ==
  IF TIME(u) \notin pci.idetim[c] THEN CompatibleCycle
  ELSE IF u = 1 /\ SITRE \in pci.idetim[c] THEN SideCycle(pci.sidetim, 4 * c)
  ELSE FastCycle(pci.idetim[c], 8)
PIOCycle(c, u) == IF DTE(u) \in pci.idetim[c] THEN CompatibleCycle ELSE DMACycle(c, u)

UDMAClocks(c, u) == 4 - Field(pci.udmatim, 8 * c + 4 * u + 1, 8 * c + 4 * u)
UDMACycle(c, u) ==
  IF UDMAEnable(c, u) \notin pci.udmactl THEN NoMode
  ELSE IF FAST_PCB0 + ClockShift(c, u) \in pci.ideconfig THEN (20 * UDMAClocks(c, u)) \div 3
  ELSE IF PCB0 + ClockShift(c, u) \in pci.ideconfig THEN 15 * UDMAClocks(c, u)
  ELSE 30 * UDMAClocks(c, u)

Chip(c, u) == [pio |-> PIOCycle(c, u), dma |-> DMACycle(c, u), udma |-> UDMACycle(c, u)]

(* A channel whose registers have been written for good.                   *)
Settled(c) == AtRest(c) /\ c \notin asleep /\ c \notin overtaken

(* As slow as asked or, if that is slower still, at compatible timing.     *)
NotBelow(cycle, request) == cycle >= request \/ cycle = CompatibleCycle

PIOAsAsked(c, u) == NotBelow(PIOCycle(c, u), asked[c][u].pioCycle)
DMAAsAsked(c, u) ==
  timings[c][u].dma # NoMode =>
    /\ NotBelow(DMACycle(c, u), asked[c][u].dmaCycle)
    /\ DMACycle(c, u) >= DMATiming[asked[c][u].dma].cycleTime
UDMAAsAsked(c, u) ==
  LET mode == asked[c][u].udma
  IN  IF mode = NoMode THEN UDMACycle(c, u) = NoMode
      ELSE /\ UDMACycle(c, u) >= UDMATiming[mode].cycle
           /\ mode > 2 /\ CableBit(c, u) \notin pci.ideconfig
                => UDMACycle(c, u) >= UDMATiming[2].cycle

(* No drive is run faster than was asked for it and its cable allows, and  *)
(* U-DMA is on exactly if it was asked for: whatever the drives of the two *)
(* channels were given before, in any order, and after a sleep. PIO of a   *)
(* drive with a multi-word DMA mode of another cycle time is left out: the *)
(* code runs it at the DMA timing ("revert to compatible timing for PIO    *)
(* data register access" clears a bit that would have to be set).          *)
NoFasterThanAsked ==
  \A d \in Drives : Settled(d[1]) =>
    /\ DMAAsAsked(d[1], d[2]) /\ UDMAAsAsked(d[1], d[2])
    /\ ~SlowPIO(timings[d[1]][d[2]]) => PIOAsAsked(d[1], d[2])

(* So stated for PIO as well it does not hold.                             *)
NoFasterThanAskedPIO ==
  \A d \in Drives : Settled(d[1]) => PIOAsAsked(d[1], d[2])

(* "Timing registers are shared between primary and secondary ATA          *)
(* channels": while a channel writes its timings, drives of the other,     *)
(* which may be transferring, keep theirs; only a sleep, and the power of  *)
(* a drive switched amid a write of IDECONFIG, change them from outside.   *)
OtherChannelKeepsTimings ==
  [][\A c \in Channels :
       (job'[c] = job[c] /\ asleep # Channels /\ c \notin overtaken)
         => \A u \in Units : Chip(c, u)' = Chip(c, u)]_timingsVars
=============================================================================
