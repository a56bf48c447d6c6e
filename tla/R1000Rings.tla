------------------------------ MODULE R1000Rings ------------------------------
(***************************************************************************)
(* The descriptor rings of the Realtek R1000 driver: outputPacket fills    *)
(* the transmit ring, the chip sends and receives on its own, the          *)
(* interrupt routine hands received frames to the network stack and frees  *)
(* sent packets, and enable, disable and the transmit watchdog restart     *)
(* the chip.                                                               *)
(*                                                                         *)
(* The driver's entries run one at a time (the output queue, the interrupt *)
(* source and the timer share the work loop); the chip runs beside them    *)
(* and moves between any two steps of the interrupt routine.               *)
(*                                                                         *)
(* cur_tx and dirty_tx are free-running counters the code only takes       *)
(* modulo the ring or subtracts: they are kept as ring indices and as the  *)
(* difference, outstanding. Packets and frames are numbered in the order   *)
(* the driver accepts the ones and the chip stores the others; what a      *)
(* buffer holds once it has been sent or delivered is not kept.            *)
(***************************************************************************)
EXTENDS Naturals, Sequences, FiniteSets

CONSTANTS
  NumTx,       (* NUM_TX_DESC                                              *)
  NumRx,       (* NUM_RX_DESC                                              *)
  Work,        (* max_interrupt_work                                       *)
  MaxPackets,  (* bound: packets the stack sends                           *)
  MaxFrames,   (* bound: good frames that arrive                           *)
  MaxRestarts, (* bound: times the interface is disabled                   *)
  ErrorFrames, (* may the chip store a frame with RxRES?                   *)
  AllocFails   (* may allocatePacket fail?                                 *)

ASSUME RingsAssumption ==
  /\ NumTx \in Nat \ {0} /\ NumRx \in Nat \ {0} /\ Work \in Nat \ {0}
  /\ MaxPackets \in Nat /\ MaxFrames \in Nat /\ MaxRestarts \in Nat
  /\ ErrorFrames \in BOOLEAN /\ AllocFails \in BOOLEAN

TxSlots == 0 .. NumTx - 1
RxSlots == 0 .. NumRx - 1
None == 0      (* no packet, no frame: they are numbered from 1            *)

(* The bits of IntrStatus that r1000_intr_mask lets through, as far as     *)
(* R1000Interrupt tells them apart: TxOK or TxErr, RxOK, RxDescUnavail or  *)
(* RxFIFOOver. LinkChg and RxErr only start the routine or use up a round: *)
(* they can come at any time and are not kept.                             *)
Events == {"TxOK", "RxOK", "RxDescUnavail"}

(* What has gone wrong so far: kept to say which promises still hold.      *)
Incidents == {"rx skewed", "tx misaligned", "tx overrun", "work left"}

VARIABLES
  txOwned,     (* OWNbit of each transmit descriptor: the chip's           *)
  txBuf,       (* the packet whose data each Tx_dbuff holds                *)
  txSkb,       (* Tx_skbuff                                                *)
  curTx,       (* cur_tx modulo the ring                                   *)
  dirtyTx,     (* dirty_tx modulo the ring                                 *)
  outstanding, (* cur_tx - dirty_tx                                        *)
  chipTx,      (* the descriptor the chip sends next                       *)
  polling,     (* the chip is working through the transmit ring            *)
  rxOwned,     (* OWNbit of each receive descriptor                        *)
  rxFrame,     (* the frame each Rx_dbuff holds, None if it is an error    *)
  curRx,       (* cur_rx                                                   *)
  chipRx,      (* the descriptor the chip fills next                       *)
  events,      (* IntrStatus                                               *)
  masked,      (* IntrMask is 0                                            *)
  pc,          (* where R1000Interrupt is                                  *)
  rounds,      (* boguscnt                                                 *)
  count,       (* rxdesc_cnt, txloop_cnt                                   *)
  entry,       (* entry of R1000TxInterrupt                                *)
  txToo,       (* the status being handled has TxOK as well                *)
  enabled,     (* enabled                                                  *)
  watchdog,    (* timerSource is armed                                     *)
  queue,       (* transmitQueue: stopped, running or stalled               *)
  restarts,    (* history: how often the interface has been disabled       *)
  accepted,    (* history: packets outputPacket has accepted               *)
  cleared,     (* history: packets accepted before the ring was cleared    *)
  sent,        (* history: the packets on the wire                         *)
  freed,       (* history: packets whose mbuf was freed                    *)
  stored,      (* history: good frames the chip has stored                 *)
  delivered,   (* history: frames handed to the network stack              *)
  incidents

ringVars == <<txOwned, txBuf, txSkb, curTx, dirtyTx, outstanding>>
chipTxVars == <<chipTx, polling, sent>>
rxVars == <<rxOwned, rxFrame, curRx, chipRx, stored, delivered>>
handlerVars == <<pc, rounds, count, entry, txToo>>
lineVars == <<events, masked>>
driverVars == <<enabled, watchdog, queue, restarts>>
countVars == <<accepted, cleared, freed>>
vars == <<ringVars, chipTxVars, rxVars, handlerVars, lineVars, driverVars, countVars, incidents>>

TypeOK ==
  /\ txOwned \in [TxSlots -> BOOLEAN] /\ txBuf \in [TxSlots -> Nat] /\ txSkb \in [TxSlots -> Nat]
  /\ curTx \in TxSlots /\ dirtyTx \in TxSlots /\ outstanding \in Nat
  /\ chipTx \in TxSlots /\ polling \in BOOLEAN /\ sent \in Seq(Nat)
  /\ rxOwned \in [RxSlots -> BOOLEAN] /\ rxFrame \in [RxSlots -> Nat]
  /\ curRx \in RxSlots /\ chipRx \in RxSlots /\ stored \in Nat /\ delivered \in Seq(Nat)
  /\ pc \in {"idle", "status", "rx", "tx"}
  /\ rounds \in 0 .. Work /\ count \in 0 .. Work /\ entry \in Nat /\ txToo \in BOOLEAN
  /\ events \subseteq Events /\ masked \in BOOLEAN
  /\ enabled \in BOOLEAN /\ watchdog \in BOOLEAN /\ restarts \in Nat
  /\ queue \in {"stopped", "running", "stalled"}
  /\ accepted \in Nat /\ cleared \in Nat /\ freed \subseteq Nat
  /\ incidents \subseteq Incidents

(* start and AllocateDescriptorsMemory: the interface is not enabled yet.  *)
Init ==
  /\ txOwned = [i \in TxSlots |-> FALSE]
  /\ txBuf = [i \in TxSlots |-> None] /\ txSkb = [i \in TxSlots |-> None]
  /\ curTx = 0 /\ dirtyTx = 0 /\ outstanding = 0
  /\ chipTx = 0 /\ polling = FALSE /\ sent = <<>>
  /\ rxOwned = [i \in RxSlots |-> TRUE] /\ rxFrame = [i \in RxSlots |-> None]
  /\ curRx = 0 /\ chipRx = 0 /\ stored = 0 /\ delivered = <<>>
  /\ pc = "idle" /\ rounds = 0 /\ count = 0 /\ entry = 0 /\ txToo = FALSE
  /\ events = {} /\ masked = TRUE
  /\ enabled = FALSE /\ watchdog = FALSE /\ queue = "stopped" /\ restarts = 0
  /\ accepted = 0 /\ cleared = 0 /\ freed = {}
  /\ incidents = {}

NextSlot(i, n) == IF i + 1 = n THEN 0 ELSE i + 1

-----------------------------------------------------------------------------
(* Faulty versions of definitions below: slips the code could have made.   *)

(* Faulty: outputPacket does not look at OWNbit.                           *)
HasRoomAlways == TRUE

(* Faulty: the entry of a freed packet is not cleared.                     *)
FreeSkbKeepsPointer ==
  /\ freed' = IF txSkb[dirtyTx] = None THEN freed ELSE freed \cup {txSkb[dirtyTx]}
  /\ txSkb' = txSkb

(* Faulty: reaping leaves the queue to the watchdog.                       *)
RestartQueueForgotten == queue' = queue

(* Faulty: a frame for which there is no mbuf is given back to the chip.   *)
RxNoMemoryDrops ==
  /\ AllocFails /\ pc = "rx" /\ count < Work /\ ~rxOwned[curRx] /\ rxFrame[curRx] # None
  /\ rxOwned' = [rxOwned EXCEPT ![curRx] = TRUE]
  /\ curRx' = NextSlot(curRx, NumRx)
  /\ count' = count + 1
  /\ incidents' = incidents \cup {"work left"}
  /\ UNCHANGED <<ringVars, chipTxVars, rxFrame, chipRx, stored, delivered, pc, rounds, entry,
                 txToo, lineVars, driverVars, countVars>>

(* Faulty: the chip is restarted, cur_rx is not.                           *)
R1000HwStartKeepsCurRx ==
  /\ chipTx' = 0 /\ polling' = FALSE
  /\ chipRx' = 0 /\ curRx' = curRx
  /\ events' = {} /\ masked' = FALSE

-----------------------------------------------------------------------------
(* The driver's entries: the work loop is in none of its other actions.    *)
GateFree == pc = "idle"

(* The descriptor at cur_tx is the driver's.                               *)
HasRoom == ~txOwned[curTx]

(* outputPacket: the queue hands a packet over and the ring has room. A    *)
(* packet left in Tx_skbuff by a reap that has not come yet is overwritten.*)
(* (One that is too long is freed at once and leaves no trace.)            *)
OutputPacket ==
  /\ GateFree /\ queue = "running" /\ accepted < MaxPackets
  /\ HasRoom
  /\ accepted' = accepted + 1
  /\ txSkb' = [txSkb EXCEPT ![curTx] = accepted']
  /\ txBuf' = [txBuf EXCEPT ![curTx] = accepted']
  /\ txOwned' = [txOwned EXCEPT ![curTx] = TRUE]
  /\ curTx' = NextSlot(curTx, NumTx) /\ outstanding' = outstanding + 1
  /\ polling' = TRUE
  /\ incidents' = IF outstanding >= NumTx THEN incidents \cup {"tx overrun"} ELSE incidents
  /\ UNCHANGED <<dirtyTx, chipTx, sent, rxVars, handlerVars, lineVars, driverVars, cleared, freed>>

(* outputPacket: kIOReturnOutputStall, the queue keeps the packet and waits*)
(* to be started again.                                                    *)
OutputStall ==
  /\ GateFree /\ queue = "running" /\ accepted < MaxPackets
  /\ ~HasRoom
  /\ queue' = "stalled"
  /\ UNCHANGED <<ringVars, chipTxVars, rxVars, handlerVars, lineVars, enabled, watchdog, restarts,
                 countVars, incidents>>

(* R1000HwStart: the chip starts again from the first descriptor of both   *)
(* rings, and cur_rx with it; the descriptors and cur_tx are left alone.   *)
R1000HwStart ==
  /\ chipTx' = 0 /\ polling' = FALSE
  /\ chipRx' = 0 /\ curRx' = 0
  /\ events' = {} /\ masked' = FALSE

(* What a restart leaves behind in the receive ring.                       *)
RxLeftovers == IF \E i \in RxSlots : ~rxOwned[i] THEN {"rx skewed"} ELSE {}

(* R1000TxClear: the ring is emptied and its packets freed.                *)
R1000TxClear ==
  /\ curTx' = 0 /\ dirtyTx' = 0 /\ outstanding' = 0
  /\ txOwned' = [i \in TxSlots |-> FALSE]
  /\ txSkb' = [i \in TxSlots |-> None]
  /\ freed' = freed \cup ({txSkb[i] : i \in TxSlots} \ {None})
  /\ txBuf' = [i \in TxSlots |-> None]
  /\ cleared' = accepted

(* enable: both activation levels go up; the watchdog is armed, once.      *)
Enable ==
  /\ GateFree /\ ~enabled
  /\ R1000HwStart
  /\ enabled' = TRUE /\ watchdog' = TRUE /\ queue' = "running"
  /\ incidents' = incidents \cup RxLeftovers \cup
       (IF curTx # 0 \/ (\E i \in TxSlots : txOwned[i]) THEN {"tx misaligned"} ELSE {})
  /\ UNCHANGED <<ringVars, sent, rxOwned, rxFrame, stored, delivered, handlerVars, restarts, countVars>>

(* disable: the queue is stopped and flushed, the chip closed.             *)
Disable ==
  /\ GateFree /\ enabled /\ restarts < MaxRestarts
  /\ queue' = "stopped" /\ masked' = TRUE /\ watchdog' = FALSE /\ enabled' = FALSE
  /\ restarts' = restarts + 1
  /\ UNCHANGED <<ringVars, chipTxVars, rxVars, handlerVars, events, countVars, incidents>>

(* R1000TxTimeout: the watchdog fires ten seconds after the interface was  *)
(* enabled, whatever the ring does; nothing arms it again.                 *)
TxTimeout ==
  /\ GateFree /\ enabled /\ watchdog
  /\ watchdog' = FALSE
  /\ R1000TxClear /\ R1000HwStart
  /\ queue' = "running"
  /\ incidents' = (incidents \ {"tx misaligned", "tx overrun"}) \cup RxLeftovers
  /\ UNCHANGED <<sent, rxOwned, rxFrame, stored, delivered, handlerVars, enabled, restarts, accepted>>

-----------------------------------------------------------------------------
(* R1000Interrupt                                                          *)

Interrupt ==
  /\ GateFree /\ enabled /\ ~masked /\ events # {}
  /\ masked' = TRUE
  /\ pc' = "status" /\ rounds' = Work
  /\ UNCHANGED <<ringVars, chipTxVars, rxVars, count, entry, txToo, events, driverVars, countVars, incidents>>

(* The link goes up or down, or a frame is received with an error.         *)
InterruptLinkChange ==
  /\ GateFree /\ enabled /\ ~masked /\ events = {}
  /\ masked' = TRUE
  /\ pc' = "status" /\ rounds' = Work
  /\ UNCHANGED <<ringVars, chipTxVars, rxVars, count, entry, txToo, events, driverVars, countVars, incidents>>

(* The end of R1000Interrupt: interrupts are allowed again.                *)
InterruptReturn ==
  /\ masked' = FALSE
  /\ pc' = "idle" /\ rounds' = 0

(* The end of a round. After too many of them every event is cleared, the  *)
(* ones not handled too.                                                   *)
EndRound ==
  IF rounds > 1
  THEN pc' = "status" /\ rounds' = rounds - 1 /\ UNCHANGED lineVars
  ELSE InterruptReturn /\ events' = {}
WorkLeft == IF rounds = 1 /\ events # {} THEN {"work left"} ELSE {}

(* A round begins with no event to handle: the routine returns.            *)
NoMoreEvents ==
  /\ pc = "status" /\ events = {}
  /\ InterruptReturn
  /\ UNCHANGED <<ringVars, chipTxVars, rxVars, count, entry, txToo, events, driverVars, countVars, incidents>>

(* The status is read and acknowledged; what comes later is for the next   *)
(* round. With TxDescUnavail beside TxOK the chip is polled again.         *)
ReadStatus ==
  /\ pc = "status" /\ events # {}
  /\ events' = {}
  /\ pc' = IF events = {"TxOK"} THEN "tx" ELSE "rx"
  /\ txToo' = ("TxOK" \in events /\ events # {"TxOK"})
  /\ polling' \in IF "TxOK" \in events THEN {polling, TRUE} ELSE {polling}
  /\ count' = 0 /\ entry' = IF "TxOK" \in events THEN curTx ELSE 0
  /\ UNCHANGED <<ringVars, chipTx, sent, rxVars, rounds, masked, driverVars, countVars, incidents>>

(* A round with LinkChg or RxErr alone: nothing to receive, none to reap.  *)
LinkChangeRound ==
  /\ pc = "status" /\ events = {}
  /\ EndRound
  /\ UNCHANGED <<ringVars, chipTxVars, rxVars, count, entry, txToo, driverVars, countVars, incidents>>

(* R1000RxInterrupt: the frame at cur_rx goes to the network stack and its *)
(* descriptor back to the chip.                                            *)
RxTake ==
  /\ pc = "rx" /\ count < Work /\ ~rxOwned[curRx] /\ rxFrame[curRx] # None
  /\ delivered' = Append(delivered, rxFrame[curRx])
  /\ rxOwned' = [rxOwned EXCEPT ![curRx] = TRUE]
  /\ rxFrame' = [rxFrame EXCEPT ![curRx] = None]
  /\ curRx' = NextSlot(curRx, NumRx)
  /\ count' = count + 1
  /\ UNCHANGED <<ringVars, chipTxVars, chipRx, stored, pc, rounds, entry, txToo,
                 lineVars, driverVars, countVars, incidents>>

(* R1000RxInterrupt: an error frame is passed over; its descriptor is not  *)
(* given back.                                                             *)
RxPassError ==
  /\ pc = "rx" /\ count < Work /\ ~rxOwned[curRx] /\ rxFrame[curRx] = None
  /\ curRx' = NextSlot(curRx, NumRx)
  /\ count' = count + 1
  /\ incidents' = incidents \cup {"rx skewed"}
  /\ UNCHANGED <<ringVars, chipTxVars, rxOwned, rxFrame, chipRx, stored, delivered, pc, rounds, entry,
                 txToo, lineVars, driverVars, countVars>>

(* R1000RxInterrupt: no mbuf: the same descriptor is looked at again.      *)
RxNoMemory ==
  /\ AllocFails /\ pc = "rx" /\ count < Work /\ ~rxOwned[curRx] /\ rxFrame[curRx] # None
  /\ count' = count + 1
  /\ UNCHANGED <<ringVars, chipTxVars, rxVars, pc, rounds, entry, txToo, lineVars, driverVars,
                 countVars, incidents>>

RxDone ==
  /\ pc = "rx" /\ (count = Work \/ rxOwned[curRx])
  /\ IF txToo THEN pc' = "tx" /\ UNCHANGED <<rounds, lineVars>> ELSE EndRound
  /\ count' = 0 /\ txToo' = FALSE
  /\ incidents' = incidents \cup (IF rxOwned[curRx] THEN {} ELSE {"work left"})
                            \cup (IF txToo THEN {} ELSE WorkLeft)
  /\ UNCHANGED <<ringVars, chipTxVars, rxVars, entry, driverVars, countVars>>

(* The values R1000TxInterrupt can read as OWNbit: entry starts at cur_tx  *)
(* and is not wrapped, so it can run past the array into what is not a     *)
(* descriptor.                                                             *)
OwnAtEntry == IF entry \in TxSlots THEN {txOwned[entry]} ELSE BOOLEAN

(* The packet at dirty_tx is freed, if there is one.                       *)
FreeSkb ==
  /\ freed' = IF txSkb[dirtyTx] = None THEN freed ELSE freed \cup {txSkb[dirtyTx]}
  /\ txSkb' = [txSkb EXCEPT ![dirtyTx] = None]

(* transmitQueue->start(), done once dirty_tx has moved. The queue calls   *)
(* outputPacket when the work loop is free.                                *)
RestartQueue == queue' = "running"

(* R1000TxInterrupt: one turn of its loop. The descriptor that is tested   *)
(* (at entry) is not the one that is freed (at dirty_tx).                  *)
TxReap ==
  /\ pc = "tx" /\ count < Work /\ outstanding > 0 /\ FALSE \in OwnAtEntry
  /\ FreeSkb /\ RestartQueue
  /\ dirtyTx' = NextSlot(dirtyTx, NumTx) /\ outstanding' = outstanding - 1
  /\ entry' = entry + 1
  /\ count' = count + 1
  /\ UNCHANGED <<txOwned, txBuf, curTx, chipTxVars, rxVars, pc, rounds, txToo, lineVars,
                 enabled, watchdog, restarts, accepted, cleared, incidents>>

TxSpin ==
  /\ pc = "tx" /\ count < Work /\ outstanding > 0 /\ TRUE \in OwnAtEntry
  /\ count' = count + 1
  /\ UNCHANGED <<ringVars, chipTxVars, rxVars, pc, rounds, entry, txToo, lineVars, driverVars,
                 countVars, incidents>>

TxDone ==
  /\ pc = "tx" /\ (count = Work \/ outstanding = 0)
  /\ EndRound
  /\ count' = 0 /\ entry' = 0
  /\ incidents' = incidents \cup WorkLeft
  /\ UNCHANGED <<ringVars, chipTxVars, rxVars, txToo, driverVars, countVars>>

-----------------------------------------------------------------------------
(* The chip                                                                *)

ChipSend ==
  /\ enabled /\ polling /\ txOwned[chipTx]
  /\ sent' = Append(sent, txBuf[chipTx])
  /\ txOwned' = [txOwned EXCEPT ![chipTx] = FALSE]
  /\ txBuf' = [txBuf EXCEPT ![chipTx] = None]
  /\ chipTx' = NextSlot(chipTx, NumTx)
  /\ events' = events \cup {"TxOK"}
  /\ UNCHANGED <<txSkb, curTx, dirtyTx, outstanding, polling, rxVars, handlerVars, masked,
                 driverVars, countVars, incidents>>

ChipRingEmpty ==
  /\ enabled /\ polling /\ ~txOwned[chipTx]
  /\ polling' = FALSE
  /\ UNCHANGED <<ringVars, chipTx, sent, rxVars, handlerVars, lineVars, driverVars, countVars, incidents>>

ChipReceive ==
  /\ enabled /\ rxOwned[chipRx] /\ stored < MaxFrames
  /\ stored' = stored + 1
  /\ rxFrame' = [rxFrame EXCEPT ![chipRx] = stored']
  /\ rxOwned' = [rxOwned EXCEPT ![chipRx] = FALSE]
  /\ chipRx' = NextSlot(chipRx, NumRx)
  /\ events' = events \cup {"RxOK"}
  /\ UNCHANGED <<ringVars, chipTxVars, curRx, delivered, handlerVars, masked, driverVars, countVars, incidents>>

ChipReceiveError ==
  /\ ErrorFrames /\ enabled /\ rxOwned[chipRx] /\ stored < MaxFrames
  /\ rxFrame' = [rxFrame EXCEPT ![chipRx] = None]
  /\ rxOwned' = [rxOwned EXCEPT ![chipRx] = FALSE]
  /\ chipRx' = NextSlot(chipRx, NumRx)
  /\ events' = events \cup {"RxOK"}
  /\ UNCHANGED <<ringVars, chipTxVars, curRx, stored, delivered, handlerVars, masked, driverVars, countVars, incidents>>

(* A frame arrives and finds no descriptor: it is lost on the wire.        *)
ChipNoDescriptor ==
  /\ enabled /\ ~rxOwned[chipRx]
  /\ events' = events \cup {"RxDescUnavail"}
  /\ UNCHANGED <<ringVars, chipTxVars, rxVars, handlerVars, masked, driverVars, countVars, incidents>>

-----------------------------------------------------------------------------
HandlerStep ==
  \/ Interrupt \/ NoMoreEvents \/ ReadStatus
  \/ RxTake \/ RxPassError \/ RxNoMemory \/ RxDone
  \/ TxReap \/ TxSpin \/ TxDone

ChipStep == ChipSend \/ ChipRingEmpty \/ ChipReceive \/ ChipReceiveError \/ ChipNoDescriptor

Next ==
  \/ OutputPacket \/ OutputStall \/ Enable \/ Disable \/ TxTimeout
  \/ InterruptLinkChange \/ LinkChangeRound \/ HandlerStep \/ ChipStep

(* The work loop runs what is pending and the chip sends what it is given. *)
Fairness == WF_vars(HandlerStep) /\ WF_vars(ChipSend)

Spec == Init /\ [][Next]_vars /\ Fairness

-----------------------------------------------------------------------------
Fine(incident) == incident \notin incidents

(* Packets leave in the order outputPacket accepted them, none twice, and  *)
(* an accepted packet that is not on the wire waits in a descriptor of the *)
(* chip or was thrown away with the ring by the watchdog: unless the       *)
(* interface came up again with cur_tx where the chip is not.              *)
NoPacketLostOrSwapped ==
  Fine("tx misaligned") =>
    /\ \A i, j \in DOMAIN sent : i < j /\ sent[i] > cleared => sent[i] < sent[j]
    /\ \A p \in cleared + 1 .. accepted :
         \/ \E i \in DOMAIN sent : sent[i] = p
         \/ \E i \in TxSlots : txOwned[i] /\ txBuf[i] = p

(* Every mbuf accepted is in one entry of Tx_skbuff or freed, not both:    *)
(* unless outputPacket accepted a packet when the whole ring was waiting   *)
(* to be reaped, the test it has commented out.                            *)
MbufsAccounted ==
  Fine("tx overrun") =>
    /\ \A p \in cleared + 1 .. accepted : p \in freed \/ \E i \in TxSlots : txSkb[i] = p
    /\ \A i \in TxSlots : txSkb[i] \notin freed
    /\ \A i, j \in TxSlots : txSkb[i] = txSkb[j] /\ txSkb[i] # None => i = j

(* Frames reach the network stack in the order the chip stored them, each  *)
(* once: unless cur_rx was taken away from the chip's place.               *)
FramesInOrder ==
  Fine("rx skewed") => \A i \in DOMAIN delivered : delivered[i] = i

(* cur_rx is the index of the next frame: when the ring holds frames one is*)
(* at cur_rx, and when it holds none the chip fills cur_rx next.           *)
AtNextFrame ==
  /\ (\E i \in RxSlots : ~rxOwned[i]) => ~rxOwned[curRx]
  /\ (\A i \in RxSlots : rxOwned[i]) => curRx = chipRx

(* cur_rx stays the index of the next frame: restarting the chip over      *)
(* frames that wait and passing over an error frame are the only causes    *)
(* that take it away.                                                      *)
CurRxIsNextFrame == Fine("rx skewed") => AtNextFrame

(* RealtekR1000.h:154 "Index into the Rx descriptor buffer of next Rx pkt."*)
NextRxPkt == enabled => AtNextFrame

(* A stalled queue is started again: the interrupt of a sent packet comes  *)
(* and finds something to reap, unless the interrupt routine had to leave  *)
(* work behind or the rings were misaligned.                               *)
StallEnds ==
  (queue = "stalled") ~> (queue # "stalled" \/ ~Fine("work left") \/ ~Fine("tx misaligned"))
=============================================================================
