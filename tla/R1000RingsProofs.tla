--------------------------- MODULE R1000RingsProofs ---------------------------
(***************************************************************************)
(* Proofs about R1000Rings, for every ring size, interrupt budget, number  *)
(* of packets, frames and restarts: frames are delivered in order, mbufs   *)
(* are accounted for, packets leave in order and none is lost, a stalled   *)
(* queue has its wake-up to come, with the exceptions the properties name. *)
(* Each ring is a window of slots that moves around: its slots are told by *)
(* their distance from its first one.                                      *)
(***************************************************************************)
EXTENDS R1000Rings, SequenceTheorems, TLAPS

LEMMA RingSizes == NumTx \in Nat \ {0} /\ NumRx \in Nat \ {0}
  BY RingsAssumption

LEMMA Slots ==
  /\ TxSlots = 0 .. NumTx - 1 /\ 0 \in TxSlots
  /\ RxSlots = 0 .. NumRx - 1 /\ 0 \in RxSlots
  BY RingSizes DEF TxSlots, RxSlots

-----------------------------------------------------------------------------
(* How far slot i is behind slot c in a ring of n slots. *)
Distance(i, c, n) == IF i >= c THEN i - c ELSE i - c + n

(* Where a window of k slots ends: at distance k, or 0 when it is full. *)
EndsAt(i, c, n, k) == Distance(i, c, n) = IF k = n THEN 0 ELSE k

LEMMA DistanceFacts ==
  ASSUME NEW n \in Nat \ {0}, NEW c \in 0 .. n - 1
  PROVE  /\ \A i \in 0 .. n - 1 : Distance(i, c, n) \in 0 .. n - 1
         /\ Distance(c, c, n) = 0
         /\ \A i, j \in 0 .. n - 1 : Distance(i, c, n) = Distance(j, c, n) => i = j
  BY DEF Distance

LEMMA EmptyWindow ==
  ASSUME NEW n \in Nat \ {0}
  PROVE  /\ \A i \in 0 .. n - 1 : ~(Distance(i, 0, n) < 0)
         /\ Distance(0, 0, n) = 0 /\ 0 \in 0 .. n
  BY DEF Distance

LEMMA NextSlotFacts ==
  ASSUME NEW n \in Nat \ {0}, NEW c \in 0 .. n - 1
  PROVE  NextSlot(c, n) \in 0 .. n - 1
  BY DEF NextSlot

(* The window grows at its end ... *)
LEMMA EndMoves ==
  ASSUME NEW n \in Nat \ {0}, NEW c \in 0 .. n - 1, NEW e \in 0 .. n - 1,
         NEW k \in 0 .. n, k < n, EndsAt(e, c, n, k)
  PROVE  Distance(e, c, n) = k /\ EndsAt(NextSlot(e, n), c, n, k + 1)
  BY DEF Distance, EndsAt, NextSlot

(* ... and shrinks at its beginning. *)
LEMMA StartMoves ==
  ASSUME NEW n \in Nat \ {0}, NEW c \in 0 .. n - 1, NEW i \in 0 .. n - 1
  PROVE  Distance(i, NextSlot(c, n), n) =
           IF i = c THEN n - 1 ELSE Distance(i, c, n) - 1
  BY DEF Distance, NextSlot

LEMMA EndStays ==
  ASSUME NEW n \in Nat \ {0}, NEW c \in 0 .. n - 1, NEW e \in 0 .. n - 1,
         NEW k \in 1 .. n, EndsAt(e, c, n, k)
  PROVE  EndsAt(e, NextSlot(c, n), n, k - 1)
<1>1. CASE e = c
  <2>1. k = n
    BY <1>1, DistanceFacts DEF EndsAt
  <2> QED
    BY <1>1, <2>1, StartMoves DEF EndsAt
<1>2. CASE e # c
  <2>1. Distance(e, c, n) = k /\ k # n
    BY <1>2, DistanceFacts DEF EndsAt
  <2> QED
    BY <1>2, <2>1, StartMoves DEF EndsAt
<1> QED
  BY <1>1, <1>2

LEMMA SlotAtDistance ==
  ASSUME NEW n \in Nat \ {0}, NEW c \in 0 .. n - 1, NEW d \in 0 .. n - 1
  PROVE  \E i \in 0 .. n - 1 : Distance(i, c, n) = d
<1>1. CASE c + d < n
  <2>1. c + d \in 0 .. n - 1 /\ Distance(c + d, c, n) = d
    BY <1>1 DEF Distance
  <2> QED
    BY <2>1
<1>2. CASE ~(c + d < n)
  <2>1. c + d - n \in 0 .. n - 1 /\ Distance(c + d - n, c, n) = d
    BY <1>2 DEF Distance
  <2> QED
    BY <2>1
<1> QED
  BY <1>1, <1>2

-----------------------------------------------------------------------------
(* Receiving. *)
RxTypes ==
  /\ rxOwned \in [RxSlots -> BOOLEAN] /\ rxFrame \in [RxSlots -> Nat]
  /\ curRx \in RxSlots /\ chipRx \in RxSlots
  /\ stored \in Nat /\ delivered \in Seq(Nat)
  /\ incidents \subseteq Incidents

(* The k slots from cur_rx on hold frames, in the order in which they came, *)
(* and what is stored and not delivered is there.                           *)
RxAt(i) == Distance(i, curRx, NumRx)
RxWindow(k) ==
  /\ \A i \in RxSlots : ~rxOwned[i] <=> RxAt(i) < k
  /\ EndsAt(chipRx, curRx, NumRx, k)
RxOrder ==
  /\ Len(delivered) <= stored
  /\ \A i \in RxSlots : ~rxOwned[i] /\ rxFrame[i] # None =>
       Len(delivered) < rxFrame[i] /\ rxFrame[i] <= stored
  /\ \A f \in Nat : Len(delivered) < f /\ f <= stored =>
       \E i \in RxSlots : ~rxOwned[i] /\ rxFrame[i] = f
  /\ \A i, j \in RxSlots :
       ~rxOwned[i] /\ ~rxOwned[j] /\ rxFrame[i] # None /\ rxFrame[j] # None
         /\ RxAt(i) < RxAt(j) => rxFrame[i] < rxFrame[j]
  /\ \A i \in 1 .. Len(delivered) : delivered[i] = i
RxInv == Fine("rx skewed") => (\E k \in 0 .. NumRx : RxWindow(k)) /\ RxOrder

LEMMA RxRestart ==
  ASSUME RxTypes, RxInv, curRx' = 0, chipRx' = 0, "rx skewed" \notin RxLeftovers,
         Fine("rx skewed"), UNCHANGED <<rxOwned, rxFrame, stored, delivered>>
  PROVE  (\E k \in 0 .. NumRx : RxWindow(k)') /\ RxOrder'
<1>1. \A i \in RxSlots : rxOwned[i]
  BY DEF RxLeftovers
<1>2. \E k \in 0 .. NumRx : RxWindow(k)'
  <2>1. /\ \A i \in RxSlots : ~(Distance(i, 0, NumRx) < 0)
        /\ Distance(0, 0, NumRx) = 0 /\ 0 \in 0 .. NumRx
    BY RingSizes, Slots, EmptyWindow
  <2>2. EndsAt(0, 0, NumRx, 0)
    BY <2>1 DEF EndsAt
  <2>3. \A i \in RxSlots : ~rxOwned'[i] <=> RxAt(i)' < 0
    <3> TAKE i \in RxSlots
    <3>1. rxOwned'[i] /\ RxAt(i)' = Distance(i, 0, NumRx)
      BY <1>1 DEF RxAt
    <3> QED
      BY <2>1, <3>1
  <2>4. RxWindow(0)'
    BY <2>2, <2>3 DEF RxWindow
  <2> QED
    BY <2>1, <2>4
<1>3. RxOrder'
  BY <1>1 DEF RxInv, RxOrder
<1> QED
  BY <1>2, <1>3

LEMMA RxDistances ==
  ASSUME RxTypes
  PROVE  /\ \A i \in RxSlots : RxAt(i) \in 0 .. NumRx - 1
         /\ RxAt(curRx) = 0
         /\ \A i \in RxSlots : i # curRx => RxAt(i) # 0
<1>1. curRx \in 0 .. NumRx - 1
  BY Slots DEF RxTypes
<1>2. /\ \A i \in 0 .. NumRx - 1 : Distance(i, curRx, NumRx) \in 0 .. NumRx - 1
      /\ Distance(curRx, curRx, NumRx) = 0
      /\ \A i \in 0 .. NumRx - 1 :
           Distance(i, curRx, NumRx) = Distance(curRx, curRx, NumRx) => i = curRx
  BY <1>1, RingSizes, DistanceFacts
<1> QED
  BY <1>2, Slots DEF RxAt

(* The frame that is taken is the one to be delivered next.                 *)
LEMMA RxHead ==
  ASSUME RxTypes, RxOrder, ~rxOwned[curRx], rxFrame[curRx] # None
  PROVE  /\ rxFrame[curRx] = Len(delivered) + 1
         /\ \A i \in RxSlots : i # curRx /\ ~rxOwned[i] /\ rxFrame[i] # None =>
              Len(delivered) + 1 < rxFrame[i]
<1> DEFINE m == Len(delivered) + 1
           f == rxFrame[curRx]
<1>1. curRx \in RxSlots /\ stored \in Nat /\ Len(delivered) \in Nat /\ m \in Nat /\ f \in Nat
  BY DEF RxTypes
<1>2. Len(delivered) < f /\ f <= stored
  BY <1>1 DEF RxOrder
<1>3. Len(delivered) < m /\ m <= stored /\ m <= f
  BY <1>1, <1>2
<1>4. PICK j \in RxSlots : ~rxOwned[j] /\ rxFrame[j] = m
  BY <1>1, <1>3 DEF RxOrder
<1>5. m # None
  BY <1>1 DEF None
<1>6. \A i \in RxSlots : i # curRx => RxAt(curRx) < RxAt(i)
  BY RxDistances, RingSizes
<1> HIDE DEF m, f
<1>7. j = curRx
  <2>1. j # curRx => f < m
    BY <1>1, <1>4, <1>5, <1>6 DEF RxOrder, f
  <2> QED
    BY <1>1, <1>3, <2>1
<1>8. f = m
  BY <1>4, <1>7 DEF f
<1>9. \A i \in RxSlots : i # curRx /\ ~rxOwned[i] /\ rxFrame[i] # None => f < rxFrame[i]
  BY <1>1, <1>6 DEF RxOrder, f
<1> QED
  BY <1>8, <1>9 DEF m, f

LEMMA RxTakeKeeps ==
  ASSUME RxTypes, RxOrder, NEW k \in 0 .. NumRx, RxWindow(k), RxTake
  PROVE  (\E l \in 0 .. NumRx : RxWindow(l)') /\ RxOrder'
<1>1. /\ ~rxOwned[curRx] /\ rxFrame[curRx] # None
      /\ delivered' = Append(delivered, rxFrame[curRx])
      /\ rxOwned' = [rxOwned EXCEPT ![curRx] = TRUE]
      /\ rxFrame' = [rxFrame EXCEPT ![curRx] = None]
      /\ curRx' = NextSlot(curRx, NumRx)
      /\ UNCHANGED <<chipRx, stored>>
  BY DEF RxTake
<1>2. /\ curRx \in RxSlots /\ chipRx \in RxSlots /\ stored \in Nat
      /\ delivered \in Seq(Nat) /\ rxFrame[curRx] \in Nat /\ Len(delivered) \in Nat
  BY DEF RxTypes
<1>3. k \in 1 .. NumRx /\ k - 1 \in 0 .. NumRx
  <2>1. 0 < k
    BY <1>1, <1>2, RxDistances DEF RxWindow
  <2> QED
    BY <2>1, RingSizes
<1>4. \A i \in RxSlots : RxAt(i)' = IF i = curRx THEN NumRx - 1 ELSE RxAt(i) - 1
  BY <1>1, <1>2, Slots, RingSizes, StartMoves DEF RxAt
<1>5. /\ rxOwned'[curRx] = TRUE
      /\ \A i \in RxSlots : i # curRx => rxOwned'[i] = rxOwned[i] /\ rxFrame'[i] = rxFrame[i]
  BY <1>1, <1>2 DEF RxTypes
<1>6. RxWindow(k - 1)'
  <2>1. \A i \in RxSlots : ~rxOwned'[i] <=> RxAt(i)' < k - 1
    <3> TAKE i \in RxSlots
    <3>1. CASE i = curRx
      BY <1>3, <1>4, <1>5, <3>1, RingSizes
    <3>2. CASE i # curRx
      <4>1. RxAt(i) \in 0 .. NumRx - 1
        BY RxDistances
      <4>2. RxAt(i) - 1 < k - 1 <=> RxAt(i) < k
        BY <1>3, <4>1, RingSizes
      <4> QED
        BY <1>4, <1>5, <3>2, <4>2 DEF RxWindow
    <3> QED
      BY <3>1, <3>2
  <2>2. EndsAt(chipRx, NextSlot(curRx, NumRx), NumRx, k - 1)
    BY <1>2, <1>3, Slots, RingSizes, EndStays DEF RxWindow
  <2> QED
    BY <1>1, <2>1, <2>2 DEF RxWindow
<1>7. RxOrder'
  <2>1. /\ rxFrame[curRx] = Len(delivered) + 1
        /\ \A i \in RxSlots : i # curRx /\ ~rxOwned[i] /\ rxFrame[i] # None =>
             Len(delivered) + 1 < rxFrame[i]
    BY <1>1, RxHead
  <2>2. /\ Len(delivered') = Len(delivered) + 1
        /\ \A i \in 1 .. Len(delivered) : delivered'[i] = delivered[i]
        /\ delivered'[Len(delivered) + 1] = rxFrame[curRx]
    BY <1>1, <1>2, AppendProperties
  <2>3. \A i \in RxSlots : ~rxOwned'[i] => i # curRx /\ ~rxOwned[i] /\ rxFrame'[i] = rxFrame[i]
    BY <1>5
  <2>4. \A i \in RxSlots : ~rxOwned'[i] /\ rxFrame'[i] # None =>
          Len(delivered') < rxFrame'[i] /\ rxFrame'[i] <= stored
    BY <2>1, <2>2, <2>3 DEF RxOrder
  <2>5. ASSUME NEW f \in Nat, Len(delivered') < f, f <= stored
        PROVE  \E i \in RxSlots : ~rxOwned'[i] /\ rxFrame'[i] = f
    <3>1. Len(delivered) < f /\ f # rxFrame[curRx]
      BY <1>2, <2>1, <2>2, <2>5
    <3>2. PICK i \in RxSlots : ~rxOwned[i] /\ rxFrame[i] = f
      BY <2>5, <3>1 DEF RxOrder
    <3> QED
      BY <1>5, <3>1, <3>2
  <2>6. ASSUME NEW i \in RxSlots, NEW j \in RxSlots, ~rxOwned'[i], ~rxOwned'[j],
               rxFrame'[i] # None, rxFrame'[j] # None, RxAt(i)' < RxAt(j)'
        PROVE  rxFrame'[i] < rxFrame'[j]
    <3>1. RxAt(i) \in Int /\ RxAt(j) \in Int
      BY RxDistances, RingSizes
    <3>2. RxAt(i) < RxAt(j)
      BY <1>4, <2>3, <2>6, <3>1
    <3> QED
      BY <2>3, <2>6, <3>2 DEF RxOrder
  <2>7. \A i \in 1 .. Len(delivered') : delivered'[i] = i
    <3> TAKE i \in 1 .. Len(delivered')
    <3>1. i \in 1 .. Len(delivered) \/ i = Len(delivered) + 1
      BY <1>2, <2>2
    <3> QED
      BY <2>1, <2>2, <3>1 DEF RxOrder
  <2>8. Len(delivered') <= stored
    BY <1>1, <1>2, <2>1, <2>2 DEF RxOrder
  <2> QED
    BY <1>1, <2>4, <2>5, <2>6, <2>7, <2>8 DEF RxOrder
<1> QED
  BY <1>3, <1>6, <1>7

(* The chip fills the slot behind the window, with a frame or an error.     *)
LEMMA ChipFillsKeeps ==
  ASSUME RxTypes, RxTypes', RxOrder, NEW k \in 0 .. NumRx, RxWindow(k), rxOwned[chipRx],
         rxOwned' = [rxOwned EXCEPT ![chipRx] = FALSE],
         chipRx' = NextSlot(chipRx, NumRx), UNCHANGED <<curRx, delivered>>,
         \/ stored' = stored + 1 /\ rxFrame' = [rxFrame EXCEPT ![chipRx] = stored + 1]
         \/ stored' = stored /\ rxFrame' = [rxFrame EXCEPT ![chipRx] = None]
  PROVE  (\E l \in 0 .. NumRx : RxWindow(l)') /\ RxOrder'
<1>1. curRx \in RxSlots /\ chipRx \in RxSlots /\ stored \in Nat /\ Len(delivered) \in Nat
  BY DEF RxTypes
<1>2. k < NumRx /\ k + 1 \in 0 .. NumRx
  <2>1. ~(RxAt(chipRx) < k)
    BY <1>1 DEF RxWindow
  <2>2. k = NumRx => RxAt(chipRx) = 0
    BY DEF RxWindow, EndsAt, RxAt
  <2> QED
    BY <2>1, <2>2, RingSizes
<1>3. RxAt(chipRx) = k /\ EndsAt(NextSlot(chipRx, NumRx), curRx, NumRx, k + 1)
  BY <1>1, <1>2, Slots, RingSizes, EndMoves DEF RxWindow, RxAt
<1>4. \A i \in RxSlots : RxAt(i) \in 0 .. NumRx - 1 /\ RxAt(i)' = RxAt(i)
  BY RxDistances DEF RxAt
<1>5. \A i \in RxSlots : RxAt(i) = k => i = chipRx
  BY <1>1, <1>3, Slots, RingSizes, DistanceFacts DEF RxAt
<1>6. /\ ~rxOwned'[chipRx]
      /\ \A i \in RxSlots : i # chipRx => rxOwned'[i] = rxOwned[i] /\ rxFrame'[i] = rxFrame[i]
  BY <1>1 DEF RxTypes
<1>7. RxWindow(k + 1)'
  <2>1. \A i \in RxSlots : ~rxOwned'[i] <=> RxAt(i)' < k + 1
    <3> TAKE i \in RxSlots
    <3>1. CASE i = chipRx
      BY <1>3, <1>4, <1>6, <3>1, RingSizes
    <3>2. CASE i # chipRx
      <4>1. RxAt(i) < k + 1 <=> RxAt(i) < k
        BY <1>4, <1>5, <3>2, RingSizes
      <4> QED
        BY <1>4, <1>6, <3>2, <4>1 DEF RxWindow
    <3> QED
      BY <3>1, <3>2
  <2> QED
    BY <1>3, <2>1 DEF RxWindow
<1>8. stored' \in Nat /\ stored <= stored' /\ rxFrame'[chipRx] \in {None, stored'}
      /\ (rxFrame'[chipRx] # None => stored' = stored + 1 /\ rxFrame'[chipRx] = stored + 1)
      /\ (stored' # stored => stored' = stored + 1 /\ rxFrame'[chipRx] = stored + 1)
  BY <1>1 DEF RxTypes
<1>9. \A i \in RxSlots : ~rxOwned[i] => i # chipRx /\ RxAt(i) < k
  BY <1>3 DEF RxWindow
<1>10. RxOrder'
  <2>1. \A i \in RxSlots : ~rxOwned'[i] /\ rxFrame'[i] # None =>
          Len(delivered) < rxFrame'[i] /\ rxFrame'[i] <= stored'
    <3> SUFFICES ASSUME NEW i \in RxSlots, ~rxOwned'[i], rxFrame'[i] # None
                 PROVE  Len(delivered) < rxFrame'[i] /\ rxFrame'[i] <= stored'
      OBVIOUS
    <3>1. CASE i = chipRx
      <4>1. Len(delivered) <= stored
        BY DEF RxOrder
      <4> QED
        BY <1>1, <1>8, <3>1, <4>1
    <3>2. CASE i # chipRx
      <4>1. Len(delivered) < rxFrame[i] /\ rxFrame[i] <= stored /\ rxFrame[i] \in Nat
        BY <1>6, <3>2 DEF RxOrder, RxTypes
      <4> QED
        BY <1>1, <1>6, <1>8, <3>2, <4>1
    <3> QED
      BY <3>1, <3>2
  <2>2. ASSUME NEW f \in Nat, Len(delivered) < f, f <= stored'
        PROVE  \E i \in RxSlots : ~rxOwned'[i] /\ rxFrame'[i] = f
    <3>1. CASE f <= stored
      <4>1. PICK i \in RxSlots : ~rxOwned[i] /\ rxFrame[i] = f
        BY <2>2, <3>1 DEF RxOrder
      <4> QED
        BY <1>6, <1>9, <4>1
    <3>2. CASE ~(f <= stored)
      <4>1. f = stored + 1 /\ stored' # stored
        BY <1>1, <1>8, <2>2, <3>2
      <4> QED
        BY <1>1, <1>6, <1>8, <4>1
    <3> QED
      BY <3>1, <3>2
  <2>3. ASSUME NEW i \in RxSlots, NEW j \in RxSlots, ~rxOwned'[i], ~rxOwned'[j],
               rxFrame'[i] # None, rxFrame'[j] # None, RxAt(i)' < RxAt(j)'
        PROVE  rxFrame'[i] < rxFrame'[j]
    <3>1. CASE i = chipRx
      <4>1. j # chipRx /\ RxAt(j) < k
        BY <1>4, <1>6, <1>9, <2>3, <3>1, RingSizes
      <4> QED
        BY <1>3, <1>4, <2>3, <3>1, <4>1, RingSizes
    <3>2. CASE i # chipRx /\ j = chipRx
      <4>1. rxFrame'[i] <= stored /\ rxFrame'[i] \in Nat
        BY <1>6, <2>3, <3>2 DEF RxOrder, RxTypes
      <4> QED
        BY <1>1, <1>8, <2>3, <3>2, <4>1
    <3>3. CASE i # chipRx /\ j # chipRx
      BY <1>4, <1>6, <2>3, <3>3 DEF RxOrder
    <3> QED
      BY <3>1, <3>2, <3>3
  <2>4. Len(delivered) <= stored'
    BY <1>1, <1>8 DEF RxOrder
  <2> QED
    BY <2>1, <2>2, <2>3, <2>4 DEF RxOrder
<1> QED
  BY <1>2, <1>7, <1>10

LEMMA RxTypesStep == RxTypes /\ [Next]_vars => RxTypes'
<1> SUFFICES ASSUME RxTypes, [Next]_vars PROVE RxTypes'
  OBVIOUS
<1>1. /\ NextSlot(curRx, NumRx) \in RxSlots /\ NextSlot(chipRx, NumRx) \in RxSlots
      /\ 0 \in RxSlots
  BY Slots, RingSizes, NextSlotFacts DEF RxTypes
<1>2. incidents' \subseteq Incidents
  BY DEF RxTypes, Incidents, Next, HandlerStep, ChipStep, vars, OutputPacket, OutputStall, Enable,
     Disable, TxTimeout, Interrupt, NoMoreEvents, InterruptLinkChange, LinkChangeRound,
     ReadStatus, RxTake, RxPassError, RxNoMemory,
     RxDone, WorkLeft, RxLeftovers, TxReap, TxSpin, TxDone, ChipSend, ChipRingEmpty, ChipReceive,
     ChipReceiveError, ChipNoDescriptor
<1>3. CASE RxTake
  <2>1. delivered' \in Seq(Nat)
    BY <1>3, AppendProperties DEF RxTake, RxTypes
  <2> QED
    BY <1>1, <1>2, <1>3, <2>1 DEF RxTake, RxTypes, None
<1>4. CASE RxPassError
  BY <1>1, <1>2, <1>4 DEF RxPassError, RxTypes
<1>5. CASE ChipReceive
  <2>1. /\ stored' = stored + 1 /\ rxFrame' = [rxFrame EXCEPT ![chipRx] = stored + 1]
        /\ rxOwned' = [rxOwned EXCEPT ![chipRx] = FALSE]
        /\ chipRx' = NextSlot(chipRx, NumRx) /\ UNCHANGED <<curRx, delivered>>
    BY <1>5 DEF ChipReceive
  <2>2. stored' \in Nat /\ stored + 1 \in Nat
    BY <2>1 DEF RxTypes
  <2> QED
    BY <1>1, <1>2, <2>1, <2>2 DEF RxTypes
<1>8. CASE ChipReceiveError
  <2>1. /\ stored' = stored /\ rxFrame' = [rxFrame EXCEPT ![chipRx] = None]
        /\ rxOwned' = [rxOwned EXCEPT ![chipRx] = FALSE]
        /\ chipRx' = NextSlot(chipRx, NumRx) /\ UNCHANGED <<curRx, delivered>>
    BY <1>8 DEF ChipReceiveError
  <2> QED
    BY <1>1, <1>2, <2>1 DEF RxTypes, None
<1>6. CASE Enable \/ TxTimeout
  BY <1>1, <1>2, <1>6 DEF Enable, TxTimeout, R1000HwStart, RxTypes
<1>7. CASE UNCHANGED rxVars
  BY <1>2, <1>7 DEF rxVars, RxTypes
<1> QED
  BY <1>3, <1>4, <1>5, <1>8, <1>6, <1>7
  DEF Next, HandlerStep, ChipStep, vars, OutputPacket, OutputStall, Disable, Interrupt,
      NoMoreEvents, InterruptLinkChange, LinkChangeRound, ReadStatus, RxNoMemory, RxDone, TxReap,
      TxSpin, TxDone, ChipSend,
      ChipRingEmpty, ChipNoDescriptor

LEMMA RxSkewStays == [Next]_vars /\ Fine("rx skewed")' => Fine("rx skewed")
  BY DEF Fine, Next, HandlerStep, ChipStep, vars, OutputPacket, OutputStall, Enable,
     Disable, TxTimeout, Interrupt, NoMoreEvents, InterruptLinkChange, LinkChangeRound,
     ReadStatus, RxTake, RxPassError, RxNoMemory,
     RxDone, TxReap, TxSpin, TxDone, ChipSend, ChipRingEmpty, ChipReceive,
     ChipReceiveError, ChipNoDescriptor

LEMMA RxStep == RxTypes /\ RxTypes' /\ RxInv /\ [Next]_vars => RxInv'
<1> SUFFICES ASSUME RxTypes, RxTypes', RxInv, [Next]_vars, Fine("rx skewed")'
             PROVE  (\E k \in 0 .. NumRx : RxWindow(k)') /\ RxOrder'
  BY DEF RxInv
<1>1. Fine("rx skewed") /\ RxOrder
  BY RxSkewStays DEF RxInv
<1>2. PICK k \in 0 .. NumRx : RxWindow(k)
  BY <1>1 DEF RxInv
<1>3. CASE RxTake
  BY <1>1, <1>2, <1>3, RxTakeKeeps
<1>4. CASE RxPassError
  BY <1>4 DEF RxPassError, Fine
<1>5. CASE ChipReceive \/ ChipReceiveError
  <2>1. /\ rxOwned[chipRx] /\ rxOwned' = [rxOwned EXCEPT ![chipRx] = FALSE]
        /\ chipRx' = NextSlot(chipRx, NumRx) /\ UNCHANGED <<curRx, delivered>>
        /\ \/ stored' = stored + 1 /\ rxFrame' = [rxFrame EXCEPT ![chipRx] = stored + 1]
           \/ stored' = stored /\ rxFrame' = [rxFrame EXCEPT ![chipRx] = None]
    BY <1>5 DEF ChipReceive, ChipReceiveError
  <2> QED
    BY <1>1, <1>2, <2>1, ChipFillsKeeps
<1>6. CASE Enable \/ TxTimeout
  <2>1. /\ curRx' = 0 /\ chipRx' = 0 /\ UNCHANGED <<rxOwned, rxFrame, stored, delivered>>
        /\ "rx skewed" \notin RxLeftovers
    BY <1>6 DEF Enable, TxTimeout, R1000HwStart, Fine
  <2> QED
    BY <1>1, <2>1, RxRestart
<1>7. CASE UNCHANGED rxVars
  BY <1>1, <1>2, <1>7 DEF rxVars, RxWindow, RxOrder, RxAt
<1> QED
  BY <1>3, <1>4, <1>5, <1>6, <1>7
  DEF Next, HandlerStep, ChipStep, vars, OutputPacket, OutputStall, Disable, Interrupt,
      NoMoreEvents, InterruptLinkChange, LinkChangeRound, ReadStatus, RxNoMemory, RxDone, TxReap,
      TxSpin, TxDone, ChipSend,
      ChipRingEmpty, ChipNoDescriptor

LEMMA RxInit == Init => RxTypes /\ RxInv
<1> SUFFICES ASSUME Init PROVE RxTypes /\ RxInv
  OBVIOUS
<1>1. /\ curRx = 0 /\ chipRx = 0 /\ stored = 0 /\ delivered = <<>> /\ Len(delivered) = 0
      /\ \A i \in RxSlots : rxOwned[i]
  BY DEF Init
<1>2. RxTypes
  BY <1>1, Slots DEF Init, RxTypes, None
<1>3. \A i \in RxSlots : ~(RxAt(i) < 0)
  BY <1>1, RingSizes, Slots, EmptyWindow DEF RxAt
<1>4. EndsAt(0, 0, NumRx, 0) /\ 0 \in 0 .. NumRx
  BY RingSizes, EmptyWindow DEF EndsAt
<1>5. RxWindow(0) /\ RxOrder
  BY <1>1, <1>3, <1>4 DEF RxWindow, RxOrder
<1> QED
  BY <1>2, <1>4, <1>5 DEF RxInv

(* Frames reach the network stack in the order the chip stored them, each   *)
(* once, for every ring size and interrupt budget, unless a restart over    *)
(* waiting frames or an error frame took cur_rx from the chip's place.      *)
THEOREM DeliversInOrder == Spec => []FramesInOrder
<1>1. RxTypes /\ RxInv => FramesInOrder
  <2>1. RxTypes => DOMAIN delivered = 1 .. Len(delivered)
    BY DEF RxTypes
  <2>2. RxOrder => \A i \in 1 .. Len(delivered) : delivered[i] = i
    BY DEF RxOrder
  <2> QED
    BY <2>1, <2>2 DEF RxInv, FramesInOrder
<1> QED
  BY <1>1, RxInit, RxTypesStep, RxStep, PTL DEF Spec

LEMMA WindowAtNextFrame ==
  ASSUME RxTypes, NEW k \in 0 .. NumRx, RxWindow(k)
  PROVE  AtNextFrame
<1>1. \A i \in RxSlots : RxAt(i) \in 0 .. NumRx - 1
  BY RxDistances
<1>2. curRx \in RxSlots /\ chipRx \in RxSlots /\ RxAt(curRx) = 0
  BY RxDistances DEF RxTypes
<1>3. ASSUME NEW i \in RxSlots, ~rxOwned[i] PROVE ~rxOwned[curRx]
  <2>1. RxAt(i) < k /\ RxAt(i) \in 0 .. NumRx - 1
    BY <1>1, <1>3 DEF RxWindow
  <2>2. 0 < k
    BY <2>1, RingSizes
  <2> QED
    BY <1>2, <2>2 DEF RxWindow
<1>4. ASSUME \A i \in RxSlots : rxOwned[i] PROVE curRx = chipRx
  <2>1. ~(0 < k)
    BY <1>2, <1>4 DEF RxWindow
  <2>2. k = 0
    BY <2>1, RingSizes
  <2>3. RxAt(chipRx) = 0
    BY <2>2, RingSizes DEF RxWindow, EndsAt, RxAt
  <2> QED
    BY <1>2, <2>3, RxDistances
<1> QED
  BY <1>3, <1>4 DEF AtNextFrame

(* cur_rx is the index of the next frame, with the same two exceptions.     *)
THEOREM CurRxFollowsChip == Spec => []CurRxIsNextFrame
<1>1. RxTypes /\ RxInv => CurRxIsNextFrame
  BY WindowAtNextFrame DEF RxInv, CurRxIsNextFrame
<1> QED
  BY <1>1, RxInit, RxTypesStep, RxStep, PTL DEF Spec

-----------------------------------------------------------------------------
(* Transmitting: the packets in Tx_skbuff. *)
TxTypes ==
  /\ txOwned \in [TxSlots -> BOOLEAN] /\ txBuf \in [TxSlots -> Nat] /\ txSkb \in [TxSlots -> Nat]
  /\ curTx \in TxSlots /\ dirtyTx \in TxSlots /\ chipTx \in TxSlots
  /\ outstanding \in Nat /\ accepted \in Nat /\ cleared \in Nat
  /\ sent \in Seq(Nat) /\ freed \subseteq Nat

(* A packet in Tx_skbuff is among the outstanding slots from dirty_tx on,   *)
(* which end at cur_tx.                                                     *)
TxAt(i) == Distance(i, dirtyTx, NumTx)
SkbBounds ==
  /\ cleared <= accepted
  /\ \A i \in TxSlots : txSkb[i] <= accepted
  /\ \A p \in freed : p # None /\ p <= accepted
SkbWindow ==
  /\ outstanding <= NumTx /\ EndsAt(curTx, dirtyTx, NumTx, outstanding)
  /\ \A i \in TxSlots : txSkb[i] # None => TxAt(i) < outstanding
Accounted ==
  /\ \A p \in cleared + 1 .. accepted : p \in freed \/ \E i \in TxSlots : txSkb[i] = p
  /\ \A i \in TxSlots : txSkb[i] \notin freed
  /\ \A i, j \in TxSlots : txSkb[i] = txSkb[j] /\ txSkb[i] # None => i = j
SkbInv == SkbBounds /\ (Fine("tx overrun") => SkbWindow /\ Accounted)

LEMMA TxTypesStep == TxTypes /\ [Next]_vars => TxTypes'
<1> SUFFICES ASSUME TxTypes, [Next]_vars PROVE TxTypes'
  OBVIOUS
<1>1. /\ NextSlot(curTx, NumTx) \in TxSlots /\ NextSlot(dirtyTx, NumTx) \in TxSlots
      /\ NextSlot(chipTx, NumTx) \in TxSlots /\ 0 \in TxSlots
  BY Slots, RingSizes, NextSlotFacts DEF TxTypes
<1>2. CASE OutputPacket
  <2>1. accepted' = accepted + 1 /\ outstanding' = outstanding + 1
    BY <1>2 DEF OutputPacket
  <2>2. accepted' \in Nat /\ outstanding' \in Nat
    BY <2>1 DEF TxTypes
  <2> QED
    BY <1>1, <1>2, <2>2 DEF OutputPacket, TxTypes
<1>3. CASE TxTimeout
  <2>1. freed' \subseteq Nat
    BY <1>3 DEF TxTimeout, R1000TxClear, TxTypes
  <2> QED
    BY <1>1, <1>3, <2>1 DEF TxTimeout, R1000TxClear, R1000HwStart, TxTypes, None
<1>4. CASE Enable
  BY <1>1, <1>4 DEF Enable, R1000HwStart, ringVars, countVars, TxTypes
<1>5. CASE TxReap
  <2>1. outstanding' \in Nat
    <3>1. outstanding > 0 /\ outstanding' = outstanding - 1
      BY <1>5 DEF TxReap
    <3> QED
      BY <3>1 DEF TxTypes
  <2>2. txSkb' \in [TxSlots -> Nat] /\ freed' \subseteq Nat
    BY <1>5 DEF TxReap, FreeSkb, TxTypes, None
  <2> QED
    BY <1>1, <1>5, <2>1, <2>2 DEF TxReap, chipTxVars, TxTypes
<1>6. CASE ChipSend
  <2>1. sent' \in Seq(Nat)
    BY <1>6, AppendProperties DEF ChipSend, TxTypes
  <2> QED
    BY <1>1, <1>6, <2>1 DEF ChipSend, countVars, TxTypes, None
<1>7. CASE UNCHANGED <<ringVars, chipTx, sent, countVars>>
  BY <1>7 DEF ringVars, countVars, TxTypes
<1> QED
  BY <1>2, <1>3, <1>4, <1>5, <1>6, <1>7
  DEF Next, HandlerStep, ChipStep, vars, chipTxVars, OutputStall, Disable, Interrupt,
      NoMoreEvents, InterruptLinkChange, LinkChangeRound, ReadStatus, RxTake, RxPassError,
      RxNoMemory, RxDone, TxSpin, TxDone,
      ChipRingEmpty, ChipReceive, ChipReceiveError, ChipNoDescriptor

LEMMA TxDistances ==
  ASSUME TxTypes
  PROVE  /\ \A i \in TxSlots : TxAt(i) \in 0 .. NumTx - 1
         /\ TxAt(dirtyTx) = 0
         /\ \A i \in TxSlots : i # dirtyTx => TxAt(i) # 0
<1>1. dirtyTx \in 0 .. NumTx - 1
  BY Slots DEF TxTypes
<1>2. /\ \A i \in 0 .. NumTx - 1 : Distance(i, dirtyTx, NumTx) \in 0 .. NumTx - 1
      /\ Distance(dirtyTx, dirtyTx, NumTx) = 0
      /\ \A i \in 0 .. NumTx - 1 :
           Distance(i, dirtyTx, NumTx) = Distance(dirtyTx, dirtyTx, NumTx) => i = dirtyTx
  BY <1>1, RingSizes, DistanceFacts
<1> QED
  BY <1>2, Slots DEF TxAt

(* outputPacket puts the packet behind the outstanding ones, in an entry    *)
(* that is empty.                                                           *)
LEMMA OutputKeepsSkb ==
  ASSUME TxTypes, SkbBounds, SkbWindow, Accounted, outstanding < NumTx, OutputPacket
  PROVE  SkbWindow' /\ Accounted'
<1>1. /\ accepted' = accepted + 1 /\ txSkb' = [txSkb EXCEPT ![curTx] = accepted + 1]
      /\ curTx' = NextSlot(curTx, NumTx) /\ outstanding' = outstanding + 1
      /\ UNCHANGED <<dirtyTx, cleared, freed>>
  BY DEF OutputPacket
<1>2. /\ curTx \in TxSlots /\ dirtyTx \in TxSlots /\ outstanding \in 0 .. NumTx
      /\ outstanding + 1 <= NumTx /\ accepted \in Nat /\ cleared \in Nat
  BY RingSizes DEF TxTypes
<1>3. TxAt(curTx) = outstanding /\ EndsAt(NextSlot(curTx, NumTx), dirtyTx, NumTx, outstanding + 1)
  BY <1>2, Slots, RingSizes, EndMoves DEF SkbWindow, TxAt
<1>4. txSkb[curTx] = None
  BY <1>2, <1>3 DEF SkbWindow
<1>5. /\ txSkb'[curTx] = accepted + 1
      /\ \A i \in TxSlots : i # curTx => txSkb'[i] = txSkb[i]
  BY <1>1, <1>2 DEF TxTypes
<1>6. \A i \in TxSlots : txSkb[i] \in Nat /\ txSkb[i] < accepted + 1 /\ TxAt(i)' = TxAt(i) /\ TxAt(i) \in Nat
  BY <1>1, <1>2, TxDistances, RingSizes DEF SkbBounds, TxTypes, TxAt
<1>7. \A i \in TxSlots : txSkb'[i] # None => TxAt(i)' < outstanding + 1
  <2> TAKE i \in TxSlots
  <2>1. CASE i = curTx
    BY <1>2, <1>3, <1>6, <2>1
  <2>2. CASE i # curTx
    BY <1>2, <1>5, <1>6, <2>2 DEF SkbWindow
  <2> QED
    BY <2>1, <2>2
<1>8. SkbWindow'
  BY <1>1, <1>2, <1>3, <1>7 DEF SkbWindow
<1>9. Accounted'
  <2>1. ASSUME NEW p \in cleared + 1 .. accepted + 1
        PROVE  p \in freed \/ \E i \in TxSlots : txSkb'[i] = p
    <3>1. CASE p = accepted + 1
      BY <1>2, <1>5, <3>1
    <3>2. CASE p # accepted + 1
      <4>1. p \in cleared + 1 .. accepted /\ p # None
        BY <1>2, <3>2 DEF None
      <4>2. p \in freed \/ \E i \in TxSlots : txSkb[i] = p
        BY <4>1 DEF Accounted
      <4> QED
        BY <1>4, <1>5, <4>1, <4>2
    <3> QED
      BY <3>1, <3>2
  <2>2. accepted + 1 \notin freed
    BY <1>2 DEF SkbBounds, TxTypes
  <2>3. \A i \in TxSlots : txSkb'[i] \notin freed
    BY <1>5, <2>2 DEF Accounted
  <2>4. ASSUME NEW i \in TxSlots, NEW j \in TxSlots, txSkb'[i] = txSkb'[j], txSkb'[i] # None
        PROVE  i = j
    <3>1. CASE i # curTx /\ j # curTx
      BY <1>5, <2>4, <3>1 DEF Accounted
    <3>2. CASE i = curTx \/ j = curTx
      <4>1. \A l \in TxSlots : l # curTx => txSkb'[l] # accepted + 1
        BY <1>2, <1>5, <1>6
      <4> QED
        BY <1>5, <2>4, <3>2, <4>1
    <3> QED
      BY <3>1, <3>2
  <2> QED
    BY <1>1, <2>1, <2>3, <2>4 DEF Accounted
<1> QED
  BY <1>8, <1>9

LEMMA ReapKeepsSkb ==
  ASSUME TxTypes, SkbBounds, SkbWindow, Accounted, TxReap
  PROVE  SkbWindow' /\ Accounted'
<1>1. /\ outstanding > 0 /\ outstanding' = outstanding - 1
      /\ dirtyTx' = NextSlot(dirtyTx, NumTx) /\ txSkb' = [txSkb EXCEPT ![dirtyTx] = None]
      /\ freed' = IF txSkb[dirtyTx] = None THEN freed ELSE freed \cup {txSkb[dirtyTx]}
      /\ UNCHANGED <<curTx, accepted, cleared>>
  BY DEF TxReap, FreeSkb
<1>2. /\ curTx \in TxSlots /\ dirtyTx \in TxSlots /\ accepted \in Nat /\ cleared \in Nat
      /\ outstanding \in 1 .. NumTx
  BY <1>1, RingSizes DEF TxTypes, SkbWindow
<1>3. EndsAt(curTx, NextSlot(dirtyTx, NumTx), NumTx, outstanding - 1)
  BY <1>2, Slots, RingSizes, EndStays DEF SkbWindow
<1>4. \A i \in TxSlots : i # dirtyTx => TxAt(i)' = TxAt(i) - 1 /\ TxAt(i) \in Nat
  <2> SUFFICES ASSUME NEW i \in TxSlots, i # dirtyTx PROVE TxAt(i)' = TxAt(i) - 1 /\ TxAt(i) \in Nat
    OBVIOUS
  <2>1. i \in 0 .. NumTx - 1 /\ dirtyTx \in 0 .. NumTx - 1 /\ NumTx \in Nat \ {0}
    BY <1>2, Slots, RingSizes
  <2>2. TxAt(i)' = Distance(i, NextSlot(dirtyTx, NumTx), NumTx)
    BY <1>1 DEF TxAt
  <2>3. Distance(i, NextSlot(dirtyTx, NumTx), NumTx) = Distance(i, dirtyTx, NumTx) - 1
    BY <2>1, StartMoves
  <2>4. TxAt(i) \in 0 .. NumTx - 1
    BY TxDistances
  <2> QED
    BY <2>1, <2>2, <2>3, <2>4 DEF TxAt
<1>5. /\ txSkb'[dirtyTx] = None
      /\ \A i \in TxSlots : i # dirtyTx => txSkb'[i] = txSkb[i]
  BY <1>1, <1>2 DEF TxTypes
<1>6. \A i \in TxSlots : txSkb'[i] # None => TxAt(i)' < outstanding - 1
  BY <1>2, <1>4, <1>5 DEF SkbWindow
<1>7. outstanding - 1 <= NumTx
  BY <1>2, RingSizes
<1>8. SkbWindow'
  BY <1>1, <1>3, <1>6, <1>7 DEF SkbWindow
<1>9. Accounted'
  <2>1. ASSUME NEW p \in cleared + 1 .. accepted
        PROVE  p \in freed' \/ \E i \in TxSlots : txSkb'[i] = p
    <3>1. p # None
      BY <1>2 DEF None
    <3>2. CASE p \in freed
      BY <1>1, <3>2
    <3>3. CASE p \notin freed
      <4>1. PICK i \in TxSlots : txSkb[i] = p
        BY <2>1, <3>3 DEF Accounted
      <4> QED
        BY <1>1, <1>5, <3>1, <4>1
    <3> QED
      BY <3>2, <3>3
  <2>2. None \notin freed'
    BY <1>1 DEF SkbBounds
  <2>3. \A i \in TxSlots : txSkb'[i] \notin freed'
    <3> TAKE i \in TxSlots
    <3>1. CASE i = dirtyTx
      BY <1>5, <2>2, <3>1
    <3>2. CASE i # dirtyTx
      BY <1>1, <1>2, <1>5, <3>2 DEF Accounted
    <3> QED
      BY <3>1, <3>2
  <2>4. \A i, j \in TxSlots : txSkb'[i] = txSkb'[j] /\ txSkb'[i] # None => i = j
    BY <1>5 DEF Accounted
  <2> QED
    BY <1>1, <2>1, <2>3, <2>4 DEF Accounted
<1> QED
  BY <1>8, <1>9

(* A cleared ring holds nothing. *)
LEMMA ClearKeepsSkb ==
  ASSUME TxTypes, SkbBounds, R1000TxClear, UNCHANGED accepted
  PROVE  SkbBounds' /\ SkbWindow' /\ Accounted'
<1>1. /\ curTx' = 0 /\ dirtyTx' = 0 /\ outstanding' = 0 /\ cleared' = accepted
      /\ \A i \in TxSlots : txSkb'[i] = None
      /\ freed' = freed \cup ({txSkb[i] : i \in TxSlots} \ {None})
  BY DEF R1000TxClear
<1>2. accepted \in Nat /\ 0 \in 0 .. NumTx
  BY RingSizes DEF TxTypes
<1>3. \A p \in freed' : p # None /\ p <= accepted
  BY <1>1 DEF SkbBounds
<1>4. EndsAt(0, 0, NumTx, 0) /\ 0 <= NumTx
  BY RingSizes, EmptyWindow DEF EndsAt
<1>5. cleared' + 1 .. accepted = {}
  BY <1>1, <1>2
<1>6. SkbBounds'
  BY <1>1, <1>2, <1>3 DEF SkbBounds, None
<1>7. SkbWindow'
  BY <1>1, <1>4 DEF SkbWindow
<1>8. Accounted'
  BY <1>1, <1>3, <1>5 DEF Accounted
<1> QED
  BY <1>6, <1>7, <1>8

LEMMA RoomLeft == ASSUME TxTypes, ~(outstanding >= NumTx) PROVE outstanding < NumTx
  BY RingSizes DEF TxTypes

LEMMA SkbStep == TxTypes /\ TxTypes' /\ SkbInv /\ [Next]_vars => SkbInv'
<1> SUFFICES ASSUME TxTypes, TxTypes', SkbInv, [Next]_vars PROVE SkbInv'
  OBVIOUS
<1>1. CASE OutputPacket
  <2>1. SkbBounds'
    <3>1. /\ accepted' = accepted + 1 /\ txSkb' = [txSkb EXCEPT ![curTx] = accepted + 1]
          /\ UNCHANGED <<cleared, freed>> /\ accepted \in Nat /\ cleared \in Nat /\ freed \subseteq Nat
          /\ txSkb \in [TxSlots -> Nat]
      BY <1>1 DEF OutputPacket, TxTypes
    <3>2. \A i \in TxSlots : txSkb'[i] <= accepted + 1
      <4> TAKE i \in TxSlots
      <4>1. txSkb[i] \in Nat /\ txSkb[i] <= accepted /\ txSkb'[i] \in {txSkb[i], accepted + 1}
        BY <3>1 DEF SkbInv, SkbBounds
      <4> QED
        BY <3>1, <4>1
    <3>3. \A p \in freed : p # None /\ p <= accepted + 1
      <4> TAKE p \in freed
      <4>1. p \in Nat /\ p # None /\ p <= accepted
        BY <3>1 DEF SkbInv, SkbBounds
      <4> QED
        BY <3>1, <4>1
    <3>4. cleared <= accepted + 1
      <4>1. cleared <= accepted
        BY DEF SkbInv, SkbBounds
      <4> QED
        BY <3>1, <4>1
    <3> QED
      BY <3>1, <3>2, <3>3, <3>4 DEF SkbBounds
  <2>2. ASSUME Fine("tx overrun")' PROVE Fine("tx overrun") /\ outstanding < NumTx
    <3>1. incidents' = IF outstanding >= NumTx THEN incidents \cup {"tx overrun"} ELSE incidents
      BY <1>1 DEF OutputPacket
    <3>2. ~(outstanding >= NumTx) /\ Fine("tx overrun")
      BY <2>2, <3>1 DEF Fine
    <3> QED
      BY <3>2, RoomLeft
  <2> QED
    BY <1>1, <2>1, <2>2, OutputKeepsSkb DEF SkbInv
<1>2. CASE TxTimeout
  BY <1>2, ClearKeepsSkb DEF TxTimeout, SkbInv
<1>3. CASE TxReap
  <2>1. SkbBounds'
    <3>1. \A i \in TxSlots : txSkb'[i] \in {txSkb[i], None}
      BY <1>3 DEF TxReap, FreeSkb, TxTypes
    <3>2. \A p \in freed' : p \in freed \/ (p = txSkb[dirtyTx] /\ p # None)
      <4>1. freed' = IF txSkb[dirtyTx] = None THEN freed ELSE freed \cup {txSkb[dirtyTx]}
        BY <1>3 DEF TxReap, FreeSkb
      <4> QED
        BY <4>1
    <3>3. UNCHANGED <<accepted, cleared>> /\ accepted \in Nat /\ dirtyTx \in TxSlots
      BY <1>3 DEF TxReap, TxTypes
    <3>4. \A i \in TxSlots : txSkb'[i] <= accepted
      <4>1. \A i \in TxSlots : txSkb[i] <= accepted
        BY DEF SkbInv, SkbBounds
      <4>2. 0 <= accepted
        BY <3>3
      <4> QED
        BY <3>1, <4>1, <4>2 DEF None
    <3>5. \A p \in freed' : p # None /\ p <= accepted
      BY <3>2, <3>3 DEF SkbInv, SkbBounds
    <3> QED
      BY <3>3, <3>4, <3>5 DEF SkbInv, SkbBounds
  <2>2. incidents' = incidents
    BY <1>3 DEF TxReap
  <2> QED
    BY <1>3, <2>1, <2>2, ReapKeepsSkb DEF SkbInv, Fine
<1>4. CASE UNCHANGED <<txSkb, curTx, dirtyTx, outstanding, accepted, cleared, freed>>
           /\ (Fine("tx overrun")' => Fine("tx overrun"))
  BY <1>4 DEF SkbInv, SkbBounds, SkbWindow, Accounted, TxAt
<1>5. CASE ~(OutputPacket \/ TxTimeout \/ TxReap)
  <2>1. UNCHANGED <<txSkb, curTx, dirtyTx, outstanding, accepted, cleared, freed>>
    BY <1>5
    DEF Next, HandlerStep, ChipStep, vars, ringVars, countVars, OutputStall, Enable, Disable,
        Interrupt, NoMoreEvents, InterruptLinkChange, LinkChangeRound, ReadStatus, RxTake,
        RxPassError, RxNoMemory, RxDone, TxSpin,
        TxDone, ChipSend, ChipRingEmpty, ChipReceive, ChipReceiveError, ChipNoDescriptor
  <2>2. Fine("tx overrun")' => Fine("tx overrun")
    BY <1>5
    DEF Fine, Next, HandlerStep, ChipStep, vars, OutputStall, Enable, Disable,
        Interrupt, NoMoreEvents, InterruptLinkChange, LinkChangeRound, ReadStatus, RxTake,
        RxPassError, RxNoMemory, RxDone, TxSpin,
        TxDone, ChipSend, ChipRingEmpty, ChipReceive, ChipReceiveError, ChipNoDescriptor
  <2> QED
    BY <1>4, <2>1, <2>2
<1> QED
  BY <1>1, <1>2, <1>3, <1>5

LEMMA TxInit == Init => TxTypes /\ SkbInv
<1> SUFFICES ASSUME Init PROVE TxTypes /\ SkbInv
  OBVIOUS
<1>1. /\ curTx = 0 /\ dirtyTx = 0 /\ outstanding = 0 /\ accepted = 0 /\ cleared = 0 /\ freed = {}
      /\ \A i \in TxSlots : txSkb[i] = None
  BY DEF Init
<1>2. TxTypes
  BY Slots DEF Init, TxTypes, None
<1>3. EndsAt(0, 0, NumTx, 0) /\ 0 <= NumTx
  BY RingSizes, EmptyWindow DEF EndsAt
<1>4. cleared + 1 .. accepted = {}
  BY <1>1
<1>5. SkbBounds
  BY <1>1 DEF SkbBounds, None
<1>6. SkbWindow
  BY <1>1, <1>3 DEF SkbWindow
<1>7. Accounted
  BY <1>1, <1>4 DEF Accounted
<1> QED
  BY <1>2, <1>5, <1>6, <1>7 DEF SkbInv

(* Every mbuf accepted is in one entry of Tx_skbuff or freed, not both, for *)
(* every ring size, unless outputPacket accepted a packet when the whole    *)
(* ring was waiting to be reaped.                                           *)
THEOREM MbufsNeverLeak == Spec => []MbufsAccounted
<1>1. SkbInv => MbufsAccounted
  BY DEF SkbInv, Accounted, MbufsAccounted
<1> QED
  BY <1>1, TxInit, TxTypesStep, SkbStep, PTL DEF Spec

-----------------------------------------------------------------------------
(* Transmitting: the packets on their way to the wire. *)

(* The m packets accepted last wait in the descriptors from the chip's one  *)
(* on, in order, up to cur_tx; the others, up to packet b, are on the wire  *)
(* or were cleared.                                                         *)
ChipAt(i) == Distance(i, chipTx, NumTx)
WireBounds ==
  /\ \A i \in TxSlots : txBuf[i] <= accepted
  /\ \A i \in 1 .. Len(sent) : sent[i] <= accepted
ChipWindow(m, b) ==
  /\ accepted = b + m /\ cleared <= b
  /\ \A i \in TxSlots : txOwned[i] <=> ChipAt(i) < m
  /\ \A i \in TxSlots : txOwned[i] => txBuf[i] = b + 1 + ChipAt(i)
  /\ EndsAt(curTx, chipTx, NumTx, m)
Wire(b) ==
  /\ \A i \in 1 .. Len(sent) : sent[i] <= b
  /\ \A i, j \in 1 .. Len(sent) : i < j /\ sent[i] > cleared => sent[i] < sent[j]
  /\ \A p \in Nat : cleared < p /\ p <= b => \E i \in 1 .. Len(sent) : sent[i] = p
OnTheWay == \E m \in 0 .. NumTx : \E b \in Nat : ChipWindow(m, b) /\ Wire(b)
WireInv == WireBounds /\ (Fine("tx misaligned") => OnTheWay)

LEMMA ChipDistances ==
  ASSUME TxTypes
  PROVE  /\ \A i \in TxSlots : ChipAt(i) \in 0 .. NumTx - 1
         /\ ChipAt(chipTx) = 0
         /\ \A i \in TxSlots : i # chipTx => ChipAt(i) # 0
<1>1. chipTx \in 0 .. NumTx - 1
  BY Slots DEF TxTypes
<1>2. /\ \A i \in 0 .. NumTx - 1 : Distance(i, chipTx, NumTx) \in 0 .. NumTx - 1
      /\ Distance(chipTx, chipTx, NumTx) = 0
      /\ \A i \in 0 .. NumTx - 1 :
           Distance(i, chipTx, NumTx) = Distance(chipTx, chipTx, NumTx) => i = chipTx
  BY <1>1, RingSizes, DistanceFacts
<1> QED
  BY <1>2, Slots DEF ChipAt

LEMMA ElementsInNat == ASSUME NEW s \in Seq(Nat) PROVE \A i \in 1 .. Len(s) : s[i] \in Nat
  OBVIOUS

LEMMA OutputKeepsWire ==
  ASSUME TxTypes, NEW m \in 0 .. NumTx, NEW b \in Nat, ChipWindow(m, b), Wire(b), OutputPacket
  PROVE  OnTheWay'
<1>1. /\ ~txOwned[curTx] /\ accepted' = accepted + 1
      /\ txBuf' = [txBuf EXCEPT ![curTx] = accepted + 1]
      /\ txOwned' = [txOwned EXCEPT ![curTx] = TRUE]
      /\ curTx' = NextSlot(curTx, NumTx)
      /\ UNCHANGED <<chipTx, cleared, sent>>
  BY DEF OutputPacket, HasRoom
<1>2. curTx \in TxSlots /\ chipTx \in TxSlots
  BY DEF TxTypes
<1>3. \A i \in TxSlots : ChipAt(i) \in 0 .. NumTx - 1 /\ ChipAt(i)' = ChipAt(i)
  BY <1>1, ChipDistances DEF ChipAt
<1>4. m < NumTx /\ m + 1 \in 0 .. NumTx
  <2>1. ~(ChipAt(curTx) < m)
    BY <1>1, <1>2 DEF ChipWindow
  <2>2. m = NumTx => ChipAt(curTx) = 0
    BY DEF ChipWindow, EndsAt, ChipAt
  <2> QED
    BY <2>1, <2>2, RingSizes
<1>5. ChipAt(curTx) = m /\ EndsAt(NextSlot(curTx, NumTx), chipTx, NumTx, m + 1)
  BY <1>2, <1>4, Slots, RingSizes, EndMoves DEF ChipWindow, ChipAt
<1>6. \A i \in TxSlots : ChipAt(i) = m => i = curTx
  BY <1>2, <1>5, Slots, RingSizes, DistanceFacts DEF ChipAt, TxTypes
<1>7. /\ txOwned'[curTx] /\ txBuf'[curTx] = accepted + 1
      /\ \A i \in TxSlots : i # curTx => txOwned'[i] = txOwned[i] /\ txBuf'[i] = txBuf[i]
  BY <1>1, <1>2 DEF TxTypes
<1>8. accepted = b + m /\ cleared <= b
  BY DEF ChipWindow
<1>9. \A i \in TxSlots : txOwned'[i] <=> ChipAt(i)' < m + 1
  <2> TAKE i \in TxSlots
  <2>1. CASE i = curTx
    BY <1>3, <1>5, <1>7, <2>1, RingSizes
  <2>2. CASE i # curTx
    <3>1. ChipAt(i) < m + 1 <=> ChipAt(i) < m
      BY <1>3, <1>6, <2>2, RingSizes
    <3> QED
      BY <1>3, <1>7, <2>2, <3>1 DEF ChipWindow
  <2> QED
    BY <2>1, <2>2
<1>10. \A i \in TxSlots : txOwned'[i] => txBuf'[i] = b + 1 + ChipAt(i)'
  <2> TAKE i \in TxSlots
  <2>1. CASE i = curTx
    <3>1. accepted + 1 = b + 1 + m
      BY <1>8, RingSizes
    <3> QED
      BY <1>3, <1>5, <1>7, <2>1, <3>1
  <2>2. CASE i # curTx
    BY <1>3, <1>7, <2>2 DEF ChipWindow
  <2> QED
    BY <2>1, <2>2
<1>11. accepted' = b + (m + 1)
  BY <1>1, <1>8, RingSizes
<1>12. ChipWindow(m + 1, b)'
  BY <1>1, <1>5, <1>8, <1>9, <1>10, <1>11 DEF ChipWindow
<1>13. Wire(b)'
  BY <1>1 DEF Wire
<1> QED
  BY <1>4, <1>12, <1>13 DEF OnTheWay

(* The chip sends the oldest packet that waits. *)
LEMMA SendKeepsWire ==
  ASSUME TxTypes, NEW m \in 0 .. NumTx, NEW b \in Nat, ChipWindow(m, b), Wire(b), ChipSend
  PROVE  OnTheWay'
<1>1. /\ txOwned[chipTx] /\ sent' = Append(sent, txBuf[chipTx])
      /\ txOwned' = [txOwned EXCEPT ![chipTx] = FALSE]
      /\ txBuf' = [txBuf EXCEPT ![chipTx] = None]
      /\ chipTx' = NextSlot(chipTx, NumTx)
      /\ UNCHANGED <<curTx, accepted, cleared>>
  BY DEF ChipSend, countVars
<1>2. /\ curTx \in TxSlots /\ chipTx \in TxSlots /\ sent \in Seq(Nat) /\ Len(sent) \in Nat
      /\ cleared \in Nat
  BY DEF TxTypes
<1>3. \A i \in TxSlots : ChipAt(i) \in 0 .. NumTx - 1
  BY ChipDistances
<1>4. m \in 1 .. NumTx /\ m - 1 \in 0 .. NumTx
  <2>1. 0 < m
    BY <1>1, <1>2, ChipDistances DEF ChipWindow
  <2> QED
    BY <2>1, RingSizes
<1>5. EndsAt(curTx, NextSlot(chipTx, NumTx), NumTx, m - 1)
  BY <1>2, <1>4, Slots, RingSizes, EndStays DEF ChipWindow
<1>6. \A i \in TxSlots : ChipAt(i)' = IF i = chipTx THEN NumTx - 1 ELSE ChipAt(i) - 1
  BY <1>1, <1>2, Slots, RingSizes, StartMoves DEF ChipAt
<1>7. /\ ~txOwned'[chipTx]
      /\ \A i \in TxSlots : i # chipTx => txOwned'[i] = txOwned[i] /\ txBuf'[i] = txBuf[i]
  BY <1>1, <1>2 DEF TxTypes
<1>8. accepted = b + m /\ cleared <= b /\ txBuf[chipTx] = b + 1
  <2>1. txBuf[chipTx] = b + 1 + 0
    BY <1>1, <1>2, ChipDistances DEF ChipWindow
  <2> QED
    BY <2>1 DEF ChipWindow
<1>9. \A i \in TxSlots : txOwned'[i] <=> ChipAt(i)' < m - 1
  <2> TAKE i \in TxSlots
  <2>1. CASE i = chipTx
    BY <1>4, <1>6, <1>7, <2>1, RingSizes
  <2>2. CASE i # chipTx
    <3>1. ChipAt(i) - 1 < m - 1 <=> ChipAt(i) < m
      BY <1>3, <1>4, RingSizes
    <3> QED
      BY <1>6, <1>7, <2>2, <3>1 DEF ChipWindow
  <2> QED
    BY <2>1, <2>2
<1>10. \A i \in TxSlots : txOwned'[i] => txBuf'[i] = b + 1 + 1 + ChipAt(i)'
  <2> SUFFICES ASSUME NEW i \in TxSlots, txOwned'[i]
               PROVE  txBuf'[i] = b + 1 + 1 + ChipAt(i)'
    OBVIOUS
  <2>1. i # chipTx /\ ChipAt(i)' = ChipAt(i) - 1
    BY <1>6, <1>7
  <2>2. txBuf'[i] = b + 1 + ChipAt(i)
    BY <1>7, <2>1 DEF ChipWindow
  <2> QED
    BY <1>3, <2>1, <2>2, RingSizes
<1>11. accepted = b + 1 + (m - 1) /\ cleared <= b + 1 /\ b + 1 \in Nat
  BY <1>2, <1>4, <1>8, RingSizes
<1>12. ChipWindow(m - 1, b + 1)'
  BY <1>1, <1>5, <1>9, <1>10, <1>11 DEF ChipWindow
<1>13. Wire(b + 1)'
  <2>1. /\ Len(sent') = Len(sent) + 1
        /\ \A i \in 1 .. Len(sent) : sent'[i] = sent[i]
        /\ sent'[Len(sent) + 1] = b + 1
    BY <1>1, <1>2, <1>8, AppendProperties
  <2>2. \A i \in 1 .. Len(sent) : sent[i] \in Nat /\ sent[i] <= b /\ sent[i] < b + 1
    BY <1>2 DEF Wire
  <2>3. \A i \in 1 .. Len(sent') : i \in 1 .. Len(sent) \/ i = Len(sent) + 1
    BY <1>2, <2>1
  <2>4. \A i \in 1 .. Len(sent') : sent'[i] <= b + 1
    BY <2>1, <2>2, <2>3
  <2>5. ASSUME NEW i \in 1 .. Len(sent'), NEW j \in 1 .. Len(sent'), i < j, sent'[i] > cleared
        PROVE  sent'[i] < sent'[j]
    <3>1. i \in 1 .. Len(sent)
      BY <1>2, <2>1, <2>5
    <3>2. CASE j \in 1 .. Len(sent)
      BY <2>1, <2>5, <3>1, <3>2 DEF Wire
    <3>3. CASE j = Len(sent) + 1
      BY <2>1, <2>2, <3>1, <3>3
    <3> QED
      BY <2>3, <3>2, <3>3
  <2>6. ASSUME NEW p \in Nat, cleared < p, p <= b + 1
        PROVE  \E i \in 1 .. Len(sent') : sent'[i] = p
    <3>1. CASE p <= b
      <4>1. PICK i \in 1 .. Len(sent) : sent[i] = p
        BY <2>6, <3>1 DEF Wire
      <4>2. i \in 1 .. Len(sent')
        BY <1>2, <2>1
      <4> QED
        BY <2>1, <4>1, <4>2
    <3>2. CASE ~(p <= b)
      <4>1. p = b + 1 /\ Len(sent) + 1 \in 1 .. Len(sent')
        BY <1>2, <2>1, <2>6, <3>2
      <4> QED
        BY <2>1, <4>1
    <3> QED
      BY <3>1, <3>2
  <2> QED
    BY <1>1, <2>4, <2>5, <2>6 DEF Wire
<1> QED
  BY <1>4, <1>11, <1>12, <1>13 DEF OnTheWay

(* A restart that leaves an empty ring with cur_tx at its first descriptor. *)
LEMMA RestartKeepsWire ==
  ASSUME TxTypes, TxTypes', chipTx' = 0, curTx' = 0, \A i \in TxSlots : ~txOwned'[i],
         UNCHANGED <<accepted, sent>>, cleared' <= accepted, Wire(accepted)'
  PROVE  OnTheWay'
<1>1. accepted \in Nat /\ accepted = accepted + 0 /\ 0 \in 0 .. NumTx
  BY RingSizes DEF TxTypes
<1>2. /\ \A i \in TxSlots : ~(ChipAt(i)' < 0)
      /\ EndsAt(0, 0, NumTx, 0)
  BY RingSizes, Slots, EmptyWindow DEF ChipAt, EndsAt
<1>3. ChipWindow(0, accepted)'
  BY <1>1, <1>2 DEF ChipWindow
<1> QED
  BY <1>1, <1>3 DEF OnTheWay

LEMMA EnableKeepsWire ==
  ASSUME TxTypes, TxTypes', OnTheWay, chipTx' = 0, curTx = 0, \A i \in TxSlots : ~txOwned[i],
         UNCHANGED <<ringVars, accepted, cleared, sent>>
  PROVE  OnTheWay'
<1>1. PICK m \in 0 .. NumTx : \E b \in Nat : ChipWindow(m, b) /\ Wire(b)
  BY DEF OnTheWay
<1>2. PICK b \in Nat : ChipWindow(m, b) /\ Wire(b)
  BY <1>1
<1>3. ~(0 < m)
  BY <1>2, ChipDistances DEF ChipWindow, TxTypes
<1>4. m = 0
  BY <1>3, RingSizes
<1>5. accepted = b + 0 /\ cleared <= b
  BY <1>2, <1>4 DEF ChipWindow
<1>6. accepted = b
  BY <1>5
<1>7. Wire(accepted)'
  BY <1>2, <1>6 DEF Wire
<1> QED
  BY <1>5, <1>6, <1>7, RestartKeepsWire DEF ringVars

LEMMA ClearKeepsWire ==
  ASSUME TxTypes, TxTypes', WireBounds, R1000TxClear, chipTx' = 0, UNCHANGED <<accepted, sent>>
  PROVE  OnTheWay' /\ WireBounds'
<1>1. /\ curTx' = 0 /\ cleared' = accepted
      /\ \A i \in TxSlots : ~txOwned'[i] /\ txBuf'[i] = None
  BY DEF R1000TxClear
<1>2. accepted \in Nat /\ \A i \in 1 .. Len(sent) : sent[i] \in Nat
  BY ElementsInNat DEF TxTypes
<1>3. Wire(accepted)'
  BY <1>1, <1>2 DEF Wire, WireBounds
<1>4. WireBounds'
  BY <1>1, <1>2 DEF WireBounds, None
<1> QED
  BY <1>1, <1>2, <1>3, <1>4, RestartKeepsWire

LEMMA WireBoundsStep == TxTypes /\ TxTypes' /\ WireBounds /\ [Next]_vars => WireBounds'
<1> SUFFICES ASSUME TxTypes, TxTypes', WireBounds, [Next]_vars PROVE WireBounds'
  OBVIOUS
<1>1. CASE OutputPacket
  <2>1. /\ accepted' = accepted + 1 /\ txBuf' = [txBuf EXCEPT ![curTx] = accepted + 1]
        /\ sent' = sent /\ accepted \in Nat
    BY <1>1 DEF OutputPacket, TxTypes
  <2>2. \A i \in TxSlots : txBuf[i] \in Nat /\ txBuf'[i] \in {txBuf[i], accepted + 1}
    BY <2>1 DEF TxTypes
  <2>3. \A i \in 1 .. Len(sent) : sent[i] \in Nat
    BY ElementsInNat DEF TxTypes
  <2> QED
    BY <2>1, <2>2, <2>3 DEF WireBounds
<1>2. CASE TxTimeout
  BY <1>2, ClearKeepsWire DEF TxTimeout, R1000HwStart
<1>3. CASE ChipSend
  <2>1. /\ sent' = Append(sent, txBuf[chipTx]) /\ accepted' = accepted
        /\ txBuf' = [txBuf EXCEPT ![chipTx] = None]
    BY <1>3 DEF ChipSend, countVars
  <2>2. chipTx \in TxSlots /\ sent \in Seq(Nat) /\ txBuf[chipTx] \in Nat /\ accepted \in Nat
    BY DEF TxTypes
  <2>3. /\ \A i \in 1 .. Len(sent') : i \in 1 .. Len(sent) \/ i = Len(sent) + 1
        /\ \A i \in 1 .. Len(sent) : sent'[i] = sent[i]
        /\ sent'[Len(sent) + 1] = txBuf[chipTx]
    BY <2>1, <2>2, AppendProperties
  <2>4. \A i \in TxSlots : txBuf'[i] \in {txBuf[i], 0}
    BY <2>1, <2>2 DEF TxTypes, None
  <2>5. \A i \in TxSlots : txBuf[i] <= accepted
    BY DEF WireBounds
  <2>6. \A i \in TxSlots : txBuf'[i] <= accepted
    BY <2>2, <2>4, <2>5
  <2>7. \A i \in 1 .. Len(sent') : sent'[i] <= accepted
    BY <2>2, <2>3, <2>5 DEF WireBounds
  <2> QED
    BY <2>1, <2>6, <2>7 DEF WireBounds
<1>4. CASE UNCHANGED <<txBuf, sent, accepted>>
  BY <1>4 DEF WireBounds
<1> QED
  BY <1>1, <1>2, <1>3, <1>4
  DEF Next, HandlerStep, ChipStep, vars, ringVars, countVars, chipTxVars, OutputStall, Enable, Disable,
      Interrupt, NoMoreEvents, InterruptLinkChange, LinkChangeRound, ReadStatus, RxTake,
      RxPassError, RxNoMemory, RxDone, TxReap, TxSpin,
      TxDone, ChipRingEmpty, ChipReceive, ChipReceiveError, ChipNoDescriptor

LEMMA WireStep == TxTypes /\ TxTypes' /\ WireInv /\ [Next]_vars => WireInv'
<1> SUFFICES ASSUME TxTypes, TxTypes', WireInv, [Next]_vars, Fine("tx misaligned")' PROVE OnTheWay'
  BY WireBoundsStep DEF WireInv
<1>1. CASE TxTimeout
  BY <1>1, ClearKeepsWire DEF TxTimeout, R1000HwStart, WireInv
<1>2. CASE ~TxTimeout
  <2>1. Fine("tx misaligned")
    BY <1>2
    DEF Fine, Next, HandlerStep, ChipStep, vars, OutputPacket, OutputStall, Enable, Disable,
        Interrupt, NoMoreEvents, InterruptLinkChange, LinkChangeRound, ReadStatus, RxTake,
        RxPassError, RxNoMemory, RxDone, TxReap, TxSpin,
        TxDone, ChipSend, ChipRingEmpty, ChipReceive, ChipReceiveError, ChipNoDescriptor
  <2>2. OnTheWay
    BY <2>1 DEF WireInv
  <2>3. PICK m \in 0 .. NumTx : \E b \in Nat : ChipWindow(m, b) /\ Wire(b)
    BY <2>2 DEF OnTheWay
  <2>4. PICK b \in Nat : ChipWindow(m, b) /\ Wire(b)
    BY <2>3
  <2>5. CASE OutputPacket
    BY <2>4, <2>5, OutputKeepsWire
  <2>6. CASE ChipSend
    BY <2>4, <2>6, SendKeepsWire
  <2>7. CASE Enable
    <3>1. /\ UNCHANGED <<ringVars, accepted, cleared, sent>> /\ chipTx' = 0
          /\ curTx = 0 /\ \A i \in TxSlots : ~txOwned[i]
      BY <2>7 DEF Enable, R1000HwStart, Fine, countVars
    <3> QED
      BY <2>2, <3>1, EnableKeepsWire
  <2>8. CASE UNCHANGED <<txOwned, txBuf, curTx, chipTx, sent, accepted, cleared>>
    BY <2>2, <2>8 DEF OnTheWay, ChipWindow, Wire, ChipAt
  <2> QED
    BY <1>2, <2>5, <2>6, <2>7, <2>8
    DEF Next, HandlerStep, ChipStep, vars, ringVars, countVars, chipTxVars, OutputStall, Disable,
        Interrupt, NoMoreEvents, InterruptLinkChange, LinkChangeRound, ReadStatus, RxTake,
        RxPassError, RxNoMemory, RxDone, TxReap, TxSpin,
        TxDone, ChipRingEmpty, ChipReceive, ChipReceiveError, ChipNoDescriptor
<1> QED
  BY <1>1, <1>2

LEMMA WireInit == Init => WireInv
<1> SUFFICES ASSUME Init PROVE WireInv
  OBVIOUS
<1>1. /\ curTx = 0 /\ chipTx = 0 /\ accepted = 0 /\ cleared = 0 /\ sent = <<>> /\ Len(sent) = 0
      /\ \A i \in TxSlots : ~txOwned[i] /\ txBuf[i] = 0
  BY DEF Init, None
<1>2. WireBounds
  BY <1>1 DEF WireBounds
<1>3. 0 \in 0 .. NumTx /\ 0 \in Nat /\ EndsAt(0, 0, NumTx, 0) /\ \A i \in TxSlots : ~(ChipAt(i) < 0)
  BY <1>1, RingSizes, Slots, EmptyWindow DEF ChipAt, EndsAt
<1>4. ChipWindow(0, 0)
  BY <1>1, <1>3 DEF ChipWindow
<1>5. Wire(0)
  BY <1>1 DEF Wire
<1> QED
  BY <1>2, <1>3, <1>4, <1>5 DEF WireInv, OnTheWay

LEMMA OnTheWayImplies ==
  ASSUME TxTypes, NEW m \in 0 .. NumTx, NEW b \in Nat, ChipWindow(m, b), Wire(b)
  PROVE  /\ \A i, j \in 1 .. Len(sent) : i < j /\ sent[i] > cleared => sent[i] < sent[j]
         /\ \A p \in cleared + 1 .. accepted :
              \/ \E i \in 1 .. Len(sent) : sent[i] = p
              \/ \E i \in TxSlots : txOwned[i] /\ txBuf[i] = p
<1>1. \A i, j \in 1 .. Len(sent) : i < j /\ sent[i] > cleared => sent[i] < sent[j]
  BY DEF Wire
<1>2. ASSUME NEW p \in cleared + 1 .. accepted
      PROVE  \/ \E i \in 1 .. Len(sent) : sent[i] = p
             \/ \E i \in TxSlots : txOwned[i] /\ txBuf[i] = p
  <2>1. p \in Nat /\ cleared < p /\ p <= b + m
    BY DEF TxTypes, ChipWindow
  <2>2. CASE p <= b
    BY <2>1, <2>2 DEF Wire
  <2>3. CASE ~(p <= b)
    <3>1. p - b - 1 \in 0 .. NumTx - 1 /\ p - b - 1 < m /\ b + 1 + (p - b - 1) = p
      BY <2>1, <2>3, RingSizes
    <3>2. PICK i \in 0 .. NumTx - 1 : Distance(i, chipTx, NumTx) = p - b - 1
      BY <3>1, RingSizes, Slots, SlotAtDistance DEF TxTypes
    <3>3. i \in TxSlots /\ ChipAt(i) = p - b - 1
      BY <3>2, Slots DEF ChipAt
    <3>4. txOwned[i] /\ txBuf[i] = b + 1 + ChipAt(i)
      BY <3>1, <3>3 DEF ChipWindow
    <3> QED
      BY <3>1, <3>3, <3>4
  <2> QED
    BY <2>2, <2>3
<1> QED
  BY <1>1, <1>2

(* Packets leave in order, none twice, and none is lost, for every ring     *)
(* size and every number of restarts, unless the interface came up again    *)
(* with cur_tx where the chip is not.                                       *)
THEOREM SendsEveryPacketInOrder == Spec => []NoPacketLostOrSwapped
<1>1. TxTypes /\ WireInv => NoPacketLostOrSwapped
  <2>1. TxTypes => DOMAIN sent = 1 .. Len(sent)
    BY DEF TxTypes
  <2>2. TxTypes /\ OnTheWay =>
          /\ \A i, j \in 1 .. Len(sent) : i < j /\ sent[i] > cleared => sent[i] < sent[j]
          /\ \A p \in cleared + 1 .. accepted :
               \/ \E i \in 1 .. Len(sent) : sent[i] = p
               \/ \E i \in TxSlots : txOwned[i] /\ txBuf[i] = p
    BY OnTheWayImplies DEF OnTheWay
  <2> QED
    BY <2>1, <2>2 DEF WireInv, NoPacketLostOrSwapped
<1> QED
  BY <1>1, TxInit, TxTypesStep, WireInit, WireStep, PTL DEF Spec


-----------------------------------------------------------------------------
(* The interrupt routine, its line and the driver's flags.                 *)
HandlerTypes ==
  /\ pc \in {"idle", "status", "rx", "tx"} /\ polling \in BOOLEAN
  /\ rounds \in 0 .. Work /\ count \in 0 .. Work /\ entry \in Nat /\ txToo \in BOOLEAN
  /\ events \subseteq Events /\ masked \in BOOLEAN
DriverTypes ==
  /\ enabled \in BOOLEAN /\ watchdog \in BOOLEAN /\ restarts \in Nat
  /\ queue \in {"stopped", "running", "stalled"}

LEMMA RoundEnds ==
  ASSUME HandlerTypes, EndRound
  PROVE  /\ pc' \in {"idle", "status"} /\ rounds' \in 0 .. Work
         /\ events' \subseteq Events /\ masked' \in BOOLEAN
<1>w. Work \in Nat /\ 0 \in 0 .. Work
  BY RingsAssumption
<1>1. CASE rounds > 1
  <2>1. rounds' = rounds - 1 /\ pc' = "status" /\ UNCHANGED lineVars
    BY <1>1 DEF EndRound
  <2>2. rounds' \in 0 .. Work
    BY <1>w, <1>1, <2>1 DEF HandlerTypes
  <2> QED
    BY <2>1, <2>2 DEF HandlerTypes, lineVars
<1>2. CASE ~(rounds > 1)
  <2>1. rounds' = 0 /\ pc' = "idle" /\ masked' = FALSE /\ events' = {}
    BY <1>2 DEF EndRound, InterruptReturn
  <2> QED
    BY <1>w, <2>1
<1> QED
  BY <1>1, <1>2

LEMMA HandlerTypesStep == TxTypes /\ HandlerTypes /\ [Next]_vars => HandlerTypes'
<1> SUFFICES ASSUME TxTypes, HandlerTypes, [Next]_vars PROVE HandlerTypes'
  OBVIOUS
<1>1. Work \in Nat \ {0} /\ 0 \in 0 .. Work /\ Work \in 0 .. Work
  BY RingsAssumption
<1>2. count < Work => count + 1 \in 0 .. Work
  BY <1>1 DEF HandlerTypes
<1>3. CASE OutputPacket \/ OutputStall \/ Disable \/ UNCHANGED vars
  BY <1>3 DEF OutputPacket, OutputStall, Disable, vars, HandlerTypes, handlerVars, lineVars, chipTxVars
<1>4. CASE Enable \/ TxTimeout
  BY <1>4 DEF Enable, TxTimeout, R1000HwStart, HandlerTypes, handlerVars
<1>5. CASE Interrupt \/ InterruptLinkChange \/ NoMoreEvents
  BY <1>1, <1>5 DEF Interrupt, NoMoreEvents, InterruptLinkChange, InterruptReturn, HandlerTypes, chipTxVars
<1>12. CASE LinkChangeRound
  <2>1. EndRound
    BY <1>12 DEF LinkChangeRound
  <2> QED
    BY <1>1, <1>12, <2>1, RoundEnds DEF LinkChangeRound, HandlerTypes, chipTxVars
<1>6. CASE ReadStatus
  <2>1. curTx \in Nat
    BY Slots DEF TxTypes
  <2>2. entry' \in Nat /\ polling' \in BOOLEAN
    BY <1>6, <2>1 DEF ReadStatus, HandlerTypes
  <2> QED
    BY <1>1, <1>6, <2>2 DEF ReadStatus, HandlerTypes
<1>7. CASE RxTake \/ RxPassError \/ RxNoMemory \/ TxSpin
  BY <1>2, <1>7 DEF RxTake, RxPassError, RxNoMemory, TxSpin, HandlerTypes, lineVars, chipTxVars
<1>8. CASE TxReap
  <2>1. entry' \in Nat
    BY <1>8 DEF TxReap, HandlerTypes
  <2> QED
    BY <1>2, <1>8, <2>1 DEF TxReap, HandlerTypes, lineVars, chipTxVars
<1>9. CASE RxDone
  <2>1. \/ pc' = "tx" /\ UNCHANGED <<rounds, lineVars>>
        \/ EndRound
    BY <1>9 DEF RxDone
  <2> QED
    BY <1>1, <1>9, <2>1, RoundEnds DEF RxDone, HandlerTypes, lineVars, chipTxVars
<1>10. CASE TxDone
  <2>1. EndRound
    BY <1>10 DEF TxDone
  <2> QED
    BY <1>1, <1>10, <2>1, RoundEnds DEF TxDone, HandlerTypes, chipTxVars
<1>11. CASE ChipStep
  BY <1>11 DEF ChipStep, ChipSend, ChipRingEmpty, ChipReceive, ChipReceiveError, ChipNoDescriptor,
     HandlerTypes, handlerVars, lineVars, chipTxVars, Events
<1> QED
  BY <1>3, <1>4, <1>5, <1>6, <1>7, <1>8, <1>9, <1>10, <1>11, <1>12 DEF Next, HandlerStep

LEMMA DriverTypesStep == DriverTypes /\ [Next]_vars => DriverTypes'
<1> SUFFICES ASSUME DriverTypes, [Next]_vars PROVE DriverTypes'
  OBVIOUS
<1>1. CASE Disable
  <2>1. restarts' \in Nat
    BY <1>1 DEF Disable, DriverTypes
  <2> QED
    BY <1>1, <2>1 DEF Disable, DriverTypes
<1>2. CASE OutputStall \/ Enable \/ TxTimeout \/ TxReap
  BY <1>2 DEF OutputStall, Enable, TxTimeout, TxReap, RestartQueue, DriverTypes
<1>3. CASE UNCHANGED driverVars
  BY <1>3 DEF driverVars, DriverTypes
<1> QED
  BY <1>1, <1>2, <1>3
  DEF Next, HandlerStep, ChipStep, vars, OutputPacket, Interrupt, NoMoreEvents,
  InterruptLinkChange, LinkChangeRound, ReadStatus, RxTake,
      RxPassError, RxNoMemory, RxDone, TxSpin, TxDone, ChipSend, ChipRingEmpty, ChipReceive,
      ChipReceiveError, ChipNoDescriptor

LEMMA HandlerInit == Init => HandlerTypes /\ DriverTypes
<1>1. 0 \in 0 .. Work
  BY RingsAssumption
<1> SUFFICES ASSUME Init PROVE HandlerTypes /\ DriverTypes
  OBVIOUS
<1>2. /\ pc = "idle" /\ polling = FALSE /\ rounds = 0 /\ count = 0 /\ entry = 0 /\ txToo = FALSE
      /\ events = {} /\ masked = TRUE
      /\ enabled = FALSE /\ watchdog = FALSE /\ queue = "stopped" /\ restarts = 0
  BY DEF Init
<1> QED
  BY <1>1, <1>2 DEF HandlerTypes, DriverTypes

(* The indices of driver and chip stay on their rings, and the loops of    *)
(* the interrupt routine within max_interrupt_work; not so entry, which    *)
(* R1000TxInterrupt lets run past the ring.                                *)
THEOREM TypeCorrect == Spec => []TypeOK
<1>1. RxTypes /\ TxTypes /\ HandlerTypes /\ DriverTypes => TypeOK
  BY DEF TypeOK, RxTypes, TxTypes, HandlerTypes, DriverTypes
<1> QED
  BY <1>1, HandlerInit, RxInit, TxInit, RxTypesStep, TxTypesStep, HandlerTypesStep, DriverTypesStep, PTL
  DEF Spec

-----------------------------------------------------------------------------
(* The wake-up of a stalled queue. When it stalls the chip owns the ring;  *)
(* so it goes on sending, or has raised TxOK for what it sent, or the      *)
(* interrupt routine has read that and is about to test the descriptor at  *)
(* cur_tx, which the chip has given back.                                  *)
Coming == polling /\ txOwned[chipTx]
Raised == "TxOK" \in events /\ (pc = "idle" => ~masked)
Reaping ==
  /\ (pc = "rx" /\ txToo) \/ (pc = "tx" /\ count = 0)
  /\ entry = curTx /\ ~txOwned[curTx]
Aligned == Fine("tx misaligned")
NothingLeft == Fine("work left")
StallIsServed ==
  queue = "stalled" /\ NothingLeft /\ Aligned
    => enabled /\ outstanding > 0 /\ (Coming \/ Raised \/ Reaping)

Line ==
  /\ enabled /\ pc = "idle" => ~masked
  /\ pc # "idle" \/ queue # "stopped" => enabled
Working == pc # "idle" => rounds > 0
Polled == Aligned => \A i \in TxSlots : txOwned[i] => polling
Aimed ==
  /\ pc = "tx" /\ entry # curTx => ~txOwned[curTx]
  /\ pc = "rx" /\ txToo => entry = curTx
ToReap == txOwned[curTx] => outstanding > 0
StallInv == Line /\ Working /\ Polled /\ Aimed /\ ToReap /\ StallIsServed

LEMMA ChipOwnsNone ==
  ASSUME TxTypes, OnTheWay, ~txOwned[chipTx]
  PROVE  \A i \in TxSlots : ~txOwned[i]
<1>1. PICK m \in 0 .. NumTx : \E b \in Nat : ChipWindow(m, b)
  BY DEF OnTheWay
<1>2. \A i \in TxSlots : txOwned[i] <=> ChipAt(i) < m
  BY <1>1 DEF ChipWindow
<1>3. chipTx \in TxSlots /\ ChipAt(chipTx) = 0 /\ \A i \in TxSlots : ChipAt(i) \in 0 .. NumTx - 1
  BY ChipDistances DEF TxTypes
<1>4. m = 0
  <2>1. ~(0 < m)
    BY <1>2, <1>3
  <2> QED
    BY <1>1, <2>1, RingSizes
<1>5. \A i \in TxSlots : ~(ChipAt(i) < 0)
  BY <1>3, RingSizes
<1> QED
  BY <1>2, <1>4, <1>5

LEMMA LineStep == Line /\ [Next]_vars => Line'
<1> SUFFICES ASSUME Line, [Next]_vars PROVE Line'
  OBVIOUS
<1> USE DEF Line
<1>1. CASE OutputPacket \/ OutputStall
  <2>1. queue = "running" /\ UNCHANGED <<pc, masked, enabled>>
    BY <1>1 DEF OutputPacket, OutputStall, handlerVars, lineVars, driverVars
  <2> QED
    BY <2>1
<1>0. CASE UNCHANGED vars
  BY <1>0 DEF vars, handlerVars, lineVars, driverVars
<1>2. CASE Enable \/ Disable \/ TxTimeout
  BY <1>2 DEF Enable, Disable, TxTimeout, R1000HwStart, GateFree, handlerVars, lineVars
<1>3. CASE Interrupt \/ InterruptLinkChange \/ LinkChangeRound \/ NoMoreEvents \/ ReadStatus
  BY <1>3 DEF Interrupt, NoMoreEvents, InterruptLinkChange, LinkChangeRound, ReadStatus,
     InterruptReturn, EndRound, driverVars, lineVars
<1>4. CASE RxTake \/ RxPassError \/ RxNoMemory \/ TxSpin
  BY <1>4 DEF RxTake, RxPassError, RxNoMemory, TxSpin, lineVars, driverVars
<1>5. CASE RxDone \/ TxDone
  BY <1>5 DEF RxDone, TxDone, EndRound, InterruptReturn, lineVars, driverVars
<1>6. CASE TxReap
  BY <1>6 DEF TxReap, RestartQueue, lineVars
<1>7. CASE ChipStep
  BY <1>7 DEF ChipStep, ChipSend, ChipRingEmpty, ChipReceive, ChipReceiveError, ChipNoDescriptor,
     handlerVars, lineVars, driverVars
<1> QED
  BY <1>0, <1>1, <1>2, <1>3, <1>4, <1>5, <1>6, <1>7 DEF Next, HandlerStep

LEMMA WorkingStep == HandlerTypes /\ Working /\ [Next]_vars => Working'
<1> SUFFICES ASSUME HandlerTypes, Working, [Next]_vars PROVE Working'
  OBVIOUS
<1> USE DEF Working
<1>1. CASE Interrupt \/ InterruptLinkChange
  BY <1>1, RingsAssumption DEF Interrupt, InterruptLinkChange
<1>2. CASE NoMoreEvents
  BY <1>2 DEF NoMoreEvents, InterruptReturn
<1>3. CASE RxDone \/ TxDone \/ LinkChangeRound
  <2>1. (pc # "idle" /\ pc' = "tx" /\ rounds' = rounds) \/ EndRound
    BY <1>3 DEF RxDone, TxDone, LinkChangeRound
  <2>2. CASE EndRound
    <3>1. rounds \in Int
      BY RingsAssumption DEF HandlerTypes
    <3> QED
      BY <2>2, <3>1 DEF EndRound, InterruptReturn
  <2> QED
    BY <2>1, <2>2
<1>4. CASE pc # "idle" /\ rounds' = rounds
  BY <1>4
<1>5. CASE UNCHANGED <<pc, rounds>>
  BY <1>5
<1> QED
  BY <1>1, <1>2, <1>3, <1>4, <1>5
  DEF Next, HandlerStep, ChipStep, vars, handlerVars, OutputPacket, OutputStall, Enable, Disable,
      TxTimeout, ReadStatus, RxTake, RxPassError, RxNoMemory, TxReap, TxSpin,
      ChipSend, ChipRingEmpty, ChipReceive, ChipReceiveError, ChipNoDescriptor

LEMMA PolledStep == TxTypes /\ HandlerTypes /\ WireInv /\ Polled /\ [Next]_vars => Polled'
<1> SUFFICES ASSUME TxTypes, HandlerTypes, WireInv, Polled, [Next]_vars, Aligned'
             PROVE  \A i \in TxSlots : txOwned'[i] => polling'
  BY DEF Polled
<1>1. CASE TxTimeout
  BY <1>1 DEF TxTimeout, R1000TxClear
<1>2. CASE OutputPacket
  BY <1>2 DEF OutputPacket
<1>3. CASE Enable
  <2>1. \A i \in TxSlots : ~txOwned[i]
    BY <1>3 DEF Enable, Aligned, Fine
  <2> QED
    BY <1>3, <2>1 DEF Enable, ringVars
<1>4. CASE ~TxTimeout /\ ~Enable /\ ~OutputPacket
  <2>1. Aligned
    BY <1>4
    DEF Aligned, Fine, Next, HandlerStep, ChipStep, vars, OutputStall, Disable,
        Interrupt, NoMoreEvents, InterruptLinkChange, LinkChangeRound, ReadStatus, RxTake,
        RxPassError, RxNoMemory, RxDone, TxReap, TxSpin,
        TxDone, ChipSend, ChipRingEmpty, ChipReceive, ChipReceiveError, ChipNoDescriptor
  <2>2. \A i \in TxSlots : txOwned[i] => polling
    BY <2>1 DEF Polled
  <2>3. CASE ReadStatus
    <3>1. polling' \in (IF "TxOK" \in events THEN {polling, TRUE} ELSE {polling})
      BY <2>3 DEF ReadStatus
    <3>2. (polling' <=> polling) \/ polling'
      <4>1. CASE "TxOK" \in events
        <5>1. polling' = polling \/ polling' = TRUE
          BY <3>1, <4>1
        <5> QED
          BY <5>1
      <4>2. CASE "TxOK" \notin events
        <5>1. polling' = polling
          BY <3>1, <4>2
        <5> QED
          BY <5>1
      <4> QED
        BY <4>1, <4>2
    <3>3. txOwned' = txOwned
      BY <2>3 DEF ReadStatus, ringVars
    <3> QED
      BY <2>2, <3>2, <3>3
  <2>4. CASE ChipRingEmpty
    <3>1. OnTheWay
      BY <2>1 DEF WireInv, Aligned
    <3> QED
      BY <2>4, <3>1, ChipOwnsNone DEF ChipRingEmpty, ringVars
  <2>5. CASE ChipSend
    BY <2>2, <2>5 DEF ChipSend, TxTypes
  <2>6. CASE UNCHANGED <<txOwned, polling>>
    BY <2>2, <2>6
  <2> QED
    BY <1>4, <2>3, <2>4, <2>5, <2>6
    DEF Next, HandlerStep, ChipStep, vars, ringVars, chipTxVars, OutputStall, Disable,
        Interrupt, NoMoreEvents, InterruptLinkChange, LinkChangeRound, RxTake, RxPassError,
        RxNoMemory, RxDone, TxReap, TxSpin,
        TxDone, ChipReceive, ChipReceiveError, ChipNoDescriptor
<1> QED
  BY <1>1, <1>2, <1>3, <1>4

(* What R1000TxInterrupt frees a packet for: the first descriptor that it  *)
(* finds given back is the one at cur_tx.                                  *)
LEMMA ReapsAtCurTx == ASSUME TxTypes, Aimed, TxReap PROVE ~txOwned[curTx]
<1>1. curTx \in TxSlots
  BY DEF TxTypes
<1>2. CASE entry = curTx
  <2>1. FALSE \in {txOwned[curTx]}
    BY <1>1, <1>2 DEF TxReap, OwnAtEntry
  <2> QED
    BY <2>1
<1>3. CASE entry # curTx
  BY <1>3 DEF TxReap, Aimed
<1> QED
  BY <1>2, <1>3

LEMMA AimedStep == TxTypes /\ Aimed /\ [Next]_vars => Aimed'
<1> SUFFICES ASSUME TxTypes, Aimed, [Next]_vars PROVE Aimed'
  OBVIOUS
<1> USE DEF Aimed
<1>1. CASE OutputPacket \/ OutputStall \/ Enable \/ Disable \/ TxTimeout
  BY <1>1 DEF OutputPacket, OutputStall, Enable, Disable, TxTimeout, GateFree, handlerVars
<1>2. CASE Interrupt \/ InterruptLinkChange \/ LinkChangeRound \/ NoMoreEvents
  BY <1>2 DEF Interrupt, NoMoreEvents, InterruptLinkChange, LinkChangeRound, InterruptReturn,
     EndRound, lineVars
<1>3. CASE ReadStatus
  BY <1>3 DEF ReadStatus, ringVars
<1>4. CASE RxTake \/ RxPassError \/ RxNoMemory \/ TxSpin
  <2>1. UNCHANGED <<pc, entry, txToo, curTx, txOwned>>
    BY <1>4 DEF RxTake, RxPassError, RxNoMemory, TxSpin, ringVars
  <2> QED
    BY <2>1
<1>5. CASE RxDone \/ TxDone
  BY <1>5 DEF RxDone, TxDone, EndRound, InterruptReturn, ringVars
<1>6. CASE TxReap
  BY <1>6, ReapsAtCurTx DEF TxReap
<1>7. CASE ChipSend
  BY <1>7 DEF ChipSend, handlerVars, TxTypes
<1>8. CASE UNCHANGED <<handlerVars, ringVars>>
  BY <1>8 DEF handlerVars, ringVars
<1> QED
  BY <1>1, <1>2, <1>3, <1>4, <1>5, <1>6, <1>7, <1>8
  DEF Next, HandlerStep, ChipStep, vars, ChipRingEmpty, ChipReceive, ChipReceiveError, ChipNoDescriptor

LEMMA ToReapStep == TxTypes /\ Aimed /\ ToReap /\ [Next]_vars => ToReap'
<1> SUFFICES ASSUME TxTypes, Aimed, ToReap, [Next]_vars PROVE ToReap'
  OBVIOUS
<1> USE DEF ToReap
<1>1. CASE OutputPacket
  <2>1. outstanding \in Nat /\ outstanding' = outstanding + 1
    BY <1>1 DEF OutputPacket, TxTypes
  <2> QED
    BY <2>1
<1>2. CASE TxTimeout
  BY <1>2, Slots DEF TxTimeout, R1000TxClear
<1>3. CASE TxReap
  BY <1>3, ReapsAtCurTx DEF TxReap
<1>4. CASE ChipSend
  BY <1>4 DEF ChipSend, TxTypes
<1>5. CASE UNCHANGED ringVars
  BY <1>5 DEF ringVars
<1> QED
  BY <1>1, <1>2, <1>3, <1>4, <1>5
  DEF Next, HandlerStep, ChipStep, vars, OutputStall, Enable, Disable, Interrupt, NoMoreEvents,
  InterruptLinkChange, LinkChangeRound,
      ReadStatus, RxTake, RxPassError, RxNoMemory, RxDone, TxSpin, TxDone,
      ChipRingEmpty, ChipReceive, ChipReceiveError, ChipNoDescriptor

LEMMA StallStep ==
  TxTypes /\ HandlerTypes /\ WireInv /\ StallInv /\ [Next]_vars => StallIsServed'
<1> SUFFICES ASSUME TxTypes, HandlerTypes, WireInv, StallInv, [Next]_vars, queue' = "stalled",
                    NothingLeft', Aligned'
             PROVE  (enabled /\ outstanding > 0 /\ (Coming \/ Raised \/ Reaping))'
  BY DEF StallIsServed
<1> USE DEF StallInv
<1>1. ~Enable /\ ~TxTimeout /\ ~Disable /\ ~TxReap
  BY DEF Enable, TxTimeout, Disable, TxReap, RestartQueue
<1>2. Aligned /\ NothingLeft
  BY <1>1
  DEF Aligned, NothingLeft, Fine, Next, HandlerStep, ChipStep, vars, OutputPacket, OutputStall,
      Interrupt, NoMoreEvents, InterruptLinkChange, LinkChangeRound, ReadStatus, RxTake,
      RxPassError, RxNoMemory, RxDone, TxSpin,
      TxDone, ChipSend, ChipRingEmpty, ChipReceive, ChipReceiveError, ChipNoDescriptor
<1>w. OnTheWay
  BY <1>2 DEF WireInv, Aligned
<1>3. CASE OutputStall
  <2>1. txOwned[curTx] /\ curTx \in TxSlots /\ UNCHANGED <<ringVars, chipTxVars, enabled>>
    BY <1>3 DEF OutputStall, HasRoom, TxTypes
  <2>2. polling /\ txOwned[chipTx]
    BY <1>2, <1>w, <2>1, ChipOwnsNone DEF Polled
  <2>3. outstanding' > 0
    BY <2>1 DEF ToReap, ringVars
  <2>4. enabled'
    BY <1>3, <2>1 DEF OutputStall, Line
  <2> QED
    BY <2>1, <2>2, <2>3, <2>4 DEF Coming, ringVars, chipTxVars
<1>4. CASE ~OutputStall
  <2>1. queue = "stalled" /\ enabled' = enabled /\ outstanding' = outstanding
    BY <1>1, <1>4
    DEF Next, HandlerStep, ChipStep, vars, OutputPacket,
        Interrupt, NoMoreEvents, InterruptLinkChange, LinkChangeRound, ReadStatus, RxTake,
        RxPassError, RxNoMemory, RxDone, TxSpin,
        TxDone, ChipSend, ChipRingEmpty, ChipReceive, ChipReceiveError, ChipNoDescriptor,
        ringVars, driverVars
  <2>2. enabled /\ outstanding > 0 /\ (Coming \/ Raised \/ Reaping)
    BY <1>2, <2>1 DEF StallIsServed
  <2>3. ~OutputPacket
    BY <2>1 DEF OutputPacket
  <2>4. (Coming \/ Raised \/ Reaping)'
    <3>1. CASE ChipSend
      <4>1. "TxOK" \in events' /\ UNCHANGED <<pc, masked>>
        BY <3>1 DEF ChipSend, handlerVars
      <4> QED
        BY <2>2, <4>1 DEF Raised, Line
    <3>2. CASE Coming /\ ~ChipSend
      <4>1. ~ChipRingEmpty
        BY <3>2 DEF Coming, ChipRingEmpty
      <4>2. polling' /\ UNCHANGED <<txOwned, chipTx>>
        BY <1>1, <1>4, <2>3, <3>2, <4>1
        DEF Coming, Next, HandlerStep, ChipStep, vars, ringVars, chipTxVars,
            Interrupt, NoMoreEvents, InterruptLinkChange, LinkChangeRound, ReadStatus, RxTake,
            RxPassError, RxNoMemory, RxDone, TxSpin,
            TxDone, ChipReceive, ChipReceiveError, ChipNoDescriptor
      <4> QED
        BY <3>2, <4>2 DEF Coming
    <3>3. CASE ~Coming /\ Raised /\ ~ChipSend
      <4>1. \A i \in TxSlots : ~txOwned[i]
        BY <1>2, <1>w, <3>3, ChipOwnsNone DEF Coming, Polled, TxTypes
      <4>2. ~txOwned[curTx]
        BY <4>1 DEF TxTypes
      <4>3. CASE ReadStatus
        BY <3>3, <4>2, <4>3 DEF Raised, ReadStatus, Reaping, ringVars
      <4>4. CASE InterruptLinkChange \/ LinkChangeRound \/ NoMoreEvents
        BY <3>3, <4>4 DEF Raised, NoMoreEvents, InterruptLinkChange, LinkChangeRound
      <4>5. CASE Interrupt
        BY <3>3, <4>5 DEF Raised, Interrupt
      <4>6. CASE RxDone
        <5>1. CASE txToo
          BY <3>3, <4>6, <5>1 DEF Raised, RxDone, lineVars
        <5>2. CASE ~txToo
          <6>1. EndRound /\ WorkLeft \subseteq incidents'
            BY <4>6, <5>2 DEF RxDone
          <6>2. rounds # 1
            BY <3>3, <6>1 DEF WorkLeft, NothingLeft, Fine, Raised
          <6>3. rounds > 1
            <7>1. rounds \in 0 .. Work /\ rounds > 0
              BY <4>6 DEF RxDone, Working, HandlerTypes
            <7> QED
              BY <6>2, <7>1, RingsAssumption
          <6> QED
            BY <3>3, <6>1, <6>3 DEF EndRound, Raised, lineVars
        <5> QED
          BY <5>1, <5>2
      <4>7. CASE TxDone
        <5>1. EndRound /\ WorkLeft \subseteq incidents'
          BY <4>7 DEF TxDone
        <5>2. rounds # 1
          BY <3>3, <5>1 DEF WorkLeft, NothingLeft, Fine, Raised
        <5>3. rounds > 1
          <6>1. rounds \in 0 .. Work /\ rounds > 0
            BY <4>7 DEF TxDone, Working, HandlerTypes
          <6> QED
            BY <5>2, <6>1, RingsAssumption
        <5> QED
          BY <3>3, <5>1, <5>3 DEF EndRound, Raised, lineVars
      <4>8. CASE RxTake \/ RxPassError \/ RxNoMemory \/ TxSpin
        BY <3>3, <4>8 DEF RxTake, RxPassError, RxNoMemory, TxSpin, Raised, lineVars
      <4>9. CASE ChipRingEmpty \/ ChipReceive \/ ChipReceiveError \/ ChipNoDescriptor \/ UNCHANGED vars
        BY <3>3, <4>9
        DEF ChipRingEmpty, ChipReceive, ChipReceiveError, ChipNoDescriptor, vars, Raised, lineVars, handlerVars
      <4> QED
        BY <1>1, <1>4, <2>3, <3>3, <4>3, <4>4, <4>5, <4>6, <4>7, <4>8, <4>9 DEF Next, HandlerStep, ChipStep
    <3>4. CASE ~Coming /\ ~Raised /\ Reaping /\ ~ChipSend
      <4>1. CASE RxDone
        BY <2>2, <3>4, <4>1 DEF Reaping, RxDone, ringVars
      <4>2. CASE TxSpin
        BY <3>4, <4>2, Slots DEF Reaping, TxSpin, OwnAtEntry, TxTypes
      <4>3. ~TxDone
        <5>1. Work # 0
          BY RingsAssumption
        <5>2. outstanding # 0
          <6>1. outstanding \in Nat /\ outstanding > 0
            BY <2>2 DEF TxTypes
          <6> QED
            BY <6>1
        <5> QED
          BY <3>4, <5>1, <5>2 DEF Reaping, TxDone
      <4>4. CASE RxTake \/ RxPassError \/ RxNoMemory
        <5>1. pc = "rx" /\ UNCHANGED <<pc, txToo, entry, curTx, txOwned>>
          BY <4>4 DEF RxTake, RxPassError, RxNoMemory, ringVars
        <5> QED
          BY <3>4, <5>1 DEF Reaping
      <4>5. CASE ChipRingEmpty \/ ChipReceive \/ ChipReceiveError \/ ChipNoDescriptor \/ UNCHANGED vars
        BY <3>4, <4>5
        DEF Reaping, ChipRingEmpty, ChipReceive, ChipReceiveError, ChipNoDescriptor, vars, ringVars, handlerVars
      <4>6. ~Interrupt /\ ~InterruptLinkChange /\ ~LinkChangeRound /\ ~NoMoreEvents /\ ~ReadStatus
        BY <3>4 DEF Reaping, Interrupt, NoMoreEvents, InterruptLinkChange, LinkChangeRound,
           ReadStatus, GateFree
      <4> QED
        BY <1>1, <1>4, <2>3, <3>4, <4>1, <4>2, <4>3, <4>4, <4>5, <4>6 DEF Next, HandlerStep, ChipStep
    <3> QED
      BY <2>2, <3>1, <3>2, <3>3, <3>4
  <2> QED
    BY <2>1, <2>2, <2>4
<1> QED
  BY <1>3, <1>4

(* A queue that has stalled is not forgotten: an interrupt that will start *)
(* it again is to come, has come or is being handled, unless the routine   *)
(* had to leave work behind or cur_tx is not where the chip is.            *)
THEOREM StallsAreServed == Spec => []StallIsServed
<1>1. Init => StallInv
  <2> SUFFICES ASSUME Init PROVE StallInv
    OBVIOUS
  <2>1. /\ pc = "idle" /\ enabled = FALSE /\ queue = "stopped" /\ curTx = 0
        /\ txOwned = [i \in TxSlots |-> FALSE]
    BY DEF Init
  <2> QED
    BY <2>1, Slots DEF StallInv, Line, Working, Polled, Aimed, ToReap, StallIsServed
<1>2. TxTypes /\ HandlerTypes /\ WireInv /\ StallInv /\ [Next]_vars => StallInv'
  BY LineStep, WorkingStep, PolledStep, AimedStep, ToReapStep, StallStep DEF StallInv
<1>3. StallInv => StallIsServed
  BY DEF StallInv
<1> QED
  BY <1>1, <1>2, <1>3, TxInit, HandlerInit, WireInit, TxTypesStep, HandlerTypesStep, WireStep, PTL
  DEF Spec
===============================================================================
