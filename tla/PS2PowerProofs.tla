---------------------------- MODULE PS2PowerProofs ----------------------------
(***************************************************************************)
(* Proofs about PS2Power, for any number of callouts: the port follows the *)
(* power state, the drivers are told only while the port is online, the    *)
(* controller is retained once per call, an acknowledgement is true and no *)
(* change is forgotten before it.                                          *)
(***************************************************************************)
EXTENDS PS2Power, FiniteSetTheorems, TLAPS

(* What is true at each stage of setPowerStateGated run by the callout t.  *)
AtStage(t) ==
  /\ callout[t] \in PowerStates
  /\ stage # "none"
  /\ stage \in {"mouse off", "keyboard off", "offline"} =>
       callout[t] = Sleep /\ current # Sleep /\ ~offline
  /\ stage \in {"read command byte", "mouse reset", "online"} =>
       callout[t] # Sleep /\ current = Sleep /\ offline
  /\ stage \in {"mouse on", "keyboard on"} =>
       callout[t] # Sleep /\ current = Sleep /\ ~offline
  /\ stage = "done" => /\ offline <=> callout[t] = Sleep
                       /\ enabled = IF callout[t] = Sleep THEN {} ELSE Drivers
  /\ stage = "mouse off" => enabled = Drivers
  /\ stage = "keyboard off" => enabled = {"keyboard"}
  /\ stage \in {"offline", "read command byte", "mouse reset", "online", "mouse on"} =>
       enabled = {}
  /\ stage = "keyboard on" => enabled = {"mouse"}

GateInv ==
  /\ gate \subseteq Callouts
  /\ \A t, u \in gate : t = u
  /\ \A t \in gate : AtStage(t)
  /\ gate = {} => stage = "none"

PowerInv == GateInv /\ PortFollowsPowerState

(* The types the argument needs; retains is left to the counting below.    *)
Types ==
  /\ pending \in PowerStates \cup {None}
  /\ callout \in [Callouts -> PowerStates \cup {None, Leaving}]
  /\ current \in PowerStates
  /\ offline \in BOOLEAN

LEMMA TypesStep == Types /\ GateInv /\ [Next]_vars => Types'
  <1> SUFFICES ASSUME Types, GateInv, [Next]_vars PROVE Types'
    OBVIOUS
  <1> USE DEF Types
  <1>1. ASSUME NEW s \in PowerStates, SetPowerState(s) PROVE Types'
    BY <1>1 DEF SetPowerState
  <1>2. CASE PmTimeout
    BY <1>2 DEF PmTimeout
  <1>3. ASSUME NEW t \in Callouts, DispatchCall(t) PROVE Types'
    BY <1>3 DEF DispatchCall
  <1>4. ASSUME NEW t \in Callouts, EnterGate(t) PROVE Types'
    BY <1>4 DEF EnterGate
  <1>5. ASSUME NEW t \in Callouts, ReleaseRetain(t) PROVE Types'
    BY <1>5 DEF ReleaseRetain
  <1>6. ASSUME NEW t \in Callouts, Finish(t) PROVE Types'
    BY <1>6 DEF Finish, GateInv, AtStage
  <1>7. CASE UNCHANGED vars
    BY <1>7 DEF vars
  <1> QED
    BY <1>1, <1>2, <1>3, <1>4, <1>5, <1>6, <1>7
    DEF Next, Gated, DispatchDisableMouse, DispatchDisableKeyboard, GoOffline,
        ReadCommandByte, MouseByteAtWake, GoOnline, DispatchEnableMouse,
        DispatchEnableKeyboard

(* A stage that moves on inside the gate keeps who holds it.               *)
LEMMA PowerStep == Types /\ PowerInv /\ [Next]_vars => PowerInv'
  <1> SUFFICES ASSUME Types, PowerInv, [Next]_vars PROVE PowerInv'
    OBVIOUS
  <1>a. \A u \in gate : callout[u] \in PowerStates /\ u \in Callouts
    BY DEF PowerInv, GateInv, AtStage
  <1>b. None \notin PowerStates /\ Leaving \notin PowerStates
    BY DEF PowerStates, Sleep, Doze, Normal, None, Leaving
  <1>c. ASSUME NEW t \in Callouts, DispatchCall(t) \/ ReleaseRetain(t)
        PROVE  \A u \in gate : callout'[u] = callout[u]
    BY <1>a, <1>b, <1>c DEF DispatchCall, ReleaseRetain, Types
  <1> USE DEF PowerInv, GateInv, AtStage, PortFollowsPowerState, Settled, Types,
              Drivers, PowerStates, Sleep, Doze, Normal, None, Leaving
  <1>1. ASSUME NEW s \in PowerStates, SetPowerState(s) PROVE PowerInv'
    BY <1>1 DEF SetPowerState
  <1>2. CASE PmTimeout
    BY <1>2 DEF PmTimeout
  <1>3. ASSUME NEW t \in Callouts, DispatchCall(t) PROVE PowerInv'
    <2>1. \A u \in gate : callout'[u] = callout[u]
      BY <1>3, <1>c
    <2>2. UNCHANGED <<gate, stage, current, offline, enabled>>
      BY <1>3 DEF DispatchCall
    <2> QED
      BY <2>1, <2>2
  <1>4. ASSUME NEW t \in Callouts, EnterGate(t) PROVE PowerInv'
    BY <1>4 DEF EnterGate
  <1>5. ASSUME NEW t \in Callouts, ReleaseRetain(t) PROVE PowerInv'
    <2>1. \A u \in gate : callout'[u] = callout[u]
      BY <1>5, <1>c
    <2>2. UNCHANGED <<gate, stage, current, offline, enabled>>
      BY <1>5 DEF ReleaseRetain
    <2> QED
      BY <2>1, <2>2
  <1>6. ASSUME NEW t \in Callouts, Finish(t) PROVE PowerInv'
    BY <1>6 DEF Finish
  <1>7. CASE DispatchDisableMouse
    BY <1>7 DEF DispatchDisableMouse, Advance
  <1>8. CASE DispatchDisableKeyboard
    BY <1>8 DEF DispatchDisableKeyboard, Advance
  <1>9. CASE GoOffline
    BY <1>9 DEF GoOffline, Advance
  <1>10. CASE ReadCommandByte
    BY <1>10 DEF ReadCommandByte, Advance
  <1>11. CASE MouseByteAtWake
    BY <1>11 DEF MouseByteAtWake, Advance
  <1>12. CASE GoOnline
    BY <1>12 DEF GoOnline, Advance
  <1>13. CASE DispatchEnableMouse
    BY <1>13 DEF DispatchEnableMouse, Advance
  <1>14. CASE DispatchEnableKeyboard
    BY <1>14 DEF DispatchEnableKeyboard, Advance
  <1>15. CASE UNCHANGED vars
    BY <1>15 DEF vars
  <1> QED
    BY <1>1, <1>2, <1>3, <1>4, <1>5, <1>6, <1>7, <1>8, <1>9, <1>10, <1>11, <1>12,
       <1>13, <1>14, <1>15 DEF Next, Gated

LEMMA PowerInit == Init => Types /\ PowerInv
  <1> SUFFICES ASSUME Init PROVE Types /\ PowerInv
    OBVIOUS
  <1>1. Types
    BY DEF Init, Types, PowerStates, Sleep, Doze, Normal, None, Leaving
  <1>2. GateInv
    BY DEF Init, GateInv
  <1>3. offline = FALSE /\ current # Sleep /\ enabled = Drivers
    BY DEF Init, Sleep, Normal
  <1>4. PortFollowsPowerState
    BY <1>3 DEF PortFollowsPowerState
  <1> QED
    BY <1>1, <1>2, <1>4 DEF PowerInv

(* Between power changes the port and the drivers follow the power state,  *)
(* however many callouts race for the gate.                                *)
THEOREM PortFollows == Spec => []PortFollowsPowerState
  <1>1. PowerInv => GateInv /\ PortFollowsPowerState
    BY DEF PowerInv
  <1> QED
    BY <1>1, PowerInit, TypesStep, PowerStep, PTL DEF Spec

LEMMA OnlineStep == PowerInv /\ [Next]_vars => (enabled' # enabled => ~offline)
  <1> SUFFICES ASSUME PowerInv, [Next]_vars, enabled' # enabled PROVE ~offline
    OBVIOUS
  <1>1. stage \in {"mouse off", "keyboard off", "mouse on", "keyboard on"}
    BY DEF Next, Gated, vars, SetPowerState, PmTimeout, DispatchCall, EnterGate,
       ReleaseRetain, Finish, DispatchDisableMouse, DispatchDisableKeyboard, GoOffline,
       ReadCommandByte, MouseByteAtWake, GoOnline, DispatchEnableMouse,
       DispatchEnableKeyboard, Advance
  <1>2. PICK t \in gate : AtStage(t)
    BY <1>1 DEF PowerInv, GateInv
  <1> QED
    BY <1>1, <1>2 DEF AtStage

(* The drivers enable and disable their devices only on a port that is     *)
(* online.                                                                 *)
THEOREM ToldOnline == Spec => DriversToldOnline
  <1>1. PowerInv => GateInv
    BY DEF PowerInv
  <1> QED
    BY <1>1, PowerInit, TypesStep, PowerStep, OnlineStep, PTL DEF Spec, DriversToldOnline

-----------------------------------------------------------------------------
(* Counting the retains. *)
Running == {t \in Callouts : callout[t] # None}

LEMMA RunningFinite ==
  /\ IsFiniteSet(Running) /\ Cardinality(Running) \in Nat
  /\ \A t : /\ Cardinality(Running \cup {t})
                 = IF t \in Running THEN Cardinality(Running) ELSE Cardinality(Running) + 1
           /\ Cardinality(Running \ {t})
                 = IF t \in Running THEN Cardinality(Running) - 1 ELSE Cardinality(Running)
  <1>1. IsFiniteSet(Running)
    BY ConstantsAssumption, FS_Subset DEF Running
  <1> QED
    BY <1>1, FS_CardinalityType, FS_AddElement, FS_RemoveElement

LEMMA RetainStep == Types /\ GateInv /\ RetainPerCall /\ [Next]_vars => RetainPerCall'
  <1> SUFFICES ASSUME Types, GateInv, RetainPerCall, [Next]_vars PROVE RetainPerCall'
    OBVIOUS
  <1> DEFINE n == Cardinality(Running)
             queued == IF pending = None THEN 0 ELSE 1
  <1>r. retains = n + queued /\ n \in Nat
    BY RunningFinite DEF RetainPerCall, Running
  <1>g. ASSUME retains' = n' + queued' PROVE RetainPerCall'
    BY <1>g DEF RetainPerCall, Running
  <1>n. None \notin PowerStates /\ Leaving # None
    BY DEF PowerStates, Sleep, Doze, Normal, None, Leaving
  <1>1. ASSUME NEW s \in PowerStates, SetPowerState(s) PROVE RetainPerCall'
    <2>1. n' = n /\ queued' = 1
      BY <1>1, <1>n DEF SetPowerState, Running
    <2>2. retains' = IF pending = None THEN retains + 1 ELSE retains
      BY <1>1 DEF SetPowerState
    <2> QED
      BY <2>1, <2>2, <1>r, <1>g
  <1>2. ASSUME NEW t \in Callouts, DispatchCall(t) PROVE RetainPerCall'
    <2>1. Running' = Running \cup {t} /\ t \notin Running
      BY <1>2 DEF DispatchCall, Running, Types
    <2>2. n' = n + 1
      BY <2>1, RunningFinite
    <2>3. queued = 1 /\ queued' = 0 /\ retains' = retains
      BY <1>2 DEF DispatchCall
    <2> QED
      BY <2>2, <2>3, <1>r, <1>g
  <1>3. ASSUME NEW t \in Callouts, ReleaseRetain(t) PROVE RetainPerCall'
    <2>1. Running' = Running \ {t} /\ t \in Running
      BY <1>3, <1>n DEF ReleaseRetain, Running, Types
    <2>2. n' = n - 1
      BY <2>1, RunningFinite
    <2>3. queued' = queued /\ retains' = retains - 1
      BY <1>3 DEF ReleaseRetain
    <2> QED
      BY <2>2, <2>3, <1>r, <1>g
  <1>4. ASSUME NEW t \in Callouts, Finish(t) PROVE RetainPerCall'
    <2>1. callout[t] # None
      BY <1>4, <1>n DEF Finish, GateInv, AtStage
    <2>2. Running' = Running
      BY <1>4, <1>n, <2>1 DEF Finish, Running, Types
    <2>3. queued' = queued /\ retains' = retains
      BY <1>4 DEF Finish
    <2> QED
      BY <2>2, <2>3, <1>r, <1>g
  <1>5. ASSUME UNCHANGED <<callout, pending, retains>> PROVE RetainPerCall'
    BY <1>5 DEF RetainPerCall
  <1> QED
    BY <1>1, <1>2, <1>3, <1>4, <1>5
    DEF Next, Gated, vars, PmTimeout, EnterGate, DispatchDisableMouse,
        DispatchDisableKeyboard, GoOffline, ReadCommandByte, MouseByteAtWake, GoOnline,
        DispatchEnableMouse, DispatchEnableKeyboard

LEMMA RetainInit == Init => RetainPerCall
  <1> SUFFICES ASSUME Init PROVE RetainPerCall
    OBVIOUS
  <1>1. {t \in Callouts : callout[t] # None} = {}
    BY DEF Init
  <1> QED
    BY <1>1, FS_EmptySet DEF Init, RetainPerCall

(* "Prevent the object from being freed while a call is pending": the       *)
(* controller is retained once per thread call queued or running, for any   *)
(* number of callouts.                                                      *)
THEOREM RetainsCounted == Spec => []RetainPerCall
  <1>1. PowerInv => GateInv
    BY DEF PowerInv
  <1> QED
    BY <1>1, PowerInit, RetainInit, TypesStep, PowerStep, RetainStep, PTL DEF Spec

-----------------------------------------------------------------------------
(* The rest of the types.                                                   *)
Rest ==
  /\ wanted \in PowerStates
  /\ pm \in {"acked", "waiting", "timed out"}
  /\ overdue \in BOOLEAN
  /\ stage \in Stages
  /\ enabled \in SUBSET Drivers

LEMMA RestStep == Rest /\ [Next]_vars => Rest'
  BY DEF Rest, Stages, Drivers, Next, Gated, vars, SetPowerState, PmTimeout,
     DispatchCall, EnterGate, ReleaseRetain, Finish, Advance, DispatchDisableMouse,
     DispatchDisableKeyboard, GoOffline, ReadCommandByte, MouseByteAtWake, GoOnline,
     DispatchEnableMouse, DispatchEnableKeyboard

LEMMA RetainsNatural == RetainPerCall => retains \in Nat
  BY RunningFinite DEF RetainPerCall, Running

(* Type correctness of power management: that retains never goes below zero *)
(* rests on RetainPerCall.                                                  *)
THEOREM TypeCorrect == Spec => []TypeOK
  <1>1. Init => Rest
    BY DEF Init, Rest, Stages, Drivers, PowerStates, Normal
  <1>2. PowerInv => GateInv
    BY DEF PowerInv
  <1>3. Types /\ GateInv /\ Rest /\ RetainPerCall => TypeOK
    BY RetainsNatural DEF Types, GateInv, Rest, TypeOK
  <1> QED
    BY <1>1, <1>2, <1>3, PowerInit, RetainInit, TypesStep, PowerStep, RetainStep,
       RestStep, PTL DEF Spec

-----------------------------------------------------------------------------
(* As long as no change has timed out, power management asks for one at a   *)
(* time: it is queued or in the hands of one callout, and is the one wanted.*)
OneChange ==
  ~overdue =>
    /\ pm # "timed out"
    /\ pending # None => pm = "waiting" /\ pending = wanted
    /\ \A t \in Callouts : callout[t] \in PowerStates =>
         pm = "waiting" /\ pending = None /\ callout[t] = wanted
    /\ \A t, u \in Callouts :
         callout[t] \in PowerStates /\ callout[u] \in PowerStates => t = u
    /\ pm = "acked" => current = wanted

LEMMA OneChangeStep == Types /\ Rest /\ GateInv /\ OneChange /\ [Next]_vars => OneChange'
  <1> SUFFICES ASSUME Types, Rest, GateInv, OneChange, [Next]_vars, ~overdue' PROVE OneChange'
    BY DEF OneChange
  <1>n. None \notin PowerStates /\ Leaving \notin PowerStates
    BY DEF PowerStates, Sleep, Doze, Normal, None, Leaving
  <1>1. ASSUME NEW s \in PowerStates, SetPowerState(s) PROVE OneChange'
    <2>1. ~overdue /\ pm = "acked"
      BY <1>1 DEF SetPowerState, OneChange, Rest
    <2>2. \A t \in Callouts : callout[t] \notin PowerStates
      BY <2>1 DEF OneChange
    <2>3. /\ wanted' = s /\ pm' = "waiting" /\ pending' = s
          /\ UNCHANGED <<overdue, callout, current>>
      BY <1>1 DEF SetPowerState
    <2> QED
      BY <2>1, <2>2, <2>3 DEF OneChange
  <1>2. CASE PmTimeout
    BY <1>2 DEF PmTimeout
  <1>3. ASSUME NEW t \in Callouts, DispatchCall(t) PROVE OneChange'
    <2>1. /\ ~overdue /\ pending # None /\ pending' = None
          /\ callout' = [callout EXCEPT ![t] = pending] /\ UNCHANGED <<wanted, pm, current>>
      BY <1>3 DEF DispatchCall
    <2>2. pm = "waiting" /\ pending = wanted /\ \A u \in Callouts : callout[u] \notin PowerStates
      BY <2>1 DEF OneChange
    <2>3. callout'[t] = wanted /\ \A u \in Callouts : u # t => callout'[u] \notin PowerStates
      BY <2>1, <2>2 DEF Types
    <2> QED
      BY <2>1, <2>2, <2>3 DEF OneChange
  <1>4. ASSUME NEW t \in Callouts, ReleaseRetain(t) \/ Finish(t) PROVE OneChange'
    <2>1. /\ ~overdue /\ UNCHANGED <<wanted, pending>>
          /\ callout'[t] \notin PowerStates
          /\ \A u \in Callouts : u # t => callout'[u] = callout[u]
      <3>1. /\ overdue' = overdue /\ UNCHANGED <<wanted, pending>>
            /\ \E x \in {None, Leaving} : callout' = [callout EXCEPT ![t] = x]
        BY <1>4 DEF ReleaseRetain, Finish
      <3> QED
        BY <3>1, <1>n DEF Types
    <2>2. CASE ReleaseRetain(t)
      <3>1. UNCHANGED <<pm, current>>
        BY <2>2 DEF ReleaseRetain
      <3> QED
        BY <2>1, <3>1 DEF OneChange
    <2>3. CASE Finish(t)
      <3>1. callout[t] \in PowerStates
        BY <2>3 DEF Finish, GateInv, AtStage
      <3>2. pending = None /\ callout[t] = wanted
            /\ \A u \in Callouts : u # t => callout[u] \notin PowerStates
        BY <2>1, <3>1 DEF OneChange
      <3>3. pm' = "acked" /\ current' = callout[t]
        BY <2>3 DEF Finish
      <3> QED
        BY <2>1, <3>2, <3>3 DEF OneChange
    <2> QED
      BY <1>4, <2>2, <2>3
  <1>5. CASE UNCHANGED <<wanted, pm, overdue, pending, callout, current>>
    BY <1>5 DEF OneChange
  <1> QED
    BY <1>1, <1>2, <1>3, <1>4, <1>5
    DEF Next, Gated, vars, EnterGate, DispatchDisableMouse, DispatchDisableKeyboard,
        GoOffline, ReadCommandByte, MouseByteAtWake, GoOnline, DispatchEnableMouse,
        DispatchEnableKeyboard

(* An acknowledgement is true: when power management has one, the controller*)
(* is in the state asked for last, as long as each change was acknowledged  *)
(* in time, however the callouts of successive changes overlap.             *)
THEOREM AcksTruthful == Spec => []AckTruthful
  <1>1. Init => Rest /\ OneChange
    <2>1. Init => Rest
      BY DEF Init, Rest, Stages, Drivers, PowerStates, Normal
    <2>2. None \notin PowerStates
      BY DEF PowerStates, Sleep, Doze, Normal, None
    <2>3. Init => OneChange
      BY <2>2 DEF Init, OneChange
    <2> QED
      BY <2>1, <2>3
  <1>2. PowerInv => GateInv
    BY DEF PowerInv
  <1>3. OneChange => AckTruthful
    BY DEF OneChange, AckTruthful
  <1> QED
    BY <1>1, <1>2, <1>3, PowerInit, TypesStep, PowerStep, RestStep, OneChangeStep, PTL
    DEF Spec

-----------------------------------------------------------------------------
(* A change that waits for its acknowledgement has a callout to come or     *)
(* under way, though a later change replaces the parameter of a call that   *)
(* is queued and callouts end in any order; and a callout that holds the    *)
(* gate is at a stage of setPowerStateGated.                                *)
ChangeInHand ==
  /\ pm = "waiting" => pending # None \/ \E t \in Callouts : callout[t] \in PowerStates
  /\ \A t \in gate : callout[t] \in PowerStates /\ stage # "none"

LEMMA InHandStep == Types /\ PowerInv /\ PowerInv' /\ ChangeInHand /\ [Next]_vars => ChangeInHand'
  <1> SUFFICES ASSUME Types, PowerInv', ChangeInHand, [Next]_vars, pm' = "waiting"
               PROVE  pending' # None \/ \E t \in Callouts : callout'[t] \in PowerStates
    BY DEF ChangeInHand, PowerInv, GateInv, AtStage
  <1>n. None \notin PowerStates /\ Leaving \notin PowerStates
    BY DEF PowerStates, Sleep, Doze, Normal, None, Leaving
  <1>1. ASSUME NEW s \in PowerStates, SetPowerState(s) PROVE pending' # None
    BY <1>1, <1>n DEF SetPowerState
  <1>2. ASSUME NEW t \in Callouts, DispatchCall(t) PROVE callout'[t] \in PowerStates
    BY <1>2 DEF DispatchCall, Types
  <1>3. ASSUME NEW t \in Callouts, ReleaseRetain(t)
        PROVE  pending' # None \/ \E u \in Callouts : callout'[u] \in PowerStates
    <2>1. UNCHANGED <<pm, pending>> /\ callout[t] = Leaving
      BY <1>3 DEF ReleaseRetain
    <2>2. \A u \in Callouts : u # t => callout'[u] = callout[u]
      BY <1>3 DEF ReleaseRetain, Types
    <2>3. CASE pending = None
      <3>1. PICK u \in Callouts : callout[u] \in PowerStates
        BY <2>1, <2>3 DEF ChangeInHand
      <3>2. u # t
        BY <1>n, <2>1, <3>1
      <3> QED
        BY <2>2, <3>1, <3>2
    <2> QED
      BY <2>1, <2>3
  <1>4. ASSUME NEW t \in Callouts, Finish(t) PROVE FALSE
    BY <1>4 DEF Finish
  <1>5. CASE PmTimeout
    BY <1>5 DEF PmTimeout
  <1>6. CASE UNCHANGED <<pm, pending, callout>>
    BY <1>6 DEF ChangeInHand
  <1> QED
    BY <1>1, <1>2, <1>3, <1>4, <1>5, <1>6
    DEF Next, Gated, vars, EnterGate, DispatchDisableMouse, DispatchDisableKeyboard,
        GoOffline, ReadCommandByte, MouseByteAtWake, GoOnline, DispatchEnableMouse,
        DispatchEnableKeyboard

(* No power change is forgotten: until it has been acknowledged or given up *)
(* a callout is queued or runs that will acknowledge it.                    *)
THEOREM ChangesAreServed == Spec => []ChangeInHand
  <1>1. Init => ChangeInHand
    BY DEF Init, ChangeInHand
  <1>2. PowerInv => GateInv
    BY DEF PowerInv
  <1> QED
    BY <1>1, <1>2, PowerInit, TypesStep, PowerStep, InHandStep, PTL DEF Spec
==============================================================================
