------------------------------- MODULE PS2Power -------------------------------
(***************************************************************************)
(* Power management of ApplePS2Controller: setPowerState hands the request *)
(* to a thread call, the callout enters the work-loop gate, and            *)
(* setPowerStateGated takes the port and the two drivers off line or back  *)
(* on line in stages and acknowledges the change.                          *)
(*                                                                         *)
(* The thread call is the kernel's: entering it while it is queued only    *)
(* replaces its parameter; once it has been dispatched it can be entered   *)
(* again, and a second thread can run it while the first is still in it.   *)
(***************************************************************************)
EXTENDS Naturals, FiniteSets

CONSTANTS
  Callouts,        (* threads that can run the thread call                 *)
  PmTimeouts,      (* may the 5 second acknowledgement timeout expire?     *)
  MouseTalksAtWake (* may the mouse send a byte before the port is online? *)

ASSUME ConstantsAssumption ==
  /\ PmTimeouts \in BOOLEAN
  /\ MouseTalksAtWake \in BOOLEAN
  /\ IsFiniteSet(Callouts)

Sleep == 0
Doze == 1
Normal == 2
PowerStates == {Sleep, Doze, Normal}
None == 3
Leaving == 4   (* a callout that has left the gate and holds its retain still *)

Drivers == {"mouse", "keyboard"}
Stages == {"none", "mouse off", "keyboard off", "offline", "read command byte",
           "mouse reset", "online", "mouse on", "keyboard on", "done"}

VARIABLES
  wanted,    (* the state power management asked for last                  *)
  pm,        (* "acked", "waiting" for the acknowledgement, "timed out"    *)
  overdue,   (* history: some change has timed out                         *)
  pending,   (* parameter of the queued thread call, or None               *)
  callout,   (* parameter each running callout was given, Leaving or None  *)
  gate,      (* the callouts that hold the work-loop gate (at most one)    *)
  stage,     (* where setPowerStateGated is                                *)
  current,   (* _currentPowerState                                         *)
  offline,   (* _hardwareOffline                                           *)
  enabled,   (* drivers whose device is enabled                            *)
  retains    (* retains of the controller made by setPowerState            *)

vars == <<wanted, pm, overdue, pending, callout, gate, stage, current, offline, enabled, retains>>

TypeOK ==
  /\ wanted \in PowerStates
  /\ pm \in {"acked", "waiting", "timed out"}
  /\ overdue \in BOOLEAN
  /\ pending \in PowerStates \cup {None}
  /\ callout \in [Callouts -> PowerStates \cup {None, Leaving}]
  /\ gate \in SUBSET Callouts
  /\ stage \in Stages
  /\ current \in PowerStates
  /\ offline \in BOOLEAN
  /\ enabled \in SUBSET Drivers
  /\ retains \in Nat

Init ==
  /\ wanted = Normal /\ pm = "acked" /\ overdue = FALSE
  /\ pending = None
  /\ callout = [t \in Callouts |-> None]
  /\ gate = {} /\ stage = "none"
  /\ current = Normal /\ offline = FALSE /\ enabled = Drivers
  /\ retains = 0

-----------------------------------------------------------------------------
(* Faulty versions of definitions below: slips the code could have made.   *)

(* The retain is dropped whatever thread_call_enter returned.              *)
SetPowerStateDropsRetain(s) ==
  /\ pm # "waiting"
  /\ wanted' = s /\ pm' = "waiting"
  /\ pending' = s
  /\ UNCHANGED <<overdue, callout, gate, stage, current, offline, enabled, retains>>

(* The port goes offline before the drivers are told.                      *)
Advance(from, to) == stage = from /\ stage' = to
GoOfflineFirst ==
  /\ Advance("mouse off", "keyboard off")
  /\ offline' = TRUE
  /\ enabled' = enabled \ {"mouse"}
  /\ UNCHANGED <<wanted, pm, overdue, pending, callout, gate, current, retains>>

(* Waking up leaves one driver out.                                        *)
DispatchEnableKeyboardForgets ==
  /\ Advance("keyboard on", "done")
  /\ UNCHANGED <<wanted, pm, overdue, pending, callout, gate, current, offline, enabled, retains>>

(* A transition that needs no action is not recorded.                      *)
FinishForgetsState(t) ==
  /\ t \in gate /\ stage = "done"
  /\ current' = IF callout[t] = Doze THEN current ELSE callout[t]
  /\ pm' = "acked"
  /\ gate' = gate \ {t} /\ stage' = "none"
  /\ callout' = [callout EXCEPT ![t] = Leaving]
  /\ UNCHANGED <<wanted, overdue, pending, offline, enabled, retains>>

(* No acknowledgement when the state is the current one.                   *)
FinishSilently(t) ==
  /\ t \in gate /\ stage = "done"
  /\ current' = callout[t]
  /\ pm' = IF callout[t] = current THEN pm ELSE "acked"
  /\ gate' = gate \ {t} /\ stage' = "none"
  /\ callout' = [callout EXCEPT ![t] = Leaving]
  /\ UNCHANGED <<wanted, overdue, pending, offline, enabled, retains>>

-----------------------------------------------------------------------------
(* Power management asks for state s: setPowerState retains the controller *)
(* and enters the thread call, dropping the retain if it was queued.       *)
SetPowerState(s) ==
  /\ pm # "waiting"
  /\ wanted' = s /\ pm' = "waiting"
  /\ pending' = s
  /\ retains' = IF pending = None THEN retains + 1 ELSE retains
  /\ UNCHANGED <<overdue, callout, gate, stage, current, offline, enabled>>

(* The 5 seconds setPowerState asked for are over.                         *)
PmTimeout ==
  /\ PmTimeouts
  /\ pm = "waiting"
  /\ pm' = "timed out" /\ overdue' = TRUE
  /\ UNCHANGED <<wanted, pending, callout, gate, stage, current, offline, enabled, retains>>

(* A kernel thread dispatches the queued call: setPowerStateCallout.       *)
DispatchCall(t) ==
  /\ pending # None /\ callout[t] = None
  /\ callout' = [callout EXCEPT ![t] = pending]
  /\ pending' = None
  /\ UNCHANGED <<wanted, pm, overdue, gate, stage, current, offline, enabled, retains>>

(* runAction: setPowerStateGated begins in the gate and decides what to do.*)
EnterGate(t) ==
  /\ gate = {} /\ callout[t] \in PowerStates
  /\ gate' = {t}
  /\ stage' = CASE callout[t] = current -> "done"
                [] callout[t] # current /\ callout[t] = Sleep -> "mouse off"
                [] callout[t] # current /\ current = Sleep -> "read command byte"
                [] OTHER -> "done"
  /\ UNCHANGED <<wanted, pm, overdue, pending, callout, current, offline, enabled, retains>>

(* dispatchDriverPowerControl(kPS2C_DisableDevice): mouse, then keyboard.  *)
DispatchDisableMouse ==
  /\ Advance("mouse off", "keyboard off")
  /\ enabled' = enabled \ {"mouse"}
  /\ UNCHANGED <<wanted, pm, overdue, pending, callout, gate, current, offline, retains>>

DispatchDisableKeyboard ==
  /\ Advance("keyboard off", "offline")
  /\ enabled' = enabled \ {"keyboard"}
  /\ UNCHANGED <<wanted, pm, overdue, pending, callout, gate, current, offline, retains>>

GoOffline ==
  /\ Advance("offline", "done")
  /\ offline' = TRUE
  /\ UNCHANGED <<wanted, pm, overdue, pending, callout, gate, current, enabled, retains>>

(* Waking up, readDataPort waits for the command byte; a byte of the mouse *)
(* met there goes to the mouse driver, whose interrupt action has stayed   *)
(* installed and which answers stray data by resetting the mouse.  The     *)
(* reset repeats setCommandByte's test-and-set request until its four      *)
(* commands succeed, and offline every request fails at the first command: *)
(* the gate stays in "mouse reset", which no action leaves.                *)
ReadCommandByte ==
  /\ Advance("read command byte", "online")
  /\ UNCHANGED <<wanted, pm, overdue, pending, callout, gate, current, offline, enabled, retains>>

MouseByteAtWake ==
  /\ MouseTalksAtWake
  /\ Advance("read command byte", "mouse reset")
  /\ UNCHANGED <<wanted, pm, overdue, pending, callout, gate, current, offline, enabled, retains>>

GoOnline ==
  /\ Advance("online", "mouse on")
  /\ offline' = FALSE
  /\ UNCHANGED <<wanted, pm, overdue, pending, callout, gate, current, enabled, retains>>

DispatchEnableMouse ==
  /\ Advance("mouse on", "keyboard on")
  /\ enabled' = enabled \cup {"mouse"}
  /\ UNCHANGED <<wanted, pm, overdue, pending, callout, gate, current, offline, retains>>

DispatchEnableKeyboard ==
  /\ Advance("keyboard on", "done")
  /\ enabled' = enabled \cup {"keyboard"}
  /\ UNCHANGED <<wanted, pm, overdue, pending, callout, gate, current, offline, retains>>

(* _currentPowerState is set and the change acknowledged, whichever change *)
(* power management is waiting for, and the gate is left.                  *)
Finish(t) ==
  /\ t \in gate /\ stage = "done"
  /\ current' = callout[t]
  /\ pm' = "acked"
  /\ gate' = gate \ {t} /\ stage' = "none"
  /\ callout' = [callout EXCEPT ![t] = Leaving]
  /\ UNCHANGED <<wanted, overdue, pending, offline, enabled, retains>>

(* The callout drops the retain of setPowerState and ends.                 *)
ReleaseRetain(t) ==
  /\ callout[t] = Leaving
  /\ callout' = [callout EXCEPT ![t] = None]
  /\ retains' = retains - 1
  /\ UNCHANGED <<wanted, pm, overdue, pending, gate, stage, current, offline, enabled>>

Gated ==
  \/ DispatchDisableMouse \/ DispatchDisableKeyboard \/ GoOffline
  \/ ReadCommandByte \/ MouseByteAtWake \/ GoOnline
  \/ DispatchEnableMouse \/ DispatchEnableKeyboard
  \/ \E t \in Callouts : Finish(t)

Next ==
  \/ \E s \in PowerStates : SetPowerState(s)
  \/ PmTimeout
  \/ \E t \in Callouts : DispatchCall(t) \/ EnterGate(t) \/ ReleaseRetain(t)
  \/ Gated

Spec == Init /\ [][Next]_vars

(* Kernel threads run; nobody has to ask for a power change or time out.   *)
Fairness ==
  /\ \A t \in Callouts : /\ WF_vars(DispatchCall(t)) /\ WF_vars(EnterGate(t))
                         /\ WF_vars(ReleaseRetain(t))
  /\ WF_vars(Gated)

FairSpec == Spec /\ Fairness

-----------------------------------------------------------------------------
Settled == gate = {}

(* The controller is retained once for every callout that is queued or      *)
(* running ("Prevent the object from being freed while a call is pending"), *)
(* also when the call is entered again before or while it runs.             *)
RetainPerCall ==
  retains = Cardinality({t \in Callouts : callout[t] # None})
              + (IF pending = None THEN 0 ELSE 1)

(* Between power changes the port is offline exactly in the sleep state and *)
(* the drivers' devices are enabled exactly outside it, whatever callouts   *)
(* raced for the gate.                                                      *)
PortFollowsPowerState ==
  Settled => /\ offline <=> current = Sleep
             /\ enabled = IF current = Sleep THEN {} ELSE Drivers

(* The drivers enable and disable their devices only while the port is      *)
(* online: their blocking requests would fail, and the test-and-set loop of *)
(* setCommandByte never end, on a port that is offline.                     *)
DriversToldOnline == [][enabled' # enabled => ~offline]_vars

(* When power management has its acknowledgement, the controller is in the  *)
(* state it asked for, as long as each change was acknowledged in time.     *)
AckTruthful == ~overdue /\ pm = "acked" => current = wanted

(* Every power change is acknowledged ("Acknowledge the power change before *)
(* the power management timeout expires").                                  *)
Acknowledged == pm = "waiting" ~> pm # "waiting"

(* Every power change is acknowledged or given up, unless the mouse was     *)
(* reset while the port was off line.                                       *)
AcknowledgedUnlessReset ==
  pm = "waiting" ~> (pm # "waiting" \/ stage = "mouse reset")
=============================================================================
