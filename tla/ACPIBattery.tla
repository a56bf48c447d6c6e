----------------------------- MODULE ACPIBattery -----------------------------
(***************************************************************************)
(* AppleACPIBatteryManager and its AppleACPIBatteryDevice: what is         *)
(* published of a battery that is put in, taken out, charged and drained.  *)
(* The device polls the battery's ACPI methods _STA, _BIF and _BST from a  *)
(* timer, at wake-up and on notifications of the firmware. A poll is done  *)
(* under the gate of the work loop, but each method takes its time and the *)
(* battery may be another one from one to the next; a notification reads   *)
(* _STA and compares it outside the gate.                                  *)
(***************************************************************************)
EXTENDS Naturals

CONSTANTS
  Batteries,    (* the batteries there are                                 *)
  MaxChanges,   (* bound: changes of the battery and its charge            *)
  MaxFailures,  (* bound: methods that fail though a battery is in         *)
  MaxWakes      (* bound: sleeps                                           *)

None == "none"
ASSUME BatteryAssumption ==
  None \notin Batteries /\ MaxChanges \in Nat /\ MaxFailures \in Nat /\ MaxWakes \in Nat

States == {"discharging", "charging", "charged"}  (* fStatus               *)

VARIABLES
  battery,      (* the battery that is in, or None                         *)
  charge,       (* its state                                               *)
  pending,      (* notifications not yet delivered                         *)
  fBatteryGate, (* do the gates exist?                                     *)
  fBatterySTA,  (* the presence bit of fBatterySTA                         *)
  noticed,      (* what message() has found out                            *)
  poll,         (* the next step of the poll under way, or "none"          *)
  armed,        (* fPollTimer is armed                                     *)
  fBatteryPresent,
  installed,    (* published: BatteryInstalled                             *)
  info,         (* published: the battery whose _BIF is shown, or None     *)
  status,       (* published: the battery whose _BST is shown, or None     *)
  fullyCharged, (* published: FullyCharged                                 *)
  isCharging,   (* published: IsCharging                                   *)
  fresh,        (* history: nothing has changed or failed since the last   *)
                (* poll began, nor been cleared since it ended             *)
  incidents     (* history: changes, failures, wake-ups                    *)

hardware == <<battery, charge, pending>>
published == <<installed, info, status, fullyCharged, isCharging>>
vars == <<hardware, fBatteryGate, fBatterySTA, noticed, poll, armed, fBatteryPresent,
          published, fresh, incidents>>

Polling == {"sta", "bif", "bst", "arm"}
Notices == {"present", "absent", "inserted", "removed", "alarm"}

TypeOK ==
  /\ battery \in Batteries \cup {None} /\ charge \in States /\ pending \in Nat
  /\ fBatteryGate \in BOOLEAN /\ fBatterySTA \in BOOLEAN
  /\ noticed \in Notices \cup {None} /\ poll \in Polling \cup {None}
  /\ armed \in BOOLEAN /\ fBatteryPresent \in BOOLEAN
  /\ installed \in BOOLEAN /\ info \in Batteries \cup {None}
  /\ status \in Batteries \cup {None} /\ fullyCharged \in BOOLEAN /\ isCharging \in BOOLEAN
  /\ fresh \in BOOLEAN
  /\ incidents \in [changes : 0 .. MaxChanges, failures : 0 .. MaxFailures, wakes : 0 .. MaxWakes]

(* start: the device polls before the manager makes the gates.             *)
Init ==
  /\ battery \in Batteries \cup {None} /\ charge \in States /\ pending = 0
  /\ fBatteryGate = FALSE /\ fBatterySTA = FALSE /\ noticed = None
  /\ poll = "sta" /\ armed = FALSE /\ fBatteryPresent = FALSE
  /\ installed = FALSE /\ info = None /\ status = None
  /\ fullyCharged = FALSE /\ isCharging = FALSE
  /\ fresh = TRUE
  /\ incidents = [changes |-> 0, failures |-> 0, wakes |-> 0]

Present == battery # None

(* clearBatteryState: FullyCharged is not among what it clears.            *)
ClearBatteryState ==
  /\ fBatteryPresent' = FALSE /\ installed' = FALSE
  /\ info' = None /\ status' = None /\ isCharging' = FALSE

-----------------------------------------------------------------------------
(* Faulty versions of definitions below: slips the code could have made.   *)

(* Faulty: the timer is not set after a poll that finds no battery.        *)
RestartTimerIfPresent == armed' = fBatteryPresent

(* Faulty: the removal is handled outside the gate.                        *)
GateAlwaysFree == TRUE

(* Faulty: FullyCharged is left alone when no battery is found.            *)
NoBatteryStaysCharged == ClearBatteryState /\ UNCHANGED fullyCharged

-----------------------------------------------------------------------------
(* The gate is free while nobody polls.                                    *)
GateFree == poll = None

(* pollBatteryState(kExistingBatteryPath)                                  *)
BeginPoll == poll' = "sta" /\ fresh' = TRUE

PollingTimeOut ==
  /\ armed /\ poll = None
  /\ armed' = FALSE /\ BeginPoll
  /\ UNCHANGED <<hardware, fBatteryGate, fBatterySTA, noticed, fBatteryPresent, published, incidents>>

(* setPowerState: the path it asks for, 1, is kExistingBatteryPath, so     *)
(* that the timer runs on while the battery is polled.                     *)
WakeUp ==
  /\ fBatteryGate /\ GateFree /\ incidents.wakes < MaxWakes
  /\ incidents' = [incidents EXCEPT !.wakes = @ + 1]
  /\ BeginPoll
  /\ UNCHANGED <<hardware, fBatteryGate, fBatterySTA, noticed, armed, fBatteryPresent, published>>

(* A method fails when the battery is out, and may fail at other times.    *)
Fails ==
  /\ fresh' = FALSE
  /\ \/ ~Present /\ UNCHANGED incidents
     \/ /\ Present /\ incidents.failures < MaxFailures
        /\ incidents' = [incidents EXCEPT !.failures = @ + 1]
Succeeds == Present /\ UNCHANGED <<fresh, incidents>>

(* No battery: FullyCharged is cleared with the rest.                      *)
NoBattery == ClearBatteryState /\ fullyCharged' = FALSE

(* getBatterySTA and setBatterySTA; when _STA fails the poll goes on with  *)
(* what is known.                                                          *)
PollSTA ==
  /\ poll = "sta"
  /\ \/ /\ fBatterySTA' = Present /\ UNCHANGED <<fresh, incidents>>
        /\ poll' = IF Present THEN "bif" ELSE "arm"
        /\ IF Present
           THEN /\ fBatteryPresent' = TRUE /\ installed' = TRUE
                /\ UNCHANGED <<info, status, fullyCharged, isCharging>>
           ELSE NoBattery
     \/ /\ incidents.failures < MaxFailures
        /\ incidents' = [incidents EXCEPT !.failures = @ + 1]
        /\ fresh' = FALSE /\ UNCHANGED fBatterySTA
        /\ poll' = IF fBatteryPresent THEN "bif" ELSE "arm"
        /\ IF fBatteryPresent
           THEN UNCHANGED <<fBatteryPresent, published>>
           ELSE NoBattery
  /\ UNCHANGED <<hardware, fBatteryGate, noticed, armed>>

(* getBatteryBIF and setBatteryBIF                                         *)
PollBIF ==
  /\ poll = "bif"
  /\ poll' = "bst"
  /\ \/ Succeeds /\ info' = battery
     \/ Fails /\ UNCHANGED info
  /\ UNCHANGED <<hardware, fBatteryGate, fBatterySTA, noticed, armed, fBatteryPresent,
                 installed, status, fullyCharged, isCharging>>

(* getBatteryBST and setBatteryBST                                         *)
PollBST ==
  /\ poll = "bst"
  /\ poll' = "arm"
  /\ \/ /\ Succeeds /\ status' = battery
        /\ fullyCharged' = (charge = "charged") /\ isCharging' = (charge = "charging")
     \/ Fails /\ UNCHANGED <<status, fullyCharged, isCharging>>
  /\ UNCHANGED <<hardware, fBatteryGate, fBatterySTA, noticed, armed, fBatteryPresent, installed, info>>

RestartTimer == armed' = TRUE

EndPoll ==
  /\ poll = "arm"
  /\ poll' = None /\ RestartTimer
  /\ UNCHANGED <<hardware, fBatteryGate, fBatterySTA, noticed, fBatteryPresent, published,
                 fresh, incidents>>

(* The manager's start goes on.                                            *)
MakeGates ==
  /\ ~fBatteryGate /\ poll = None
  /\ fBatteryGate' = TRUE
  /\ UNCHANGED <<hardware, fBatterySTA, noticed, poll, armed, fBatteryPresent, published,
                 fresh, incidents>>

-----------------------------------------------------------------------------
(* message: _STA is read by the notification's thread ...                  *)
Message ==
  /\ pending > 0 /\ noticed = None
  /\ pending' = pending - 1
  /\ \/ /\ noticed' = (IF fBatteryGate THEN IF Present THEN "present" ELSE "absent" ELSE None)
        /\ UNCHANGED incidents
     \/ /\ incidents.failures < MaxFailures
        /\ incidents' = [incidents EXCEPT !.failures = @ + 1]
        /\ noticed' = None
  /\ UNCHANGED <<battery, charge, fBatteryGate, fBatterySTA, poll, armed, fBatteryPresent,
                 published, fresh>>

(* ... then compared with what the last poll has read; its other bits may  *)
(* differ too ...                                                          *)
Compare ==
  /\ noticed \in {"present", "absent"}
  /\ \/ noticed' = IF noticed = "present" THEN "inserted" ELSE "removed"
     \/ (noticed = "present") = fBatterySTA /\ noticed' = "alarm"
  /\ UNCHANGED <<hardware, fBatteryGate, fBatterySTA, poll, armed, fBatteryPresent,
                 published, fresh, incidents>>

(* ... and acted on when the gate is free. handleBatteryInserted polls on  *)
(* the new path, which stops the timer first; an alarm polls on the other. *)
HandleBatteryInserted ==
  /\ noticed = "inserted" /\ poll = None
  /\ noticed' = None /\ armed' = FALSE /\ BeginPoll
  /\ UNCHANGED <<hardware, fBatteryGate, fBatterySTA, fBatteryPresent, published, incidents>>

HandleBatteryRemoved ==
  /\ noticed = "removed" /\ GateFree
  /\ noticed' = None /\ fresh' = (fresh /\ poll # None)
  /\ ClearBatteryState
  /\ UNCHANGED <<hardware, fBatteryGate, fBatterySTA, poll, armed, fullyCharged, incidents>>

Alarm ==
  /\ noticed = "alarm" /\ poll = None
  /\ noticed' = None /\ BeginPoll
  /\ UNCHANGED <<hardware, fBatteryGate, fBatterySTA, armed, fBatteryPresent, published, incidents>>

(* A battery is put in or taken out, or charges: the firmware notifies.    *)
Change ==
  /\ incidents.changes < MaxChanges
  /\ incidents' = [incidents EXCEPT !.changes = @ + 1]
  /\ \/ IF Present THEN battery' = None ELSE battery' \in Batteries
     \/ Present /\ UNCHANGED battery
  /\ charge' \in States
  /\ <<battery', charge'>> # <<battery, charge>>
  /\ pending' = pending + 1 /\ fresh' = FALSE
  /\ UNCHANGED <<fBatteryGate, fBatterySTA, noticed, poll, armed, fBatteryPresent, published>>

WorkLoop == PollingTimeOut \/ PollSTA \/ PollBIF \/ PollBST \/ EndPoll
Notification == Message \/ Compare \/ HandleBatteryInserted \/ HandleBatteryRemoved \/ Alarm

Next == WorkLoop \/ MakeGates \/ WakeUp \/ Notification \/ Change

(* Timers fire, polls go on, notifications are delivered and get the gate. *)
Fairness == WF_vars(WorkLoop) /\ WF_vars(MakeGates) /\ WF_vars(Notification)

Spec == Init /\ [][Next]_vars /\ Fairness

-----------------------------------------------------------------------------
(* Whatever starts a poll or cancels the timer, when nobody polls the next *)
(* poll is on its way.                                                     *)
NextPollComes == poll = None => armed

(* What is published is the battery that is in, or that none is.           *)
Agrees ==
  /\ installed = Present
  /\ info = battery /\ status = battery
  /\ fullyCharged = (Present /\ charge = "charged")
  /\ isCharging = (Present /\ charge = "charging")

(* After a poll in which nothing changed or failed, no notification having *)
(* cleared it since, what is published agrees with the battery.            *)
FreshAgrees == poll = None /\ fresh => Agrees

(* Notifications that are lost, late or acted on with an old _STA make no  *)
(* difference in the end: when the battery is left alone, what is          *)
(* published comes to agree with it.                                       *)
Converges == <>[]Agrees
=============================================================================
