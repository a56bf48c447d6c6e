----------------------------- MODULE PS2Keyboard -----------------------------
(***************************************************************************)
(* The two parsers of the keyboard's scan codes.  At interrupt time        *)
(* doEscape follows extended sequences and modifier keys to recognise the  *)
(* debugger key and puts what it does not drop on the keyboard queue; on   *)
(* the work loop the keyboard driver follows extended sequences again and  *)
(* keeps in _keyBitVector which keys are down.                             *)
(*                                                                         *)
(* The keys modelled are one of each kind: modifiers with and without the  *)
(* extended prefix, the two delete keys, Print Screen, which the driver    *)
(* turns into Command-Shift-4, Pause with its six codes, and the key 4.    *)
(***************************************************************************)
EXTENDS Naturals, Sequences, FiniteSets

CONSTANTS
  Keys,           (* the keys the user presses                              *)
  QueueSize,      (* kKeyboardQueueSize                                     *)
  MaxAhead,       (* bound on the codes in transit when the user types       *)
  MaxHeld,        (* bound on the keys held at a time                       *)
  Debugging,      (* _debuggingEnabled                                      *)
  SaveScreenshot  (* saveSS                                                 *)

Modifiers == {"left alt", "right alt", "left ctrl", "right ctrl", "left shift"}
AllKeys == Modifiers \cup {"delete", "gray delete", "4", "print screen", "pause"}

ASSUME KeyboardAssumption ==
  /\ Keys \subseteq AllKeys
  /\ QueueSize \in Nat \ {0}
  /\ MaxAhead \in Nat /\ MaxHeld \in Nat
  /\ Debugging \in BOOLEAN /\ SaveScreenshot \in BOOLEAN

Codes == {"alt", "ctrl", "shift", "delete", "print screen", "4", "pause", "E0", "E1"}
KeyCodes == [code : Codes, up : BOOLEAN]
Make(code) == [code |-> code, up |-> FALSE]
Break(code) == [code |-> code, up |-> TRUE]
Extend == Make("E0")
PausePrefix == Make("E1")

(* Code, extended, and the keys the driver takes it for.                   *)
KeyTable == {
  <<"alt",   FALSE, {"left alt"}>>,   <<"alt",   TRUE, {"right alt"}>>,
  <<"ctrl",  FALSE, {"left ctrl"}>>,  <<"ctrl",  TRUE, {"right ctrl"}>>,
  <<"shift", FALSE, {"left shift"}>>, <<"4",     FALSE, {"4"}>>,
  <<"delete", FALSE, {"delete"}>>,    <<"delete", TRUE, {"gray delete"}>>,
  <<"print screen", FALSE, {"keypad star"}>>, <<"pause", FALSE, {"num lock"}>>,
  <<"print screen", TRUE, {"left alt", "left shift", "4"}
                          \cup IF SaveScreenshot THEN {} ELSE {"left ctrl"}>> }

Decoded(code, extended) ==
  UNION {row[3] : row \in {r \in KeyTable : r[1] = code /\ r[2] = extended}}

ScreenshotKeys == Decoded("print screen", TRUE)
DriverKeys == UNION {row[3] : row \in KeyTable}

(* What the keyboard sends for a key; Pause has no codes for its release.  *)
Sent(k, up) ==
  LET Code(code) == [code |-> code, up |-> up]
  IN CASE k = "print screen" -> IF up
                                THEN <<Extend, Code("print screen"), Extend, Code("shift")>>
                                ELSE <<Extend, Code("shift"), Extend, Code("print screen")>>
       [] k = "pause" -> IF up THEN <<>>
                         ELSE <<PausePrefix, Make("ctrl"), Make("pause"),
                                PausePrefix, Break("ctrl"), Break("pause")>>
       [] OTHER -> LET row == CHOOSE r \in KeyTable : r[3] = {k}
                   IN  (IF row[2] THEN <<Extend>> ELSE <<>>) \o <<Code(row[1])>>

VARIABLES
  held,        (* the keys the user holds down                              *)
  wire,        (* codes the keyboard has still to send                      *)
  extended,    (* _extendedState of the controller                          *)
  modifiers,   (* _modifierState of the controller                          *)
  queue,       (* _keyboardQueue                                            *)
  extendCount, (* _extendCount of the driver                                *)
  keysDown,    (* _keyBitVector of the driver                               *)
  enabled,     (* the keyboard is enabled and its interrupt action installed*)
  disturbed    (* history: what has come in the way of the stream           *)

keyboardVars == <<held, wire, extended, modifiers, queue, extendCount, keysDown, enabled, disturbed>>

(* "debugger": entered by the delete key; "gray": by the extended one;      *)
(* "other": codes lost or typed while disabled, or Print Screen mixed with  *)
(* the keys it stands for.                                                  *)
Disturbances == {"none", "debugger", "gray", "other"}

KeyboardTypeOK ==
  /\ held \subseteq Keys
  /\ wire \in Seq(KeyCodes)
  /\ extended \in BOOLEAN
  /\ modifiers \subseteq Modifiers
  /\ queue \in Seq(KeyCodes) /\ Len(queue) <= QueueSize
  /\ extendCount \in 0..2
  /\ keysDown \subseteq DriverKeys
  /\ enabled \in BOOLEAN
  /\ disturbed \in Disturbances

KeyboardInit ==
  /\ held = {} /\ wire = <<>>
  /\ extended = FALSE /\ modifiers = {} /\ queue = <<>>
  /\ extendCount = 0 /\ keysDown = {}
  /\ enabled = TRUE
  /\ disturbed = "none"

-----------------------------------------------------------------------------
(* The user and the keyboard.                                              *)

(* Print Screen and the keys it stands for are told apart by nobody.       *)
Mixes(k) == IF k = "print screen" THEN held \cap ScreenshotKeys # {}
                                  ELSE k \in ScreenshotKeys /\ "print screen" \in held

(* Bound: nothing is typed any more once the stream has been disturbed.    *)
Type(k, up) ==
  /\ disturbed \in {"none", "debugger"}
  /\ Len(wire) + Len(queue) <= MaxAhead
  /\ wire' = IF enabled THEN wire \o Sent(k, up) ELSE wire
  /\ disturbed' = IF enabled /\ ~Mixes(k) THEN disturbed ELSE "other"
  /\ UNCHANGED <<extended, modifiers, queue, extendCount, keysDown, enabled>>

(* With a modifier held Pause and Print Screen send other codes, as Break  *)
(* and SysRq.                                                              *)
Press(k) ==
  /\ k \notin held
  /\ Cardinality(held) < MaxHeld
  /\ k \in {"pause", "print screen"} => held \cap Modifiers = {}
  /\ Type(k, FALSE)
  /\ held' = held \cup {k}

Release(k) ==
  /\ k \in held
  /\ Type(k, TRUE)
  /\ held' = held \ {k}

Repeat(k) ==
  /\ k \in held \ {"pause"}
  /\ enabled
  /\ Type(k, FALSE)
  /\ UNCHANGED held

-----------------------------------------------------------------------------
(* Interrupt time: interruptHandlerKeyboard.                               *)

(* enqueueKeyboardData for each of the codes: what does not fit is dropped.*)
Enqueue(scans) ==
  LET all == queue \o scans
  IN  queue' = SubSeq(all, 1, IF Len(all) <= QueueSize THEN Len(all) ELSE QueueSize)

Overflows(scans) == Len(queue) + Len(scans) > QueueSize

(* modifierTable: the modifier a code stands for in doEscape, if any.      *)
EscapeModifier(code) ==
  IF code \in {"alt", "ctrl", "shift"} THEN Decoded(code, extended) ELSE {}

(* Faulty: another modifier key held does not keep the debugger out.       *)
DebuggerKeyLoose(code) ==
  /\ code = "delete"
  /\ {"left alt", "right alt"} \subseteq modifiers

DebuggerKey(code) ==
  /\ code = "delete"
  /\ modifiers = {"left alt", "right alt"}

(* The codes that release both Alt keys, in the order of modifierTable.    *)
ReleaseAlts == <<Break("alt"), Extend, Break("alt")>>

(* doEscape has let the code pass: it is put on the keyboard queue.        *)
Pass(b) ==
  /\ wire # <<>> /\ Head(wire) = b
  /\ wire' = Tail(wire)
  /\ Enqueue(<<b>>)
  /\ disturbed' = IF Overflows(<<b>>) THEN "other" ELSE disturbed
  /\ UNCHANGED <<held, extendCount, keysDown, enabled>>

EscapeExtend(b) ==
  /\ Debugging /\ b = Extend
  /\ extended' = TRUE
  /\ UNCHANGED modifiers
  /\ Pass(b)

(* Faulty: a modifier key leaves the extended state set.                   *)
EscapeModifierKeySticky(b) ==
  /\ Debugging /\ b # Extend /\ EscapeModifier(b.code) # {}
  /\ modifiers' = IF b.up THEN modifiers \ EscapeModifier(b.code)
                          ELSE modifiers \cup EscapeModifier(b.code)
  /\ UNCHANGED extended
  /\ Pass(b)

EscapeModifierKey(b) ==
  /\ Debugging /\ b # Extend /\ EscapeModifier(b.code) # {}
  /\ modifiers' = IF b.up THEN modifiers \ EscapeModifier(b.code)
                          ELSE modifiers \cup EscapeModifier(b.code)
  /\ extended' = FALSE
  /\ Pass(b)

(* The debugger function: the modifiers that were down are released, "the  *)
(* assumption is that they are no longer held down after the debugger      *)
(* function returns", and the delete code itself is dropped.               *)
EscapeToDebugger(b) ==
  /\ wire # <<>> /\ Head(wire) = b
  /\ Debugging /\ DebuggerKey(b.code)
  /\ held' = {} /\ wire' = <<>>
  /\ Enqueue(ReleaseAlts)
  /\ modifiers' = {} /\ extended' = FALSE
  /\ disturbed' = IF disturbed = "other" \/ Overflows(ReleaseAlts) THEN "other"
                  ELSE IF extended THEN "gray" ELSE "debugger"
  /\ UNCHANGED <<extendCount, keysDown, enabled>>

EscapeOther(b) ==
  /\ Debugging => b # Extend /\ EscapeModifier(b.code) = {} /\ ~DebuggerKey(b.code)
  /\ extended' = FALSE
  /\ UNCHANGED modifiers
  /\ Pass(b)

-----------------------------------------------------------------------------
(* The work loop: dispatchKeyboardEventWithScancode for the next code.     *)

Dequeue ==
  /\ queue # <<>>
  /\ queue' = Tail(queue)
  /\ UNCHANGED <<held, wire, extended, modifiers, enabled, disturbed>>

(* Faulty: the prefix of Pause is taken for a common one.                  *)
DispatchPrefixAlike ==
  /\ Dequeue
  /\ Head(queue) \in {Extend, PausePrefix}
  /\ extendCount' = 1
  /\ UNCHANGED keysDown

DispatchPrefix ==
  /\ Dequeue
  /\ Head(queue) \in {Extend, PausePrefix}
  /\ extendCount' = IF Head(queue) = Extend THEN 1 ELSE 2
  /\ UNCHANGED keysDown

(* The first of the two codes that follow the prefix of Pause is dropped.  *)
DispatchSkip ==
  /\ Dequeue
  /\ Head(queue) \notin {Extend, PausePrefix}
  /\ extendCount = 2
  /\ extendCount' = 1
  /\ UNCHANGED keysDown

(* A key goes down or up; codes that stand for no key are ignored.         *)
DispatchKey ==
  /\ Dequeue
  /\ Head(queue) \notin {Extend, PausePrefix}
  /\ extendCount < 2
  /\ extendCount' = 0
  /\ LET keys == Decoded(Head(queue).code, extendCount = 1)
     IN  keysDown' = IF Head(queue).up THEN keysDown \ keys ELSE keysDown \cup keys

-----------------------------------------------------------------------------
(* setDevicePowerState, with nothing under way: the keyboard is silent     *)
(* until it is enabled again.  No state of either parser is reset.         *)
DisableDevice ==
  /\ enabled
  /\ wire = <<>> /\ queue = <<>>
  /\ enabled' = FALSE
  /\ UNCHANGED <<held, wire, extended, modifiers, queue, extendCount, keysDown, disturbed>>

EnableDevice ==
  /\ ~enabled
  /\ enabled' = TRUE
  /\ UNCHANGED <<held, wire, extended, modifiers, queue, extendCount, keysDown, disturbed>>

KeyboardNext ==
  \/ \E k \in Keys : Press(k) \/ Release(k) \/ Repeat(k)
  \/ \E b \in KeyCodes :
       EscapeExtend(b) \/ EscapeModifierKey(b) \/ EscapeToDebugger(b) \/ EscapeOther(b)
  \/ DispatchPrefix \/ DispatchSkip \/ DispatchKey
  \/ DisableDevice \/ EnableDevice

KeyboardSpec == KeyboardInit /\ [][KeyboardNext]_keyboardVars

-----------------------------------------------------------------------------
Quiet == wire = <<>> /\ queue = <<>>

(* "Update our key bit vector, which maintains the up/down status of all    *)
(* keys": no code of a longer sequence is ever taken for another key, and   *)
(* when every code has been handled the driver holds exactly the keys down  *)
(* that the user holds down.                                                *)
KeysFollowUser ==
  disturbed = "none" =>
    /\ keysDown \subseteq Keys \cup ScreenshotKeys
    /\ Quiet => keysDown = (held \ {"print screen", "pause"})
                   \cup IF "print screen" \in held THEN ScreenshotKeys ELSE {}

(* The controller, the driver and the user agree on the modifier keys, also *)
(* after the debugger has been called and the modifier keys released behind *)
(* the back of the driver's parser.                                         *)
ModifiersAgree ==
  Debugging /\ Quiet /\ disturbed \in {"none", "debugger"} /\ "print screen" \notin held =>
    /\ modifiers = held \cap Modifiers
    /\ keysDown \cap Modifiers = modifiers

(* "Release all the modifier keys that were down before the debugger        *)
(* function was called": whichever delete key has called it, the driver is  *)
(* not left with a modifier key down that the user does not hold.  It does  *)
(* not hold for the extended delete key, whose prefix is already queued.    *)
DebuggerReleases ==
  Quiet /\ disturbed = "gray" => keysDown \cap Modifiers \subseteq held

(* The debugger is entered only for a user who holds both Alt keys and no   *)
(* other modifier key when the delete code is the last one sent.            *)
DebuggerMeant ==
  [][Len(wire) = 1 /\ (\E b \in KeyCodes : EscapeToDebugger(b))
       => held \cap Modifiers = {"left alt", "right alt"}]_keyboardVars
=============================================================================
