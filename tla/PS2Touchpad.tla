----------------------------- MODULE PS2Touchpad -----------------------------
(***************************************************************************)
(* Taps, drags and the drag timer of the Synaptics driver: the absolute    *)
(* packets of a touchpad in W mode, the kind of movement the driver takes  *)
(* them for, the button it reports, and the one-shot timer that sends the  *)
(* click of a tap nobody follows up and lets go of a drag.                 *)
(*                                                                         *)
(* Packets, timer and power control run on the controller's work loop, one *)
(* at a time; setParamProperties comes from the preference pane. A packet  *)
(* is what the driver makes of it: the number of fingers (after the        *)
(* thresholds and the gesture mode), the edge the finger is at, whether    *)
(* the stream has stayed within the tap's 50 units, and the buttons. A     *)
(* packet that comes while a key is held down is ignored. Time passes in   *)
(* ticks, of which several fit into _prefClickDelay.                       *)
(***************************************************************************)
EXTENDS Integers

CONSTANTS
  ClickDelay,    (* _prefClickDelay, in ticks                              *)
  ReleaseDelay,  (* _prefReleaseDelay, in ticks                            *)
  SettleNew,     (* packets a new stream settles (2)                       *)
  SettleTap,     (* packets after a one-finger stream (5)                  *)
  SettleLong,    (* packets after any other stream (10)                    *)
  Prefs,         (* the preferences the pane may set                       *)
  Multifinger,   (* CAP_MULTIFINGER                                        *)
  UsesButton,    (* does the user press the button of the touchpad?        *)
  MaxInterferences (* bound: preferences set, sleeps and brown outs        *)

ASSUME TouchpadAssumption ==
  /\ ClickDelay \in Nat \ {0} /\ ReleaseDelay \in Nat \ {0}
  /\ SettleNew \in Nat \ {0} /\ SettleTap \in Nat \ {0} /\ SettleLong \in Nat \ {0}
  /\ Prefs \subseteq [clicking : BOOLEAN, dragging : BOOLEAN, dragLock : BOOLEAN,
                      secondaryClick : BOOLEAN, scrollMode : {"none", "two finger", "edge"}]
  /\ Multifinger \in BOOLEAN /\ UsesButton \in BOOLEAN /\ MaxInterferences \in Nat

EventKinds == {"default", "dragging", "scrolling", "edge scrolling", "movement", "swipe"}
Persistent == {"edge scrolling", "dragging"}
Pause == 2        (* ticks between packets that dt > 20000 stands for      *)
Left == 1
Right == 2
Buttons == IF UsesButton THEN {0, Left} ELSE {0}

Cap(n, limit) == IF n > limit THEN limit ELSE n

VARIABLES
  pref,         (* the preferences                                         *)
  on,           (* the touchpad is enabled                                 *)
  event,        (* _event                                                  *)
  settle,       (* _settleTime                                             *)
  tapped,       (* _tapped                                                 *)
  dragging,     (* _dragging                                               *)
  dragLocked,   (* _dragLocked                                             *)
  streamdt,     (* _streamdt, in ticks, as far as ClickDelay               *)
  since,        (* ticks since the last packet, as far as Pause            *)
  fingers,      (* _prevNumFingers                                         *)
  pressed,      (* history: the last packet had a button pressed           *)
  missed,       (* history: a packet has been ignored since                *)
  armed,        (* _dragTimeout is armed                                   *)
  left,         (* ticks left until it is due                              *)
  button,       (* the buttons last reported to the pointing system        *)
  owed,         (* history: taps recognised less presses reported          *)
  disturbed,    (* history: something else has touched button or state     *)
  interferences (* history: how often preferences or power interfered      *)

streamVars == <<streamdt, since, fingers, pressed, missed>>
timerVars == <<armed, left>>
dragVars == <<tapped, dragging, dragLocked>>
reportVars == <<button, owed>>
interferenceVars == <<disturbed, interferences>>
vars == <<pref, on, event, settle, dragVars, streamVars, timerVars, reportVars, interferenceVars>>

TypeOK ==
  /\ pref \in Prefs /\ on \in BOOLEAN
  /\ event \in EventKinds /\ settle \in Nat
  /\ tapped \in BOOLEAN /\ dragging \in BOOLEAN /\ dragLocked \in BOOLEAN
  /\ streamdt \in 0 .. ClickDelay /\ since \in 0 .. Pause /\ fingers \in 0 .. 3
  /\ pressed \in BOOLEAN /\ missed \in BOOLEAN
  /\ armed \in BOOLEAN /\ left \in 0 .. ClickDelay + ReleaseDelay
  /\ button \in 0 .. 3 /\ owed \in Int /\ disturbed \in BOOLEAN /\ interferences \in Nat

Init ==
  /\ pref \in Prefs /\ on = TRUE
  /\ event = "default" /\ settle = 0
  /\ tapped = FALSE /\ dragging = FALSE /\ dragLocked = FALSE
  /\ streamdt = 0 /\ since = 0 /\ fingers = 0
  /\ pressed = FALSE /\ missed = FALSE
  /\ armed = FALSE /\ left = 0
  /\ button = 0 /\ owed = 0 /\ disturbed = FALSE /\ interferences = 0

-----------------------------------------------------------------------------
(* A packet, as the driver has decoded it, and whether it comes within half *)
(* a second of a key event with a key held down.                           *)
Packets ==
  [fingers : 0 .. 3, atEdge : BOOLEAN, still : BOOLEAN,
   reliable : BOOLEAN, buttons : Buttons, typing : BOOLEAN]

(* A packet that can come: only a touchpad without multifinger detection   *)
(* reports a W that is not reliable. What the driver does not look at has  *)
(* one value only.                                                         *)
CanCome(p) ==
  /\ Multifinger \/ p.fingers = 0 => p.reliable
  /\ pref.scrollMode # "edge" \/ event # "default" => ~p.atEdge
  /\ event \notin {"movement", "dragging", "scrolling"} => p.still

(* The kind of movement a number of fingers stands for.                    *)
KindOf(n) ==
  CASE n = 1 -> "movement"
    [] n = 2 -> IF pref.scrollMode = "two finger" THEN "scrolling" ELSE "default"
    [] n = 3 -> "swipe"
    [] OTHER -> "default"

(* The event a packet selects before anything has settled.                 *)
Selected(p) ==
  CASE event = "swipe" /\ settle > 0 -> "swipe"
    [] since >= Pause \/ p.fingers = 0 -> "default"
    [] event \in Persistent \/ ~p.reliable -> event
    [] OTHER -> KindOf(p.fingers)

(* Edge scrolling, horizontal or vertical, begins where nothing went on.   *)
AtEdge(p, kind) == IF event = "default" /\ p.atEdge THEN "edge scrolling" ELSE kind

Elapsed == Cap(streamdt + since, ClickDelay)
Tapping(p) == p.still /\ 0 < Elapsed /\ Elapsed < ClickDelay

(* What a packet leaves: the state the rest of the handler goes on with.   *)
Result(kind, time, buttons) ==
  [event |-> kind, settle |-> time, tapped |-> tapped, dragging |-> dragging,
   dragLocked |-> dragLocked, streamdt |-> Elapsed, armed |-> armed, left |-> left,
   buttons |-> buttons, clicks |-> 0, taps |-> 0]

Arm(r, delay) == [r EXCEPT !.armed = TRUE, !.left = delay]
Cancel(r) == [r EXCEPT !.armed = FALSE, !.left = 0]

-----------------------------------------------------------------------------
(* Faulty versions of definitions below: slips the code could have made.   *)

(* Faulty: the drag that goes on stops the timer and is still held.        *)
NewStreamStaysHeld(p, kind) ==
  LET r == [Result(kind, SettleNew, p.buttons) EXCEPT !.streamdt = 0]
  IN  IF dragging THEN [Cancel(r) EXCEPT !.event = "dragging"] ELSE r

(* Faulty: a drag that begins leaves the click of its tap to come.         *)
BeginDragKeepsTimer(r) ==
  IF pref.clicking /\ pref.dragging /\ r.tapped /\ r.streamdt < ClickDelay /\ r.event = "movement"
  THEN [r EXCEPT !.event = "dragging", !.tapped = FALSE, !.dragging = FALSE,
                 !.dragLocked = (r.dragLocked \/ pref.dragLock)]
  ELSE r

(* Faulty: the end of a drag holds the button and does not set the timer.  *)
HoldDragForever(r) == [r EXCEPT !.dragging = TRUE]

-----------------------------------------------------------------------------
(* The end of a one-finger stream: a tap is a click at once if taps do not *)
(* begin drags; else it releases a locked drag or waits for a second one.  *)
EndMovement(p) ==
  LET r == Result("default", SettleTap, p.buttons)
      tap == pref.clicking /\ Tapping(p)
  IN  CASE tap /\ ~pref.dragging -> [r EXCEPT !.buttons = Left, !.taps = 1]
        [] tap /\ pref.dragging /\ dragLocked -> [r EXCEPT !.dragLocked = FALSE]
        [] tap /\ pref.dragging /\ ~dragLocked ->
             [Arm(r, ClickDelay) EXCEPT !.tapped = TRUE, !.taps = 1]
        [] ~tap -> r

(* The button is held for the release delay: the drag may go on.           *)
HoldDrag(r) == [Arm(r, ReleaseDelay) EXCEPT !.dragging = TRUE]

(* The end of a drag: a second tap is a double click (press and release    *)
(* are sent here, the next press with the packet) or releases a locked     *)
(* drag; otherwise the drag is held.                                       *)
EndDrag(p) ==
  LET r == Result("default", SettleLong, p.buttons)
  IN  CASE Tapping(p) /\ dragLocked -> [r EXCEPT !.dragLocked = FALSE]
        [] Tapping(p) /\ ~dragLocked ->
             [r EXCEPT !.clicks = 1, !.buttons = Left, !.tapped = FALSE, !.taps = 1]
        [] ~Tapping(p) -> HoldDrag(r)

(* The end of a two-finger scroll: a tap is a click of the right button.   *)
EndScroll(p) ==
  LET time == IF p.fingers = 3 THEN SettleTap ELSE SettleLong
  IN  IF pref.clicking /\ pref.secondaryClick /\ Tapping(p)
      THEN Result("movement", time, Right)
      ELSE Result("scrolling", time, p.buttons)

(* The end of a swipe and of an edge scroll.                               *)
EndOther(p) == Result("default", SettleLong, p.buttons)

EndOfStream(p) ==
  CASE event = "movement" -> EndMovement(p)
    [] event = "dragging" -> EndDrag(p)
    [] event = "scrolling" -> EndScroll(p)
    [] event \in {"swipe", "edge scrolling"} -> EndOther(p)

(* A new stream: a drag that is held goes on.                              *)
NewStream(p, kind) ==
  LET r == [Result(kind, SettleNew, p.buttons) EXCEPT !.streamdt = 0]
  IN  IF dragging THEN [Cancel(r) EXCEPT !.dragging = FALSE, !.event = "dragging"] ELSE r

(* A touch that follows a tap in time begins a drag.                       *)
BeginDrag(r) ==
  IF pref.clicking /\ pref.dragging /\ r.tapped /\ r.streamdt < ClickDelay /\ r.event = "movement"
  THEN [Cancel(r) EXCEPT !.event = "dragging", !.tapped = FALSE, !.dragging = FALSE,
                         !.dragLocked = (r.dragLocked \/ pref.dragLock)]
  ELSE r

(* The event has changed or is settling.                                   *)
Settled(p) ==
  LET kind == AtEdge(p, Selected(p))
  IN  CASE settle > 0 -> Result(kind, settle - 1, p.buttons)
        [] settle = 0 /\ event = "default" -> NewStream(p, kind)
        [] settle = 0 /\ event # "default" /\ kind = "default" -> EndOfStream(p)
        [] OTHER -> Result(kind, IF kind = "scrolling" THEN 0 ELSE SettleLong, p.buttons)

(* A button pressed in a drag ends it.                                     *)
ButtonEndsDrag(r) ==
  CASE r.event = "dragging" /\ r.buttons # 0 ->
         [r EXCEPT !.event = "movement", !.tapped = FALSE, !.dragging = FALSE,
                   !.dragLocked = FALSE, !.buttons = 0]
    [] r.event = "dragging" /\ r.buttons = 0 -> [r EXCEPT !.buttons = Left]
    [] OTHER -> r

Handled(p) ==
  ButtonEndsDrag(IF Selected(p) # event \/ settle > 0
                 THEN BeginDrag(Settled(p))
                 ELSE Result(event, settle, p.buttons))

(* The buttons a packet reports; a scroll event carries none.              *)
WithHeld(buttons, held) == IF held /\ buttons % 2 = 0 THEN buttons + Left ELSE buttons
Reported(r) ==
  IF r.event \in {"scrolling", "edge scrolling"} THEN button
  ELSE WithHeld(r.buttons, r.dragging)

Presses(from, to) == IF from % 2 = 0 /\ to % 2 = 1 THEN 1 ELSE 0

(* Taps the driver merges with what is pending. A two-finger tap while a   *)
(* tap waits for its click: BeginDrag takes the right click for a drag,    *)
(* ButtonEndsDrag the drag for a press, and both clicks are lost. A tap of *)
(* a touch that came before a held drag had settled: the button is still   *)
(* down and the press not seen.                                            *)
Merges(p) ==
  /\ Tapping(p)
  /\ \/ event = "scrolling" /\ tapped
     \/ event = "movement" /\ dragging

(* dispatchRelativePointerEventWithAbsolutePacket                          *)
Packet(p) ==
  /\ on /\ CanCome(p) /\ ~p.typing
  /\ LET r == Handled(p)
         before == IF r.clicks = 1 THEN 0 ELSE button
     IN  /\ event' = r.event /\ settle' = r.settle
         /\ tapped' = r.tapped /\ dragging' = r.dragging /\ dragLocked' = r.dragLocked
         /\ streamdt' = r.streamdt
         /\ armed' = r.armed /\ left' = r.left
         /\ button' = Reported(r)
         /\ disturbed' = (disturbed \/ p.buttons # 0 \/ Merges(p))
         /\ owed' = IF disturbed' THEN 0
                    ELSE owed + r.taps - Presses(before, button')
                         - (IF r.clicks = 1 THEN Presses(button, Left) ELSE 0)
  /\ since' = 0 /\ fingers' = p.fingers /\ pressed' = (p.buttons # 0)
  /\ missed' = FALSE
  /\ UNCHANGED <<pref, on, interferences>>

(* The packets of a touchpad nobody touches.                               *)
IdlePacket == \E p \in Packets : p.fingers = 0 /\ p.buttons = 0 /\ Packet(p)
TouchPacket == \E p \in Packets : (p.fingers # 0 \/ p.buttons # 0) /\ Packet(p)

(* _prefIgnoreAccidental, which nothing ever clears: while a key is held   *)
(* down the packet is thrown away, whether it reports a finger or not.     *)
IgnoredPacket ==
  /\ on /\ \E p \in Packets : CanCome(p) /\ p.typing
  /\ missed' = TRUE
  /\ UNCHANGED <<pref, on, event, settle, dragVars, streamdt, since, fingers, pressed,
                 timerVars, reportVars, interferenceVars>>

(* draggingTimeout: it clears everything, tap or drag, and sends a click.  *)
DraggingTimeout ==
  /\ armed /\ left = 0
  /\ dragLocked' = FALSE /\ tapped' = FALSE /\ dragging' = FALSE
  /\ event' = "movement"
  /\ armed' = FALSE /\ left' = 0
  /\ button' = 0
  /\ owed' = IF disturbed THEN 0 ELSE owed - Presses(button, Left)
  /\ UNCHANGED <<pref, on, settle, streamVars, interferenceVars>>

(* Something else than the user's finger touches the state or the button:  *)
(* presses are no longer counted.                                          *)
Interfere ==
  /\ interferences < MaxInterferences
  /\ interferences' = interferences + 1
  /\ disturbed' = TRUE /\ owed' = 0

(* setParamProperties: the drag state is reset, the timer is left alone.   *)
SetParamProperties ==
  /\ Interfere
  /\ pref' \in Prefs
  /\ dragLocked' = FALSE /\ dragging' = FALSE /\ tapped' = FALSE
  /\ UNCHANGED <<on, event, settle, streamVars, timerVars, button>>

(* setDevicePowerState(kPS2C_EnableDevice): at wake-up, and when a packet   *)
(* begins with a byte of relative mode (a brown out).                      *)
EnableDevice ==
  /\ IF on THEN Interfere ELSE UNCHANGED <<interferenceVars, owed>>
  /\ on' = TRUE
  /\ settle' = 0 /\ tapped' = FALSE /\ dragLocked' = FALSE
  /\ UNCHANGED <<pref, event, dragging, streamVars, timerVars, button>>

DisableDevice ==
  /\ Interfere /\ on
  /\ on' = FALSE
  /\ UNCHANGED <<pref, event, settle, dragVars, streamVars, timerVars, button>>

Tick ==
  /\ since < Pause \/ (armed /\ left > 0)
  /\ since' = Cap(since + 1, Pause)
  /\ left' = IF left > 0 THEN left - 1 ELSE 0
  /\ UNCHANGED <<pref, on, event, settle, dragVars, streamdt, fingers, pressed, missed, armed,
                 reportVars, interferenceVars>>

Next ==
  \/ IdlePacket \/ TouchPacket \/ IgnoredPacket
  \/ DraggingTimeout
  \/ SetParamProperties \/ EnableDevice \/ DisableDevice
  \/ Tick

(* What the driver has been told last: nobody touches the touchpad or      *)
(* presses its button.                                                     *)
Untouched == on /\ fingers = 0 /\ ~pressed

(* Time passes and the timer fires when it is due. A touchpad goes on      *)
(* reporting for a while after the finger has left it, and unless a packet *)
(* is ignored the driver handles it; nobody has to touch, type or stop     *)
(* typing.                                                                 *)
Fairness ==
  WF_vars(Tick) /\ WF_vars(DraggingTimeout) /\ WF_vars(Untouched /\ ~missed /\ IdlePacket)

Spec == Init /\ [][Next]_vars /\ Fairness

-----------------------------------------------------------------------------
(* A drag that is held has the release timer running, whatever packets,     *)
(* preferences or power changes come; so has a tap that is remembered, and  *)
(* the one timer is never promised to both, as long as neither preferences  *)
(* nor power nor a button have interfered: the release and the click come.  *)
TimerBehindPromise ==
  /\ dragging => armed
  /\ tapped /\ ~disturbed => armed /\ ~dragging

(* A touchpad at rest: nothing pending, nothing held.                      *)
AtRest == ~armed /\ button % 2 = 0 /\ ~tapped /\ ~dragging

(* Every tap the driver recognises is one press of the button, neither     *)
(* swallowed nor doubled by the timer, the drag or the double click.       *)
PressPerTap == AtRest /\ ~disturbed => owed = 0

(* A button that is reported down while nobody touches the touchpad or     *)
(* presses its button does not stay down: a held drag is released by its   *)
(* timer even if every packet is ignored, and a click by the next packet,  *)
(* unless that one comes while a key is held down.                         *)
HeldIsReleased ==
  (Untouched /\ button % 2 = 1) ~>
    (button % 2 = 0 \/ ~Untouched \/ (missed /\ ~dragging))

(* ApplePS2SynapticsTouchPad.cpp:1420 "_dragLocked = false; // Should      *)
(* NEVER be true when we enter here": it does not hold, because a locked    *)
(* drag that is lifted arms the release timer like any other.              *)
NeverLockedAtTimeout == ~(armed /\ left = 0 /\ dragLocked)
=============================================================================
