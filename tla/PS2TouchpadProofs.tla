-------------------------- MODULE PS2TouchpadProofs --------------------------
(***************************************************************************)
(* Proofs, for all delays, preferences and numbers of interferences, that  *)
(* the state of the touchpad driver keeps its types, that the drag timer   *)
(* stands behind what the driver has promised, and that a tap is paid for  *)
(* with one press. What makes the second inductive is that an undisturbed  *)
(* tap that waits for its click is never remembered together with a drag,  *)
(* held or going on: only one of the two uses of the timer is pending. The *)
(* third follows each packet through the stages of the handler, and owes a *)
(* press exactly for the tap that is remembered.                           *)
(***************************************************************************)
EXTENDS PS2Touchpad, TLAPS

StreamTimes == 0 .. ClickDelay
TimerTimes == 0 .. ClickDelay + ReleaseDelay
Pressable == 0 .. 2

(* What a stage of the handler leaves.                                     *)
Outcome ==
  [event : EventKinds, settle : Nat, tapped : BOOLEAN, dragging : BOOLEAN,
   dragLocked : BOOLEAN, streamdt : StreamTimes, armed : BOOLEAN,
   left : TimerTimes, buttons : Pressable, clicks : {0, 1}, taps : {0, 1}]

(* The promises and the timer in a state or an outcome; d says whether the *)
(* gestures have been disturbed.                                           *)
Sound(r, d) ==
  /\ r.dragging => r.armed
  /\ r.tapped /\ ~d => r.armed /\ ~r.dragging /\ r.event # "dragging"

TouchInv ==
  Sound([tapped |-> tapped, dragging |-> dragging, armed |-> armed, event |-> event], disturbed)

Disturbs(p) == disturbed \/ p.buttons # 0 \/ Merges(p)

Delays ==
  /\ ClickDelay \in Nat /\ ReleaseDelay \in Nat
  /\ SettleNew \in Nat /\ SettleTap \in Nat /\ SettleLong \in Nat
Ranges ==
  /\ 0 \in StreamTimes
  /\ 0 \in TimerTimes /\ ClickDelay \in TimerTimes /\ ReleaseDelay \in TimerTimes
  /\ 0 \in Pressable /\ Left \in Pressable /\ Right \in Pressable
  /\ 0 \in Nat /\ SettleNew \in Nat /\ SettleTap \in Nat /\ SettleLong \in Nat

LEMMA DelayFacts == Delays
BY TouchpadAssumption DEF TouchpadAssumption, Delays

LEMMA RangeFacts == Ranges
BY DelayFacts DEF Delays, Ranges, StreamTimes, TimerTimes, Pressable, Left, Right

(* The types of the state, the ranges left folded.                         *)
StateTypes ==
  /\ event \in EventKinds /\ settle \in Nat
  /\ tapped \in BOOLEAN /\ dragging \in BOOLEAN /\ dragLocked \in BOOLEAN
  /\ streamdt \in StreamTimes /\ armed \in BOOLEAN /\ left \in TimerTimes
  /\ Elapsed \in StreamTimes

LEMMA StateTyped == TypeOK => StateTypes
<1> SUFFICES ASSUME TypeOK PROVE StateTypes
  OBVIOUS
<1>1. streamdt \in 0 .. ClickDelay /\ since \in 0 .. 2
  BY DEF TypeOK, Pause
<1>2. Elapsed \in StreamTimes
  BY <1>1, DelayFacts DEF Delays, Elapsed, Cap, StreamTimes
<1> QED
  BY <1>2 DEF TypeOK, StateTypes, StreamTimes, TimerTimes

Kinds == {"default", "movement", "scrolling", "swipe"}

LEMMA SelectedKind ==
  ASSUME NEW p \in Packets
  PROVE  /\ Selected(p) \in Kinds \cup {event}
         /\ AtEdge(p, Selected(p)) \in Kinds \cup {event, "edge scrolling"}
<1>1. Selected(p) \in Kinds \cup {event}
  BY DEF Selected, KindOf, Kinds
<1> QED
  BY <1>1 DEF AtEdge

LEMMA ResultSound ==
  ASSUME StateTypes, TouchInv, NEW p \in Packets,
         NEW kind \in Kinds \cup {event, "edge scrolling"}, NEW time \in Nat, NEW buttons \in Pressable
  PROVE  /\ Result(kind, time, buttons) \in Outcome
         /\ Sound(Result(kind, time, buttons), Disturbs(p))
<1>1. Result(kind, time, buttons) \in Outcome
  BY DEF Result, Outcome, StateTypes, EventKinds, Kinds
<1>2. Sound(Result(kind, time, buttons), Disturbs(p))
  BY DEF StateTypes, TouchInv, Sound, Result, Disturbs, Kinds
<1> QED
  BY <1>1, <1>2

LEMMA PacketButtons == ASSUME NEW p \in Packets PROVE p.buttons \in Pressable
BY RangeFacts DEF Ranges, Packets, Buttons

LEMMA NewStreamSound ==
  ASSUME StateTypes, TouchInv, NEW p \in Packets,
         NEW kind \in Kinds \cup {event, "edge scrolling"}
  PROVE  NewStream(p, kind) \in Outcome /\ Sound(NewStream(p, kind), Disturbs(p))
<1> DEFINE r == Result(kind, SettleNew, p.buttons)
<1>1. r \in Outcome /\ Sound(r, Disturbs(p)) /\ r.tapped = tapped /\ r.dragging = dragging
  BY ResultSound, PacketButtons, RangeFacts DEF Ranges, Result
<1> HIDE DEF r
<1>2. NewStream(p, kind) =
        LET q == [r EXCEPT !.streamdt = 0]
        IN  IF dragging THEN [Cancel(q) EXCEPT !.dragging = FALSE, !.event = "dragging"] ELSE q
  BY DEF NewStream, r
<1>3. NewStream(p, kind) \in Outcome
  BY <1>1, <1>2, RangeFacts DEF Ranges, Outcome, Cancel, EventKinds
<1>4. Sound(NewStream(p, kind), Disturbs(p))
  BY <1>1, <1>2 DEF Outcome, Cancel, Sound, Disturbs, TouchInv
<1> QED
  BY <1>3, <1>4

LEMMA EndOfStreamSound ==
  ASSUME StateTypes, TouchInv, NEW p \in Packets, event # "default"
  PROVE  EndOfStream(p) \in Outcome /\ Sound(EndOfStream(p), Disturbs(p))
<1> USE PacketButtons, RangeFacts DEF Ranges
<1>1. CASE event = "movement"
  <2> DEFINE r == Result("default", SettleTap, p.buttons)
  <2>1. r \in Outcome /\ Sound(r, Disturbs(p)) /\ r.dragging = dragging /\ r.event = "default"
    BY ResultSound DEF Result, Kinds
  <2>2. Tapping(p) /\ ~Disturbs(p) => ~dragging
    BY <1>1 DEF Disturbs, Merges
  <2> HIDE DEF r
  <2>3. EndOfStream(p) =
          CASE pref.clicking /\ Tapping(p) /\ ~pref.dragging -> [r EXCEPT !.buttons = Left, !.taps = 1]
            [] pref.clicking /\ Tapping(p) /\ pref.dragging /\ dragLocked -> [r EXCEPT !.dragLocked = FALSE]
            [] pref.clicking /\ Tapping(p) /\ pref.dragging /\ ~dragLocked ->
                 [Arm(r, ClickDelay) EXCEPT !.tapped = TRUE, !.taps = 1]
            [] ~(pref.clicking /\ Tapping(p)) -> r
    BY <1>1 DEF EndOfStream, EndMovement, r
  <2>4. \/ EndOfStream(p) = r
        \/ EndOfStream(p) = [r EXCEPT !.buttons = Left, !.taps = 1]
        \/ EndOfStream(p) = [r EXCEPT !.dragLocked = FALSE]
        \/ Tapping(p) /\ EndOfStream(p) = [Arm(r, ClickDelay) EXCEPT !.tapped = TRUE, !.taps = 1]
    BY <2>3
  <2>5. EndOfStream(p) \in Outcome
    BY <2>1, <2>4 DEF Outcome, Arm
  <2>6. Sound(EndOfStream(p), Disturbs(p))
    BY <2>1, <2>2, <2>4 DEF Outcome, Arm, Sound
  <2> QED
    BY <2>5, <2>6
<1>2. CASE event = "dragging"
  <2> DEFINE r == Result("default", SettleLong, p.buttons)
  <2>1. r \in Outcome /\ Sound(r, Disturbs(p)) /\ r.tapped = tapped
    BY ResultSound DEF Result, Kinds
  <2>2. tapped => Disturbs(p)
    BY <1>2 DEF TouchInv, Sound, Disturbs
  <2> HIDE DEF r
  <2>3. EndOfStream(p) \in
          {[r EXCEPT !.dragLocked = FALSE],
           [r EXCEPT !.clicks = 1, !.buttons = Left, !.tapped = FALSE, !.taps = 1], HoldDrag(r)}
    BY <1>2 DEF EndOfStream, EndDrag, r, StateTypes
  <2>4. EndOfStream(p) \in Outcome
    BY <2>1, <2>3 DEF Outcome, HoldDrag, Arm
  <2>5. Sound(EndOfStream(p), Disturbs(p))
    BY <2>1, <2>2, <2>3 DEF Outcome, HoldDrag, Arm, Sound
  <2> QED
    BY <2>4, <2>5
<1>3. CASE event = "scrolling"
  BY <1>3, ResultSound DEF EndOfStream, EndScroll, Kinds
<1>4. CASE event \in {"swipe", "edge scrolling"}
  BY <1>4, ResultSound DEF EndOfStream, EndOther, Kinds
<1> QED
  BY <1>1, <1>2, <1>3, <1>4 DEF EventKinds, StateTypes

LEMMA SettledSound ==
  ASSUME StateTypes, TouchInv, NEW p \in Packets
  PROVE  Settled(p) \in Outcome /\ Sound(Settled(p), Disturbs(p))
<1> DEFINE kind == AtEdge(p, Selected(p))
<1>1. kind \in Kinds \cup {event, "edge scrolling"}
  BY SelectedKind
<1>2. Settled(p) = CASE settle > 0 -> Result(kind, settle - 1, p.buttons)
                     [] settle = 0 /\ event = "default" -> NewStream(p, kind)
                     [] settle = 0 /\ event # "default" /\ kind = "default" -> EndOfStream(p)
                     [] OTHER -> Result(kind, IF kind = "scrolling" THEN 0 ELSE SettleLong, p.buttons)
  BY DEF Settled
<1> HIDE DEF kind
<1>3. settle > 0 => Settled(p) = Result(kind, settle - 1, p.buttons)
  BY <1>2
<1>4. settle = 0 /\ event = "default" => Settled(p) = NewStream(p, kind)
  BY <1>2
<1>5. settle = 0 /\ event # "default" /\ kind = "default" => Settled(p) = EndOfStream(p)
  BY <1>2
<1>6. settle = 0 /\ event # "default" /\ kind # "default" =>
        \E time \in Nat : Settled(p) = Result(kind, time, p.buttons)
  BY <1>2, RangeFacts DEF Ranges
<1>7. settle > 0 \/ settle = 0
  BY DEF StateTypes
<1>8. settle > 0 => settle - 1 \in Nat
  BY DEF StateTypes
<1>9. \A time \in Nat : /\ Result(kind, time, p.buttons) \in Outcome
                       /\ Sound(Result(kind, time, p.buttons), Disturbs(p))
  BY <1>1, ResultSound, PacketButtons
<1>10. CASE settle > 0
  BY <1>3, <1>8, <1>9, <1>10
<1>11. CASE settle = 0 /\ event = "default"
  BY <1>1, <1>4, <1>11, NewStreamSound
<1>12. CASE settle = 0 /\ event # "default" /\ kind = "default"
  BY <1>5, <1>12, EndOfStreamSound
<1>13. CASE settle = 0 /\ event # "default" /\ kind # "default"
  BY <1>6, <1>9, <1>13
<1> QED
  BY <1>7, <1>10, <1>11, <1>12, <1>13

LEMMA HandledSound ==
  ASSUME StateTypes, TouchInv, NEW p \in Packets
  PROVE  Handled(p) \in Outcome /\ Sound(Handled(p), Disturbs(p))
<1> DEFINE s == Settled(p)
           b == IF Selected(p) # event \/ settle > 0 THEN BeginDrag(s)
                ELSE Result(event, settle, p.buttons)
<1>1. s \in Outcome /\ Sound(s, Disturbs(p))
  BY SettledSound
<1> HIDE DEF s
<1>2. BeginDrag(s) \in Outcome
  BY <1>1, RangeFacts DEF Ranges, Outcome, BeginDrag, Cancel, EventKinds
<1>3. Sound(BeginDrag(s), Disturbs(p))
  BY <1>1 DEF Outcome, BeginDrag, Cancel, Sound
<1>4. Result(event, settle, p.buttons) \in Outcome /\ Sound(Result(event, settle, p.buttons), Disturbs(p))
  BY ResultSound, PacketButtons DEF StateTypes
<1>5. b \in Outcome /\ Sound(b, Disturbs(p))
  BY <1>2, <1>3, <1>4
<1>6. Handled(p) = ButtonEndsDrag(b)
  BY DEF Handled, s
<1> HIDE DEF b
<1>7. ButtonEndsDrag(b) \in Outcome
  BY <1>5, RangeFacts DEF Ranges, Outcome, ButtonEndsDrag, EventKinds
<1>8. Sound(ButtonEndsDrag(b), Disturbs(p))
  BY <1>5 DEF Outcome, ButtonEndsDrag, Sound
<1> QED
  BY <1>6, <1>7, <1>8

LEMMA ReportedType ==
  ASSUME TypeOK, NEW r \in Outcome PROVE Reported(r) \in 0 .. 3
<1>1. r.buttons \in 0 .. 2 /\ button \in 0 .. 3
  BY DEF Outcome, TypeOK, Pressable
<1>2. ASSUME NEW b \in 0 .. 2, NEW held PROVE WithHeld(b, held) \in 0 .. 3
  BY DEF WithHeld, Left
<1> QED
  BY <1>1, <1>2 DEF Reported

LEMMA PressesType == ASSUME NEW a, NEW b PROVE Presses(a, b) \in {0, 1}
BY DEF Presses

-----------------------------------------------------------------------------
LEMMA PacketStep ==
  ASSUME TypeOK, TouchInv, NEW p \in Packets, Packet(p)
  PROVE  TypeOK' /\ TouchInv'
<1> DEFINE r == Handled(p)
<1>1. r \in Outcome /\ Sound(r, Disturbs(p))
  BY HandledSound, StateTyped
<1> HIDE DEF r
<1>2. /\ event' = r.event /\ settle' = r.settle
      /\ tapped' = r.tapped /\ dragging' = r.dragging /\ dragLocked' = r.dragLocked
      /\ streamdt' = r.streamdt /\ armed' = r.armed /\ left' = r.left
      /\ button' = Reported(r) /\ disturbed' = Disturbs(p)
      /\ since' = 0 /\ fingers' = p.fingers /\ pressed' = (p.buttons # 0)
      /\ missed' = FALSE
      /\ UNCHANGED <<pref, on, interferences>>
  BY DEF Packet, Disturbs, r
<1>3. owed' \in Int
  <2> DEFINE before == IF r.clicks = 1 THEN 0 ELSE button
             double == IF r.clicks = 1 THEN Presses(button, Left) ELSE 0
  <2>1. owed' = IF disturbed' THEN 0 ELSE owed + r.taps - Presses(before, button') - double
    BY DEF Packet, r
  <2>2. Presses(before, button') \in Int /\ double \in Int /\ r.taps \in Int
    BY <1>1, PressesType DEF Outcome
  <2> HIDE DEF before, double
  <2> QED
    BY <2>1, <2>2 DEF TypeOK
<1>4. button' \in 0 .. 3
  BY <1>1, <1>2, ReportedType
<1>5. p.fingers \in 0 .. 3
  BY DEF Packets
<1>6. disturbed' \in BOOLEAN
  BY <1>2 DEF Disturbs
<1>7. TypeOK'
  <2>1. /\ event' \in EventKinds /\ settle' \in Nat /\ tapped' \in BOOLEAN
        /\ dragging' \in BOOLEAN /\ dragLocked' \in BOOLEAN /\ armed' \in BOOLEAN
        /\ streamdt' \in 0 .. ClickDelay /\ left' \in 0 .. ClickDelay + ReleaseDelay
    BY <1>1, <1>2 DEF Outcome, StreamTimes, TimerTimes
  <2>2. since' \in 0 .. Pause
    BY <1>2 DEF Pause
  <2>3. pressed' \in BOOLEAN /\ missed' \in BOOLEAN
    BY <1>2
  <2> QED
    BY <1>2, <1>3, <1>4, <1>5, <1>6, <2>1, <2>2, <2>3 DEF TypeOK
<1>8. TouchInv'
  BY <1>1, <1>2 DEF TouchInv, Sound, Outcome
<1> QED
  BY <1>7, <1>8

LEMMA TouchInit == Init => TypeOK /\ TouchInv
<1>1. Init => TypeOK
  <2>1. 0 \in 0 .. ClickDelay /\ 0 \in 0 .. Pause /\ 0 \in 0 .. 3 /\ 0 \in Nat /\ 0 \in Int
        /\ 0 \in 0 .. ClickDelay + ReleaseDelay
    BY DelayFacts DEF Delays, Pause
  <2>2. "default" \in EventKinds
    BY DEF EventKinds
  <2> QED
    BY <2>1, <2>2 DEF Init, TypeOK
<1>2. Init => TouchInv
  BY DEF Init, TouchInv, Sound
<1> QED
  BY <1>1, <1>2

(* A step of the handled packets aside: what it does to the types.                 *)
LEMMA OtherTypes ==
  ASSUME TypeOK,
         DraggingTimeout \/ SetParamProperties \/ EnableDevice \/ DisableDevice \/ Tick
           \/ IgnoredPacket \/ UNCHANGED vars
  PROVE  TypeOK'
<1>1. CASE DraggingTimeout
  <2>1. owed' \in Int
    BY <1>1, PressesType DEF DraggingTimeout, TypeOK
  <2>2. 0 \in 0 .. 3 /\ left' \in 0 .. ClickDelay + ReleaseDelay
    BY <1>1, RangeFacts DEF DraggingTimeout, Ranges, TimerTimes
  <2>3. event' \in EventKinds
    BY <1>1 DEF DraggingTimeout, EventKinds
  <2> QED
    BY <1>1, <2>1, <2>2, <2>3 DEF DraggingTimeout, TypeOK, streamVars, interferenceVars
<1>2. CASE SetParamProperties
  <2>1. interferences' \in Nat /\ owed' \in Int /\ disturbed' \in BOOLEAN
    BY <1>2 DEF SetParamProperties, Interfere, TypeOK, interferenceVars
  <2> QED
    BY <1>2, <2>1 DEF SetParamProperties, TypeOK, streamVars, timerVars
<1>3. CASE EnableDevice
  <2>1. interferences' \in Nat /\ owed' \in Int /\ disturbed' \in BOOLEAN
    <3>1. CASE on
      BY <1>3, <3>1 DEF EnableDevice, Interfere, TypeOK
    <3>2. CASE ~on
      BY <1>3, <3>2 DEF EnableDevice, TypeOK, interferenceVars
    <3> QED
      BY <3>1, <3>2
  <2> QED
    BY <1>3, <2>1, 0 \in Nat DEF EnableDevice, TypeOK, streamVars, timerVars, interferenceVars
<1>4. CASE DisableDevice
  <2>1. interferences' \in Nat /\ owed' \in Int /\ disturbed' \in BOOLEAN
    BY <1>4 DEF DisableDevice, Interfere, TypeOK, interferenceVars
  <2> QED
    BY <1>4, <2>1 DEF DisableDevice, TypeOK, streamVars, timerVars, dragVars
<1>5. CASE Tick
  <2>1. since' \in 0 .. Pause
    BY <1>5 DEF Tick, TypeOK, Cap, Pause
  <2>2. left' \in 0 .. ClickDelay + ReleaseDelay
    BY <1>5, DelayFacts DEF Tick, TypeOK, Delays
  <2> QED
    BY <1>5, <2>1, <2>2 DEF Tick, TypeOK, dragVars, reportVars, interferenceVars
<1>6. CASE UNCHANGED vars
  BY <1>6 DEF vars, TypeOK, dragVars, streamVars, timerVars, reportVars, interferenceVars
<1>7. CASE IgnoredPacket
  BY <1>7 DEF IgnoredPacket, TypeOK, dragVars, timerVars, reportVars, interferenceVars
<1> QED
  BY <1>1, <1>2, <1>3, <1>4, <1>5, <1>6, <1>7

LEMMA TouchStep == TypeOK /\ TouchInv /\ [Next]_vars => TypeOK' /\ TouchInv'
<1> SUFFICES ASSUME TypeOK, TouchInv, [Next]_vars PROVE TypeOK' /\ TouchInv'
  OBVIOUS
<1>1. CASE IdlePacket \/ TouchPacket
  BY <1>1, PacketStep DEF IdlePacket, TouchPacket
<1>2. CASE DraggingTimeout
  BY <1>2, OtherTypes DEF DraggingTimeout, TouchInv, Sound
<1>3. CASE SetParamProperties
  <2>1. TouchInv'
    BY <1>3 DEF SetParamProperties, Interfere, TouchInv, Sound, timerVars
  <2> QED
    BY <1>3, <2>1, OtherTypes
<1>4. CASE EnableDevice
  <2>1. TouchInv'
    BY <1>4 DEF EnableDevice, TouchInv, Sound, timerVars
  <2> QED
    BY <1>4, <2>1, OtherTypes
<1>5. CASE DisableDevice
  <2>1. TouchInv'
    BY <1>5 DEF DisableDevice, Interfere, TouchInv, Sound, timerVars, dragVars
  <2> QED
    BY <1>5, <2>1, OtherTypes
<1>6. CASE Tick
  <2>1. TouchInv'
    BY <1>6 DEF Tick, TouchInv, Sound, dragVars, interferenceVars
  <2> QED
    BY <1>6, <2>1, OtherTypes
<1>7. CASE IgnoredPacket \/ UNCHANGED vars
  <2>1. TouchInv'
    BY <1>7 DEF IgnoredPacket, vars, TouchInv, Sound, dragVars, timerVars, interferenceVars
  <2> QED
    BY <1>7, <2>1, OtherTypes
<1> QED
  BY <1>1, <1>2, <1>3, <1>4, <1>5, <1>6, <1>7 DEF Next

(* The variables keep their types, for all delays and preferences.         *)
THEOREM TypeCorrect == Spec => []TypeOK
BY TouchInit, TouchStep, PTL DEF Spec

(* Whatever packets, pauses, preferences, sleeps and brown outs come, a    *)
(* drag that is held has its release running and an undisturbed tap that   *)
(* waits its click.                                                        *)
THEOREM TimerStands == Spec => []TimerBehindPromise
<1>1. TouchInv => TimerBehindPromise
  BY DEF TouchInv, Sound, TimerBehindPromise
<1> QED
  BY <1>1, TouchInit, TouchStep, PTL DEF Spec

-----------------------------------------------------------------------------
(* Taps are paid for with presses. An undisturbed driver owes a press only  *)
(* for the tap it remembers; the button is up while it does, and is down    *)
(* while a drag goes on or is held, so that neither the timer nor the end   *)
(* of a drag presses it a second time.                                      *)
Down(b) == b % 2 = 1
Debt(t) == IF t THEN 1 ELSE 0

Owing ==
  ~disturbed =>
    /\ owed = Debt(tapped)
    /\ armed => tapped \/ dragging
    /\ tapped => /\ ~Down(button) /\ pref.clicking /\ pref.dragging
                 /\ event = "movement" => streamdt = ClickDelay
    /\ dragging => Down(button) /\ event # "dragging"
    /\ event = "dragging" => Down(button)
    /\ event = "movement" /\ ~dragging => ~Down(button)

LEMMA DownFacts ==
  /\ ~Down(0) /\ Down(Left) /\ ~Down(Right)
  /\ \A a, b \in 0 .. 3 : Presses(a, b) = IF Down(b) /\ ~Down(a) THEN 1 ELSE 0
  /\ \A b \in Pressable, h \in BOOLEAN : Down(WithHeld(b, h)) <=> Down(b) \/ h
<1>1. ~Down(0) /\ Down(Left) /\ ~Down(Right)
  BY DEF Down, Left, Right
<1>2. \A b \in 0 .. 3 : b % 2 \in {0, 1}
  OBVIOUS
<1>3. \A a, b \in 0 .. 3 : Presses(a, b) = IF Down(b) /\ ~Down(a) THEN 1 ELSE 0
  BY <1>2 DEF Presses, Down
<1>4. ASSUME NEW b \in Pressable, NEW h \in BOOLEAN
      PROVE  Down(WithHeld(b, h)) <=> Down(b) \/ h
  BY <1>4 DEF Pressable, WithHeld, Left, Down
<1> QED
  BY <1>1, <1>3, <1>4

(* What the stages of an undisturbed packet come to.                        *)
Bare(r, taps, clicks) == r.taps = taps /\ r.clicks = clicks
Kept(r) ==
  /\ r.tapped = tapped /\ r.dragging = dragging /\ r.armed = armed /\ Bare(r, 0, 0)
  /\ r.event = "dragging" => event = "dragging"
  /\ r.buttons = 0 \/ (r.buttons = Right /\ r.event = "movement" /\ ~tapped)
Resumed(r) ==
  /\ dragging /\ ~tapped
  /\ ~r.tapped /\ ~r.dragging /\ ~r.armed /\ Bare(r, 0, 0)
  /\ r.event = "dragging" /\ r.buttons = 0
Clicked(r) ==
  /\ ~tapped /\ ~dragging /\ ~Down(button)
  /\ ~r.tapped /\ ~r.dragging /\ r.armed = armed /\ Bare(r, 1, 0)
  /\ r.event = "default" /\ r.buttons = Left
Waits(r) ==
  /\ ~tapped /\ ~dragging /\ ~Down(button) /\ pref.clicking /\ pref.dragging
  /\ r.tapped /\ ~r.dragging /\ Bare(r, 1, 0)
  /\ r.event = "default" /\ r.buttons = 0
Doubled(r) ==
  /\ ~tapped /\ ~dragging /\ Down(button)
  /\ ~r.tapped /\ ~r.dragging /\ r.armed = armed /\ Bare(r, 1, 1)
  /\ r.event = "default" /\ r.buttons = Left
Held(r) ==
  /\ ~tapped /\ Down(button)
  /\ ~r.tapped /\ r.dragging /\ Bare(r, 0, 0)
  /\ r.event = "default" /\ r.buttons = 0
Begun(r) ==
  /\ tapped /\ ~Down(button)
  /\ ~r.tapped /\ ~r.dragging /\ ~r.armed /\ Bare(r, 0, 0)
  /\ r.event = "dragging" /\ r.buttons = 0

Staged(r) ==
  \/ Kept(r) \/ Resumed(r) \/ Clicked(r) \/ Waits(r) \/ Doubled(r) \/ Held(r)

SinceOk == since \in Nat

LEMMA ResultKept ==
  ASSUME StateTypes, NEW kind \in Kinds \cup {event, "edge scrolling"}, NEW time \in Nat
  PROVE  Kept(Result(kind, time, 0)) /\ Result(kind, time, 0) \in Outcome
<1>1. Kept(Result(kind, time, 0))
  BY DEF Result, Kept, Bare, Kinds
<1>2. Result(kind, time, 0) \in Outcome
  BY RangeFacts DEF Result, Outcome, StateTypes, EventKinds, Kinds, Ranges
<1> QED
  BY <1>1, <1>2

LEMMA EndStaged ==
  ASSUME StateTypes, SinceOk, TouchInv, Owing, NEW p \in Packets, ~Disturbs(p), event # "default"
  PROVE  Staged(EndOfStream(p))
<1>1. ~disturbed /\ p.buttons = 0 /\ ~Merges(p)
  BY DEF Disturbs
<1>2. SettleTap \in Nat /\ SettleLong \in Nat
  BY RangeFacts DEF Ranges
<1>3. CASE event = "movement"
  <2> DEFINE r == Result("default", SettleTap, p.buttons)
  <2>1. Kept(r) /\ r \in Outcome /\ r.event = "default" /\ r.buttons = 0
    BY <1>1, <1>2, ResultKept DEF Result, Kinds
  <2>2. Tapping(p) => ~dragging /\ ~tapped /\ ~Down(button)
    <3> SUFFICES ASSUME Tapping(p) PROVE ~dragging /\ ~tapped /\ ~Down(button)
      OBVIOUS
    <3>1. ~dragging
      BY <1>1, <1>3 DEF Merges
    <3>2. ~tapped
      <4>1. streamdt = ClickDelay => Elapsed = ClickDelay
        BY DelayFacts DEF SinceOk, Delays, Elapsed, Cap
      <4>2. ~(Elapsed = ClickDelay)
        BY DelayFacts DEF Tapping, Delays
      <4> QED
        BY <1>1, <1>3, <4>1, <4>2 DEF Owing
    <3> QED
      BY <1>1, <1>3, <3>1, <3>2 DEF Owing
  <2> HIDE DEF r
  <2>3. EndOfStream(p) =
          CASE pref.clicking /\ Tapping(p) /\ ~pref.dragging -> [r EXCEPT !.buttons = Left, !.taps = 1]
            [] pref.clicking /\ Tapping(p) /\ pref.dragging /\ dragLocked -> [r EXCEPT !.dragLocked = FALSE]
            [] pref.clicking /\ Tapping(p) /\ pref.dragging /\ ~dragLocked ->
                 [Arm(r, ClickDelay) EXCEPT !.tapped = TRUE, !.taps = 1]
            [] ~(pref.clicking /\ Tapping(p)) -> r
    BY <1>3 DEF EndOfStream, EndMovement, r
  <2>4. \/ EndOfStream(p) = r
        \/ Tapping(p) /\ EndOfStream(p) = [r EXCEPT !.buttons = Left, !.taps = 1]
        \/ EndOfStream(p) = [r EXCEPT !.dragLocked = FALSE]
        \/ /\ Tapping(p) /\ pref.clicking /\ pref.dragging
           /\ EndOfStream(p) = [Arm(r, ClickDelay) EXCEPT !.tapped = TRUE, !.taps = 1]
    BY <2>3
  <2>5. CASE EndOfStream(p) = r
    BY <2>1, <2>5 DEF Staged
  <2>6. CASE Tapping(p) /\ EndOfStream(p) = [r EXCEPT !.buttons = Left, !.taps = 1]
    <3>1. Clicked(EndOfStream(p))
      BY <2>1, <2>2, <2>6 DEF Outcome, Kept, Clicked, Bare
    <3> QED
      BY <3>1 DEF Staged
  <2>7. CASE EndOfStream(p) = [r EXCEPT !.dragLocked = FALSE]
    <3>1. Kept(EndOfStream(p))
      BY <2>1, <2>7 DEF Outcome, Kept, Bare
    <3> QED
      BY <3>1 DEF Staged
  <2>8. CASE /\ Tapping(p) /\ pref.clicking /\ pref.dragging
             /\ EndOfStream(p) = [Arm(r, ClickDelay) EXCEPT !.tapped = TRUE, !.taps = 1]
    <3>1. Waits(EndOfStream(p))
      BY <2>1, <2>2, <2>8 DEF Outcome, Kept, Waits, Bare, Arm
    <3> QED
      BY <3>1 DEF Staged
  <2> QED
    BY <2>4, <2>5, <2>6, <2>7, <2>8
<1>4. CASE event = "dragging"
  <2> DEFINE r == Result("default", SettleLong, p.buttons)
  <2>1. Kept(r) /\ r \in Outcome /\ r.event = "default" /\ r.buttons = 0
    BY <1>1, <1>2, ResultKept DEF Result, Kinds
  <2>2. ~tapped /\ ~dragging /\ Down(button)
    BY <1>1, <1>4 DEF TouchInv, Sound, Owing
  <2> HIDE DEF r
  <2>3. EndOfStream(p) \in
          {[r EXCEPT !.dragLocked = FALSE],
           [r EXCEPT !.clicks = 1, !.buttons = Left, !.tapped = FALSE, !.taps = 1], HoldDrag(r)}
    BY <1>4 DEF EndOfStream, EndDrag, r, StateTypes
  <2>4. CASE EndOfStream(p) = [r EXCEPT !.dragLocked = FALSE]
    <3>1. Kept(EndOfStream(p))
      BY <2>1, <2>4 DEF Outcome, Kept, Bare
    <3> QED
      BY <3>1 DEF Staged
  <2>5. CASE EndOfStream(p) = [r EXCEPT !.clicks = 1, !.buttons = Left, !.tapped = FALSE, !.taps = 1]
    <3>1. Doubled(EndOfStream(p))
      BY <2>1, <2>2, <2>5 DEF Outcome, Kept, Doubled, Bare
    <3> QED
      BY <3>1 DEF Staged
  <2>6. CASE EndOfStream(p) = HoldDrag(r)
    <3>1. Held(EndOfStream(p))
      BY <2>1, <2>2, <2>6 DEF Outcome, Kept, Held, Bare, HoldDrag, Arm
    <3> QED
      BY <3>1 DEF Staged
  <2> QED
    BY <2>3, <2>4, <2>5, <2>6
<1>5. CASE event = "scrolling"
  <2>1. CASE pref.clicking /\ pref.secondaryClick /\ Tapping(p)
    <3>1. PICK time : EndOfStream(p) = Result("movement", time, Right) /\ ~tapped
      BY <1>1, <1>5, <2>1 DEF EndOfStream, EndScroll, Merges
    <3>2. Kept(Result("movement", time, Right))
      BY <3>1 DEF Result, Kept, Bare
    <3> QED
      BY <3>1, <3>2 DEF Staged
  <2>2. CASE ~(pref.clicking /\ pref.secondaryClick /\ Tapping(p))
    <3>1. PICK time \in Nat : EndOfStream(p) = Result("scrolling", time, 0)
      BY <1>1, <1>2, <1>5, <2>2 DEF EndOfStream, EndScroll
    <3> QED
      BY <3>1, ResultKept DEF Staged, Kinds
  <2> QED
    BY <2>1, <2>2
<1>6. CASE event \in {"swipe", "edge scrolling"}
  BY <1>1, <1>2, <1>6, ResultKept DEF EndOfStream, EndOther, Staged, Kinds
<1> QED
  BY <1>3, <1>4, <1>5, <1>6 DEF EventKinds, StateTypes

LEMMA SettledStaged ==
  ASSUME StateTypes, SinceOk, TouchInv, Owing, NEW p \in Packets, ~Disturbs(p)
  PROVE  Staged(Settled(p))
<1> DEFINE kind == AtEdge(p, Selected(p))
<1>1. kind \in Kinds \cup {event, "edge scrolling"}
  BY SelectedKind
<1>2. Settled(p) = CASE settle > 0 -> Result(kind, settle - 1, p.buttons)
                     [] settle = 0 /\ event = "default" -> NewStream(p, kind)
                     [] settle = 0 /\ event # "default" /\ kind = "default" -> EndOfStream(p)
                     [] OTHER -> Result(kind, IF kind = "scrolling" THEN 0 ELSE SettleLong, p.buttons)
  BY DEF Settled
<1>3. NewStream(p, kind) =
        IF dragging
        THEN [Cancel([Result(kind, SettleNew, p.buttons) EXCEPT !.streamdt = 0])
                EXCEPT !.dragging = FALSE, !.event = "dragging"]
        ELSE [Result(kind, SettleNew, p.buttons) EXCEPT !.streamdt = 0]
  BY DEF NewStream
<1> HIDE DEF kind
<1>4. p.buttons = 0 /\ ~disturbed
  BY DEF Disturbs
<1>5. \A time \in Nat : Kept(Result(kind, time, 0)) /\ Result(kind, time, 0) \in Outcome
  BY <1>1, ResultKept
<1>6. (settle > 0 \/ settle = 0) /\ (settle > 0 => settle - 1 \in Nat /\ settle # 0)
  BY DEF StateTypes
<1>7. CASE settle > 0
  <2>1. Settled(p) = Result(kind, settle - 1, 0)
    BY <1>2, <1>4, <1>7
  <2> QED
    BY <1>5, <1>6, <1>7, <2>1 DEF Staged
<1>8. CASE settle = 0 /\ event = "default"
  <2>1. Settled(p) = NewStream(p, kind)
    BY <1>2, <1>8
  <2> DEFINE r == Result(kind, SettleNew, p.buttons)
  <2>2. Kept(r) /\ r \in Outcome
    BY <1>4, <1>5, RangeFacts DEF Ranges
  <2>3. NewStream(p, kind) = IF dragging
          THEN [Cancel([r EXCEPT !.streamdt = 0]) EXCEPT !.dragging = FALSE, !.event = "dragging"]
          ELSE [r EXCEPT !.streamdt = 0]
    BY <1>3
  <2>4. r.buttons = 0
    BY <1>4 DEF Result
  <2> HIDE DEF r
  <2>5. CASE dragging
    <3>1. ~tapped
      BY <1>4, <2>5 DEF TouchInv, Sound
    <3>2. Resumed(NewStream(p, kind))
      BY <2>2, <2>3, <2>4, <2>5, <3>1 DEF Resumed, Kept, Bare, Cancel, Outcome
    <3> QED
      BY <2>1, <3>2 DEF Staged
  <2>6. CASE ~dragging
    <3>1. Kept(NewStream(p, kind))
      BY <2>2, <2>3, <2>6 DEF Kept, Bare, Outcome
    <3> QED
      BY <2>1, <3>1 DEF Staged
  <2> QED
    BY <2>5, <2>6
<1>9. CASE settle = 0 /\ event # "default" /\ kind = "default"
  <2>1. Settled(p) = EndOfStream(p)
    BY <1>2, <1>9
  <2> QED
    BY <1>9, <2>1, EndStaged
<1>10. CASE settle = 0 /\ event # "default" /\ kind # "default"
  <2>1. \E time \in Nat : Settled(p) = Result(kind, time, 0)
    BY <1>2, <1>4, <1>10, RangeFacts DEF Ranges
  <2> QED
    BY <1>5, <2>1 DEF Staged
<1> QED
  BY <1>6, <1>7, <1>8, <1>9, <1>10

(* Before the buttons of a drag are set: a tap that is still remembered    *)
(* when the finger moves is too old to begin a drag.                       *)
Ready(b) ==
  /\ b \in Outcome
  /\ Staged(b) \/ Begun(b)
  /\ b.tapped /\ b.event = "movement" => b.streamdt = ClickDelay

LEMMA BeginStaged ==
  ASSUME Owing, ~disturbed, NEW r \in Outcome, Staged(r), BeginDrag(r) \in Outcome
  PROVE  Ready(BeginDrag(r))
<1>1. r.tapped /\ r.event = "movement" => /\ Kept(r) /\ tapped /\ ~Down(button) /\ r.buttons = 0
                                          /\ pref.clicking /\ pref.dragging
  BY DEF Owing, Staged, Kept, Resumed, Clicked, Waits, Doubled, Held
<1>2. CASE r.tapped /\ r.event = "movement" /\ r.streamdt < ClickDelay
  <2>1. BeginDrag(r) = [Cancel(r) EXCEPT !.event = "dragging", !.tapped = FALSE, !.dragging = FALSE,
                                         !.dragLocked = (r.dragLocked \/ pref.dragLock)]
    BY <1>1, <1>2 DEF BeginDrag
  <2>2. Begun(BeginDrag(r))
    BY <1>1, <1>2, <2>1 DEF Begun, Kept, Bare, Cancel, Outcome
  <2>3. BeginDrag(r).event = "dragging"
    BY <2>2 DEF Begun
  <2> QED
    BY <2>2, <2>3 DEF Ready
<1>3. CASE ~(r.tapped /\ r.event = "movement" /\ r.streamdt < ClickDelay)
  <2>1. BeginDrag(r) = r
    BY <1>3 DEF BeginDrag
  <2>2. r.streamdt \in 0 .. ClickDelay
    BY DEF Outcome, StreamTimes
  <2>3. ~(r.streamdt < ClickDelay) => r.streamdt = ClickDelay
    BY <2>2, DelayFacts DEF Delays
  <2> QED
    BY <1>3, <2>1, <2>3 DEF Ready
<1> QED
  BY <1>2, <1>3

LEMMA HandledReady ==
  ASSUME StateTypes, SinceOk, TouchInv, Owing, NEW p \in Packets, ~Disturbs(p)
  PROVE  \E b : Ready(b) /\ Handled(p) = ButtonEndsDrag(b)
<1> DEFINE s == Settled(p)
           b == IF Selected(p) # event \/ settle > 0 THEN BeginDrag(s)
                ELSE Result(event, settle, p.buttons)
<1>1. s \in Outcome /\ Staged(s)
  BY SettledSound, SettledStaged
<1>2. ~disturbed /\ p.buttons = 0
  BY DEF Disturbs
<1>3. Handled(p) = ButtonEndsDrag(b)
  BY DEF Handled, s
<1> HIDE DEF s
<1>4. BeginDrag(s) \in Outcome
  BY <1>1, RangeFacts DEF Ranges, Outcome, BeginDrag, Cancel, EventKinds
<1>5. Ready(BeginDrag(s))
  BY <1>1, <1>2, <1>4, BeginStaged
<1>6. Ready(Result(event, settle, 0))
  <2> DEFINE r == Result(event, settle, 0)
  <2>1. Kept(r) /\ r \in Outcome
    BY ResultKept DEF StateTypes
  <2>2. r.event = event /\ r.streamdt = Elapsed /\ r.tapped = tapped
    BY DEF Result
  <2>3. streamdt = ClickDelay => Elapsed = ClickDelay
    BY DelayFacts DEF SinceOk, Delays, Elapsed, Cap
  <2> HIDE DEF r
  <2>4. r.tapped /\ r.event = "movement" => r.streamdt = ClickDelay
    BY <1>2, <2>2, <2>3 DEF Owing
  <2>5. Ready(r)
    BY <2>1, <2>4 DEF Ready, Staged
  <2> QED
    BY <2>5 DEF r
<1>7. Ready(b)
  BY <1>2, <1>5, <1>6
<1> HIDE DEF b
<1> QED
  BY <1>3, <1>7

(* The buttons of a packet nobody presses: a drag that goes on presses.    *)
LEMMA DragPresses ==
  ASSUME TypeOK, NEW b, Ready(b)
  PROVE  LET r == ButtonEndsDrag(b)
         IN  /\ r = IF b.event = "dragging" THEN [b EXCEPT !.buttons = Left] ELSE b
             /\ Reported(r) \in 0 .. 3
             /\ b.event \in {"scrolling", "edge scrolling"} => Reported(r) = button
             /\ b.event = "dragging" => Down(Reported(r))
             /\ b.event \in {"default", "movement", "swipe"} =>
                  (Down(Reported(r)) <=> Down(b.buttons) \/ b.dragging)
<1> DEFINE r == ButtonEndsDrag(b)
<1>1. b \in Outcome /\ (b.event = "dragging" => b.buttons = 0)
  BY DEF Ready, Staged, Kept, Resumed, Clicked, Waits, Doubled, Held, Begun
<1>2. r = IF b.event = "dragging" THEN [b EXCEPT !.buttons = Left] ELSE b
  BY <1>1 DEF ButtonEndsDrag
<1> HIDE DEF r
<1>3. r \in Outcome /\ r.event = b.event /\ r.dragging = b.dragging
      /\ (b.event = "dragging" => r.buttons = Left)
      /\ (b.event # "dragging" => r.buttons = b.buttons)
  BY <1>1, <1>2, RangeFacts DEF Outcome, Ranges
<1>4. r.buttons \in Pressable /\ r.dragging \in BOOLEAN
  BY <1>3 DEF Outcome
<1>5. Down(WithHeld(r.buttons, r.dragging)) <=> Down(r.buttons) \/ r.dragging
  BY <1>4, DownFacts
<1>6. Reported(r) \in 0 .. 3
  BY <1>3, ReportedType
<1>7. r.event \in {"scrolling", "edge scrolling"} => Reported(r) = button
  BY DEF Reported
<1>8. r.event \notin {"scrolling", "edge scrolling"} =>
        (Down(Reported(r)) <=> Down(r.buttons) \/ r.dragging)
  BY <1>5 DEF Reported
<1>9. b.event = "dragging" => Down(Reported(r))
  BY <1>3, <1>8, DownFacts
<1> QED
  BY <1>2, <1>3, <1>6, <1>7, <1>8, <1>9 DEF r

(* What a packet makes of Owing, in terms of its outcome before the        *)
(* buttons of a drag are set (b), of the buttons reported and of the       *)
(* presses among them.                                                     *)
PressesOf(b, reported) ==
  Presses(IF b.clicks = 1 THEN 0 ELSE button, reported)
    + (IF b.clicks = 1 THEN Presses(button, Left) ELSE 0)
Balanced(b, reported) == owed + b.taps - PressesOf(b, reported) = Debt(b.tapped)
Accounts(b, reported) ==
  /\ Balanced(b, reported)
  /\ b.armed => b.tapped \/ b.dragging
  /\ b.tapped => /\ ~Down(reported) /\ pref.clicking /\ pref.dragging
  /\ b.dragging => Down(reported) /\ b.event # "dragging"
  /\ b.event = "movement" /\ ~b.dragging => ~Down(reported)

LEMMA PressesCounted ==
  ASSUME TypeOK, NEW b, NEW reported \in 0 .. 3
  PROVE  /\ b.clicks = 0 => PressesOf(b, reported) = IF Down(reported) /\ ~Down(button) THEN 1 ELSE 0
         /\ b.clicks = 1 /\ Down(button) => PressesOf(b, reported) = IF Down(reported) THEN 1 ELSE 0
<1>1. button \in 0 .. 3 /\ 0 \in 0 .. 3 /\ Left \in 0 .. 3
  BY DEF TypeOK, Left
<1>2. \A from, to \in 0 .. 3 : Presses(from, to) = IF Down(to) /\ ~Down(from) THEN 1 ELSE 0
  BY DownFacts
<1>3. Presses(button, reported) = IF Down(reported) /\ ~Down(button) THEN 1 ELSE 0
  BY <1>1, <1>2
<1>4. Presses(0, reported) = IF Down(reported) THEN 1 ELSE 0
  BY <1>1, <1>2, DownFacts
<1>5. Down(button) => Presses(button, Left) = 0
  BY <1>1, <1>2
<1> QED
  BY <1>3, <1>4, <1>5 DEF PressesOf

LEMMA BalancedAccounts ==
  ASSUME TypeOK, TouchInv, Owing, ~disturbed, NEW b, Ready(b)
  PROVE  Accounts(b, Reported(ButtonEndsDrag(b)))
<1> DEFINE reported == Reported(ButtonEndsDrag(b))
<1> SUFFICES Accounts(b, reported)
  OBVIOUS
<1>1. /\ reported \in 0 .. 3
      /\ b.event \in {"scrolling", "edge scrolling"} => reported = button
      /\ b.event = "dragging" => Down(reported)
      /\ b.event \in {"default", "movement", "swipe"} => (Down(reported) <=> Down(b.buttons) \/ b.dragging)
  BY DragPresses
<1> HIDE DEF reported
<1>2. /\ b.clicks = 0 => PressesOf(b, reported) = IF Down(reported) /\ ~Down(button) THEN 1 ELSE 0
      /\ b.clicks = 1 /\ Down(button) => PressesOf(b, reported) = IF Down(reported) THEN 1 ELSE 0
  BY <1>1, PressesCounted
<1>3. b.event \in EventKinds
  BY DEF Ready, Outcome
<1>4. owed = Debt(tapped) /\ Debt(TRUE) = 1 /\ Debt(FALSE) = 0
      /\ Debt(tapped) \in Int /\ tapped \in BOOLEAN
  BY DEF Owing, Debt, TypeOK
<1>5. ~Down(0) /\ Down(Left) /\ ~Down(Right)
  BY DownFacts
<1>6. CASE Kept(b)
  <2>1. (tapped => ~dragging /\ ~Down(button) /\ pref.clicking /\ pref.dragging) /\ (dragging => Down(button))
        /\ (dragging => event # "dragging") /\ (event = "dragging" => Down(button))
        /\ (armed => tapped \/ dragging)
    BY DEF Owing, TouchInv, Sound
  <2>2. b.tapped = tapped /\ b.dragging = dragging /\ b.armed = armed /\ b.taps = 0 /\ b.clicks = 0
        /\ (b.event = "dragging" => event = "dragging") /\ ~Down(b.buttons)
    BY <1>5, <1>6 DEF Kept, Bare
  <2>3. Down(reported) => Down(button)
    BY <1>1, <1>3, <2>1, <2>2 DEF EventKinds
  <2>4. PressesOf(b, reported) = 0
    BY <1>2, <2>2, <2>3
  <2>5. Balanced(b, reported)
    BY <1>4, <2>2, <2>4 DEF Balanced
  <2>6. tapped => ~Down(reported)
    BY <1>1, <1>3, <2>1, <2>3
  <2>7. dragging => Down(reported)
    BY <1>1, <1>3, <2>1, <2>2 DEF EventKinds
  <2> QED
    BY <1>1, <2>1, <2>2, <2>5, <2>6, <2>7 DEF Accounts
<1>7. CASE Resumed(b)
  <2>1. Down(button) /\ Down(reported)
    BY <1>1, <1>7 DEF Owing, Resumed
  <2>2. PressesOf(b, reported) = 0
    BY <1>2, <1>7, <2>1 DEF Resumed, Bare
  <2>3. Balanced(b, reported)
    BY <1>4, <1>7, <2>2 DEF Resumed, Bare, Debt, Balanced
  <2> QED
    BY <1>7, <2>3 DEF Resumed, Accounts
<1>8. CASE Clicked(b)
  <2>1. ~Down(button) /\ Down(reported) /\ ~armed
    BY <1>1, <1>5, <1>8 DEF Owing, Clicked
  <2>2. PressesOf(b, reported) = 1
    BY <1>2, <1>8, <2>1 DEF Clicked, Bare
  <2>3. Balanced(b, reported)
    BY <1>4, <1>8, <2>2 DEF Clicked, Bare, Debt, Balanced
  <2> QED
    BY <1>8, <2>1, <2>3 DEF Clicked, Accounts
<1>9. CASE Waits(b)
  <2>1. ~Down(reported)
    BY <1>1, <1>5, <1>9 DEF Waits
  <2>2. PressesOf(b, reported) = 0
    BY <1>2, <1>9, <2>1 DEF Waits, Bare
  <2>3. Balanced(b, reported)
    BY <1>4, <1>9, <2>2 DEF Waits, Bare, Debt, Balanced
  <2> QED
    BY <1>9, <2>1, <2>3 DEF Waits, Accounts
<1>10. CASE Doubled(b)
  <2>1. Down(button) /\ Down(reported) /\ ~armed
    BY <1>1, <1>5, <1>10 DEF Owing, Doubled
  <2>2. PressesOf(b, reported) = 1
    BY <1>2, <1>10, <2>1 DEF Doubled, Bare
  <2>3. Balanced(b, reported)
    BY <1>4, <1>10, <2>2 DEF Doubled, Bare, Debt, Balanced
  <2> QED
    BY <1>10, <2>1, <2>3 DEF Doubled, Accounts
<1>11. CASE Held(b)
  <2>1. Down(button) /\ Down(reported)
    BY <1>1, <1>11 DEF Held
  <2>2. PressesOf(b, reported) = 0
    BY <1>2, <1>11, <2>1 DEF Held, Bare
  <2>3. Balanced(b, reported)
    BY <1>4, <1>11, <2>2 DEF Held, Bare, Debt, Balanced
  <2> QED
    BY <1>11, <2>1, <2>3 DEF Held, Accounts
<1>12. CASE Begun(b)
  <2>1. ~Down(button) /\ Down(reported)
    BY <1>1, <1>12 DEF Begun
  <2>2. PressesOf(b, reported) = 1
    BY <1>2, <1>12, <2>1 DEF Begun, Bare
  <2>3. Balanced(b, reported)
    BY <1>4, <1>12, <2>2 DEF Begun, Bare, Debt, Balanced
  <2> QED
    BY <1>12, <2>3 DEF Begun, Accounts
<1> QED
  BY <1>6, <1>7, <1>8, <1>9, <1>10, <1>11, <1>12 DEF Ready, Staged

LEMMA PacketOwing ==
  ASSUME TypeOK, TouchInv, Owing, NEW p \in Packets, Packet(p)
  PROVE  Owing'
<1>1. CASE disturbed'
  BY <1>1 DEF Owing
<1>2. CASE ~disturbed'
  <2>1. ~Disturbs(p) /\ ~disturbed
    BY <1>2 DEF Packet, Disturbs
  <2>2. StateTypes /\ SinceOk
    BY StateTyped DEF TypeOK, SinceOk, Pause
  <2>3. PICK b : Ready(b) /\ Handled(p) = ButtonEndsDrag(b)
    BY <2>1, <2>2, HandledReady
  <2> DEFINE reported == Reported(ButtonEndsDrag(b))
             r == Handled(p)
  <2>4. reported \in 0 .. 3 /\ Accounts(b, reported)
    BY <2>1, <2>3, DragPresses, BalancedAccounts
  <2>5. r = IF b.event = "dragging" THEN [b EXCEPT !.buttons = Left] ELSE b
    BY <2>3, DragPresses
  <2>6. button' = reported /\ pref' = pref
        /\ event' = r.event /\ tapped' = r.tapped /\ dragging' = r.dragging
        /\ streamdt' = r.streamdt /\ armed' = r.armed
    BY <2>3 DEF Packet
  <2>7. owed' = owed + r.taps - Presses(IF r.clicks = 1 THEN 0 ELSE button, button')
                  - (IF r.clicks = 1 THEN Presses(button, Left) ELSE 0)
    BY <1>2 DEF Packet
  <2> HIDE DEF r, reported
  <2>8. r.event = b.event /\ r.tapped = b.tapped /\ r.dragging = b.dragging /\ r.streamdt = b.streamdt
        /\ r.armed = b.armed /\ r.taps = b.taps /\ r.clicks = b.clicks
    BY <2>3, <2>5 DEF Ready, Outcome
  <2>9. owed' = owed + b.taps - PressesOf(b, reported)
    <3> DEFINE first == Presses(IF b.clicks = 1 THEN 0 ELSE button, reported)
               second == IF b.clicks = 1 THEN Presses(button, Left) ELSE 0
    <3>1. first \in Int /\ second \in Int /\ b.taps \in Int
      BY <2>3, PressesType DEF Ready, Outcome
    <3>2. owed' = owed + b.taps - first - second
      BY <2>6, <2>7, <2>8
    <3>3. PressesOf(b, reported) = first + second
      BY DEF PressesOf
    <3> HIDE DEF first, second
    <3> QED
      BY <3>1, <3>2, <3>3 DEF TypeOK
  <2>10. owed' = Debt(tapped')
    BY <2>4, <2>6, <2>8, <2>9 DEF Accounts, Balanced
  <2>11. tapped' /\ event' = "movement" => streamdt' = ClickDelay
    BY <2>3, <2>6, <2>8 DEF Ready
  <2>12. event' = "dragging" => Down(button')
    BY <2>3, <2>6, <2>8, DragPresses DEF reported
  <2> QED
    BY <2>4, <2>6, <2>8, <2>10, <2>11, <2>12 DEF Accounts, Owing
<1> QED
  BY <1>1, <1>2

(* The timer sends the click of the tap that waits, or lets go of a drag.  *)
LEMMA TimeoutOwing ==
  ASSUME TypeOK, TouchInv, Owing, DraggingTimeout
  PROVE  Owing'
<1>1. CASE disturbed
  BY <1>1 DEF Owing, DraggingTimeout, interferenceVars
<1>2. CASE ~disturbed
  <2>1. button \in 0 .. 3 /\ Left \in 0 .. 3 /\ tapped \in BOOLEAN
    BY DEF TypeOK, Left
  <2>2. Presses(button, Left) = IF Down(button) THEN 0 ELSE 1
    BY <2>1, DownFacts
  <2>3. (tapped => ~Down(button)) /\ (~tapped => Down(button)) /\ owed = Debt(tapped)
    BY <1>2 DEF Owing, DraggingTimeout
  <2>4. owed' = owed - Presses(button, Left)
    BY <1>2 DEF DraggingTimeout
  <2>5. owed' = 0
    BY <2>1, <2>2, <2>3, <2>4 DEF Debt
  <2>6. ~tapped' /\ ~dragging' /\ ~armed' /\ button' = 0 /\ event' = "movement"
    BY DEF DraggingTimeout
  <2> QED
    BY <2>5, <2>6, DownFacts DEF Owing, Debt
<1> QED
  BY <1>1, <1>2

(* A touchpad that has been disabled has been disturbed.                   *)
OffDisturbed == ~on => disturbed

LEMMA OwingStep ==
  TypeOK /\ TouchInv /\ Owing /\ OffDisturbed /\ [Next]_vars => Owing' /\ OffDisturbed'
<1> SUFFICES ASSUME TypeOK, TouchInv, Owing, OffDisturbed, [Next]_vars PROVE Owing' /\ OffDisturbed'
  OBVIOUS
<1>1. CASE IdlePacket \/ TouchPacket
  <2>1. PICK p \in Packets : Packet(p)
    BY <1>1 DEF IdlePacket, TouchPacket
  <2>2. Owing'
    BY <2>1, PacketOwing
  <2> QED
    BY <2>1, <2>2 DEF Packet, OffDisturbed
<1>2. CASE DraggingTimeout
  <2>1. Owing'
    BY <1>2, TimeoutOwing
  <2> QED
    BY <1>2, <2>1 DEF DraggingTimeout, OffDisturbed, interferenceVars
<1>3. CASE SetParamProperties \/ DisableDevice
  BY <1>3 DEF SetParamProperties, DisableDevice, Interfere, Owing, OffDisturbed
<1>4. CASE EnableDevice
  <2>1. disturbed'
    BY <1>4 DEF EnableDevice, Interfere, OffDisturbed, interferenceVars
  <2> QED
    BY <2>1 DEF Owing, OffDisturbed
<1>5. CASE Tick
  BY <1>5 DEF Tick, Owing, OffDisturbed, dragVars, reportVars, interferenceVars
<1>6. CASE IgnoredPacket \/ UNCHANGED vars
  BY <1>6 DEF IgnoredPacket, vars, Owing, OffDisturbed, dragVars, streamVars, timerVars, reportVars, interferenceVars
<1> QED
  BY <1>1, <1>2, <1>3, <1>4, <1>5, <1>6 DEF Next

(* Every tap the driver recognises is one press of the button, neither     *)
(* swallowed nor doubled by the timer, the drag or the double click        *)
(* (dispatchRelativePointerEventWithAbsolutePacket, draggingTimeout).      *)
THEOREM TapsPaid == Spec => []PressPerTap
<1>1. Init => Owing /\ OffDisturbed
  BY DownFacts DEF Init, Owing, OffDisturbed, Debt
<1>2. Owing => PressPerTap
  BY DEF Owing, PressPerTap, AtRest, Debt
<1> QED
  BY <1>1, <1>2, TouchInit, TouchStep, OwingStep, PTL DEF Spec
=============================================================================
