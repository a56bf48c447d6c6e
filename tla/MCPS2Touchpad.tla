---------------------------- MODULE MCPS2Touchpad ----------------------------
(* Instances of PS2Touchpad for TLC: taps that click at once, taps that     *)
(* begin drags with two-finger scrolling, the same with the drag lock and   *)
(* edge scrolling.                                                          *)
EXTENDS PS2Touchpad

MCPlain == [clicking |-> TRUE, dragging |-> FALSE, dragLock |-> FALSE,
            secondaryClick |-> TRUE, scrollMode |-> "two finger"]
MCPrefs == {MCPlain, [MCPlain EXCEPT !.dragging = TRUE],
            [MCPlain EXCEPT !.dragging = TRUE, !.dragLock = TRUE, !.scrollMode = "edge"]}
=============================================================================
