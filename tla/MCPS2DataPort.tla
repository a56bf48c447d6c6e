---------------------------- MODULE MCPS2DataPort ----------------------------
(***************************************************************************)
(* Two kinds of circumstances for PS2DataPort: commands to both devices    *)
(* whose answers may come too late, and commands to the keyboard alone     *)
(* whose answers come before the poll counter runs out.                    *)
(***************************************************************************)
EXTENDS PS2DataPort

MCEnvironments ==
  {[reads |-> Devices, late |-> TRUE], [reads |-> {Keyboard}, late |-> FALSE]}
=============================================================================
