--------------------------- MODULE MCPS2CommandByte ---------------------------
(* Instances of PS2CommandByte for TLC: two drivers, each with the call its *)
(* start and its stop make.                                                 *)
EXTENDS PS2CommandByte

MCUpdate == {[set |-> {"keyboard IRQ"}, clear |-> {"keyboard clock off"}],
             [set |-> {"mouse IRQ"}, clear |-> {"mouse clock off"}],
             [set |-> {"mouse clock off"}, clear |-> {"mouse IRQ"}]}
MCInitial == {{"keyboard clock off"}}
MCScanCodes == {{"mouse clock off"}, {"keyboard IRQ", "mouse IRQ"}}
=============================================================================
