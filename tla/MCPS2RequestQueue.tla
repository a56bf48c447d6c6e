-------------------------- MODULE MCPS2RequestQueue --------------------------
(* Instances of PS2RequestQueue for TLC. *)
EXTENDS PS2RequestQueue, TLC

(* Requests are interchangeable, and so are clients: no action orders them. *)
Symmetry == Permutations(Requests) \cup Permutations(Clients)
=============================================================================
