-------------------------- MODULE PS2CommandRegister --------------------------
(***************************************************************************)
(* What setCommandByte promises: the command byte of the 8042 as a shared  *)
(* register that each driver updates atomically.                           *)
(***************************************************************************)
CONSTANTS
  Drivers,  (* the callers of setCommandByte                                *)
  Bits,     (* the bits of the command byte; a byte is the set of its ones *)
  Update,   (* a call: the bits to set and the bits to clear                *)
  NoUpdate, (* no call in progress                                          *)
  Initial   (* the command bytes that ApplePS2Controller::start may leave   *)

VARIABLES
  commandByte, (* the register                                              *)
  update       (* the call each driver is in                                *)

Apply(byte, u) == (byte \cup u.set) \ u.clear

RegisterInit ==
  /\ commandByte \in Initial
  /\ update = [d \in Drivers |-> NoUpdate]

Call(d) ==
  /\ update[d] = NoUpdate
  /\ \E u \in Update : update' = [update EXCEPT ![d] = u]
  /\ UNCHANGED commandByte

Commit(d) ==
  /\ update[d] # NoUpdate
  /\ commandByte' = Apply(commandByte, update[d])
  /\ update' = [update EXCEPT ![d] = NoUpdate]

RegisterNext == \E d \in Drivers : Call(d) \/ Commit(d)

RegisterSpec == RegisterInit /\ [][RegisterNext]_<<commandByte, update>>
=============================================================================
