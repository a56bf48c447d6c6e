-------------------------- MODULE PS2RequestService --------------------------
(***************************************************************************)
(* What ApplePS2Device.h promises of the controller's request engine: it   *)
(* is a server that takes requests in the order of their submission and    *)
(* executes them one at a time, atomically with respect to each other; a   *)
(* fire-and-forget request is freed when it is done, a request with a      *)
(* caller is handed back and freed by that caller.                         *)
(***************************************************************************)
EXTENDS Sequences

CONSTANTS Requests, (* the request structures            *)
          None      (* no request is being executed      *)

VARIABLES
  pending, (* submitted and not started, in order of submission *)
  active,  (* the request being executed                        *)
  done     (* executed, not yet freed by the caller             *)

svars == <<pending, active, done>>

ServiceInit == pending = <<>> /\ active = None /\ done = {}

Idle(r) == r # active /\ r \notin done /\ \A i \in DOMAIN pending : pending[i] # r

Submit(r) ==
  /\ Idle(r)
  /\ pending' = Append(pending, r)
  /\ UNCHANGED <<active, done>>

Start ==
  /\ active = None /\ pending # <<>>
  /\ active' = Head(pending)
  /\ pending' = Tail(pending)
  /\ UNCHANGED done

(* Executed: freed at once, or handed back to the caller. *)
Finish(r, keep) ==
  /\ active = r
  /\ active' = None
  /\ done' = IF keep THEN done \cup {r} ELSE done
  /\ UNCHANGED pending

(* Refused while the port is offline, in turn and without being executed. *)
Refuse(keep) ==
  /\ active = None /\ pending # <<>>
  /\ pending' = Tail(pending)
  /\ done' = IF keep THEN done \cup {Head(pending)} ELSE done
  /\ UNCHANGED active

Free(r) ==
  /\ r \in done
  /\ done' = done \ {r}
  /\ UNCHANGED <<pending, active>>

(* The service is taken down: what is pending is disposed of. *)
Shutdown == active = None /\ pending' = <<>> /\ UNCHANGED <<active, done>>

ServiceNext ==
  \/ \E r \in Requests : Submit(r) \/ Free(r) \/ \E keep \in BOOLEAN : Finish(r, keep)
  \/ Start
  \/ \E keep \in BOOLEAN : Refuse(keep)
  \/ Shutdown

ServiceSpec == ServiceInit /\ [][ServiceNext]_svars
=============================================================================
