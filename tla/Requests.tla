------------------------------ MODULE Requests ------------------------------
(***************************************************************************)
(* What the requests of the modules that extend this one share: a handler  *)
(* checks the rows it loads, and its commit writes, whatever became of the *)
(* rows in between.  A request that is refused is no step.                 *)
(***************************************************************************)
CONSTANT Sessions
VARIABLE session    \* what each request has still to write

Idle == [op |-> "none"]

NoRequests == session = [s \in Sessions |-> Idle]

Receive(s, request) ==
    /\ session[s] = Idle
    /\ session' = [session EXCEPT ![s] = request]

Finish(s, op) ==
    /\ session[s].op = op
    /\ session' = [session EXCEPT ![s] = Idle]

(* A request ends without committing. *)
RollBack(s) ==
    /\ session[s] # Idle
    /\ session' = [session EXCEPT ![s] = Idle]
=============================================================================
