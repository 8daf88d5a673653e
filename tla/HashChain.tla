----------------------------- MODULE HashChain -----------------------------
(***************************************************************************)
(* Rows of table domain_audit_events as a hash chain.  event_hash stands   *)
(* for the content of an event: of two events that were ever given the     *)
(* same number, their writers tell them apart.                             *)
(***************************************************************************)
EXTENDS Naturals

CONSTANT Nobody  \* the author of the hash before the first event

Genesis == [seq |-> 0, by |-> Nobody]
EventHash(event) == [seq |-> event.seq, by |-> event.by]

Numbers(events) == {event.seq : event \in events}

(* order_by(desc(sequence_number)).first(), and the hash it is asked for. *)
LastEvent(events) ==
    CHOOSE event \in events : \A other \in events : other.seq <= event.seq
TailOf(events) == IF events = {} THEN Genesis ELSE EventHash(LastEvent(events))

(* What verify_audit_chain checks, and that the numbers it reports do not   *)
(* repeat: each event holds the hash of the one numbered before it. *)
Unbroken(events) ==
    /\ \A e, f \in events : e.seq = f.seq => e = f
    /\ \A e \in events :
        \/ e.seq = 1 /\ e.prev = Genesis
        \/ \E f \in events : e.seq = f.seq + 1 /\ e.prev = EventHash(f)
=============================================================================
