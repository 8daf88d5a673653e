----------------------------- MODULE AuditTrail -----------------------------
(***************************************************************************)
(* What the domain audit ledger promises: it only grows, each request      *)
(* that changes something adds its events once and all together, after     *)
(* everything that was there, and the chain is unbroken at every moment.   *)
(***************************************************************************)
EXTENDS HashChain

CONSTANT Writers   \* the requests that may append

VARIABLE trail     \* the events, numbered

Init == trail = {}

Append(w) ==
    /\ trail \subseteq trail' /\ trail # trail'
    /\ Unbroken(trail')
    /\ \A event \in trail : event.by # w
    /\ \A new \in trail' \ trail :
        /\ new.by = w
        /\ \A old \in trail : old.seq < new.seq

Next == \E w \in Writers : Append(w)

Spec == Init /\ [][Next]_trail
=============================================================================
