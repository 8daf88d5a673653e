-------------------------- MODULE MCProjectClosure --------------------------
(* ProjectClosure with named lines, parties, officials and sessions. *)
EXTENDS ProjectClosure, TLC

CONSTANTS line, owner, partner, o1, o2, nobody, desk, s1, s2, c1

Symmetry == Permutations(Officials)

Busy(s) == session[s] # Idle

(* A request beside a closure, or two answers at once: the second signer    *)
(* answers beside the first, before there are other records.  The closures  *)
(* of a project found the same. *)
TwoAtOnce ==
    /\ ~(Busy(desk) /\ Busy(s1))
    /\ \A c, d \in closures : c = d
    /\ Busy(s2) => /\ ~Busy(desk) /\ ~Busy(c1)
                   /\ verification = NoVerification /\ metric = NoMetric /\ ~Recorded(line)
=============================================================================
