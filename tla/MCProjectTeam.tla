-------------------------- MODULE MCProjectTeam --------------------------
(* ProjectTeam with named people and sessions. *)
EXTENDS ProjectTeam, FiniteSets, TLC

CONSTANTS anu, ravi, rao, nobody, m1, m2, i1, i2

MCInvited == <<anu, rao>>
Symmetry == Permutations(Managers) \cup Permutations(Invitees)

(* At most two requests are under way at once; from the first task on they  *)
(* are about tasks, of a team whose answers did not overlap. *)
FewAtOnce ==
    /\ Cardinality({s \in Sessions : session[s] # Idle}) <= 2
    /\ tasks # << >> => /\ contested = {}
                        /\ \A s \in Sessions : session[s].op \in {"none", "assign", "grade"}
=============================================================================
