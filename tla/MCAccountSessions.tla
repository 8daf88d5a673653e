------------------------- MODULE MCAccountSessions -------------------------
(* Two devices of one account and two requests that reset its password. *)
EXTENDS AccountSessions, FiniteSets, TLC

CONSTANTS d1, d2, r1, r2

MCDevices == {d1, d2}
MCResetters == {r1, r2}
MCSessions == {d1, d2, r1, r2}
MCSymmetry == Permutations(MCDevices) \cup Permutations(MCResetters)

(* At most two requests are under way at once. *)
FewAtOnce == Cardinality({s \in Sessions : session[s] # Idle}) <= 2
=============================================================================
