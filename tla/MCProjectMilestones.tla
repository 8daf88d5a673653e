------------------------ MODULE MCProjectMilestones ------------------------
(* ProjectMilestones with named sessions and a plan of one milestone. *)
EXTENDS ProjectMilestones, FiniteSets, TLC

CONSTANTS p1, p2, w1, w2

Symmetry == Permutations(Planners) \cup Permutations(Workers)
MCPlan == <<Full>>

(* The first milestone, and both together, at the ends of the tolerances. *)
MCNewWeights == {Full - LockTolerance}
MCWeights == {LockTolerance + EditTolerance}

(* At most two requests are under way at once, and once an edition was      *)
(* overtaken they follow one another. *)
FewAtOnce ==
    Cardinality({s \in Sessions : session[s] # Idle}) <= IF overtaken THEN 1 ELSE 2
=============================================================================
