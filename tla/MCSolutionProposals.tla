------------------------ MODULE MCSolutionProposals ------------------------
(* SolutionProposals with named sessions. *)
EXTENDS SolutionProposals, FiniteSets, TLC

CONSTANTS a1, a2, r1, r2

Symmetry == Permutations(Authors) \cup Permutations(Reviewers)

(* At most two requests are under way at once; where two submissions        *)
(* overlapped nobody reviews from then on, and a third version follows if   *)
(* nobody has reviewed the others. *)
FewAtOnce ==
    /\ Cardinality({s \in Sessions : session[s] # Idle}) <= 2
    /\ overlapped => \A s \in Reviewers : session[s] = Idle
    /\ Len(proposals) > 2 =>
          overlapped /\ \A i \in DOMAIN proposals : proposals[i].status \in {"DRAFT", "SUBMITTED"}
=============================================================================
