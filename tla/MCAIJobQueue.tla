---------------------------- MODULE MCAIJobQueue ----------------------------
(* AIJobQueue with a reporter of the first job. *)
EXTENDS AIJobQueue, TLC

CONSTANTS w1, w2, reporter, admin, officer

MCJobOf == reporter :> 1
NoJobOf == << >>
Symmetry == Permutations(Workers)
=============================================================================
