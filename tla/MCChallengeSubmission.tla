----------------------- MODULE MCChallengeSubmission -----------------------
(* A draft that is sent three times at once, and an attachment. *)
EXTENDS ChallengeSubmission, TLC

CONSTANTS k1, o1, r1, r2, r3, u1

MCReporters == {r1, r2, r3}
MCSessions == {r1, r2, r3, u1}
MCSymmetry == Permutations(MCReporters)
=============================================================================
