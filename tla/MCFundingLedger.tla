-------------------------- MODULE MCFundingLedger --------------------------
(* FundingLedger with named lines and requests. *)
EXTENDS FundingLedger, TLC

CONSTANTS linked, free, r1, r2

Symmetry == Permutations(Sessions)
=============================================================================
