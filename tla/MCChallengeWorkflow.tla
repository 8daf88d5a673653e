------------------------ MODULE MCChallengeWorkflow ------------------------
(* ChallengeWorkflow with an actor of each kind its endpoints distinguish. *)
EXTENDS ChallengeWorkflow

CONSTANTS u1, u2

Actor(role, inside, university) == [role |-> role, inside |-> inside, university |-> university]

StateAdmin == Actor("GOVERNMENT_ADMIN", TRUE, NoUniversity)
DistrictAdmin == Actor("GOVERNMENT_ADMIN", FALSE, NoUniversity)   \* of another district
Officer == Actor("GOVERNMENT_OFFICER", TRUE, NoUniversity)
Citizen == Actor("CITIZEN", TRUE, NoUniversity)

MCActors ==
    {StateAdmin, DistrictAdmin, Officer, Citizen,
     Actor("PRI", TRUE, NoUniversity),
     Actor("UNIVERSITY", TRUE, u1), Actor("UNIVERSITY", TRUE, u2)}
AnyStatus == ChallengeStatus \ {"DEPLOYMENT"}
=============================================================================
