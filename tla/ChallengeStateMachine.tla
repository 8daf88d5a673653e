------------------------ MODULE ChallengeStateMachine ------------------------
(***************************************************************************)
(* The finite state machine of a challenge, as workflow_service.py holds   *)
(* it in ALLOWED_CHALLENGE_TRANSITIONS: which pairs of statuses may follow *)
(* one another and which roles may make the step.  No state of its own.    *)
(***************************************************************************)

Government == {"GOVERNMENT_ADMIN", "GOVERNMENT_OFFICER"}
Submitters == {"CITIZEN", "COMMUNITY_ORG", "PRI", "ULB"}
Institution == {"UNIVERSITY", "FACULTY_MENTOR"}

UserRole ==
    Government \cup Submitters \cup Institution
        \cup {"STUDENT", "INDUSTRY", "RESEARCH_LAB", "INNOVATION_HUB"}

ChallengeStatus ==
    {"SUBMITTED", "AI_ANALYSIS", "UNDER_REVIEW", "NEEDS_MORE_INFO", "DUPLICATE",
     "VALIDATED", "UNIVERSITY_ASSIGNED", "TEAM_FORMED", "SOLUTION_PROPOSED",
     "APPROVED", "PROTOTYPE", "FIELD_TESTING", "DEPLOYMENT", "IN_PROGRESS",
     "FIELD_VERIFICATION", "RESOLVED", "IMPACT_AUDITED", "CLOSED", "REJECTED",
     "PAUSED", "REOPENED"}

-----------------------------------------------------------------------------
(* The table, grouped by the roles of its entries. *)

Rule(from, to, roles) == [from |-> from, to |-> to, roles |-> roles]

Triage == {"UNDER_REVIEW", "VALIDATED", "NEEDS_MORE_INFO", "DUPLICATE",
           "REJECTED", "UNIVERSITY_ASSIGNED"}

GovernmentRules ==
    { Rule({"SUBMITTED", "AI_ANALYSIS"}, Triage, Government),
      Rule({"UNDER_REVIEW"}, (Triage \ {"UNDER_REVIEW"}) \cup {"PAUSED"}, Government),
      Rule({"NEEDS_MORE_INFO"}, {"REJECTED"}, Government),
      Rule({"VALIDATED"}, {"UNIVERSITY_ASSIGNED", "REJECTED", "PAUSED"}, Government),
      Rule({"UNIVERSITY_ASSIGNED"}, {"REJECTED", "PAUSED"}, Government),
      Rule({"TEAM_FORMED"}, {"FIELD_VERIFICATION", "PAUSED"}, Government),
      Rule({"SOLUTION_PROPOSED"}, {"TEAM_FORMED", "PAUSED"}, Government),
      Rule({"APPROVED", "PROTOTYPE", "FIELD_TESTING"}, {"PAUSED"}, Government),
      Rule({"IN_PROGRESS", "DEPLOYMENT"}, {"PAUSED", "RESOLVED", "CLOSED"}, Government),
      Rule({"FIELD_VERIFICATION"}, {"RESOLVED", "CLOSED", "DEPLOYMENT", "PAUSED"}, Government),
      Rule({"RESOLVED"}, {"IMPACT_AUDITED", "CLOSED"}, Government),
      Rule({"IMPACT_AUDITED"}, {"CLOSED"}, Government),
      Rule({"REOPENED"}, {"UNDER_REVIEW", "VALIDATED"}, Government),
      Rule({"PAUSED"}, {"UNDER_REVIEW", "VALIDATED", "UNIVERSITY_ASSIGNED", "TEAM_FORMED",
                        "IN_PROGRESS", "PROTOTYPE", "FIELD_TESTING", "DEPLOYMENT"}, Government) }

SubmitterRules ==
    { Rule({"SUBMITTED"}, {"AI_ANALYSIS"}, Government \cup Submitters),
      Rule({"NEEDS_MORE_INFO"}, {"UNDER_REVIEW", "SUBMITTED"}, Government \cup Submitters),
      Rule({"RESOLVED", "CLOSED", "REJECTED", "DUPLICATE"}, {"REOPENED"}, Government \cup Submitters),
      Rule({"REJECTED", "DUPLICATE"}, {"UNDER_REVIEW"}, Government \cup Submitters) }

InstitutionRules ==
    { Rule({"UNIVERSITY_ASSIGNED"}, {"TEAM_FORMED"}, Government \cup Institution),
      Rule({"UNIVERSITY_ASSIGNED"}, {"VALIDATED"}, Government \cup {"UNIVERSITY"}),
      Rule({"TEAM_FORMED"}, {"SOLUTION_PROPOSED"}, Government \cup Institution \cup {"STUDENT"}),
      Rule({"TEAM_FORMED", "APPROVED"}, {"IN_PROGRESS"}, Government \cup Institution),
      Rule({"SOLUTION_PROPOSED"}, {"APPROVED"}, Government \cup {"UNIVERSITY"}),
      Rule({"APPROVED", "IN_PROGRESS"}, {"PROTOTYPE"}, Government \cup Institution \cup {"STUDENT"}),
      Rule({"IN_PROGRESS"}, {"FIELD_TESTING", "DEPLOYMENT", "FIELD_VERIFICATION"},
           Government \cup Institution),
      Rule({"PROTOTYPE"}, {"FIELD_TESTING"}, Government \cup Institution),
      Rule({"FIELD_TESTING"}, {"DEPLOYMENT"}, Government \cup Institution),
      Rule({"DEPLOYMENT"}, {"FIELD_VERIFICATION"}, Government \cup Institution) }

Rules == GovernmentRules \cup SubmitterRules \cup InstitutionRules

(* The roles the table lists for a pair, none when the pair is not in it. *)
AllowedRoles ==
    [pair \in ChallengeStatus \X ChallengeStatus |->
        UNION {rule.roles : rule \in {q \in Rules : pair[1] \in q.from /\ pair[2] \in q.to}}]

IsTransition(from, to) == AllowedRoles[<<from, to>>] # {}
=============================================================================
