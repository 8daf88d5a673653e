----------------------- MODULE MCWorkflowTransactions -----------------------
(* WorkflowTransactions with the operations of one resolved challenge, its  *)
(* project and a second challenge still in triage. *)
EXTENDS WorkflowTransactions, TLC

CONSTANTS resolved, triaged, project

MCChallenges == {resolved, triaged}
MCProjects == {project}
MCStages == {"Research & Team Formation", "Completed", "Post-Deployment Remediation"}
MCInitialState ==
    (resolved :> "RESOLVED") @@ (triaged :> "UNDER_REVIEW")
        @@ (project :> "Research & Team Formation")
DeclinedInitialState == [MCInitialState EXCEPT ![triaged] = "VALIDATED"]

Step(call, entity, to, skipIf) ==
    [call |-> call, entity |-> entity, to |-> to, skipIf |-> skipIf]
Transition(c, to) == Step("transition_challenge", c, to, {})

CloseProject ==
    << Step("transition_project", project, "Completed", {}),
       Step("transition_challenge", resolved, "RESOLVED", {"CLOSED", "RESOLVED", "IMPACT_AUDITED"}),
       Step("transition_challenge", resolved, "CLOSED", {"CLOSED"}) >>
EscalateRegression ==
    << Transition(resolved, "REOPENED"),
       Step("transition_project", project, "Post-Deployment Remediation", {}) >>

OperationPlans == {CloseProject, EscalateRegression,
            << Transition(triaged, "VALIDATED") >>, << Transition(triaged, "REJECTED") >>}

(* The second challenge after a decline: it is assigned anew, and the       *)
(* declined allocation is answered again. *)
Decline == << Step("decline", triaged, "VALIDATED", {}) >>
AllocationPlans == {Decline, << Transition(triaged, "UNIVERSITY_ASSIGNED") >>}
=============================================================================
