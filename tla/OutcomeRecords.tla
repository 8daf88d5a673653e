--------------------------- MODULE OutcomeRecords ---------------------------
(***************************************************************************)
(* The field verification and the outcome metric of a project.  Every      *)
(* request but a review writes what it is sent, whatever it has loaded, so *)
(* it is one step.                                                         *)
(***************************************************************************)
EXTENDS Requests

CONSTANTS
    Officials,   \* inspectors and reviewers of verification records
    NoOne        \* NULL

ASSUME OfficialsAssumption == NoOne \notin Officials

VARIABLES
    verification,   \* the latest verification record
    metric          \* the outcome metric

outcomeVars == <<verification, metric>>

NoVerification == [status |-> "NONE"]
Verification == [status : {"SUBMITTED", "VERIFIED", "REJECTED"}, inspector : Officials,
                 reviewer : Officials \cup {NoOne}]

(* MEASURED stands for the statuses that the closure accepts, REPORTED for  *)
(* the others; verified tells whether verified_by is set. *)
NoMetric == [status |-> "NONE"]
MetricStatus == {"REPORTED", "MEASURED"}
Metric == [status : MetricStatus, actual : BOOLEAN, verified : BOOLEAN]

ReviewRequest ==
    [op : {"inspect"}, to : {"VERIFIED", "REJECTED"}, by : Officials, moves : BOOLEAN]

OutcomeTypeOK ==
    /\ verification \in Verification \cup {NoVerification}
    /\ metric \in Metric \cup {NoMetric}

OutcomeInit == verification = NoVerification /\ metric = NoMetric

-----------------------------------------------------------------------------
SubmitVerificationRecord(inspector) ==
    /\ verification = NoVerification
    /\ verification' = [status |-> "SUBMITTED", inspector |-> inspector, reviewer |-> NoOne]
    /\ UNCHANGED <<metric, session>>

(* A record that was reviewed can be reviewed again. *)
ReviewVerification(s, by, to) ==
    /\ verification # NoVerification
    /\ verification.inspector # by
    /\ Receive(s, [op |-> "inspect", to |-> to, by |-> by, moves |-> verification.status # to])
    /\ UNCHANGED outcomeVars

(* transition_verification, as it is written. *)
CommitInspection(s) ==
    LET r == session[s]
    IN  /\ Finish(s, "inspect")
        /\ verification' = [verification EXCEPT !.status = IF r.moves THEN r.to ELSE @,
                                                !.reviewer = r.by]
        /\ UNCHANGED metric

(* Mutant: a metric starts as a draft. *)
CreateOutcomeMetricDraft ==
    /\ metric = NoMetric
    /\ metric' = [status |-> "DRAFT", actual |-> FALSE, verified |-> FALSE]
    /\ UNCHANGED <<verification, session>>

CreateOutcomeMetric ==
    /\ metric = NoMetric
    /\ metric' = [status |-> "REPORTED", actual |-> FALSE, verified |-> FALSE]
    /\ UNCHANGED <<verification, session>>

(* A member of the team sends the value, the status, or both; the status is *)
(* free text. *)
UpdateOutcomeMetric(value, status) ==
    /\ metric # NoMetric
    /\ metric' = [metric EXCEPT !.actual = @ \/ value, !.status = status]
    /\ UNCHANGED <<verification, session>>

VerifyOutcomeMetric(status) ==
    /\ metric # NoMetric
    /\ metric' = [metric EXCEPT !.status = status, !.verified = TRUE]
    /\ UNCHANGED <<verification, session>>

OutcomeWrites ==
    \/ \E inspector \in Officials : SubmitVerificationRecord(inspector)
    \/ CreateOutcomeMetric
    \/ \E value \in BOOLEAN, status \in MetricStatus : UpdateOutcomeMetric(value, status)
    \/ \E status \in MetricStatus : VerifyOutcomeMetric(status)
=============================================================================
