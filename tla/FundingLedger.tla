--------------------------- MODULE FundingLedger ---------------------------
(***************************************************************************)
(* The agreement of one partner with one project and the funding lines     *)
(* recorded under it: the review of an offer, the MoU, and the approval,   *)
(* hold, release and reversal of a line.  The finance integration confirms *)
(* no payment in this code, so nothing is said of confirmations.           *)
(***************************************************************************)
EXTENDS Requests

CONSTANTS
    Lines,             \* funding lines that may be recorded
    Linked,            \* those that wait for a milestone
    InitialAgreement   \* status of the agreement to start from

AgreementStatus ==
    {"OFFERED", "UNDER_REVIEW", "CONFLICT_CHECK", "ACCEPTED", "CONTRACT_RECORDED",
     "ACTIVE", "MILESTONE_LINKED", "COMPLETED", "DECLINED", "TERMINATED"}
NotOffered == "NOT_OFFERED"

(* Statuses under which create_funding_record records a line. *)
Accepted == {"ACCEPTED", "CONTRACT_RECORDED", "ACTIVE", "MILESTONE_LINKED", "COMPLETED"}

ASSUME FundingAssumption ==
    /\ Linked \subseteq Lines
    /\ InitialAgreement \in {NotOffered} \cup Accepted

VARIABLES
    agreement,   \* the row of the agreement
    funding,     \* the row of each line
    milestone    \* of the linked lines: OPEN, APPROVED, or LEFT after an approval

ledgerVars == <<agreement, funding, milestone>>

(* accepted tells whether accepted_at is set. *)
Agreement == [status : AgreementStatus \cup {NotOffered}, accepted : BOOLEAN, mou : BOOLEAN]

NoLine == [state |-> "NONE"]
HoldState == {"PENDING", "HELD", "RELEASED", "REVERSED"}
Line == [state : HoldState, approved : BOOLEAN, receipt : BOOLEAN]
Recorded(l) == funding[l] # NoLine

(* Roles that decide about agreements and lines. *)
Partners == {"INDUSTRY", "RESEARCH_LAB", "INNOVATION_HUB"}
Reviewers == {"UNIVERSITY", "GOVERNMENT_ADMIN", "GOVERNMENT_OFFICER"}
LedgerRoles == {"INDUSTRY", "UNIVERSITY", "GOVERNMENT_ADMIN", "FACULTY_MENTOR"}

(* An MoU that the review does not name is cleared when one was loaded. *)
LedgerRequest ==
    [op : {"offer"}]
        \cup [op : {"agreement"}, to : AgreementStatus, mou : {"set", "cleared", "kept"}]
        \cup [op : {"record"}, line : Lines]
        \cup [op : {"fund"}, line : Lines, moves : BOOLEAN, to : HoldState, approves : BOOLEAN,
              receipt : BOOLEAN]

LedgerTypeOK ==
    /\ agreement \in Agreement
    /\ funding \in [Lines -> Line \cup {NoLine}]
    /\ milestone \in {"OPEN", "APPROVED", "LEFT"}

LedgerSessionsOK == session \in [Sessions -> LedgerRequest \cup {Idle}]

LedgerInit ==
    /\ agreement = [status |-> InitialAgreement, accepted |-> InitialAgreement # NotOffered,
                    mou |-> InitialAgreement \notin {NotOffered, "ACCEPTED"}]
    /\ funding = [l \in Lines |-> NoLine]
    /\ milestone = "OPEN"

-----------------------------------------------------------------------------
(* The agreement *)

AgreementSteps ==
    {<<"OFFERED", "UNDER_REVIEW">>, <<"OFFERED", "DECLINED">>,
     <<"UNDER_REVIEW", "CONFLICT_CHECK">>, <<"UNDER_REVIEW", "DECLINED">>,
     <<"CONFLICT_CHECK", "ACCEPTED">>, <<"CONFLICT_CHECK", "DECLINED">>,
     <<"ACCEPTED", "CONTRACT_RECORDED">>, <<"ACCEPTED", "TERMINATED">>,
     <<"CONTRACT_RECORDED", "ACTIVE">>, <<"CONTRACT_RECORDED", "TERMINATED">>,
     <<"ACTIVE", "MILESTONE_LINKED">>, <<"ACTIVE", "COMPLETED">>, <<"ACTIVE", "TERMINATED">>,
     <<"MILESTONE_LINKED", "COMPLETED">>, <<"MILESTONE_LINKED", "TERMINATED">>}

MayReview(role, from, to) ==
    /\ <<from, to>> \in AgreementSteps
    /\ \/ role \in Reviewers
       \/ role \in Partners /\ from = "OFFERED" /\ to = "DECLINED"
       \/ role = "FACULTY_MENTOR" /\ to = "MILESTONE_LINKED"

OfferCollaboration(s) ==
    /\ agreement.status = NotOffered
    /\ Receive(s, [op |-> "offer"])
    /\ UNCHANGED ledgerVars

CommitOffer(s) ==
    /\ Finish(s, "offer")
    /\ agreement.status = NotOffered
    /\ agreement' = [agreement EXCEPT !.status = "OFFERED"]
    /\ UNCHANGED <<funding, milestone>>

MouWritten(to, named) ==
    IF to # "CONTRACT_RECORDED" THEN "kept"
    ELSE IF named THEN "set" ELSE IF agreement.mou THEN "cleared" ELSE "kept"

ReviewCollaboration(s, role, to, named) ==
    /\ MayReview(role, agreement.status, to)
    /\ Receive(s, [op |-> "agreement", to |-> to, mou |-> MouWritten(to, named)])
    /\ UNCHANGED ledgerVars

(* transition_agreement, as it is written; a conflict that was declared is  *)
(* recorded and asked by nobody. *)
CommitAgreement(s) ==
    LET r == session[s]
    IN  /\ Finish(s, "agreement")
        /\ agreement' = [agreement EXCEPT
               !.status = r.to,
               !.accepted = @ \/ r.to = "ACCEPTED",
               !.mou = CASE r.mou = "set" -> TRUE [] r.mou = "cleared" -> FALSE [] OTHER -> @]
        /\ UNCHANGED <<funding, milestone>>

UploadCollaborationMou ==
    /\ agreement.status # NotOffered
    /\ agreement' = [agreement EXCEPT !.mou = TRUE]
    /\ UNCHANGED <<funding, milestone, session>>

-----------------------------------------------------------------------------
(* The lines *)

(* Mutant: a line is recorded under any agreement. *)
CreateFundingRecordAnyhow(s, l) ==
    /\ agreement.status # NotOffered
    /\ ~Recorded(l)
    /\ Receive(s, [op |-> "record", line |-> l])
    /\ UNCHANGED ledgerVars

CreateFundingRecord(s, l) ==
    /\ agreement.status \in Accepted
    /\ ~Recorded(l)
    /\ Receive(s, [op |-> "record", line |-> l])
    /\ UNCHANGED ledgerVars

CommitRecord(s) ==
    LET l == session[s].line
    IN  /\ Finish(s, "record")
        /\ ~Recorded(l)
        /\ funding' = [funding EXCEPT ![l] =
               [state |-> "PENDING", approved |-> FALSE, receipt |-> FALSE]]
        /\ UNCHANGED <<agreement, milestone>>

UploadFundingReceipt(l) ==
    /\ Recorded(l)
    /\ funding' = [funding EXCEPT ![l].receipt = TRUE]
    /\ UNCHANGED <<agreement, milestone, session>>

(* apply_funding_action: the state is written when it is not what was loaded. *)
Act(s, l, to, approves, receipt) ==
    /\ Receive(s, [op |-> "fund", line |-> l, moves |-> funding[l].state # to, to |-> to,
                   approves |-> approves, receipt |-> receipt])
    /\ UNCHANGED ledgerVars

Approve(s, role, l) ==
    /\ role \in Reviewers
    /\ funding[l].state = "PENDING"
    /\ Act(s, l, "HELD", TRUE, FALSE)

(* A hold asks for no state: released and reversed lines are held again. *)
Hold(s, role, l) ==
    /\ role \in Reviewers
    /\ Recorded(l)
    /\ Act(s, l, "HELD", FALSE, FALSE)

(* Mutant: the milestone of a line is not looked at. *)
ReleaseUnlinked(s, role, l, receipt) ==
    /\ role \in Reviewers
    /\ funding[l].state = "HELD"
    /\ receipt \/ funding[l].receipt
    /\ Act(s, l, "RELEASED", FALSE, receipt)

(* A receipt may come with the request. *)
Release(s, role, l, receipt) ==
    /\ role \in Reviewers
    /\ funding[l].state = "HELD"
    /\ l \in Linked => milestone = "APPROVED"
    /\ receipt \/ funding[l].receipt
    /\ Act(s, l, "RELEASED", FALSE, receipt)

Reverse(s, role, l) ==
    /\ role = "GOVERNMENT_ADMIN"
    /\ funding[l].state \in {"HELD", "RELEASED"}
    /\ Act(s, l, "REVERSED", FALSE, FALSE)

CommitFunding(s) ==
    LET r == session[s]
    IN  /\ Finish(s, "fund")
        /\ funding' = [funding EXCEPT ![r.line] =
               [state |-> IF r.moves THEN r.to ELSE @.state,
                approved |-> @.approved \/ r.approves, receipt |-> @.receipt \/ r.receipt]]
        /\ UNCHANGED <<agreement, milestone>>

(* What the reviews of ProjectMilestones do to the linked milestone. *)
MilestoneMoves ==
    /\ milestone' = IF milestone = "APPROVED" THEN "LEFT" ELSE "APPROVED"
    /\ UNCHANGED <<agreement, funding, session>>

-----------------------------------------------------------------------------
ActOnFunding(s, role, l) ==
    \/ Approve(s, role, l)
    \/ Hold(s, role, l)
    \/ \E receipt \in BOOLEAN : Release(s, role, l, receipt)
    \/ Reverse(s, role, l)

LedgerRequests(s) ==
    \/ OfferCollaboration(s)
    \/ \E role \in LedgerRoles, to \in AgreementStatus, named \in BOOLEAN :
           ReviewCollaboration(s, role, to, named)
    \/ \E l \in Lines : CreateFundingRecord(s, l)
    \/ \E role \in LedgerRoles, l \in Lines : ActOnFunding(s, role, l)

LedgerCommits(s) ==
    CommitOffer(s) \/ CommitAgreement(s) \/ CommitRecord(s) \/ CommitFunding(s)

LedgerUploads == UploadCollaborationMou \/ \E l \in Lines : UploadFundingReceipt(l)

LedgerNext ==
    \/ \E s \in Sessions : session[s] = Idle /\ LedgerRequests(s)
    \/ \E s \in Sessions : LedgerCommits(s)
    \/ LedgerUploads \/ MilestoneMoves
    \/ \E s \in Sessions : RollBack(s) /\ UNCHANGED ledgerVars

LedgerStart == LedgerInit /\ NoRequests

LedgerSpec == LedgerStart /\ [][LedgerNext]_<<ledgerVars, session>>

-----------------------------------------------------------------------------
(* Properties *)

(* Whatever reviews overlap, and although a late one can take an accepted   *)
(* agreement back, lines are recorded only under an agreement that has been *)
(* accepted. *)
FundingFollowsAcceptance == (\E l \in Lines : Recorded(l)) => agreement.accepted

(* A line that reads RELEASED has its receipt, and its milestone has been   *)
(* approved, also when it was held or reversed while the release was on its *)
(* way. *)
ReleaseConditions ==
    \A l \in Lines : funding[l].state = "RELEASED"
        => funding[l].receipt /\ (l \in Linked => milestone # "OPEN")

(* apply_funding_action: "PENDING -> HELD (approval) -> RELEASED".  A line  *)
(* that was put on hold and never approved is released too. *)
ReleasedWasApproved ==
    \A l \in Lines : funding[l].state = "RELEASED" => funding[l].approved
=============================================================================
