-------------------------- MODULE SolutionProposals --------------------------
(***************************************************************************)
(* The versioned solution proposals of one project, their reviews by the   *)
(* mentor, the institution, the government and the partners, and what a    *)
(* submission and an approval do to the challenge.                         *)
(*                                                                         *)
(* A request has two steps: its handler checks the rows it loads, and its  *)
(* commit writes the columns it changed, whatever became of the rows in    *)
(* between.  A request that is refused is no step: it commits nothing.     *)
(***************************************************************************)
EXTENDS Naturals, Sequences, ChallengeStateMachine

CONSTANTS
    Authors,        \* sessions of the project team
    Reviewers,      \* sessions of those who review
    MaxProposals    \* bound of the model

Sessions == Authors \cup Reviewers

ASSUME SessionsAssumption ==
    /\ Authors \cap Reviewers = {}
    /\ MaxProposals \in Nat

Team == {"STUDENT", "FACULTY_MENTOR", "UNIVERSITY", "GOVERNMENT_ADMIN"}
Partners == {"INDUSTRY", "RESEARCH_LAB", "INNOVATION_HUB"}

ProposalStatus ==
    {"DRAFT", "SUBMITTED", "FACULTY_REVIEWED", "HEI_APPROVED", "GOVERNMENT_REVIEWED",
     "INDUSTRY_FEEDBACK", "APPROVED", "REVISION_REQUESTED", "REJECTED", "ARCHIVED"}

(* Where the challenge of a project with proposals may be. *)
Stage == {"TEAM_FORMED", "SOLUTION_PROPOSED", "APPROVED", "PAUSED"}

-----------------------------------------------------------------------------
(* ALLOWED_PROPOSAL_TRANSITIONS, grouped by the roles of its entries. *)
ProposalRules ==
    LET mentor == {"FACULTY_MENTOR"}
        hei == {"UNIVERSITY"}
    IN  { Rule({"DRAFT"}, {"SUBMITTED"}, Team \ {"GOVERNMENT_ADMIN"}),
          Rule({"SUBMITTED"}, {"FACULTY_REVIEWED"}, mentor),
          Rule({"SUBMITTED"}, {"REVISION_REQUESTED"}, mentor \cup hei \cup Government),
          Rule({"SUBMITTED"}, {"REJECTED"}, Government),
          Rule({"FACULTY_REVIEWED"}, {"HEI_APPROVED"}, hei),
          Rule({"FACULTY_REVIEWED"}, {"REVISION_REQUESTED"}, mentor \cup hei),
          Rule({"FACULTY_REVIEWED"}, {"REJECTED"}, Government \cup hei),
          Rule({"HEI_APPROVED"}, {"GOVERNMENT_REVIEWED", "REVISION_REQUESTED"}, Government),
          Rule({"GOVERNMENT_REVIEWED"}, {"INDUSTRY_FEEDBACK"}, Partners),
          Rule({"GOVERNMENT_REVIEWED"}, {"APPROVED", "REVISION_REQUESTED", "REJECTED"}, Government),
          Rule({"INDUSTRY_FEEDBACK"}, {"APPROVED", "REJECTED"}, Government),
          Rule({"INDUSTRY_FEEDBACK"}, {"REVISION_REQUESTED"}, Government \cup hei),
          Rule({"APPROVED"}, {"ARCHIVED"}, {"GOVERNMENT_ADMIN"} \cup hei),
          Rule({"REJECTED"}, {"ARCHIVED"}, {"GOVERNMENT_ADMIN"}) }

MayTransition(role, from, to) ==
    \E rule \in ProposalRules : from \in rule.from /\ to \in rule.to /\ role \in rule.roles

-----------------------------------------------------------------------------
VARIABLES
    proposals,   \* the versions, oldest first
    challenge,   \* status of the challenge
    session,     \* what each request has still to write
    overlapped   \* history: a version was committed while another author
                 \* was submitting one

vars == <<proposals, challenge, session, overlapped>>

(* hei and government tell whether an approver of theirs is on record. *)
Proposal == [status : ProposalStatus, version : Nat, current : BOOLEAN,
             hei : BOOLEAN, government : BOOLEAN, approved : BOOLEAN]

NoPrior == 0
Idle == [op |-> "none"]

(* The status of the challenge, for a request that may write it. *)
NotUsed == "NOT_USED"
Loaded(writes) == IF writes THEN challenge ELSE NotUsed

Request ==
    [op : {"none"}]
        \cup [op : {"propose"}, prior : 0 .. MaxProposals, version : Nat,
              submit : BOOLEAN, from : Stage \cup {NotUsed}]
        \cup [op : {"review"}, proposal : 1 .. MaxProposals, to : ProposalStatus,
              from : Stage \cup {NotUsed}]
        \cup [op : {"move"}, to : Stage]

TypeOK ==
    /\ proposals \in Seq(Proposal) /\ Len(proposals) <= MaxProposals
    /\ challenge \in Stage
    /\ session \in [Sessions -> Request]
    /\ overlapped \in BOOLEAN

Init ==
    /\ proposals = << >>
    /\ challenge = "TEAM_FORMED"
    /\ session = [s \in Sessions |-> Idle]
    /\ overlapped = FALSE

Begin(s, request) ==
    /\ session[s] = Idle
    /\ session' = [session EXCEPT ![s] = request]
    /\ UNCHANGED <<proposals, challenge, overlapped>>

End(s, op) ==
    /\ session[s].op = op
    /\ session' = [session EXCEPT ![s] = Idle]

(* transition_challenge lets a role through; the challenge may be there. *)
ChallengeMay(role, to) == challenge = to \/ role \in AllowedRoles[<<challenge, to>>]
(* Its status is written when it differs from the one that was loaded. *)
ChallengeMoves(from, to) == challenge' = IF from = to THEN challenge ELSE to

Current == {i \in DOMAIN proposals : proposals[i].current}

-----------------------------------------------------------------------------
(* submit_proposal loads one current version, whichever it finds. *)
Prior == IF Current = {} THEN {NoPrior} ELSE Current
NextVersion(prior) == IF prior = NoPrior THEN 1 ELSE proposals[prior].version + 1

SubmitProposal(s, role, submit) ==
    /\ role \in Team
    /\ submit => MayTransition(role, "DRAFT", "SUBMITTED") /\ ChallengeMay(role, "SOLUTION_PROPOSED")
    /\ \E prior \in Prior :
           Begin(s, [op |-> "propose", prior |-> prior, version |-> NextVersion(prior),
                     submit |-> submit, from |-> Loaded(submit)])

(* Mutant: a submitted proposal takes the status of its challenge. *)
NewProposalProposed(r) ==
    [status |-> IF r.submit THEN "SOLUTION_PROPOSED" ELSE "DRAFT", version |-> r.version,
     current |-> TRUE, hei |-> FALSE, government |-> FALSE, approved |-> FALSE]

NewProposal(r) ==
    [status |-> IF r.submit THEN "SUBMITTED" ELSE "DRAFT", version |-> r.version,
     current |-> TRUE, hei |-> FALSE, government |-> FALSE, approved |-> FALSE]

(* Mutant: the version before stays current. *)
KeepPrior(prior) == proposals

Superseded(prior) ==
    [i \in DOMAIN proposals |->
        IF i = prior THEN [proposals[i] EXCEPT !.current = FALSE] ELSE proposals[i]]

CommitProposal(s) ==
    LET r == session[s]
    IN  /\ End(s, "propose")
        /\ Len(proposals) < MaxProposals
        /\ proposals' = Append(Superseded(r.prior), NewProposal(r))
        /\ IF r.submit THEN ChallengeMoves(r.from, "SOLUTION_PROPOSED") ELSE UNCHANGED challenge
        /\ overlapped' = (overlapped \/ \E a \in Authors \ {s} : session[a].op = "propose")

(* review_proposal of any version, the superseded ones too. *)
Decisions == {"FACULTY_REVIEWED", "HEI_APPROVED", "GOVERNMENT_REVIEWED", "APPROVED",
              "REVISION_REQUESTED", "REJECTED"}

(* Mutant: an approval does not ask for the government's review first. *)
ReviewProposalEarly(s, role, i, to) ==
    /\ to \in Decisions
    /\ proposals[i].status # to
    /\ \/ MayTransition(role, proposals[i].status, to)
       \/ to = "APPROVED" /\ proposals[i].status = "SUBMITTED" /\ role \in Government
    /\ to = "APPROVED" => ChallengeMay(role, "APPROVED")
    /\ Begin(s, [op |-> "review", proposal |-> i, to |-> to, from |-> Loaded(to = "APPROVED")])

ReviewProposal(s, role, i, to) ==
    /\ to \in Decisions
    /\ proposals[i].status # to
    /\ MayTransition(role, proposals[i].status, to)
    /\ to = "APPROVED" => ChallengeMay(role, "APPROVED")
    /\ Begin(s, [op |-> "review", proposal |-> i, to |-> to, from |-> Loaded(to = "APPROVED")])

(* An approval that finds the version approved still moves the challenge. *)
ApproveAgain(s, role, i) ==
    /\ proposals[i].status = "APPROVED"
    /\ challenge # "APPROVED" /\ ChallengeMay(role, "APPROVED")
    /\ Begin(s, [op |-> "move", to |-> "APPROVED"])

IndustryFeedback(s, role, i) ==
    /\ role \in Partners
    /\ MayTransition(role, proposals[i].status, "INDUSTRY_FEEDBACK")
    /\ Begin(s, [op |-> "review", proposal |-> i, to |-> "INDUSTRY_FEEDBACK", from |-> NotUsed])

(* transition_proposal, as it is written. *)
Reviewed(proposal, to) ==
    [proposal EXCEPT !.status = to,
                     !.hei = @ \/ to = "HEI_APPROVED",
                     !.government = @ \/ to \in {"GOVERNMENT_REVIEWED", "APPROVED"},
                     !.approved = @ \/ to = "APPROVED"]

CommitReview(s) ==
    LET r == session[s]
    IN  /\ End(s, "review")
        /\ proposals' = [proposals EXCEPT ![r.proposal] = Reviewed(@, r.to)]
        /\ IF r.to = "APPROVED" THEN ChallengeMoves(r.from, "APPROVED") ELSE UNCHANGED challenge
        /\ UNCHANGED overlapped

(* The other requests that move the challenge; their interleaving is the    *)
(* subject of WorkflowTransactions. *)
MoveChallenge(role, to) ==
    /\ to # challenge /\ role \in AllowedRoles[<<challenge, to>>]
    /\ challenge' = to
    /\ UNCHANGED <<proposals, session, overlapped>>

CommitMove(s) ==
    /\ End(s, "move")
    /\ challenge' = session[s].to
    /\ UNCHANGED <<proposals, overlapped>>

(* A request ends without committing. *)
RollBack(s) ==
    /\ session[s] # Idle
    /\ session' = [session EXCEPT ![s] = Idle]
    /\ UNCHANGED <<proposals, challenge, overlapped>>

-----------------------------------------------------------------------------
Propose(s) ==
    \/ /\ session[s] = Idle
       /\ \E role \in Team, submit \in BOOLEAN : SubmitProposal(s, role, submit)
    \/ CommitProposal(s)

Review(s) ==
    \/ /\ session[s] = Idle
       /\ \E role \in Team \cup Government \cup Partners, i \in DOMAIN proposals :
              \/ \E to \in Decisions : ReviewProposal(s, role, i, to)
              \/ ApproveAgain(s, role, i)
              \/ IndustryFeedback(s, role, i)
    \/ CommitReview(s) \/ CommitMove(s)

Next ==
    \/ \E s \in Authors : Propose(s)
    \/ \E s \in Reviewers : Review(s)
    \/ \E role \in Government, to \in Stage : MoveChallenge(role, to)
    \/ \E s \in Sessions : RollBack(s)

Spec == Init /\ [][Next]_vars

-----------------------------------------------------------------------------
(* Properties *)

(* However reviews of one version overlap and overwrite one another, a      *)
(* version that stands as approved by the institution has its approver on   *)
(* record, and one that stands as approved its government reviewer too. *)
SignedOff ==
    \A i \in DOMAIN proposals :
        LET p == proposals[i]
        IN  /\ p.status \in {"HEI_APPROVED", "GOVERNMENT_REVIEWED", "INDUSTRY_FEEDBACK", "APPROVED"}
                  => p.hei
            /\ p.status \in {"GOVERNMENT_REVIEWED", "INDUSTRY_FEEDBACK", "APPROVED"} => p.government

(* is_approved_by_gov never comes without the institution's approval, also  *)
(* where a late review has overwritten the status. *)
ApprovalsSigned == \A i \in DOMAIN proposals : proposals[i].approved => proposals[i].hei

(* A version is superseded only by one with a higher number, so that the    *)
(* highest is current however submissions overlap; and as long as none did  *)
(* the newest alone is current and the numbers follow one another, whatever *)
(* is reviewed meanwhile. *)
SupersededByLater ==
    \A i \in DOMAIN proposals :
        proposals[i].current
            \/ \E j \in DOMAIN proposals : proposals[j].version > proposals[i].version

OneCurrent ==
    \A i \in DOMAIN proposals :
        /\ proposals[i].current <=> i = Len(proposals)
        /\ proposals[i].version = i

NewestIsCurrent == SupersededByLater /\ (~overlapped => OneCurrent)

(* models.py on is_approved_by_gov: "legacy flag, mirrors status ==         *)
(* APPROVED".  A rejection that was decided before the approval and commits *)
(* after it leaves the flag, and the challenge, approved. *)
FlagMirrorsStatus ==
    \A i \in DOMAIN proposals : proposals[i].approved <=> proposals[i].status = "APPROVED"
=============================================================================
