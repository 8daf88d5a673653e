-------------------------- MODULE ChallengeWorkflow --------------------------
(***************************************************************************)
(* One challenge from triage to closure, with its allocations and its      *)
(* projects: every endpoint that moves it, each as one committed           *)
(* transaction (their interleaving is the subject of WorkflowTransactions). *)
(*                                                                         *)
(* A handler changes rows in its session, calls transition_challenge and   *)
(* commits.  Two quirks of that path are kept.  transition_challenge takes *)
(* a new version before it does anything else.  And a government actor     *)
(* outside the jurisdiction is refused by verify_challenge_jurisdiction,   *)
(* which first commits an AuditLog row, and with it everything the session *)
(* has changed.  A request refused in any other way commits nothing: it is *)
(* no step of this module.                                                 *)
(***************************************************************************)
EXTENDS Naturals, Sequences, FiniteSets, ChallengeStateMachine

CONSTANTS
    Actors,           \* signed-in users, as ActorShape says
    Submitter,        \* the actor that reported the challenge
    Universities,     \* verified active HEIs with a verified organization
    NoUniversity,     \* NULL
    Tiers,            \* the tiers of the escalation
    Capacity,         \* capacity_max_active_projects of each university
    InitialStatuses,  \* where the challenge is at the start
    MaxVersion, MaxAllocations, MaxProjects   \* bounds of the model

ActorShape ==
    [role : UserRole, inside : BOOLEAN, university : Universities \cup {NoUniversity}]

ASSUME ActorsAssumption == Actors \subseteq ActorShape /\ Submitter \in Actors
ASSUME UniversitiesAssumption == NoUniversity \notin Universities
ASSUME StatusesAssumption == InitialStatuses \subseteq ChallengeStatus \ {"DEPLOYMENT"}
ASSUME TiersAssumption == "PANCHAYAT" \in Tiers /\ Tiers \cap ChallengeStatus = {}
ASSUME BoundsAssumption ==
    MaxVersion \in Nat /\ MaxAllocations \in Nat /\ MaxProjects \in Nat /\ Capacity \in Nat

VARIABLES
    challenge,    \* status, version, assigned university and tier
    allocations,  \* challenge_allocations of the challenge, oldest first
    projects,     \* its projects, oldest first
    history,      \* to_status of the last status_history row
    shown         \* the challenge as a client last displayed it

vars == <<challenge, allocations, projects, history, shown>>

Challenge == [status : ChallengeStatus, version : Nat,
              university : Universities \cup {NoUniversity}, tier : Tiers]
Allocation == [university : Universities, late : BOOLEAN,
               status : {"OFFERED", "ACCEPTED", "DECLINED", "SUPERSEDED"}]
Project == [university : Universities, tested : BOOLEAN,
            stage : {"Research & Team Formation", "Completed", "Post-Deployment Remediation"}]

TypeOK ==
    /\ challenge \in Challenge
    /\ allocations \in Seq(Allocation)
    /\ projects \in Seq(Project)
    /\ history \in ChallengeStatus \cup Tiers
    /\ shown \in Challenge

Init ==
    /\ challenge \in [status : InitialStatuses, version : {1},
                      university : {NoUniversity}, tier : {"PANCHAYAT"}]
    /\ allocations = << >>
    /\ projects = << >>
    /\ history = challenge.status
    /\ shown = challenge

-----------------------------------------------------------------------------
(* The rows as a session holds them. *)
Session == [challenge |-> challenge, allocations |-> allocations, projects |-> projects]

Store(session) ==
    /\ challenge' = session.challenge
    /\ allocations' = session.allocations
    /\ projects' = session.projects
    /\ UNCHANGED shown

(* status_history gets a row when an event's states differ. *)
Record(from, to) == history' = IF from = to THEN history ELSE to

(* expected_version as the client sends it, 0 when it sends none. *)
Matches(expected) == expected \in {0, challenge.version}
Bumped(session) == [session EXCEPT !.challenge.version = @ + 1]

Outside(a) == a.role \in Government /\ ~a.inside
(* Mutant: the gate asks for a project and not for its test reports. *)
HasProject(session) == session.projects # << >>
Tested(session) == \E i \in DOMAIN session.projects : session.projects[i].tested

(* transition_challenge, and the commit that ends the request. *)
Transition(a, session, to, expected) ==
    LET from == session.challenge.status
    IN  /\ Matches(expected)
        /\ \/ /\ from = to
              /\ Store(Bumped(session)) /\ UNCHANGED history
           \/ /\ from # to /\ a.role \in AllowedRoles[<<from, to>>]
              /\ Outside(a)
              /\ Store(Bumped(session)) /\ UNCHANGED history
           \/ /\ from # to /\ a.role \in AllowedRoles[<<from, to>>]
              /\ ~Outside(a)
              /\ to = "DEPLOYMENT" => Tested(session)
              /\ Store([Bumped(session) EXCEPT !.challenge.status = to])
              /\ Record(from, to)

(* Who passes require_permission, and verify_challenge_jurisdiction before  *)
(* anything was changed. *)
MayReview(a) == a.role \in Government \cup {"PRI", "ULB"} /\ a.inside
MayAssign(a) == a.role \in Government /\ a.inside
MayAdopt(a) == a.role \in {"UNIVERSITY", "GOVERNMENT_ADMIN"}

-----------------------------------------------------------------------------
(* Endpoints of routers/challenges.py and routers/admin.py *)

(* /status *)
UpdateStatus(a, to, expected) == Transition(a, Session, to, expected)

(* A reviewer moves the challenge, which is otherwise left as it is. *)
Review(a, to, expected) ==
    /\ MayReview(a)
    /\ Transition(a, Session, to, expected)

AcceptForReview(a, expected) == Review(a, "UNDER_REVIEW", expected)
RequestInfo(a, expected) == Review(a, "NEEDS_MORE_INFO", expected)
RejectReport(a, expected) == Review(a, "REJECTED", expected)
MarkDuplicate(a, expected) == Review(a, "DUPLICATE", expected)
PauseChallenge(a, expected) == Review(a, "PAUSED", expected)

(* Resuming goes to what the assignment suggests: the status before the     *)
(* pause is not kept. *)
Resumed ==
    IF challenge.university = NoUniversity THEN "UNDER_REVIEW" ELSE "UNIVERSITY_ASSIGNED"
Resume(a, expected) == Review(a, Resumed, expected)

(* /submit-info *)
SubmitClarification(a, expected) == Transition(a, Session, "UNDER_REVIEW", expected)

(* /validate, with a tier to move the challenge to or without. *)
Validate(a, tier, expected) ==
    /\ MayReview(a)
    /\ Transition(a, [Session EXCEPT !.challenge.tier = tier], "VALIDATED", expected)

(* /reopen: of the actors of the table, the government is asked for its     *)
(* jurisdiction. *)
MayReopen(a) == ~Outside(a)
Reopen(a, expected) ==
    /\ MayReopen(a)
    /\ Transition(a, Session, "REOPENED", expected)

(* /appeal *)
Appealable == {"REJECTED", "DUPLICATE"}
Appeal(a) ==
    /\ challenge.status \in Appealable
    /\ Transition(a, Session, "UNDER_REVIEW", 0)

(* /keep-separate: an event that moves nothing. *)
KeepSeparate(a, expected) ==
    /\ MayReview(a) /\ Matches(expected)
    /\ Store(Bumped(Session)) /\ UNCHANGED history

(* Mutant: an escalation takes no version. *)
EscalateUnversioned(a, tier, expected) ==
    /\ MayReview(a) /\ Matches(expected)
    /\ Store([Session EXCEPT !.challenge.tier = tier])
    /\ Record(challenge.tier, tier)

(* /escalate: no table and no role is consulted after the permission. *)
Escalated(tier) == [Bumped(Session) EXCEPT !.challenge.tier = tier]
EscalateTier(a, tier, expected) ==
    /\ MayReview(a) /\ Matches(expected)
    /\ Store(Escalated(tier))
    /\ Record(challenge.tier, tier)

(* The AI worker, in the name of the submitter. *)
AnalyzeChallenge == Transition(Submitter, Session, "AI_ANALYSIS", 0)

-----------------------------------------------------------------------------
(* Allocations *)

ActiveProjects(u) == Cardinality({i \in DOMAIN projects : projects[i].university = u})

Answer(i, status) == [allocations EXCEPT ![i].status = status]
(* Mutants: a new assignment leaves the open offers, or has a status of its *)
(* own. *)
KeepOffers(offers) == offers
PendingOffer(u) == [university |-> u, late |-> FALSE, status |-> "PENDING"]

Supersede(offers) ==
    [i \in DOMAIN offers |->
        IF offers[i].status = "OFFERED" THEN [offers[i] EXCEPT !.status = "SUPERSEDED"]
                                        ELSE offers[i]]
Offer(u) == [university |-> u, late |-> FALSE, status |-> "OFFERED"]

(* The session of an assignment before its transition. *)
Assigned(u) ==
    [Session EXCEPT !.allocations = Append(Supersede(@), Offer(u)), !.challenge.university = u]

(* /assign *)
AssignChallenge(a, u, expected) ==
    /\ MayAssign(a)
    /\ challenge.university \in {NoUniversity, u}
    /\ ActiveProjects(u) < Capacity
    /\ Transition(a, Assigned(u), "UNIVERSITY_ASSIGNED", expected)

(* The answer deadline passes. *)
DeadlinePasses(i) ==
    /\ allocations' = [allocations EXCEPT ![i].late = TRUE]
    /\ UNCHANGED <<challenge, projects, history, shown>>

(* /allocations/{id}/respond, and /assignments/{id}/respond: the            *)
(* allocation's status and the challenge's are not looked at. *)
MayRespond(a, i) ==
    a.role = "GOVERNMENT_ADMIN" \/ a.university = allocations[i].university

AcceptAllocation(a, i, expected) ==
    /\ MayRespond(a, i) /\ Matches(expected)
    /\ ~allocations[i].late
    /\ Store([Bumped(Session) EXCEPT !.allocations = Answer(i, "ACCEPTED")])
    /\ UNCHANGED history

(* Mutant: a decline moves the challenge and records nothing. *)
DeclineUnrecorded(a, i, expected) ==
    /\ MayRespond(a, i) /\ Matches(expected)
    /\ Store([Bumped(Session) EXCEPT
                 !.allocations = Answer(i, "DECLINED"),
                 !.challenge.university = NoUniversity, !.challenge.status = "VALIDATED"])
    /\ UNCHANGED history

DeclineAllocation(a, i, expected) ==
    /\ MayRespond(a, i) /\ Matches(expected)
    /\ Store([Bumped(Session) EXCEPT
                 !.allocations = Answer(i, "DECLINED"),
                 !.challenge.university = NoUniversity, !.challenge.status = "VALIDATED"])
    /\ Record("UNIVERSITY_ASSIGNED", "VALIDATED")

RespondAllocation(a, i, expected) ==
    AcceptAllocation(a, i, expected) \/ DeclineAllocation(a, i, expected)

(* The allocations after the one on offer, if there is one, is answered. *)
Answered(status) ==
    LET offered == {i \in DOMAIN allocations : allocations[i].status = "OFFERED"}
    IN  IF offered = {} THEN {allocations} ELSE {Answer(i, status) : i \in offered}

(* The HEI of a request: an administrator acts for the assigned one. *)
Adopting(a) == IF a.role = "UNIVERSITY" THEN a.university ELSE challenge.university

(* /universities/accept-challenge and /reject-challenge *)
AcceptChallenge(a) ==
    LET u == Adopting(a)
    IN  /\ MayAdopt(a)
        /\ a.role = "UNIVERSITY" => challenge.university \in {NoUniversity, u}
        /\ \E answered \in Answered("ACCEPTED") :
               Transition(a, [Session EXCEPT !.allocations = answered,
                                             !.challenge.university = u], "TEAM_FORMED", 0)

RejectChallenge(a) ==
    /\ MayAdopt(a)
    /\ a.role = "UNIVERSITY" => challenge.university = a.university
    /\ \E answered \in Answered("DECLINED") :
           Transition(a, [Session EXCEPT !.allocations = answered,
                                         !.challenge.university = NoUniversity], "VALIDATED", 0)

-----------------------------------------------------------------------------
(* Projects *)

NewProject(u) == [university |-> u, tested |-> FALSE, stage |-> "Research & Team Formation"]

(* POST /projects *)
CreateProject(a) ==
    LET u == Adopting(a)
    IN  /\ MayAdopt(a)
        /\ u # NoUniversity
        /\ challenge.university \in {NoUniversity, u}
        /\ challenge.status \in {"UNIVERSITY_ASSIGNED", "TEAM_FORMED"}
        /\ ActiveProjects(u) < Capacity
        /\ Transition(a, [Session EXCEPT !.projects = Append(@, NewProject(u)),
                                         !.challenge.university = u], "TEAM_FORMED", 0)

(* /test-reports: a project member records a PASS or PARTIAL outcome. *)
AddTestReport(i) ==
    /\ projects' = [projects EXCEPT ![i].tested = TRUE]
    /\ UNCHANGED <<challenge, allocations, history, shown>>

(* /close, once evaluate_closure_preconditions finds nothing missing: the   *)
(* challenge is resolved on the way unless it was. *)
CloseProject(a, i) ==
    LET completed == [projects EXCEPT ![i].stage = "Completed"]
        from == challenge.status
        steps == IF from = "CLOSED" THEN 0
                 ELSE IF from \in {"RESOLVED", "IMPACT_AUDITED"} THEN 1 ELSE 2
    IN  /\ MayAssign(a)
        /\ steps = 2 => a.role \in AllowedRoles[<<from, "RESOLVED">>]
        /\ projects' = completed
        /\ challenge' = [challenge EXCEPT !.status = "CLOSED", !.version = @ + steps]
        /\ Record(from, "CLOSED")
        /\ UNCHANGED <<allocations, shown>>

(* /escalate-regression: the latest project goes back to remediation, in    *)
(* the same transaction. *)
EscalateRegression(a) ==
    LET n == Len(projects)
        remediated == IF n = 0 THEN projects
                      ELSE [projects EXCEPT ![n].stage = "Post-Deployment Remediation"]
    IN  /\ ~Outside(a)
        /\ a.role = "CITIZEN" => a = Submitter
        /\ Transition(a, [Session EXCEPT !.projects = remediated], "REOPENED", 0)

-----------------------------------------------------------------------------
(* A client displays the challenge. *)
Show == shown' = challenge /\ UNCHANGED <<challenge, allocations, projects, history>>

(* The requests that carry the version the client displays, or none. *)
Decide(a, expected) ==
    \/ \E to \in ChallengeStatus : UpdateStatus(a, to, expected)
    \/ AcceptForReview(a, expected) \/ RequestInfo(a, expected) \/ RejectReport(a, expected)
    \/ MarkDuplicate(a, expected) \/ PauseChallenge(a, expected) \/ Resume(a, expected)
    \/ \E tier \in Tiers : Validate(a, tier, expected) \/ EscalateTier(a, tier, expected)
    \/ SubmitClarification(a, expected) \/ Reopen(a, expected) \/ KeepSeparate(a, expected)
    \/ /\ Len(allocations) < MaxAllocations
       /\ \E u \in Universities : AssignChallenge(a, u, expected)
    \/ \E i \in DOMAIN allocations : RespondAllocation(a, i, expected)

(* The requests that carry no version. *)
Act(a) ==
    \/ Appeal(a) \/ AcceptChallenge(a) \/ RejectChallenge(a) \/ EscalateRegression(a)
    \/ Len(projects) < MaxProjects /\ CreateProject(a)
    \/ \E i \in DOMAIN projects : CloseProject(a, i)

Next ==
    \/ /\ challenge.version < MaxVersion
       /\ \/ \E a \in Actors :
                Act(a) \/ \E expected \in {0, shown.version} : Decide(a, expected)
          \/ AnalyzeChallenge
    \/ \E i \in DOMAIN allocations : DeadlinePasses(i)
    \/ \E i \in DOMAIN projects : AddTestReport(i)
    \/ Show

Spec == Init /\ [][Next]_vars

-----------------------------------------------------------------------------
(* Properties *)

(* A version identifies the content of a challenge, although requests that  *)
(* are refused take versions too: whoever displays the current version      *)
(* displays the current status, assignment and tier. *)
VersionIdentifiesChallenge ==
    shown.version <= challenge.version /\ (shown.version = challenge.version => shown = challenge)

(* However assignments, answers, declines of superseded offers and refused  *)
(* answers follow each other, no two institutions hold an open offer. *)
OneOffer ==
    \A i, j \in DOMAIN allocations :
        allocations[i].status = "OFFERED" /\ allocations[j].status = "OFFERED" => i = j

(* No path through the table, a pause or a decline leads to deployment      *)
(* without a test report of a project. *)
DeploymentTested ==
    challenge.status = "DEPLOYMENT" => \E i \in DOMAIN projects : projects[i].tested

(* projects.py: a rejected request never leaves an orphan project behind.   *)
(* A creation that does not move the challenge was rejected. *)
RejectedCreationLeavesNothing ==
    [][\A a \in Actors : CreateProject(a) /\ Outside(a)
          => challenge.status = "TEAM_FORMED" \/ projects' = projects]_vars

(* status_history follows every change of the status, those that bypass     *)
(* transition_challenge included, except that the last row may be the tier  *)
(* of an escalation. *)
HistoryTellsStatus == history \in Tiers \/ history = challenge.status
=============================================================================
