-------------------------- MODULE ProjectMilestones --------------------------
(***************************************************************************)
(* The weighted milestone plan of one project: its edition and its lock,   *)
(* the evidence, submission and review of a milestone, and the progress    *)
(* that a review derives.                                                  *)
(*                                                                         *)
(* A request has two steps (Requests).  A commit writes the columns that   *)
(* the handler changed: a column set to the value it was loaded with is    *)
(* not written, and a request that would write nothing is no step.         *)
(* Weights are decimal numbers that the handlers add up and compare within *)
(* tolerances; here they are whole numbers of the smallest tolerance.      *)
(***************************************************************************)
EXTENDS Requests, Integers, Sequences

CONSTANTS
    Planners,       \* sessions that edit the plan
    Workers,        \* sessions that work on the milestones and review them
    InitialPlan,    \* the weights of the default scaffold
    Weights,        \* weights a new milestone may have
    NewWeights,     \* weights an edition may set: no range is checked
    MaxMilestones   \* bound of the model

Percent == 1000000
Full == 100 * Percent
EditTolerance == 1
LockTolerance == Percent \div 100

(* What passes verify_project_access and what also passes                  *)
(* verify_project_membership. *)
Team == {"UNIVERSITY", "FACULTY_MENTOR", "STUDENT", "GOVERNMENT_ADMIN"}
Members == Team \cup {"GOVERNMENT_OFFICER", "INDUSTRY"}
Reviewers == {"UNIVERSITY", "FACULTY_MENTOR", "GOVERNMENT_ADMIN"}
Inspectors == {"GOVERNMENT_ADMIN", "GOVERNMENT_OFFICER", "PRI"}

MilestoneStatus ==
    {"NOT_STARTED", "IN_PROGRESS", "SUBMITTED", "REVISION_REQUESTED", "APPROVED", "COMPLETED"}
Earning == {"APPROVED", "COMPLETED"}

(* No row any more. *)
Deleted == "DELETED"

SumOf(numbers) ==
    LET sum[n \in 0 .. Len(numbers)] == IF n = 0 THEN 0 ELSE sum[n - 1] + numbers[n]
    IN  sum[Len(numbers)]

ASSUME PlanAssumption ==
    /\ InitialPlan \in Seq(1 .. Full) /\ Len(InitialPlan) <= MaxMilestones
    /\ SumOf(InitialPlan) <= Full
    /\ Weights \subseteq 1 .. Full /\ NewWeights \subseteq Int
    /\ Planners \cap Workers = {} /\ Planners \cup Workers \subseteq Sessions
    /\ MaxMilestones \in Nat

-----------------------------------------------------------------------------
(* ALLOWED_MILESTONE_TRANSITIONS: a pair it does not hold is allowed to all. *)
AllowedMilestoneRoles ==
    LET government == {"GOVERNMENT_ADMIN", "GOVERNMENT_OFFICER"}
        reviewed == {"FACULTY_MENTOR"} \cup government
    IN  ({<<"NOT_STARTED", "IN_PROGRESS">>, <<"IN_PROGRESS", "SUBMITTED">>,
          <<"REVISION_REQUESTED", "IN_PROGRESS">>, <<"REVISION_REQUESTED", "SUBMITTED">>} \X Team)
        \cup ({<<"SUBMITTED", "APPROVED">>, <<"SUBMITTED", "IN_PROGRESS">>} \X reviewed)
        \cup ({<<"SUBMITTED", "REVISION_REQUESTED">>, <<"APPROVED", "COMPLETED">>}
                 \X (reviewed \cup {"UNIVERSITY"}))

MayMove(role, from, to) ==
    (\E other \in Members : <<<<from, to>>, other>> \in AllowedMilestoneRoles)
        => <<<<from, to>>, role>> \in AllowedMilestoneRoles

-----------------------------------------------------------------------------
VARIABLES
    milestones,   \* the rows, oldest first
    locked,       \* milestones_locked
    progress,     \* progress_percentage
    overtaken     \* history: an edition of the plan was committed while
                  \* another, which had been checked before, was under way

project == <<milestones, locked, progress>>
vars == <<project, session, overtaken>>

Row == [status : MilestoneStatus \cup {Deleted}, weight : Int,
        evidence : BOOLEAN, approved : BOOLEAN]
NewRow(weight) ==
    [status |-> "NOT_STARTED", weight |-> weight, evidence |-> FALSE, approved |-> FALSE]

Id == 1 .. MaxMilestones
Request ==
    [op : {"none", "finalize"}]
        \cup [op : {"add"}, weight : Weights]
        \cup [op : {"weigh"}, milestone : Id, weight : NewWeights]
        \cup [op : {"delete"}, milestone : Id]
        \cup [op : {"start"}, milestone : Id, may : BOOLEAN]
        \cup [op : {"move"}, milestone : Id, to : MilestoneStatus]
        \cup [op : {"review"}, milestone : Id, to : MilestoneStatus, moves : BOOLEAN,
              weight : Int, progress : Int]

TypeOK ==
    /\ milestones \in Seq(Row) /\ Len(milestones) <= MaxMilestones
    /\ locked \in BOOLEAN
    /\ progress \in Int
    /\ session \in [Sessions -> Request]
    /\ overtaken \in BOOLEAN

Init ==
    /\ milestones = [i \in DOMAIN InitialPlan |-> NewRow(InitialPlan[i])]
    /\ locked = FALSE
    /\ progress = 0
    /\ overtaken = FALSE
    /\ NoRequests

Live(i) == i \in DOMAIN milestones /\ milestones[i].status # Deleted
Plan == {i \in DOMAIN milestones : Live(i)}

(* The weights of some of the rows. *)
WeightsOf(rows, ids) == [i \in DOMAIN rows |-> IF i \in ids THEN rows[i].weight ELSE 0]
Total(rows, ids) == SumOf(WeightsOf(rows, ids))

(* A handler has checked its request. *)
Ask(s, request) == Receive(s, request) /\ UNCHANGED <<project, overtaken>>

-----------------------------------------------------------------------------
(* The plan *)

(* The commit of an edition. *)
FinishEdition(s, op) ==
    /\ Finish(s, op)
    /\ overtaken' = (overtaken \/ \E other \in Planners \ {s} : session[other] # Idle)

(* Mutant: the weights are not added up. *)
AddMilestoneAnyWeight(s, weight) ==
    ~locked /\ Ask(s, [op |-> "add", weight |-> weight])

AddMilestone(s, weight) ==
    /\ ~locked
    /\ Total(milestones, Plan) + weight <= Full + EditTolerance
    /\ Ask(s, [op |-> "add", weight |-> weight])

CommitAdd(s) ==
    /\ FinishEdition(s, "add")
    /\ Len(milestones) < MaxMilestones
    /\ milestones' = Append(milestones, NewRow(session[s].weight))
    /\ UNCHANGED <<locked, progress>>

UpdateMilestone(s, i, weight) ==
    /\ ~locked
    /\ Live(i) /\ milestones[i].status = "NOT_STARTED"
    /\ Total(milestones, Plan \ {i}) + weight <= Full + EditTolerance
    /\ weight # milestones[i].weight
    /\ Ask(s, [op |-> "weigh", milestone |-> i, weight |-> weight])

CommitWeight(s) ==
    LET i == session[s].milestone
    IN  /\ FinishEdition(s, "weigh")
        /\ Live(i)
        /\ milestones' = [milestones EXCEPT ![i].weight = session[s].weight]
        /\ UNCHANGED <<locked, progress>>

(* Mutant: a locked plan loses milestones. *)
DeleteMilestoneLocked(s, i) ==
    /\ Live(i) /\ milestones[i].status = "NOT_STARTED"
    /\ Ask(s, [op |-> "delete", milestone |-> i])

DeleteMilestone(s, i) ==
    /\ ~locked
    /\ Live(i) /\ milestones[i].status = "NOT_STARTED"
    /\ Ask(s, [op |-> "delete", milestone |-> i])

CommitDelete(s) ==
    LET i == session[s].milestone
    IN  /\ FinishEdition(s, "delete")
        /\ Live(i)
        /\ milestones' = [milestones EXCEPT ![i].status = Deleted]
        /\ UNCHANGED <<locked, progress>>

(* The weights of the plan are 100%, within the tolerance. *)
Complete == Total(milestones, Plan) \in Full - LockTolerance .. Full + LockTolerance

FinalizeMilestones(s) ==
    /\ ~locked
    /\ Complete
    /\ Ask(s, [op |-> "finalize"])

CommitLock(s) ==
    /\ FinishEdition(s, "finalize")
    /\ locked' = TRUE
    /\ UNCHANGED <<milestones, progress>>

-----------------------------------------------------------------------------
(* The work *)

(* save_evidence_file commits the row of the file it has stored. *)
Evidenced(i) == [milestones EXCEPT ![i].evidence = TRUE]

(* The evidence is committed before the status is looked at. *)
UploadMilestoneEvidence(s, role, i) ==
    /\ session[s] = Idle /\ role \in Members
    /\ Live(i)
    /\ milestones' = Evidenced(i)
    /\ session' = [session EXCEPT ![s] =
           [op |-> "start", milestone |-> i, may |-> MayMove(role, "NOT_STARTED", "IN_PROGRESS")]]
    /\ UNCHANGED <<locked, progress, overtaken>>

StartMilestone(s) ==
    LET i == session[s].milestone
        starts == Live(i) /\ milestones[i].status = "NOT_STARTED" /\ session[s].may
    IN  /\ session[s].op = "start"
        /\ session' = [session EXCEPT ![s] =
               IF starts THEN [op |-> "move", milestone |-> i, to |-> "IN_PROGRESS"] ELSE Idle]
        /\ UNCHANGED <<milestones, locked, progress, overtaken>>

(* Mutant: a milestone is submitted without evidence. *)
SubmitMilestoneUnproved(s, role, i) ==
    /\ role \in Team /\ Live(i)
    /\ milestones[i].status # "SUBMITTED"
    /\ MayMove(role, milestones[i].status, "SUBMITTED")
    /\ Ask(s, [op |-> "move", milestone |-> i, to |-> "SUBMITTED"])

SubmitMilestone(s, role, i) ==
    /\ role \in Team /\ Live(i)
    /\ milestones[i].evidence
    /\ milestones[i].status # "SUBMITTED"
    /\ MayMove(role, milestones[i].status, "SUBMITTED")
    /\ Ask(s, [op |-> "move", milestone |-> i, to |-> "SUBMITTED"])

(* Mutant: the milestone takes the status of its inspection. *)
VerifyMilestoneVerified(s, role, i) ==
    /\ role \in Inspectors /\ Live(i)
    /\ milestones[i].status # "APPROVED"
    /\ MayMove(role, milestones[i].status, "APPROVED")
    /\ Ask(s, [op |-> "move", milestone |-> i, to |-> "VERIFIED"])

(* A verified inspection approves the milestone it names. *)
VerifyMilestone(s, role, i) ==
    /\ role \in Inspectors /\ Live(i)
    /\ milestones[i].status # "APPROVED"
    /\ MayMove(role, milestones[i].status, "APPROVED")
    /\ Ask(s, [op |-> "move", milestone |-> i, to |-> "APPROVED"])

(* transition_milestone, as it is written. *)
Moved(i, to) ==
    [milestones EXCEPT ![i].status = to, ![i].approved = @ \/ to = "APPROVED"]

CommitMove(s) ==
    LET i == session[s].milestone
    IN  /\ Finish(s, "move")
        /\ Live(i)
        /\ milestones' = Moved(i, session[s].to)
        /\ UNCHANGED <<locked, progress, overtaken>>

(* A review that finds the milestone where it sends it moves nothing. *)
ReviewMilestone(s, role, i, to) ==
    LET row == milestones[i]
    IN  /\ role \in Reviewers /\ Live(i)
        /\ row.status = to \/ MayMove(role, row.status, to)
        /\ Ask(s, [op |-> "review", milestone |-> i, to |-> to, moves |-> row.status # to,
                   weight |-> row.weight, progress |-> progress])

(* The older endpoint of the mentor, which does ask for a submission. *)
ApproveMilestone(s, role, i) ==
    /\ Live(i) /\ milestones[i].status = "SUBMITTED"
    /\ ReviewMilestone(s, role, i, "APPROVED")

(* Mutant: every milestone of the plan counts. *)
EarnedByAll(i, to, weight) == Total(milestones, Plan)

(* Rounded to two decimals. *)
Rounded(number) == ((number + LockTolerance \div 2) \div LockTolerance) * LockTolerance

(* recalculate_project_progress: the query finds the other rows as they are *)
(* and the reviewed one as the session holds it. *)
Earned(i, to, weight) ==
    LET others == Total(milestones, {j \in Plan \ {i} : milestones[j].status \in Earning})
        earned == IF to \in Earning THEN others + weight ELSE others
    IN  Rounded(IF earned < Full THEN earned ELSE Full)

CommitReview(s) ==
    LET r == session[s]
        earned == Earned(r.milestone, r.to, r.weight)
    IN  /\ Finish(s, "review")
        /\ Live(r.milestone)
        /\ milestones' = IF r.moves THEN Moved(r.milestone, r.to) ELSE milestones
        /\ progress' = IF earned = r.progress THEN progress ELSE earned
        /\ UNCHANGED <<locked, overtaken>>

-----------------------------------------------------------------------------
Edit(s) ==
    \/ \E weight \in Weights : AddMilestone(s, weight)
    \/ FinalizeMilestones(s)
    \/ \E i \in DOMAIN milestones :
           DeleteMilestone(s, i) \/ \E weight \in NewWeights : UpdateMilestone(s, i, weight)
    \/ CommitAdd(s) \/ CommitWeight(s) \/ CommitDelete(s) \/ CommitLock(s)

Work(s) ==
    \/ \E i \in DOMAIN milestones, role \in Members \cup Inspectors :
           \/ UploadMilestoneEvidence(s, role, i)
           \/ SubmitMilestone(s, role, i)
           \/ VerifyMilestone(s, role, i)
           \/ \E to \in {"APPROVED", "REVISION_REQUESTED"} : ReviewMilestone(s, role, i, to)
           \/ ApproveMilestone(s, role, i)
    \/ StartMilestone(s) \/ CommitMove(s) \/ CommitReview(s)

Next ==
    \/ \E s \in Planners : Edit(s)
    \/ \E s \in Workers : Work(s)
    \/ \E s \in Sessions : RollBack(s) /\ UNCHANGED <<project, overtaken>>

Spec == Init /\ [][Next]_vars

-----------------------------------------------------------------------------
(* Properties *)

(* submit_milestone: "A milestone can only be submitted once it has at      *)
(* least one current evidence file", however uploads, submissions and       *)
(* reviews overlap and wherever a request stops. *)
SubmittedHasEvidence ==
    \A i \in DOMAIN milestones : milestones[i].status = "SUBMITTED" => milestones[i].evidence

(* The weights of the plan never exceed 100%, and those of a locked plan    *)
(* are 100%, both within the tolerance of the code, however many people     *)
(* edit it and whatever is submitted and reviewed meanwhile, unless an      *)
(* edition was committed while another one was under way: editions are      *)
(* checked against rows, and a lock, that another edition may be changing.  *)
(* A negative weight, which an edition may set, makes room that is no       *)
(* longer there when its milestone is deleted. *)
PlanWithinTotal ==
    ~overtaken /\ (\A i \in DOMAIN milestones : milestones[i].weight >= 0)
        => Total(milestones, Plan) <= Full + EditTolerance

LockedPlanComplete == ~overtaken /\ locked => Complete

(* Progress is of milestones that were approved, and never beyond 100%,     *)
(* although a review adds up rows that other requests are writing and       *)
(* leaves a progress alone that equals the one it loaded. *)
ProgressOfApproved ==
    progress <= Full /\ (progress # 0 => \E i \in DOMAIN milestones : milestones[i].approved)

(* projects.py on the edition of a milestone: "Progress is driven           *)
(* exclusively by evidence-backed review".  It is not: a milestone that was *)
(* never started can be reviewed. *)
ProgressIsEvidenceBacked ==
    progress # 0 => \E i \in DOMAIN milestones : milestones[i].approved /\ milestones[i].evidence
=============================================================================
