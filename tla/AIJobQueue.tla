----------------------------- MODULE AIJobQueue -----------------------------
(***************************************************************************)
(* The durable queue of AI analyses (table ai_jobs) and everybody who      *)
(* works on it: worker daemons, which claim jobs in batches, the request   *)
(* or background task that reported the challenge, and administrators who  *)
(* retry.  Only the workers claim; all of them run process_job, which      *)
(* takes whatever job it is given.  Officers override the priority that    *)
(* an analysis gives a challenge, without asking the queue.                *)
(*                                                                         *)
(* A process commits several times while it works on a job and may stop    *)
(* between two commits.  The visibility timeout finds such jobs, and also  *)
(* those of a worker that is merely slow.  The table of the state machine  *)
(* lets the analysis move a challenge only out of SUBMITTED, where an      *)
(* officer may send it back to, and one challenge has one row in           *)
(* ai_analysis at most.                                                    *)
(***************************************************************************)
EXTENDS Naturals, FiniteSets

CONSTANTS
    Jobs,         \* ids of the jobs, one for each challenge
    Workers,      \* worker daemons
    Enqueuers,    \* the request or background task of a new challenge
    Admins,       \* administrators' requests on the queue
    Officers,     \* requests of officers that override an analysis
    JobOf,        \* the job each new challenge enqueued
    Priorities,   \* the priorities of challenges
    Reported,     \* the priority of a challenge that nobody has assessed
    Overrides,    \* values of an override, priorities and others
    MaxRetries,   \* max_retries of a job
    Limit,        \* jobs a worker claims at once
    SlowWorkers,  \* whether a process may outlast the visibility timeout
    MaxCrashes, MaxManual   \* bounds: crashes, requests of administrators and officers

Processors == Workers \cup Enqueuers \cup Admins
Processes == Processors \cup Officers

ASSUME JobsAssumption == Jobs \subseteq Nat /\ JobOf \in [Enqueuers -> Jobs]
ASSUME ProcessesAssumption ==
    /\ Workers \cap Enqueuers = {} /\ Admins \cap (Workers \cup Enqueuers) = {}
    /\ Officers \cap Processors = {}
ASSUME QueueAssumption ==
    /\ MaxRetries \in Nat \ {0} /\ Limit \in Nat \ {0} /\ SlowWorkers \in BOOLEAN
    /\ MaxCrashes \in Nat /\ MaxManual \in Nat
ASSUME PriorityAssumption == Reported \in Priorities

VARIABLES
    job,        \* rows of ai_jobs: status, attempts, whether next_run_at has
                \* come, whether updated_at is older than the timeout
    analysis,   \* the jobs whose challenge has a row in ai_analysis
    challenge,  \* status of the job's challenge
    priority,   \* and its priority
    overrides,  \* value of the last override of its priority
    pc,         \* where each process is
    batch,      \* the jobs it has in hand, worked on by ascending id
    loaded,     \* what it has loaded of the current job and its challenge and
                \* not yet lost: a commit and a rollback expire it
    found,      \* what recover_stale_jobs is about to requeue and to bury
    crashes, manual   \* counts for the bounds

(* What is known of the challenges. *)
records == <<analysis, challenge, priority, overrides>>
queueVars == <<job, records, pc, batch, loaded, found, crashes, manual>>

AIJobStatus == {"PENDING", "PROCESSING", "COMPLETED", "FAILED", "DEAD_LETTER",
                "FALLBACK_COMPLETED"}
Settled == {"COMPLETED", "FALLBACK_COMPLETED", "DEAD_LETTER"}
Job == [status : AIJobStatus, attempts : Nat, due : BOOLEAN, stale : BOOLEAN]

(* What the analysis tells apart: a challenge an officer has moved on can   *)
(* not be moved to AI_ANALYSIS.  UNDER_REVIEW stands for every status an    *)
(* officer moves it on to. *)
Reviewable == {"SUBMITTED", "AI_ANALYSIS"}

Loaded == [processing : BOOLEAN, attempts : Nat, challenge : Reviewable \cup {"UNDER_REVIEW"},
           priority : Priorities]
Expired == [processing |-> FALSE, attempts |-> 0, challenge |-> "SUBMITTED",
            priority |-> Reported]

NoOverride == "none"

QueueTypeOK ==
    /\ job \in [Jobs -> Job]
    /\ analysis \subseteq Jobs
    /\ challenge \in [Jobs -> Reviewable \cup {"UNDER_REVIEW"}]
    /\ priority \in [Jobs -> Priorities]
    /\ overrides \in [Jobs -> Overrides \cup {NoOverride}]
    /\ pc \in [Processes -> {"idle", "recover", "enqueue", "load", "mark", "analyse",
                             "analysing", "complete", "failed", "back off", "fall back",
                             "falling back", "settle", "override", "done"}]
    /\ batch \in [Processes -> SUBSET Jobs]
    /\ loaded \in [Processes -> Loaded]
    /\ found \in [Processes -> [requeue : SUBSET Jobs, bury : SUBSET Jobs]]
    /\ crashes \in Nat /\ manual \in Nat

QueueInit ==
    /\ job = [j \in Jobs |->
                 [status |-> "PENDING", attempts |-> 0, due |-> TRUE, stale |-> FALSE]]
    /\ analysis = {}
    /\ challenge = [j \in Jobs |-> "SUBMITTED"]
    /\ priority = [j \in Jobs |-> Reported]
    /\ overrides = [j \in Jobs |-> NoOverride]
    /\ \E start \in {"enqueue", "load"} :
           pc = [p \in Processes |-> IF p \in Enqueuers THEN start ELSE "idle"]
    /\ batch = [p \in Processes |-> IF p \in Enqueuers THEN {JobOf[p]} ELSE {}]
    /\ loaded = [p \in Processes |-> Expired]
    /\ found = [p \in Processes |-> [requeue |-> {}, bury |-> {}]]
    /\ crashes = 0 /\ manual = 0

-----------------------------------------------------------------------------
Current(p) == CHOOSE j \in batch[p] : \A other \in batch[p] : j <= other
Rest(p) == IF p \in Enqueuers THEN "done" ELSE "idle"

Goto(p, place) == pc' = [pc EXCEPT ![p] = place]

(* An UPDATE of the job: updated_at is refreshed with it. *)
Write(j, status, attempts, due) ==
    job' = [job EXCEPT ![j] =
               [status |-> status, attempts |-> attempts, due |-> due, stale |-> FALSE]]

(* On to the next job of the batch. *)
Advance(p) ==
    /\ loaded' = [loaded EXCEPT ![p] = Expired]
    /\ batch' = [batch EXCEPT ![p] = @ \ {Current(p)}]
    /\ Goto(p, IF batch[p] = {Current(p)} THEN Rest(p) ELSE "load")

(* The process gives up everything it has in hand. *)
Drop(p) ==
    /\ loaded' = [loaded EXCEPT ![p] = Expired]
    /\ batch' = [batch EXCEPT ![p] = {}]
    /\ Goto(p, Rest(p))

-----------------------------------------------------------------------------
(* process_job *)

LoadJob(p) ==
    /\ pc[p] = "load"
    /\ loaded' = [loaded EXCEPT ![p].processing = job[Current(p)].status = "PROCESSING"]
    /\ Goto(p, "mark")
    /\ UNCHANGED <<job, records, batch, found, crashes, manual>>

(* status = PROCESSING: no UPDATE when the session saw it so. *)
MarkProcessing(p) ==
    /\ pc[p] = "mark"
    /\ IF loaded[p].processing THEN UNCHANGED job
       ELSE LET j == Current(p) IN Write(j, "PROCESSING", job[j].attempts, job[j].due)
    /\ loaded' = [loaded EXCEPT ![p] = Expired]
    /\ Goto(p, "analyse")
    /\ UNCHANGED <<records, batch, found, crashes, manual>>

(* The challenge is read before the analysis is computed. *)
ReadChallenge(p) ==
    /\ \/ pc[p] = "analyse" /\ Goto(p, "analysing")
       \/ pc[p] = "fall back" /\ Goto(p, "falling back")
    /\ loaded' = [loaded EXCEPT ![p].challenge = challenge[Current(p)],
                                ![p].priority = priority[Current(p)]]
    /\ UNCHANGED <<job, records, batch, found, crashes, manual>>

(* Mutant: nothing keeps a challenge from a second analysis. *)
AddAnotherAnalysis(j, p) ==
    /\ analysis' = analysis \cup {j}
    /\ \E detected \in Priorities :
           priority' = IF detected = loaded[p].priority THEN priority
                       ELSE [priority EXCEPT ![j] = detected]
    /\ UNCHANGED overrides

(* The analysis is one row for a challenge at most; its priority is written *)
(* to the challenge unless it was loaded so. *)
AddAnalysis(j, p) ==
    /\ j \notin analysis
    /\ analysis' = analysis \cup {j}
    /\ \E detected \in Priorities :
           priority' = IF detected = loaded[p].priority THEN priority
                       ELSE [priority EXCEPT ![j] = detected]
    /\ UNCHANGED overrides

(* _run_analysis_core adds the analysis, moves the challenge and commits,   *)
(* with whatever else the session has changed. *)
Analysed(j, p) ==
    /\ loaded[p].challenge \in Reviewable
    /\ AddAnalysis(j, p)
    /\ challenge' = IF loaded[p].challenge = "SUBMITTED"
                      THEN [challenge EXCEPT ![j] = "AI_ANALYSIS"] ELSE challenge

AnalysisSucceeds(p) ==
    /\ pc[p] = "analysing"
    /\ Analysed(Current(p), p)
    /\ loaded' = [loaded EXCEPT ![p] = Expired]
    /\ Goto(p, "complete")
    /\ UNCHANGED <<job, batch, found, crashes, manual>>

Complete(p) ==
    /\ pc[p] = "complete"
    /\ LET j == Current(p) IN Write(j, "COMPLETED", job[j].attempts, job[j].due)
    /\ Advance(p)
    /\ UNCHANGED <<records, found, crashes, manual>>

(* Mutant: the exception of an analysis is swallowed. *)
FailureSwallowed(p) ==
    /\ pc[p] = "analysing"
    /\ loaded' = [loaded EXCEPT ![p] = Expired]
    /\ Goto(p, "complete")
    /\ UNCHANGED <<job, records, batch, found, crashes, manual>>

(* The second row of a challenge in ai_analysis, a move the table does not  *)
(* have, a lost number of the audit ledger, an error in a classifier: the   *)
(* transaction is rolled back. *)
AnalysisFails(p) ==
    /\ pc[p] = "analysing"
    /\ loaded' = [loaded EXCEPT ![p] = Expired]
    /\ Goto(p, "failed")
    /\ UNCHANGED <<job, records, batch, found, crashes, manual>>

CountFailure(p) ==
    LET j == Current(p)
        attempts == job[j].attempts + 1
    IN  /\ pc[p] = "failed"
        /\ loaded' = [loaded EXCEPT ![p].attempts = attempts]
        /\ Goto(p, IF attempts >= MaxRetries THEN "fall back" ELSE "back off")
        /\ UNCHANGED <<job, records, batch, found, crashes, manual>>

BackOff(p) ==
    /\ pc[p] = "back off"
    /\ Write(Current(p), "FAILED", loaded[p].attempts, FALSE)
    /\ Advance(p)
    /\ UNCHANGED <<records, found, crashes, manual>>

(* The analysis of the fallback commits the new attempts with it. *)
FallbackSucceeds(p) ==
    /\ pc[p] = "falling back"
    /\ LET j == Current(p)
       IN  Analysed(j, p) /\ Write(j, job[j].status, loaded[p].attempts, job[j].due)
    /\ loaded' = [loaded EXCEPT ![p] = Expired]
    /\ Goto(p, "settle")
    /\ UNCHANGED <<batch, found, crashes, manual>>

Settle(p) ==
    /\ pc[p] = "settle"
    /\ LET j == Current(p) IN Write(j, "FALLBACK_COMPLETED", job[j].attempts, job[j].due)
    /\ Advance(p)
    /\ UNCHANGED <<records, found, crashes, manual>>

(* The fallback fails before it adds a row, or is refused by the table      *)
(* after: nothing is rolled back, the row is committed with the job. *)
FallbackFails(p) ==
    /\ pc[p] = "falling back"
    /\ LET j == Current(p)
       IN  /\ Write(j, "DEAD_LETTER", loaded[p].attempts, job[j].due)
           /\ \/ UNCHANGED <<analysis, priority, overrides>>
              \/ loaded[p].challenge \notin Reviewable /\ AddAnalysis(j, p)
    /\ Advance(p)
    /\ UNCHANGED <<challenge, found, crashes, manual>>

(* The database refuses a row of the fallback: the session can not commit   *)
(* the failure, the exception leaves process_job and ends the batch. *)
FallbackBreaks(p) ==
    /\ pc[p] = "falling back"
    /\ Drop(p)
    /\ UNCHANGED <<job, records, found, crashes, manual>>

ProcessJob(p) ==
    \/ LoadJob(p) \/ MarkProcessing(p) \/ ReadChallenge(p)
    \/ AnalysisSucceeds(p) \/ Complete(p) \/ AnalysisFails(p) \/ CountFailure(p) \/ BackOff(p)
    \/ FallbackSucceeds(p) \/ Settle(p) \/ FallbackFails(p) \/ FallbackBreaks(p)

-----------------------------------------------------------------------------
(* The worker's cycle *)

(* Mutant: a stale job without attempts left is passed over. *)
StaleWithAttempts ==
    {j \in Jobs : job[j].status = "PROCESSING" /\ job[j].stale /\ job[j].attempts < MaxRetries}

Stale == {j \in Jobs : job[j].status = "PROCESSING" /\ job[j].stale}
Waiting == {j \in Jobs : job[j].status \in {"PENDING", "FAILED"} /\ job[j].due}

(* recover_stale_jobs: the query, *)
FindStale(w) ==
    LET spent == {j \in Stale : job[j].attempts >= MaxRetries}
    IN  /\ pc[w] = "idle" /\ Stale # {}
        /\ found' = [found EXCEPT ![w] = [requeue |-> Stale \ spent, bury |-> spent]]
        /\ Goto(w, "recover")
        /\ UNCHANGED <<job, records, batch, loaded, crashes, manual>>

(* and its UPDATE statements, which ask nothing again. *)
Recover(w) ==
    /\ pc[w] = "recover"
    /\ job' = [j \in Jobs |->
           IF j \in found[w].requeue
             THEN [job[j] EXCEPT !.status = "PENDING", !.due = TRUE, !.stale = FALSE]
           ELSE IF j \in found[w].bury
             THEN [job[j] EXCEPT !.status = "DEAD_LETTER", !.stale = FALSE]
           ELSE job[j]]
    /\ found' = [found EXCEPT ![w] = [requeue |-> {}, bury |-> {}]]
    /\ Goto(w, "idle")
    /\ UNCHANGED <<records, batch, loaded, crashes, manual>>

(* claim_ai_jobs: SELECT ... FOR UPDATE SKIP LOCKED makes it one step. *)
Claim(w) ==
    LET claimed == {j \in Waiting : Cardinality({i \in Waiting : i < j}) < Limit}
    IN  /\ pc[w] = "idle" /\ claimed # {}
        /\ job' = [j \in Jobs |->
               IF j \in claimed
                 THEN [job[j] EXCEPT !.status = "PROCESSING", !.attempts = @ + 1,
                                     !.stale = FALSE]
               ELSE job[j]]
        /\ batch' = [batch EXCEPT ![w] = claimed]
        /\ Goto(w, "load")
        /\ UNCHANGED <<records, loaded, found, crashes, manual>>

-----------------------------------------------------------------------------
(* The others *)

(* enqueue_ai_job for a challenge that has a job. *)
Enqueue(p) ==
    /\ pc[p] = "enqueue"
    /\ LET j == Current(p)
       IN  IF job[j].status \in {"FAILED", "DEAD_LETTER", "FALLBACK_COMPLETED"}
             THEN Write(j, "PENDING", 0, TRUE) ELSE UNCHANGED job
    /\ Goto(p, "load")
    /\ UNCHANGED <<records, batch, loaded, found, crashes, manual>>

(* retry_job *)
Requeue(j) == Write(j, "PENDING", 0, TRUE)

(* /ai/jobs/{id}/retry: any job, whatever its status. *)
RetryJob(p, j) ==
    /\ pc[p] = "idle" /\ manual < MaxManual
    /\ manual' = manual + 1
    /\ Requeue(j)
    /\ batch' = [batch EXCEPT ![p] = {j}]
    /\ Goto(p, "load")
    /\ UNCHANGED <<records, loaded, found, crashes>>

(* /ai/jobs/process: nothing is claimed. *)
ProcessPendingJobs(p) ==
    /\ pc[p] = "idle" /\ manual < MaxManual /\ Waiting # {}
    /\ manual' = manual + 1
    /\ batch' = [batch EXCEPT ![p] = Waiting]
    /\ Goto(p, "load")
    /\ UNCHANGED <<job, records, loaded, found, crashes>>

(* /challenges/{id}/ai-override with a priority: the challenge is loaded, *)
LoadOverridden(o, j) ==
    /\ pc[o] = "idle" /\ manual < MaxManual
    /\ manual' = manual + 1
    /\ batch' = [batch EXCEPT ![o] = {j}]
    /\ loaded' = [loaded EXCEPT ![o].priority = priority[j]]
    /\ Goto(o, "override")
    /\ UNCHANGED <<job, records, found, crashes>>

(* priority = ChallengePriority(value): no UPDATE when it was loaded so. *)
OverridePriority(o, j, value) ==
    priority' = IF value \in Priorities /\ value # loaded[o].priority
                THEN [priority EXCEPT ![j] = value] ELSE priority

(* and every override is recorded, also with a value that is no priority    *)
(* and leaves the challenge as it is. *)
RecordOverride(o) ==
    /\ pc[o] = "override"
    /\ \E value \in Overrides :
           /\ OverridePriority(o, Current(o), value)
           /\ overrides' = [overrides EXCEPT ![Current(o)] = value]
    /\ Drop(o)
    /\ UNCHANGED <<job, analysis, challenge, found, crashes, manual>>

(* /challenges/{id}/status, along the table: the challenge is moved on, to  *)
(* AI_ANALYSIS by hand, or, from NEEDS_MORE_INFO, back to SUBMITTED.  The   *)
(* queue is not asked. *)
OfficerDecides(j) ==
    /\ manual < MaxManual
    /\ manual' = manual + 1
    /\ \E status \in Reviewable \cup {"UNDER_REVIEW"} :
           /\ <<challenge[j], status>> \in
                  {<<"SUBMITTED", "AI_ANALYSIS">>, <<"SUBMITTED", "UNDER_REVIEW">>,
                   <<"AI_ANALYSIS", "UNDER_REVIEW">>, <<"UNDER_REVIEW", "SUBMITTED">>}
           /\ challenge' = [challenge EXCEPT ![j] = status]
    /\ UNCHANGED <<job, analysis, priority, overrides, pc, batch, loaded, found, crashes>>

(* A process stops between two commits; a worker is started again. *)
Crash(p) ==
    /\ pc[p] \notin {"idle", "done"} /\ crashes < MaxCrashes
    /\ crashes' = crashes + 1
    /\ Drop(p)
    /\ found' = [found EXCEPT ![p] = [requeue |-> {}, bury |-> {}]]
    /\ UNCHANGED <<job, records, manual>>

(* Time: next_run_at comes, and updated_at falls behind the timeout. *)
BecomeDue(j) ==
    /\ ~job[j].due
    /\ job' = [job EXCEPT ![j].due = TRUE]
    /\ UNCHANGED <<records, pc, batch, loaded, found, crashes, manual>>

Held(j) == \E p \in Processors : j \in batch[p]

BecomeStale(j) ==
    /\ job[j].status = "PROCESSING" /\ ~job[j].stale
    /\ SlowWorkers \/ ~Held(j)
    /\ job' = [job EXCEPT ![j].stale = TRUE]
    /\ UNCHANGED <<records, pc, batch, loaded, found, crashes, manual>>

Work(w) == FindStale(w) \/ Recover(w) \/ Claim(w) \/ ProcessJob(w)

QueueNext ==
    \/ \E w \in Workers : Work(w)
    \/ \E p \in Enqueuers : Enqueue(p) \/ ProcessJob(p)
    \/ \E p \in Admins :
           (\E j \in Jobs : RetryJob(p, j)) \/ ProcessPendingJobs(p) \/ ProcessJob(p)
    \/ \E o \in Officers : (\E j \in Jobs : LoadOverridden(o, j)) \/ RecordOverride(o)
    \/ \E p \in Processes : Crash(p)
    \/ \E j \in Jobs : OfficerDecides(j) \/ BecomeDue(j) \/ BecomeStale(j)

QueueSpec == QueueInit /\ [][QueueNext]_queueVars

(* Workers run for ever, what is begun is continued or crashes, time passes. *)
Fairness ==
    /\ \A w \in Workers : WF_queueVars(Work(w))
    /\ \A p \in Processors \ Workers : WF_queueVars(Enqueue(p) \/ ProcessJob(p))
    /\ \A j \in Jobs : WF_queueVars(BecomeDue(j)) /\ WF_queueVars(BecomeStale(j))

FairSpec == QueueSpec /\ Fairness

-----------------------------------------------------------------------------
(* Properties *)

(* A job that is reported as done has left an analysis, whoever else worked *)
(* on it, retried it, stopped half-way or lost the one row to another. *)
FinishedAnalysed ==
    \A j \in Jobs : job[j].status \in {"COMPLETED", "FALLBACK_COMPLETED"} => j \in analysis

(* README.md: a human decides on the priority of a challenge.  Once it is   *)
(* analysed, only an override that is recorded changes it: an analysis that *)
(* is retried, requeued or run by two workers at once does not. *)
OverridesStand ==
    [][\A j \in analysis : priority'[j] # priority[j] => priority'[j] = overrides'[j]]_queueVars

(* No job is lost: whatever crashes, batches dropped on the way and         *)
(* repeated analyses, every job comes to rest. *)
EveryJobSettles == \A j \in Jobs : <>[](job[j].status \in Settled)

Processing(p, j) == pc[p] \notin {"idle", "recover", "enqueue", "done"} /\ Current(p) = j

(* walkthrough.md: several workers process no AI job twice at once. *)
ExclusiveProcessing ==
    \A p, q \in Processors : \A j \in Jobs :
        Processing(p, j) /\ Processing(q, j) => p = q

(* AI_GOVERNANCE.md: triage decisions are human.  An analysis does not move *)
(* a challenge an officer has decided. *)
DecisionsStand == [][\A j \in Jobs : challenge[j] \notin Reviewable
                        => challenge'[j] # "AI_ANALYSIS"]_queueVars
=============================================================================
