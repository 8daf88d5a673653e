# Formal models of the challenge platform

This directory holds TLA+ models of the backend in `src/backend/app` and of the
offline drafts of the client, the TLC configurations that check them on small
instances, and proofs about them for TLAPS. The platform takes reports of local
problems ("challenges") from citizens, lets government officers triage them,
allocates them to universities, follows the projects that solve them with their
teams, milestones, proposals and funds, closes them against a gate of
preconditions, and keeps a tamper-evident ledger of every decision.

Contents: [the system](#1-the-system) ·
[what is modelled where](#2-modules-and-the-code) ·
[runs](#3-what-the-runs-check) · [bounds](#4-bounds) ·
[fairness](#5-fairness) · [proofs](#6-what-is-proved) ·
[where code and documents disagree](#7-where-the-code-and-the-documents-disagree) ·
[what is left out](#8-what-is-not-modelled) · [plan](#9-plan).

To check everything: `tlc -config X.cfg M` for each run of section 3, and
`tlapm M.tla` for the eight `...Proofs` modules.

## 1. The system

A FastAPI application with SQLAlchemy sessions over PostgreSQL (READ COMMITTED;
SQLite in development). `SessionLocal` is created with `autocommit=False,
autoflush=False` (`core/database.py:48`), so a handler's changes reach the
database at an explicit flush or at its commit. The container runs four
uvicorn workers (`Dockerfile:59`), so any two requests interleave at every
database statement. A separate worker daemon (`worker.py`) may run in several
replicas. A Flutter client (`src/frontend`) keeps drafts offline and shows the
version of what it displays.

### Inventory

| Component | State | Operations | What makes it correct | Module |
|---|---|---|---|---|
| Challenge workflow (`services/workflow_service.py`, `routers/challenges.py`, `admin.py`) | `challenges.status/version/tier/assigned university` | about twenty endpoints, all through `transition_challenge` except decline, accept, escalate, keep-separate | a version stands for one content, so a decision can be compared with what was displayed; deployment only after a passed test | ChallengeWorkflow |
| Allocations (`workflow_service.py`, `routers/universities.py`) | `challenge_allocations` | assign, accept, decline (two routers), deadline | at most one open offer; a decline frees the challenge | ChallengeWorkflow |
| Domain audit ledger (`_record_domain_event`, `verify_audit_chain`) | `domain_audit_events`: number, hash, previous hash | append, verify | one unbroken chain whatever interleaves or crashes; the ledger tells the status | HashChain, AuditTrail, WorkflowTransactions |
| Request transactions (`core/database.py`) | session, row locks, uncommitted rows | query, flush, insert, commit, rollback | all or nothing; every request ends | WorkflowTransactions, Requests |
| AI jobs (`worker.py`, `services/ai/queue_service.py`, `ai_service.py`) | `ai_jobs`, `ai_analysis`, `ai_human_overrides` | enqueue, claim, process, back off, fall back, dead-letter, recover stale, retry, override a priority | every job settles, none reported done without analysis; an analysed challenge keeps its overrides | AIJobQueue |
| Outbox (`services/notification_service.py`, `worker.py`) | `notification_outbox` | queue, dispatch, claim, recover, fail | SENT means accepted; nothing stuck in SENDING; retries bounded | NotificationOutbox |
| Milestones (`routers/projects.py`, `faculty.py`, `verification.py`) | `project_milestones`, lock of the plan, progress | add, edit, delete, lock, upload, submit, review (three endpoints) | weights keep their total; what is submitted has evidence; progress is of approved milestones | ProjectMilestones |
| Team and tasks (`routers/projects.py`, `students.py`) | `team_invitations`, `project_members`, membership history, `project_tasks` | invite, answer, remove, replace, assign, upload, grade | members by invitation have accepted; leavers are on record | ProjectTeam |
| Proposals (`routers/projects.py`, `transition_proposal`) | `solution_proposals` | submit a version, review any version, industry feedback | approvals are signed; the newest version is current | SolutionProposals |
| Agreements and funding (`industry.py`, `projects.py`, `apply_funding_action`) | `industry_collaborations`, `funding_records` | offer, review, MoU, record, receipt, approve, hold, release, reverse | funds only under an accepted agreement, released with receipt and milestone | FundingLedger |
| IP records and consents | `ip_records`, `ip_consent_records` | create, answer | approved only with every party's acceptance | IPConsents |
| Verification and metrics (`verification.py`, `impact.py`) | `verification_records`, `outcome_metrics` | submit, review, report, measure, verify | reviewed by somebody else | OutcomeRecords |
| Closure gate (`evaluate_closure_preconditions`, `close_project_and_challenge`) | `project_closure_records`, stage of project and challenge | evaluate, close, regress | what a closure rests on stands | ProjectClosure |
| Sessions (`session_service.py`, `auth.py`, `email_service.py`) | `user_sessions`, `revoked_tokens`, `otp_challenges` | register, log in, rotate, log out everywhere, reset, erase | one live session of a login; a change of the password has used up a code | AccountSessions |
| Submission and drafts (`report_challenge`, `offline_draft_service.dart`, `storage_service.py`) | drafts on the device; `challenges.idempotency_key`; attachments and files | save, queue, send, retry, replay; upload, link, delete, restore | a draft becomes one challenge; attachments have files | ChallengeSubmission |
| Access control (`routers/deps.py`) | roles, permissions, jurisdictions | check, log denial | guards of the modules above; the commit of a denial in ChallengeWorkflow | |
| The rest (citizen feedback, rate limiter, classifiers, taxonomy, analytics, moderation, organisations, configuration, seed data, screens) | records and counters | look-ups, scoring, display | section 8 | |

### How the components interact

* A **request** runs one handler in one session. Most handlers of the workflow
  load the challenge, check permission and jurisdiction, change rows, call
  `transition_challenge`, which checks the version and the table and appends an
  event to the **ledger**, and commit.
* Reporting a challenge enqueues an **AI job**, which the reporting request or
  its background task processes itself (`process_job`), and which workers and
  administrators may pick up as well.
* `create_notification` commits the session of its caller and queues **outbox**
  rows. They are dispatched by `POST /outbox/process` or claimed by workers.
* Clients send the **version** they display with a decision; it is the one
  protection against decisions on a stale page. Projects, milestones,
  proposals, agreements and consents have no such protection: their handlers
  decide on the rows they have read, and commit what they decided.
* An approved **proposal** moves the challenge; a released **funding line**
  waits for a milestone; the **closure gate** reads milestones, funding,
  verification, metrics and consents, and moves project and challenge.
* The **device** removes a draft on any successful answer to its idempotency
  key; the server answers a key it knows with the challenge it has.

### What is hard

1. Two requests between their queries and their commits: the version check is
   a comparison in Python and the `UPDATE` asks for the id alone.
2. The number of a ledger event is "last plus one", and only a unique index
   separates two writers of the same number.
3. The flush takes a row lock that lasts until the commit; operations on a
   challenge and its project take them in different orders, so the database
   has to break circles.
4. SQLAlchemy writes only columns that differ from what the session loaded.
5. A jurisdiction denial commits an audit row *in the session of the request*,
   and with it whatever that session has already flushed or changed.
6. Job and outbox processing commit several times per item, so a process may
   stop between two commits; the recovery of "stale" rows cannot tell a dead
   worker from a slow one, and reads and writes them in two steps.
7. Many endpoints reach the same status by different paths (resume, reopen,
   appeal, decline, two acceptance endpoints), with different checks.
8. Two reviews, answers or actions on one record commit in another order than
   they were decided in, and what a gate evaluated changes before its commit.
9. Registration, rotation, logging out everywhere, resetting, reporting and uploading are
   several commits each; a device may have given up long before they end, and
   send the same again.

`PROJECT.json` lists each such point as a hazard with its line and the
properties that cover it.

## 2. Modules and the code

```
ChallengeStateMachine            HashChain ----- AuditTrail (abstract)
   |          |      \               |              ^
   |          |       \              |              | refines
   |  SolutionProposals  \___ WorkflowTransactions -+
ChallengeWorkflow

Requests --+-- FundingLedger --+
           +-- IPConsents -----+-- ProjectClosure
           +-- OutcomeRecords -+
           +-- ProjectMilestones      ProjectTeam
           +-- AccountSessions        ChallengeSubmission

AIJobQueue   NotificationOutbox
```

`MC...` modules instantiate a module for TLC, `...Proofs` modules extend one
with theorems; `PROJECT.json` ("map") gives the source lines of every
definition.

**ChallengeStateMachine** is `ALLOWED_CHALLENGE_TRANSITIONS`
(`workflow_service.py:33-302`), grouped by the role sets of its entries:
`AllowedRoles[<<from, to>>]`, empty when the pair is not in the table.

**HashChain** abstracts the SHA-256 chain of `domain_audit_events`: the hash of
an event is the pair of its number and its writer, which is as much as tells
apart two events that were ever given the same number. `Unbroken` is
what `verify_audit_chain` verifies.

**AuditTrail** is the abstract promise of the ledger: it only grows, each
writer appends once, all its events together and after everything that was
there, and the chain is unbroken at every moment.

**WorkflowTransactions** is about *interleaving*. A request runs a plan: the
list of entities an operation moves, in the code's order. Its steps are the
database statements of the code: `Submit` (client sends), `Load` (query, which
caches the committed row), `Refuse` (409 or 400), `Update` (the flush that opens
`_record_domain_event`: takes or waits for the row lock, and writes only the
columns that differ; for the status the copy already has it writes a version and no
event follows), `ReadTail` (last event the transaction sees), `Insert`
(waits while another transaction holds the number), `UniqueViolation`,
`Commit`, `Skip` (closing passes over a status already reached), `Crash`,
`DeadlockVictim`. The state is the committed rows, the ledger, the row locks, and per
request its program counter, session copy, uncommitted rows and events.

**ChallengeWorkflow** is about *sequences of whole requests* on one challenge:
every endpoint that moves it is one action, with its permission, guards, row
changes, call of `transition_challenge` and commit. `Transition` models that
call with its two quirks: the version is taken before the table is consulted,
and a denial for jurisdiction commits what the session holds. `Review` is what
the endpoints of a reviewer share. `Show` is a
client displaying the challenge; `Decide` are the requests that carry the
displayed version, or none; `Act` those that never carry one. Interleaving
inside a request is the other module's subject.

**AIJobQueue** follows `worker.py` and `queue_service.py` commit by commit:
`LoadJob`, `MarkProcessing`, `ReadChallenge`, `AnalysisSucceeds` or `AnalysisFails`,
`Complete`, `CountFailure`, `BackOff`, the fallback with its three outcomes
(`FallbackSucceeds`, `FallbackFails`, `FallbackBreaks` when the
session cannot be used any more), the worker's `FindStale`, `Recover`, `Claim`,
the reporter's `Enqueue`, the administrators' `RetryJob` and
`ProcessPendingJobs`, `Crash`, and time (`BecomeDue`, `BecomeStale`). Of the
challenge it keeps whether it is SUBMITTED, which the decisions of an officer end and may bring back
(`OfficerDecides`), and its priority, which an
analysis and the override of an officer (`LoadOverridden`, `RecordOverride`) both
write, each unless it equals the one it has loaded. `overrides` keeps the value
of the last row of `ai_human_overrides`. What a classifier
computes is a free choice between success and failure, and among the priorities.

**NotificationOutbox** has the requests (`Select`, `Send`, `Save`: rows are read
without a lock, adapters called one by one, everything committed at the end)
and the workers (`FindStale`, `Recover`, `Claim`, `Deliver`). `Deliver` is what the
code does: the method it calls does not exist, the exception is caught and the row becomes
FAILED. `tried` and `delivered` are history variables: the code keeps no
trace of calls to adapters, the properties need one.

The modules about records share one view of a request, which **Requests**
states: it is *idle*, then holds what its handler has decided on the rows it
read, then commits that, or rolls back at any time. Between the two, every
other request may commit. A request that is refused is no step. A column that
is set to the value it was loaded with is not written (`moves`, `writes`), as
SQLAlchemy does.

**ProjectMilestones** is the weighted plan of one project. Planners edit it
(`AddMilestone`, `UpdateMilestone`, `DeleteMilestone`, `FinalizeMilestones`, each
with its commit); workers upload evidence, submit and review
(`ReviewMilestone`, the faculty's `ApproveMilestone` and the inspection of
`VerifyMilestone`, which move a milestone by different rules). `Moved` is
`transition_milestone`: a pair that is not in its table is allowed to everybody.
`Earned` is `recalculate_project_progress`, rounded to two decimals. Weights, which are floats,
are whole millionths of a percent: `EditTolerance` is the 1e-6 of an addition or an edition
(`projects.py:582`), `LockTolerance` the 0.01 of the lock (`:681`). Whether a milestone was ever
approved (`approved`), and whether an edition was committed while another was under way
(`overtaken`), are history variables. The requests that record an event
are serialised by the ledger's number and the others are not; the model
lets all of them overlap, which includes what the code does.

**ProjectTeam** has the invitations, members, mentor, membership history and
tasks of one project. Answers carry what their handler read; a
replacement adds a member without an invitation. `contested` is a history variable: the
invitations to which two answers overlapped. The account of a university
may make every request but an answer, so roles are left out.

**SolutionProposals** has the versions of a proposal, with
`ALLOWED_PROPOSAL_TRANSITIONS`, and the challenge they move, with the table of
ChallengeStateMachine. Any version may be reviewed, superseded ones too. The
marks of reviewers are flags (`hei`, `government`, `approved`). `overlapped`, a history variable,
tells whether two submissions did.

**FundingLedger** has one agreement with its review table and MoU, and the
lines recorded under it. `Approve`, `Hold`, `Release`, `Reverse` are the branches
of `apply_funding_action`, `CommitFunding` its writes.

**IPConsents** has one record with its parties. `agreed` (who ever has an
acceptance on record) is a history variable that corresponds to
IP_CONSENT_ACCEPTED events.

**OutcomeRecords** has one verification record and one metric. Submissions and
the team's updates write what they are sent, whatever they have read, and are one step; a
review reads and commits.

**ProjectClosure** composes the three with the gate, and splits the sessions by what they work on
(`Desks`, `Signers`, `Closers`): `CloseProject` evaluates
`GateOpen` and keeps the snapshot the closure record stores, `CommitClosure`
writes it, `EscalateRegression` reopens. Nothing holds the records still in
between. The conditions on proposal and plan belong to
SolutionProposals and ProjectMilestones, the moves of project and challenge
along their tables to ChallengeWorkflow and WorkflowTransactions.

**AccountSessions** has one account from its registration (two commits) to its
erasure, its sessions and revoked tokens, its password and its one-time codes.
`RotateSession` reads the session of a refresh token, `CommitRotation` inserts
the token's number into `revoked_tokens`, where it is unique, and opens the
successor; `DetectReuse` ends all sessions. A token is stamped at some moment between the load of
its request and the commit (`Stamps`). A reset verifies its code, commits
that, changes the password, commits that, and revokes the sessions. `shared` is a history variable:
the codes a reset spent while another had found them unused.

**ChallengeSubmission** joins the device and the server: `SaveDraft`,
`QueueForSync`, `SubmitForm`, `SyncSingleDraft` (with what was stored when it
began), the commits of `report_challenge` (`CreateChallenge`,
`LinkAttachments`, `EnqueueJob`, then `Answer`), `ReplayReport` for a known key,
`HangUp` when the device gives up, `RestartApplication`; and the upload of
attachments, file first.

## 3. What the runs check

All runs pass: TLC explores every state and finds no violation.

| Run | Module / cfg | Properties |
|---|---|---|
| concurrent_requests | MCWorkflowTransactions / WorkflowTransactions | `TypeOK`, `LedgerUnbroken`, `LedgerTellsStatus`, `ConflictHasWinner`, `ImplementsAuditTrail`, `EveryRequestEnds` |
| challenge_life | MCChallengeWorkflow / ChallengeWorkflow | `TypeOK`, `VersionIdentifiesChallenge`, `HistoryTellsStatus`, `OneOffer`, `DeploymentTested` |
| queue_of_analyses | MCAIJobQueue / AIJobQueue | `FinishedAnalysed`, `OverridesStand` |
| queue_settles | MCAIJobQueue / AIJobQueueFair | `EveryJobSettles` |
| outbox | MCNotificationOutbox / NotificationOutbox | `TypeOK`, `SentWasAccepted`, `ClaimsEnd` |
| project_milestones | MCProjectMilestones / ProjectMilestones | `TypeOK`, `SubmittedHasEvidence`, `PlanWithinTotal`, `LockedPlanComplete`, `ProgressOfApproved` |
| project_team | MCProjectTeam / ProjectTeam | `TeamTypeOK`, `MembersConsented`, `OneMemberPerInvitation`, `LeaversRecorded` |
| solution_proposals | MCSolutionProposals / SolutionProposals | `TypeOK`, `SignedOff`, `NewestIsCurrent` |
| funding_ledger | MCFundingLedger / FundingLedger | `FundingFollowsAcceptance`, `ReleaseConditions` |
| project_closure | MCProjectClosure / ProjectClosure | `TypeOK`, `ClosureRests`, `ApprovedByAll` |
| account_sessions | MCAccountSessions / AccountSessions | `TypeOK`, `OneLivePerLogin`, `ChangesSpendCodes` |
| challenge_submission | MCChallengeSubmission / ChallengeSubmission | `SyncedOnce`, `AttachmentsStored` |

What the properties say of the code:

* `LedgerUnbroken`, `ImplementsAuditTrail`: whichever two operations run at
  once, and wherever one crashes, is refused, loses its number or asks for the status the row already has, the ledger is one unbroken
  chain and each request is in it completely or not at all. The unique index on
  `sequence_number` is what this rests on: the code takes no other lock.
* `LedgerTellsStatus`: although one request may overwrite the status another
  committed (section 7), the *last* event of a challenge always gives its
  status. The row lock of the flush makes this true: it is taken before the
  tail is read and lasts until the event is committed. It fails for
  challenges whose allocation is declined, which the property leaves out (section 7).
* `ConflictHasWinner`: concurrent requests never all fail on the number; whoever
  loses it lost it to a request that was committed.
* `EveryRequestEnds`: locks taken in opposite orders (closing locks the project
  first, the regression the challenge) and waits for a number never leave a
  request waiting for ever, given that the database breaks circles.
* `VersionIdentifiesChallenge`: refused requests take
  versions too, and declines and escalations bypass `transition_challenge`; still, a version
  never stands for two contents, so the comparison of the version sent with a decision says that the
  challenge is the one that was displayed. This is for whole requests.
* `HistoryTellsStatus`: the last row of `status_history` is the status, or a tier.
* `OneOffer`: no two institutions hold an open offer, also after the commit of
  a denial, answers to superseded allocations and both acceptance endpoints.
* `DeploymentTested`: neither a pause, a resumption, a reopening nor a decline
  leads around the test reports. Projects keep their reports when they change stage.
* `FinishedAnalysed`: two processes that work on one job, with rollbacks on the unique row of
  `ai_analysis`, never leave a job reported as done whose challenge has no
  analysis. (It may be SUBMITTED again: an officer may move it back from NEEDS_MORE_INFO.)
* `OverridesStand`: officers and analyses write one priority without asking each
  other. Once the challenge has been analysed, every change of its priority is an
  override and is on record with its value, because the second row of
  `ai_analysis` is refused with everything its session would write.
  Before that an analysis may replace an override (section 7).
* `EveryJobSettles`: a crash between any two commits, a batch dropped because
  of a broken session, an administrator's retry: every job comes to rest in
  COMPLETED, FALLBACK_COMPLETED or DEAD_LETTER and stays.
* `SentWasAccepted`: of all races between requests, workers and recoveries,
  none makes a refused or unsent message read SENT. SQLAlchemy's partial update
  matters here: a request that loaded FAILED and gets FAILED writes no status.
  `TypeOK` of the outbox includes `retry_count <= max_retries`, which is not
  obvious because requests write it from what they loaded. `ClaimsEnd`: a row
  claimed by a worker that stops is released by a later cycle.
* `SubmittedHasEvidence`: no endpoint takes evidence away, so what was checked
  before the commit still holds after it, for three endpoints that review.
* `PlanWithinTotal`, `LockedPlanComplete`: the weights, none of them negative, keep 100% within 1e-6,
  and those of a locked plan are 100% within 0.01, whatever people at work do between the
  reads and the commit of an edition. Two editions that overlap break both, since the code has no lock for
  them: the properties are about plans to which that has not happened (`overtaken`).
* `ProgressOfApproved`: reviews add up rows that others are writing, and a
  progress equal to the loaded one is not written; still it is never beyond
  100% and never of milestones nobody approved.
* `MembersConsented`, `OneMemberPerInvitation`: a member by invitation, and the mentor, has
  accepted, and an invitation makes one member, while answers of different people interleave
  with each other, with removals and replacements. Where two answers to one invitation overlapped the
  later commit decides the status and each acceptance adds a member (section 7);
  every other invitation keeps its promise.
* `LeaversRecorded`: two managers who remove or replace one member at once leave
  a record of the departure.
* `SignedOff`: reviews overwrite one another in the order of their commits; a
  version that stands as approved nevertheless has the institution's
  and the government's marks. `NewestIsCurrent`: whatever submissions overlap,
  a version is superseded only by one with a higher number; and until two of them do,
  whatever is reviewed meanwhile, the newest is the only current one and the numbers have no gap.
* `FundingFollowsAcceptance`: a late review can take an accepted agreement
  back; no line exists under one that was never accepted.
* `ReleaseConditions`: HOLD asks for no state and actions overlap, but what
  reads RELEASED has its receipt and its milestone was approved.
* `ClosureRests`: whatever is written between evaluation and commit, and ever after,
  a closure rests on an inspection decided by somebody other than the inspector,
  a measured value, an acceptance of every party it found and no line it found
  pending.
* `ApprovedByAll`: however two answers overlap, an approved IP record has an acceptance of every party
  on record. (That two acceptances at once approve nothing, and that a rejection
  can be overwritten, is in section 7.)
* `OneLivePerLogin`: rotations of one token, logins, resets and detected reuse
  overlap and stop between their commits; a login keeps at most one live
  session. The unique number in `revoked_tokens` is what this rests on.
* `ChangesSpendCodes`: every change of the password has used up a code. A code pays for two changes
  only where both resets had found it unused before either had committed, and for each of
  them once, wherever a reset stops and whatever codes are generated, tried or expire.
* `SyncedOnce`: the screen, the retries, lost answers and replays may send a draft
  any number of times; when it leaves the device, the server has exactly one
  challenge for it. `AttachmentsStored`: what a report may name has its file.

Every property has a mutant of the model in `PROJECT.json`: an operator beside the
definition it replaces, marked "Mutant", that changes the code the way a
plausible bug would and that the run then reports.

## 4. Bounds

* **concurrent_requests**: two requests, four operations (close, escalate a
  regression, validate, reject), one project, one resolved challenge and one in
  triage. The hazards are between two transactions: a lost number, a lock held,
  opposite lock orders, a crash. Plans are up to three items long, so a transaction sees its
  own uncommitted events. One of them may load a row that has already the status it asks for
(22,573 states). The safety properties were also explored with three requests,
  where one loses its number twice and circles of three exist; that is the
  part the proofs cover for every number of requests.
* **challenge_life** (66,597 states): the challenge starts in any status but DEPLOYMENT, with a
  version of 1 and no rows; `MaxVersion = 5`, so four requests follow each other from there,
  `MaxAllocations = 2` (a superseded and an open one), `MaxProjects = 2`,
  `Capacity = 1` (so the limit is met). Four requests reach each
  property's critical sequence: assign, assign, decline, decline; or create, report, deploy, pause.
  Actors: one of each kind the guards distinguish, among them an administrator
  outside the jurisdiction and two universities.
* **queue_of_analyses** (2.3 million states): one job, two workers, the reporter, an
  officer with two interventions, `MaxRetries = 2`: two processes
  meet on the job in every combination of places, and a decision or an override before, between
  and after them. Two priorities, and an override with a value that is none. `SlowWorkers` lets the
  timeout fire on a job that is being worked on, so that its worker may never come back to it;
  crashes are in the next run. The workers are a symmetry set.
* **queue_settles** (0.79 million states): two jobs, one worker with a batch of two (so a dropped
  batch leaves one untouched), an administrator with two requests, one
  crash, `MaxRetries = 2`.
* **outbox**: a mail and a row with a malformed recipient, two requests, one
  worker, one crash, `MaxRetries = 2`: every pair of processes meets on each row, a row is
  retried to its limit and a spent one is given up.
* **project_milestones** (0.34 million states): two planners and two people at
  work, a plan of one milestone of 100% and room for another, weights at the ends of the tolerances
  (99.99% and 0.010001%, which together are 100% and the tolerance of an addition). Two requests are under way
  at once (`FewAtOnce`), one after two editions have overlapped. `NewWeights` may hold
  any integer, because the code checks no range. The instance has none that is
  negative; a smaller one, of plans edited by one person with a negative new weight
  and three milestones, was explored too: it satisfies the plan's two properties and, with the condition
  of `PlanWithinTotal` removed, shows the overdrawn plan of section 7.
* **project_team** (0.70 million states): two students and a mentor, two managers and two sessions that
  answer, two requests at once, three invitations (so a person is invited again), two members, one task. Two
  answers to one invitation overlap, and so do answers to different ones. Tasks, which read members
  and nothing of the invitations, are explored for teams without an overlap.
* **solution_proposals** (0.20 million states): two authors and two reviewers, two requests at once, two
  versions; a third after two submissions have overlapped, so that it supersedes both.
* **funding_ledger**: two requests at once, a line linked to a milestone and a
  free one, an agreement from its offer on.
* **project_closure**: one line, a record of two parties, two officials, a
  request on the records beside a closer: every record changes while a closure is between
  its evaluation and its commit. Two signers answer at once before there are other records, and the
  closures of one history found the same (`TwoAtOnce`; 0.81 million states). The agreement starts COMPLETED and the line
  is free, since the ledger has its own run.
* **account_sessions** (1.7 million states): two devices and two resets, two requests at once, three
  sessions (so one token can be rotated twice), two codes of two attempts (so that one attempt is the last
  and one is not), two changes of the password, which one code or two may pay for.
* **challenge_submission**: one draft of two editions, three reports of it at once, room for a
  second challenge with its key, one attachment and one upload.

`MaxCrashes`, `MaxManual`, `MaxVersion`, `MaxAllocations`, `MaxProjects`,
`MaxMilestones`, `MaxInvitations`, `MaxMembers`, `MaxTasks`, `MaxProposals`,
`MaxSessions`, `MaxCodes`, `MaxChanges`, `MaxEdits` and `MaxChallenges`
are guards of actions, named in the module that declares them. `FewAtOnce` and `TwoAtOnce` are
constraints of the MC modules: they bound which requests are under way together, as said
above for each run, and the proofs do without them. `CHECK_DEADLOCK
FALSE` is set for the queue and the outbox, where with all jobs settled or all rows
final nothing is left to do, for the milestones, where a lock and a deletion that
overlap leave a locked plan without a milestone, and for the accounts: one that is erased takes none.

## 5. Fairness

* `WorkflowTransactions!FairSpec`: `WF(Serve(r))`. A request's thread runs its handler to the
  end; the database detects deadlocks (`DeadlockVictim` is part of `Serve`) and
  releases the locks of a transaction that ended. No fairness for `Submit` or `Crash`.
* `AIJobQueue!FairSpec`: `WF(Work(w))`, since `Worker.run` loops for ever, catches every
  exception of a cycle (`worker.py:180-204`), and `docs/runbooks/deployment_and_rollback.md:12`
  deploys it as a daemon. (The `docker-compose.yml` of the repository starts no worker: a
  deployment from that file alone has neither this fairness nor these guarantees.) `WF` of a
  request or background task that has begun; `WF` of time (`BecomeDue`,
  `BecomeStale`). Nothing makes an analysis succeed.
* `NotificationOutbox!FairSpec`: `WF(Work(w))` and time, as above. Nobody has
  to call `/outbox/process`, so `Dispatch` has no fairness.
* The other modules state no fairness. Nothing in the code promises that a person
  reviews, answers, signs or closes; and a draft in `syncing` when the
  application stops is retried by nothing (section 7), so that a draft is reported
  eventually is not a property of this code.

Crashes are bounded: with a crash in every cycle no queue makes progress.

## 6. What is proved

For every value of the constants, from the assumptions the modules name:
disjoint sets of ids, plans of the shape `PlanShape`, an initial status other
than DEPLOYMENT, tiers that are no statuses, a value for NULL that is nobody,
bounds that are naturals. They
say what the types of the code say, and nothing about sizes.

**WorkflowTransactionsProofs** (any set of requests, rows and plans):
`TypeCorrectness`, `LedgerIsUnbroken`, `LedgerGivesStatus`,
`ConflictsHaveWinners`, and `Refinement`: `Spec => AuditTrail!Spec`. None of them
is inductive. `IInv` adds:

* `Chained`: not only the ledger, every transaction's *view* of it is an unbroken chain
  without gaps. A commit makes the view the ledger.
* `SoleWriter`: at most one transaction has uncommitted events. Its first event takes number
  "last committed + 1" in the index; whoever wants that number waits.
* `Signed`: an event's author has committed, or still holds the lock of the
  row the event is about. That separates the events of requests in the refinement.
* `Holders`: who is not running has neither locks nor events.
* `TailRead`: the tail a transaction read is still in its view when it inserts,
  and is still its last event if it has events of its own; `UniqueViolation`
  catches the other case.
* `InPlan`: the program counter stands on an item of the plan, and between
  flush and insert the row lock is held.
* `Agreement`: the uncommitted row is what the transaction's last event of it
  says, or one event ahead between flush and insert. With `LedgerTellsStatus` it is
  preserved because the lock keeps every other writer of the row away.

Each action has its lemma; the refinement maps `Commit` of a request with
events to `Append`, and every other step to a stutter.

**ChallengeWorkflowProofs** (any actors, universities, tiers and bounds):
`TypeCorrectness`, `VersionsIdentify`, `AtMostOneOffer`, `DeploymentIsTested`,
`HistoryGivesStatus`. The invariants are inductive together
with `shown.version # 0` (a displayed version is never mistaken for none). The
argument has one centre: `Sound` says what a request leaves behind, and
`TransitionSound` that `transition_challenge` is sound on every session whose
allocations have one open offer, and which either keeps the projects or does not lead to
deployment. Each endpoint is then shown to hand such a session over, or,
for those that bypass the call (accept, decline, escalate, keep-separate, close), to be sound by
itself.

**NotificationOutboxProofs** (any rows, requests, workers): `TypeCorrectness`,
with the bound of `retry_count`, and `SentIsAccepted`. The strengthening is
`InHand`: what a request has answered was tried, and what it has in hand was selected
with a retry left and in neither SENT nor SENDING, so that its partial update leaves SENT
in place only where SENT was written by somebody who was accepted.

The modules about records share an argument. A request commits what it
decided on rows that are out of date by then, so no property is
inductive; the invariant says of every request on its way which part of what it read
still holds, and that part is always one that no step takes back.

**ProjectWorkProofs** holds the theorems of ProjectMilestones and ProjectTeam.

* `TypeCorrectness`, `SubmittedProved`, `ProgressIsOfApproved`, for any number of
  editors and workers at once. `RequestsSupported` says that what is on its way has
  its evidence already and is about a row that exists, `EarningApproved` that what counts for the
  progress was approved; no edition, upload or review takes either away.
* `PlanFits`, `LockedPlansAreComplete`, for any number of editors and people at work. `PlanInv` holds until
  two editions overlap (`UnlessOvertaken`) and says that an edition on its way still fits:
  the weights of the plan with the row it will add or write are within
  100% and the tolerance, and a lock on its way finds a complete plan (`EditionsFit`); `SpentBudget` is
  `PlanWithinTotal` with its condition on the deleted milestones only. Reviews change
  statuses and no weight of the plan (`SamePlan`).
* The lemmas about `Total` and `SumOf` rest on no induction rule, which the provers can
  not instantiate (an operator is its parameter), but on a least
  counterexample: `LeastNumber` takes it from the well-foundedness of the subsets of a finite
  set, and `NaturalInduction` states the rule for a *set* of numbers. With it, the sum
  changes by what is written to one place (`SumUpdate`) or appended (`SumAppend`).
* `TeamTypeCorrectness`, `LeaversAreRecorded`, `MembersHaveConsented`, `InvitationsMakeOneMember`, for
  any number of managers and of answers at once. `ConsentInv` says that an answer on its way to an
  invitation that is not contested finds it still open (`AnswersOpen`), and that no open invitation has
  made a member; `contested` only grows.

**ReportingProofs** holds those of ChallengeSubmission and AIJobQueue.

* `TypeCorrectness`, `SynchronisedOnce`, `FilesStored`. A request about to answer has a
  challenge of its key, keys are unique, and files and challenges are never removed.
* `QueueTypeCorrectness`, `DoneIsAnalysed`, `AnalysesOverrideNoHuman`, for any number of jobs, workers,
  reporters, administrators, officers, retries and crashes. `QueueInv` says that a process
  past its analysis (`complete`, `settle`) has an analysed job in hand, and that a process at work has a
  job in hand at all; analyses are never removed.

**SolutionProposalsProofs**: `TypeCorrectness`, `SignaturesStand`, and
`ApprovalsAreSigned` (the government's flag never without the institution's).
`PendingSigned`: a decision on its way has the marks it needs, and
marks only grow. `NewestVersionIsCurrent`, for any number of authors and
reviewers: the highest number is of a current version (a submission on its way carries one
higher than what it supersedes), and until two submissions overlap one on its way
supersedes the newest version and carries the next number; no review touches either.

**ProjectClosureProofs**: on the ledger alone, `FundingAfterAcceptance` and
`ReleasesConditional`; on the composition, `TypeCorrectness`, `ClosuresRest` and
`ConsentsComplete`. `LedgerKept`, `IPKept`, `OutcomeKept` name what is never taken
back: an acceptance, a receipt, an approved milestone, a line no longer
pending, a consent on record, a reviewer, a measured value.

**AccountSessionsProofs**: `TypeCorrectness` (no code is tried more often than it
allows) and `OneLiveSession`. A rotation may commit when the session it read is
over; what holds at every step is that a login has one session whose token
is not in `revoked_tokens` (`OneUnspent`) and that a session whose token is in there is over.
`ChangesArePaid`, for any number of resets, codes and
devices: there is an injection from the changes into pairs of a used code and a reset; a reset
half-way is not among them, and once it has used up a code that is not shared nobody else counts on
it (`PayInv`).

No theorem assumes one actor of a kind. Two editions of one plan, two answers to one
invitation, two submissions of a team and two resets with one code are separated by nothing
in the code; history variables (`overtaken`, `contested`, `overlapped`, `shared`) mark
where they overlapped, and the theorems say what holds there and everywhere else.

Only model-checked: liveness (`EveryRequestEnds`, `EveryJobSettles`,
`ClaimsEnd`), which is out of the proof system's reach. Every safety property
of section 3 is a theorem.

## 7. Where the code and the documents disagree

### Demonstrations

Each of these configurations checks one property that states what a document or
comment says, and ends in a counterexample: a schedule the code allows. They
are kept beside the runs of section 3 and not among them; run one with
`tlc -config X.cfg M`.

| cfg (module) | Property | Documented | Code |
|---|---|---|---|
| WorkflowTransactionsTable (MCWorkflowTransactions) | `CommittedChangesFollowTable` | README.md:155 "Every transition is strictly validated against the finite state machine" | the check uses the loaded row; the UPDATE has no version in its WHERE (`workflow_service.py:657`), so two decisions at once both pass and the later one replaces the earlier |
| WorkflowTransactionsDecline (MCWorkflowTransactions) | `DeclineReverts` | `workflow_service.py:1081` "Revert challenge to VALIDATED" | a status that equals the loaded one is not written (`:1082`), so a concurrent assignment survives the decline |
| ChallengeWorkflowOrphan (MCChallengeWorkflow) | `RejectedCreationLeavesNothing` | `projects.py:143` "a rejected request ... never leaves an orphan project behind" | the denial commits the session (`deps.py:373`) |
| AIJobQueueWorkers (MCAIJobQueue) | `ExclusiveProcessing` | walkthrough.md:70 "Guarantees zero duplicate processing" | recovery reads without a lock and writes by id (`worker.py:69`) |
| AIJobQueueDecision (MCAIJobQueue) | `DecisionsStand` | docs/AI_GOVERNANCE.md:11 decisions "require explicit human approval" | the analysis moves the challenge from the status it read before the classifiers ran (`ai_service.py:196`) |
| NotificationOutboxDuplicate (MCNotificationOutbox) | `NoDuplicateDispatch` | README.md:240-244 "guaranteed zero duplicate dispatch" | `process_outbox` selects without a lock (`notification_service.py:351`) |
| ProjectMilestonesEvidence (MCProjectMilestones) | `ProgressIsEvidenceBacked` | `projects.py:623` "Progress is driven exclusively by evidence-backed review" | the pair NOT_STARTED, APPROVED is not in the table, and what is not in the table is allowed (`workflow_service.py:1290`) |
| SolutionProposalsFlag (MCSolutionProposals) | `FlagMirrorsStatus` | `models.py:886` "legacy flag, mirrors status == APPROVED" | a rejection decided before an approval and committed after it leaves the flag |
| ProjectClosureMetrics (MCProjectClosure) | `MetricsVerifiedByOthers` | `impact.py:304` "project team cannot self-verify metrics" | the team's update sets a status that the gate accepts (`workflow_service.py:1961`) |
| ChallengeSubmissionLoss (MCChallengeSubmission) | `LastSavedReported` | `offline_draft_service.dart:32` "Zero data loss: drafts and attachments are persisted safely to local storage" | a draft edited while it is sent is removed with its edit (`:192`) |

### Seen while modelling

The models behave as the code does; no configuration is kept for these.

Workflow, queue and outbox:

* Two concurrent changes of a row both write the same version
  (`workflow_service.py:434` writes loaded + 1; the docstring at :416 says
  "Increments entity.version on success").
* A decline moves a challenge to VALIDATED from any status, for instance TEAM_FORMED (`:1082`,
  against README.md:155).
* A project can be created on an offer nobody accepted (`projects.py:126`,
  against the comment at :123).
* `status_history` gets rows whose `to_status` is a tier (`:496`, against DATABASE.md:65).
* `accept_challenge` accepts after the deadline that `respond_allocation`
  enforces (`universities.py:310`, `workflow_service.py:1051`); and
  `/challenges/allocations/{id}/respond` does not ask whether the institution is
  verified.
* A failed analysis counts two attempts, one at the claim and one at the failure
  (`worker.py:106`, `queue_service.py:91`), so `max_retries` is reached after fewer failures
  than the reason stored at `queue_service.py:97` states.
* An override of the priority made while the analysis runs is replaced by the
  analysis (`ai_service.py:194`), and one whose value equals a priority loaded
  before the analysis committed is recorded and not written (`ai_service.py:269`); the docstring at
  `:251` says "Updates effective challenge attribute". A value that is no priority is
  recorded as well (`:270`).
* A worker delivers nothing: `notification_service` has no method
  `deliver_outbox_item`, the exception is caught (`worker.py:150`), and what a
  worker claims becomes FAILED with no adapter called.
* A mail the SMTP server refused is recorded as SENT
  (`notification_service.py:93`, against `email_service.py:265`).

* A decision for the status a challenge already has succeeds without a look at the table: it takes a version
  and records no event (`workflow_service.py:635`). A second regression of a REOPENED challenge
  moves the project once more.

Projects, funds and closure:

* A submission of an approved milestone leaves its share in the progress
  (`workflow_service.py:1358` is called by reviews only). An edition may set a negative
  weight (`projects.py:627`, `schemas.py:661`); the others may then fill the room it makes, and
  exceed 100% when it is deleted (`projects.py:585` says that they "must sum to 100%"). A plan of 99.995%
  can be locked (`:681`, where the message says "exactly 100%"). Two editions at once exceed the
  total, or leave a locked plan incomplete. Students who were removed still pass
  `verify_project_membership` (`deps.py:422`).
* Two acceptances of one invitation at once add two members; an acceptance and a refusal at once may
  leave a member whose invitation reads DECLINED (`workflow_service.py:1546`). Two submissions of a
  team at once give two current versions one number.
* A replacement joins a team without an invitation (`projects.py:172` says
  "never auto-add members").
* A line that was held and never approved can be released
  (`workflow_service.py:1734`; the docstring at :1713 says "PENDING -> HELD
  (approval) -> RELEASED"). Recording a contract again without a document clears the
  MoU. A declared conflict of interest is stored and never looked at.
* `closure_decision` decides nothing (`workflow_service.py:2068`): a closure
  "rejected" closes. Two closures at once, or a closure and a regression, leave
  what commits last.
* A record whose owner is its only party waits for consent for ever. Two
  acceptances at once each read the other as pending, and nothing approves the record
  (`workflow_service.py:1825`); an acceptance that has read the last pending one
  approves over a rejection that commits in between.
* Lines recorded between the evaluation and the commit of a closure are not in
  its snapshot.

Accounts:

* `register` commits the user before its profile: a request that stops in
  between leaves an account without one. Codes are generated for addresses without an
  account. `/verify-otp` spends the code that `/reset-password` then asks for.
* A rotation that has read its session before `logout-all` or a reset, and commits
  after it, leaves a live session. An erasure revokes no session
  (`dpdp_service.py:189` says "invalidates active login tokens"); they are refused
  because the account is inactive.
* Two guesses of a code at once count as one attempt (`email_service.py:127`), and two resets that
  both found a code unused both change the password with it.
* Logging out of one session revokes nothing in the database: `revoke_token` (`auth.py:387`) adds the
  token to the set of the process first, for which `decode_access_token` (`:388`,
  `core/security.py:145`) then returns nothing, so the session and the number of the token are never
  written (`:389-397`). The docstring says "Revokes session and JWT token ... across
  instances"; the three other processes go on accepting it.
* `account_status` is compared through `str()` of an enumeration member
  (`auth.py:68`, `deps.py:192`), which is never `SUSPENDED`; so no suspension is modelled.

Submission:

* Nothing calls `queueForSync`. A draft that was `syncing` when the application
  stopped is not in what `manualRetryAll` retries.
* A draft the screen saved holds its address in fields of its own
  (`report_challenge_screen.dart:229`) where the server wants a location: its
  retry is always refused, and its attachments are under a name the server does not read.
* A conflict is recognised by an error text with "409", "conflict" or
  "duplicate", none of which `report_challenge` answers with.
* A replay of a report that stopped between its commits answers with the
  challenge as it is, without its attachments, its event or its job (`challenges.py:459`).
* A report may name an attachment that is deleted, or linked to another challenge
  (`challenges.py:347-364` asks for neither).

## 8. What is not modelled

* **Citizen feedback**: no condition of the closure reads it, and an appeal
  against its moderation is stored as PENDING and answered by no endpoint.
* **Rate limiter**, the caches of codes and of revoked tokens in memory: counters and sets of one of four
  processes. A request they limit is one that may be
  refused; what the set of revoked tokens does to logging out is in section 7. (Its failure count outlives a lock-out, `rate_limiter.py:66`.)
* **Organisations and registration of institutions**: flags one reviewer sets. To the
  workflow they are constants: `Universities` are the verified ones.
* Text scoring, matching and embeddings: floating-point functions whose result
  is data for the queue. Taxonomy, analytics, moderation, configuration,
  telemetry, seed data, screens: records and look-ups without interaction.
* Inside the modelled parts: overrides of the category of a challenge and of its
  duplicates, which write columns of their own; comments
  and documents of projects, which nothing reads; drafts kept on the server
  (`challenges.py:113-211`), which no report reads; the mirror of a single draft for older versions
  of the application; versions of evidence files (no caller passes `supersedes_id`); confirmations
  of payments (the integration is a stub that confirms nothing); the
  content of tokens, events and messages; notification preferences and archiving;
  the formats of recipients (a set of malformed ones).
* PostgreSQL is modelled from how the code uses it: READ COMMITTED reads, row
  locks of UPDATE, waits on a unique index, deadlock detection, SKIP LOCKED as one atomic
  claim. SQLite's single writer allows fewer behaviours. A request on records has one step
  for its reads and one for each commit; every other request may come in between.
* Assignment and project creation are atomic in ChallengeWorkflow. Two that
  interleave exceed the capacity (`workflow_service.py:956`) or leave two open offers
  (`:967`): nothing in the code separates them, so `OneOffer` is about whole requests.

## 9. Plan

What remains, in order of worth:

1. **AssignmentRace** on the sessions of WorkflowTransactions, as a demonstration
   of the two hazards of section 8.
2. An abstract specification of the queue (a job is open or settled, and settled as done only
   with its analysis) that AIJobQueue implements.
3. Overrides of the category, as a second column an analysis and an officer write.
