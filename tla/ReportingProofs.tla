-------------------------- MODULE ReportingProofs --------------------------
(***************************************************************************)
(* Proofs about ChallengeSubmission, for any drafts, attachments and       *)
(* requests, and about AIJobQueue, for any jobs, workers and requests.     *)
(* That a synced draft has its challenge is inductive once a request that  *)
(* is about to answer is known to have one (Known), and keys are known to  *)
(* be unique; that an attachment has its file, once the same is known of a *)
(* request that is about to commit its row.  That a job reported as done   *)
(* is analysed is inductive once it is known where the process that will   *)
(* report it stands (Placed).                                              *)
(***************************************************************************)
EXTENDS ChallengeSubmission, AIJobQueue, TLAPS, FiniteSetTheorems

KeysUnique ==
    \A m, n \in DOMAIN challenges : challenges[m].key = challenges[n].key => m = n

SyncedHas == \A d \in Drafts : drafts[d].status = "synced" => Has(d)

(* What a request has seen. *)
Known(r) ==
    /\ r.op = "attach" => r.object \in files
    /\ r.op = "answer" => Has(r.report.draft)
    /\ r.op \in {"link", "enqueue"} =>
           r.challenge \in DOMAIN challenges /\ challenges[r.challenge].key = r.report.draft

IInv ==
    /\ TypeOK /\ KeysUnique /\ SyncedHas /\ AttachmentsStored
    /\ \A s \in Sessions : Known(session[s])

(* Files are never removed, and neither are challenges or their keys. *)
Kept ==
    /\ files \subseteq files'
    /\ \A n \in DOMAIN challenges :
           n \in DOMAIN challenges' /\ challenges'[n].key = challenges[n].key

LEMMA KnownStays ==
  ASSUME Kept, NEW t \in Sessions, Known(session[t]), session'[t] = session[t]
  PROVE  Known(session[t])'
BY DEF Kept, Known, Has

LEMMA HasStays ==
  ASSUME Kept, NEW d, Has(d)
  PROVE  Has(d)'
BY DEF Kept, Has

(* A step that keeps what the requests have seen. *)
LEMMA KeepStep ==
  ASSUME IInv, TypeOK', KeysUnique', Kept, AttachmentsStored',
         \A d \in Drafts : drafts'[d].status = "synced" =>
             drafts[d].status = "synced" \/ Has(d),
         \A t \in Sessions : session'[t] = session[t] \/ Known(session[t])'
  PROVE  IInv'
<1>1. \A t \in Sessions : Known(session[t])'
  BY KnownStays DEF IInv
<1>2. SyncedHas'
  BY HasStays DEF IInv, SyncedHas
<1> QED  BY <1>1, <1>2 DEF IInv

(* What the server has does not change. *)
LEMMA ServerStays ==
  ASSUME IInv, UNCHANGED server
  PROVE  KeysUnique' /\ Kept /\ AttachmentsStored'
BY DEF IInv, KeysUnique, Kept, AttachmentsStored, Uploaded, server

(* Steps on the device, with at most one request that moves on. *)
LEMMA DeviceStep ==
  ASSUME IInv, UNCHANGED server,
         drafts' \in [Drafts -> Draft], retrying' \subseteq Drafts, waiting' \subseteq Reporters,
         session' \in [Sessions -> Request],
         \A d \in Drafts : drafts'[d].status = "synced" =>
             drafts[d].status = "synced" \/ Has(d),
         \A t \in Sessions : session'[t] = session[t] \/ Known(session[t])'
  PROVE  IInv'
<1>1. TypeOK'
  BY DEF IInv, TypeOK, server
<1> QED  BY <1>1, ServerStays, KeepStep

(* One request moves on to another that has nothing to know. *)
LEMMA Moves ==
  ASSUME IInv, NEW s \in Sessions, NEW r \in Request, session' = [session EXCEPT ![s] = r]
  PROVE  /\ session' \in [Sessions -> Request] /\ session'[s] = r
         /\ \A t \in Sessions : t # s => session'[t] = session[t]
BY DEF IInv, TypeOK

LEMMA MovesFreely ==
  ASSUME IInv, NEW s \in Sessions, NEW r \in Request, session' = [session EXCEPT ![s] = r],
         r.op \notin {"attach", "answer", "link", "enqueue"}
  PROVE  /\ session' \in [Sessions -> Request]
         /\ \A t \in Sessions : session'[t] = session[t] \/ Known(session[t])'
BY Moves DEF Known

LEMMA IdleRequest == Idle \in Request /\ Idle.op = "none"
BY DEF Idle, Request

LEMMA InitIInv == Init => IInv
<1> SUFFICES ASSUME Init
             PROVE  IInv
  OBVIOUS
<1>1. TypeOK
  BY SubmissionAssumption, IdleRequest
     DEF Init, TypeOK, NoRequests, Draft, DraftStatus, Removed, Attachment, NoChallenge
<1>2. KeysUnique /\ SyncedHas /\ AttachmentsStored
  BY DEF Init, KeysUnique, SyncedHas, AttachmentsStored, Uploaded
<1>3. \A s \in Sessions : Known(session[s])
  BY DEF Init, NoRequests, Known, Idle
<1> QED  BY <1>1, <1>2, <1>3 DEF IInv

-----------------------------------------------------------------------------
(* Drafts on the device *)

LEMMA EditingIInv ==
  ASSUME IInv, NEW d \in Drafts, Editing(d)
  PROVE  IInv'
<1>0. drafts \in [Drafts -> Draft] /\ drafts[d] \in Draft
  BY DEF IInv, TypeOK
<1>1. ASSUME drafts' \in [Drafts -> Draft], UNCHANGED <<retrying, waiting, server, session>>,
             \A e \in Drafts : drafts'[e].status = "synced" => drafts[e].status = "synced"
      PROVE  IInv'
  BY <1>1, DeviceStep DEF IInv, TypeOK
<1>2. ASSUME NEW attached \in SUBSET Objects, SaveDraft(d, attached)
      PROVE  IInv'
  <2> DEFINE row == [status |-> "draft", edition |-> drafts[d].edition + 1, attached |-> attached]
  <2>1. drafts' = [drafts EXCEPT ![d] = row] /\ drafts[d].edition < MaxEdits
        /\ UNCHANGED <<retrying, waiting, server, session>>
    BY <1>0, <1>2 DEF SaveDraft
  <2>2. drafts[d].edition + 1 \in 0 .. MaxEdits
    BY <1>0, <2>1, SubmissionAssumption DEF Draft
  <2>3. row \in Draft /\ row.status = "draft"
    BY <2>2 DEF Draft, DraftStatus
  <2> HIDE DEF row
  <2>4. drafts' \in [Drafts -> Draft]
        /\ \A e \in Drafts : drafts'[e].status = "synced" => drafts[e].status = "synced"
    BY <1>0, <2>1, <2>3
  <2> QED  BY <1>1, <2>1, <2>4
<1>3. ASSUME NEW status \in {"queued", "absent"}, drafts' = [drafts EXCEPT ![d].status = status],
             UNCHANGED <<retrying, waiting, server, session>>
      PROVE  IInv'
  <2>1. drafts' \in [Drafts -> Draft]
        /\ \A e \in Drafts : drafts'[e].status = "synced" => drafts[e].status = "synced"
    BY <1>0, <1>3 DEF Draft, DraftStatus, Removed
  <2> QED  BY <1>1, <1>3, <2>1
<1> QED  BY <1>2, <1>3 DEF Editing, QueueForSync, DeleteDraft

LEMMA RetryIInv ==
  ASSUME IInv, RetryAll \/ RestartApplication
  PROVE  IInv'
BY DeviceStep DEF RetryAll, RestartApplication, IInv, TypeOK

LEMMA SendIInv ==
  ASSUME IInv, NEW s \in Reporters, NEW d \in Drafts, SubmitForm(s, d) \/ SyncSingleDraft(s, d)
  PROVE  IInv'
<1>0. s \in Sessions /\ drafts \in [Drafts -> Draft] /\ drafts[d] \in Draft
  BY SubmissionAssumption DEF IInv, TypeOK
<1>1. ASSUME NEW sender \in {"screen", "sync"}, Send(s, d, sender), retrying' \subseteq Drafts,
             drafts' \in [Drafts -> Draft],
             \A e \in Drafts : drafts'[e].status = "synced" => drafts[e].status = "synced"
      PROVE  IInv'
  <2> DEFINE r == [op |-> "arrived",
                   report |-> [draft |-> d, edition |-> drafts[d].edition,
                               attached |-> IF sender = "screen" THEN drafts[d].attached ELSE {},
                               sender |-> sender]]
  <2>1. session' = [session EXCEPT ![s] = r] /\ waiting' = waiting \cup {s} /\ UNCHANGED server
    BY <1>1 DEF Send, Receive
  <2>2. r.report \in Report
    BY <1>0 DEF Report, Draft
  <2>3. r \in Request /\ r.op = "arrived"
    BY <2>2 DEF Request
  <2> HIDE DEF r
  <2>4. /\ session' \in [Sessions -> Request]
        /\ \A t \in Sessions : session'[t] = session[t] \/ Known(session[t])'
    BY <1>0, <2>1, <2>3, MovesFreely
  <2>5. waiting' \subseteq Reporters
    BY <2>1 DEF IInv, TypeOK
  <2> QED  BY <1>1, <2>1, <2>4, <2>5, DeviceStep
<1>2. CASE SubmitForm(s, d)
  BY <1>0, <1>1, <1>2 DEF SubmitForm, IInv, TypeOK
<1>3. CASE SyncSingleDraft(s, d)
  <2>1. drafts' = [drafts EXCEPT ![d].status = "syncing"] /\ retrying' \subseteq Drafts
    BY <1>3 DEF SyncSingleDraft, IInv, TypeOK
  <2>2. drafts' \in [Drafts -> Draft]
        /\ \A e \in Drafts : drafts'[e].status = "synced" => drafts[e].status = "synced"
    BY <1>0, <2>1 DEF Draft, DraftStatus
  <2> QED  BY <1>1, <1>3, <2>1, <2>2 DEF SyncSingleDraft
<1> QED  BY <1>2, <1>3

(* A failure never makes a draft synced. *)
LEMMA FailureKeeps ==
  ASSUME IInv, NEW s \in Sessions, MarkFailed(s)
  PROVE  /\ drafts' \in [Drafts -> Draft]
         /\ retrying' \subseteq Drafts /\ waiting' \subseteq Reporters
         /\ \A e \in Drafts : drafts'[e].status = "synced" => drafts[e].status = "synced"
<1> DEFINE r == session[s].report
<1>0. drafts \in [Drafts -> Draft] /\ \A e \in Drafts : drafts[e] \in Draft
  BY DEF IInv, TypeOK
<1>1. retrying' \subseteq Drafts /\ waiting' \subseteq Reporters
  BY DEF MarkFailed, IInv, TypeOK
<1>2. CASE UNCHANGED drafts
  BY <1>0, <1>1, <1>2
<1>3. \A status \in DraftStatus :
         /\ AfterFailure(r.sender, status) \in {status, "failed"}
         /\ AfterConflict(r.sender, status) \in {status, "conflict"}
  BY DEF AfterFailure, AfterConflict
<1>4. ASSUME NEW status, drafts' = [drafts EXCEPT ![r.draft].status = status],
             r.draft \in Drafts, status \in {drafts[r.draft].status, "failed", "conflict"}
      PROVE  /\ drafts' \in [Drafts -> Draft]
             /\ \A e \in Drafts : drafts'[e].status = "synced" => drafts[e].status = "synced"
  <2>1. status \in DraftStatus
    BY <1>0, <1>4 DEF Draft, DraftStatus
  <2> QED  BY <1>0, <1>4, <2>1 DEF Draft
<1>5. CASE r.draft \in Drafts /\ ~UNCHANGED drafts
  <2>1. PICK status \in {AfterFailure(r.sender, drafts[r.draft].status),
                         AfterConflict(r.sender, drafts[r.draft].status)} :
            drafts' = [drafts EXCEPT ![r.draft].status = status]
    BY <1>0, <1>5 DEF MarkFailed
  <2>2. drafts[r.draft].status \in DraftStatus
    BY <1>0, <1>5 DEF Draft
  <2>3. status \in {drafts[r.draft].status, "failed", "conflict"}
    BY <1>3, <2>1, <2>2
  <2> QED  BY <1>1, <1>4, <1>5, <2>1, <2>3
<1>6. CASE r.draft \notin Drafts
  <2>1. UNCHANGED drafts
    BY <1>0, <1>6 DEF MarkFailed
  <2> QED  BY <1>2, <2>1
<1> QED  BY <1>2, <1>5, <1>6

-----------------------------------------------------------------------------
(* report_challenge *)

LEMMA ReportOf ==
  ASSUME IInv, NEW s \in Sessions,
         session[s].op \in {"arrived", "create", "answer", "link", "enqueue"}
  PROVE  session[s].report \in Report /\ session[s].report.draft \in Drafts
<1>1. session[s] \in Request
  BY DEF IInv, TypeOK
<1>2. session[s].report \in Report
  BY <1>1 DEF Request
<1> QED  BY <1>2 DEF Report

LEMMA AdmitIInv ==
  ASSUME IInv, NEW s \in Sessions, ReplayReport(s) \/ AdmitReport(s)
  PROVE  IInv'
<1> DEFINE op == IF Has(session[s].report.draft) THEN "answer" ELSE "create"
           r == [op |-> op, report |-> session[s].report]
<1>1. session' = [session EXCEPT ![s] = r] /\ UNCHANGED <<device, server>>
      /\ session[s].op = "arrived"
  BY DEF ReplayReport, AdmitReport, GoOn
<1>2. session[s].report \in Report
  BY <1>1, ReportOf
<1>3. r \in Request
  BY <1>2 DEF Request
<1>4. (op = "answer" => Has(session[s].report.draft)) /\ op \in {"answer", "create"}
  OBVIOUS
<1>5. r.op = op /\ r.report = session[s].report
  OBVIOUS
<1> HIDE DEF r, op
<1>6. /\ session' \in [Sessions -> Request] /\ session'[s] = r
      /\ \A t \in Sessions : t # s => session'[t] = session[t]
  BY <1>1, <1>3, Moves
<1>7. Known(session[s])'
  BY <1>1, <1>4, <1>5, <1>6 DEF Known, Has, server
<1> QED  BY <1>1, <1>6, <1>7, DeviceStep DEF IInv, TypeOK, device

LEMMA AppendedChallenge ==
  ASSUME NEW rows \in Seq(Challenge), NEW row \in Challenge
  PROVE  /\ Append(rows, row) \in Seq(Challenge)
         /\ Len(Append(rows, row)) = Len(rows) + 1
         /\ DOMAIN rows = 1 .. Len(rows) /\ Len(rows) \in Nat
         /\ DOMAIN Append(rows, row) = 1 .. (Len(rows) + 1)
         /\ \A i \in 1 .. Len(rows) : Append(rows, row)[i] = rows[i]
         /\ Append(rows, row)[Len(rows) + 1] = row
OBVIOUS

LEMMA CreateIInv ==
  ASSUME IInv, NEW s \in Sessions, CreateChallenge(s)
  PROVE  IInv'
<1> DEFINE report == session[s].report
           n == Len(challenges) + 1
           r == [op |-> "link", report |-> report, challenge |-> n]
           row == [key |-> report.draft, edition |-> report.edition,
                   reported |-> FALSE, queued |-> FALSE]
<1>1. /\ session[s].op = "create" /\ ~Has(report.draft) /\ n <= MaxChallenges
      /\ session' = [session EXCEPT ![s] = r] /\ challenges' = Append(challenges, row)
      /\ UNCHANGED <<device, files, attachments>>
  BY DEF CreateChallenge, GoOn, Unused
<1>2. report \in Report
  BY <1>1, ReportOf
<1>3. row \in Challenge /\ row.key = report.draft
  BY <1>2 DEF Report, Challenge
<1>4. challenges \in Seq(Challenge)
  BY DEF IInv, TypeOK
<1>5. n \in 1 .. MaxChallenges
  BY <1>1, <1>4, SubmissionAssumption
<1>6. r \in Request /\ r.op = "link" /\ r.challenge = n /\ r.report = report
  BY <1>2, <1>5 DEF Request
<1> HIDE DEF row, r, report
<1>7. /\ challenges' \in Seq(Challenge) /\ Len(challenges') = n
      /\ DOMAIN challenges = 1 .. Len(challenges) /\ Len(challenges) \in Nat
      /\ DOMAIN challenges' = 1 .. n
      /\ \A i \in 1 .. Len(challenges) : challenges'[i] = challenges[i]
      /\ challenges'[n].key = report.draft
  BY <1>1, <1>3, <1>4, AppendedChallenge
<1>8. /\ session' \in [Sessions -> Request] /\ session'[s] = r
      /\ \A t \in Sessions : t # s => session'[t] = session[t]
  BY <1>1, <1>6, Moves
<1>9. TypeOK'
  BY <1>1, <1>7, <1>8 DEF IInv, TypeOK, device
<1>10. Kept
  BY <1>1, <1>7 DEF Kept
<1>11. KeysUnique'
  BY <1>1, <1>7 DEF IInv, KeysUnique, Has
<1>12. AttachmentsStored'
  BY <1>1 DEF IInv, AttachmentsStored, Uploaded
<1>13. Known(session[s])'
  BY <1>6, <1>7, <1>8 DEF Known
<1> QED  BY <1>1, <1>8, <1>9, <1>10, <1>11, <1>12, <1>13, KeepStep DEF device

LEMMA FunctionSeq ==
  ASSUME NEW n \in Nat, NEW S, NEW f, f = [i \in 1 .. n |-> f[i]], \A i \in 1 .. n : f[i] \in S
  PROVE  f \in Seq(S) /\ Len(f) = n /\ DOMAIN f = 1 .. n
OBVIOUS

(* A challenge's row is updated and its key is not. *)
LEMMA UpdateIInv ==
  ASSUME IInv, NEW s \in Sessions, NEW r \in Request, session[s].op \in {"link", "enqueue"},
         NEW row \in Challenge, row.key = challenges[session[s].challenge].key,
         challenges' = [challenges EXCEPT ![session[s].challenge] = row],
         session' = [session EXCEPT ![s] = r], UNCHANGED <<device, files>>,
         r.report = session[s].report,
         r.op = "answer" \/ (r.op = "enqueue" /\ r.challenge = session[s].challenge),
         attachments' \in [Objects -> Attachment],
         \A o \in Objects : attachments'[o].retention = attachments[o].retention
  PROVE  IInv'
<1> DEFINE n == session[s].challenge
<1>1. n \in DOMAIN challenges /\ challenges[n].key = session[s].report.draft
  BY DEF IInv, Known
<1> HIDE DEF n
<1>2. challenges' = [challenges EXCEPT ![n] = row] /\ row.key = challenges[n].key
  BY DEF n
<1>3. challenges \in Seq(Challenge) /\ Len(challenges) <= MaxChallenges
  BY DEF IInv, TypeOK
<1>4. /\ challenges' \in Seq(Challenge) /\ Len(challenges') = Len(challenges)
      /\ DOMAIN challenges' = DOMAIN challenges
      /\ \A m \in DOMAIN challenges : challenges'[m].key = challenges[m].key
  <2>1. Len(challenges) \in Nat /\ DOMAIN challenges = 1 .. Len(challenges)
        /\ \A m \in 1 .. Len(challenges) : challenges[m] \in Challenge
    BY <1>3
  <2>2. challenges' = [m \in 1 .. Len(challenges) |-> challenges'[m]]
    BY <1>2, <2>1
  <2>3. \A m \in 1 .. Len(challenges) : challenges'[m] = IF m = n THEN row ELSE challenges[m]
    BY <1>2, <2>1
  <2>4. \A m \in 1 .. Len(challenges) : challenges'[m] \in Challenge
    BY <2>1, <2>3
  <2>5. challenges' \in Seq(Challenge) /\ Len(challenges') = Len(challenges)
        /\ DOMAIN challenges' = 1 .. Len(challenges)
    <3> DEFINE len == Len(challenges)
               f == challenges'
    <3>1. len \in Nat /\ f = [m \in 1 .. len |-> f[m]] /\ \A m \in 1 .. len : f[m] \in Challenge
      BY <2>1, <2>2, <2>4
    <3> HIDE DEF len, f
    <3>2. f \in Seq(Challenge) /\ Len(f) = len /\ DOMAIN f = 1 .. len
      BY <3>1, FunctionSeq
    <3> QED  BY <3>2 DEF len, f
  <2> QED  BY <1>2, <2>1, <2>3, <2>5
<1>5. /\ session' \in [Sessions -> Request] /\ session'[s] = r
      /\ \A t \in Sessions : t # s => session'[t] = session[t]
  BY Moves
<1>6. TypeOK'
  BY <1>3, <1>4, <1>5 DEF IInv, TypeOK, device
<1>7. Kept
  BY <1>4 DEF Kept
<1>8. KeysUnique' /\ AttachmentsStored'
  BY <1>4 DEF IInv, KeysUnique, AttachmentsStored, Uploaded
<1>9. Known(session[s])'
  BY <1>1, <1>4, <1>5 DEF Known, Has, n
<1> QED  BY <1>5, <1>6, <1>7, <1>8, <1>9, KeepStep DEF device

LEMMA LinkIInv ==
  ASSUME IInv, NEW s \in Sessions, LinkAttachments(s) \/ EnqueueJob(s)
  PROVE  IInv'
<1> DEFINE n == session[s].challenge
<1>0. challenges \in Seq(Challenge) /\ attachments \in [Objects -> Attachment]
      /\ session[s] \in Request
  BY DEF IInv, TypeOK
<1>1. session[s].op \in {"link", "enqueue"}
  BY DEF LinkAttachments, EnqueueJob, GoOn
<1>2. n \in DOMAIN challenges /\ challenges[n] \in Challenge /\ session[s].report \in Report
      /\ n \in 1 .. MaxChallenges
  BY <1>0, <1>1, ReportOf DEF IInv, Known, Request
<1>3. CASE LinkAttachments(s)
  <2> DEFINE row == [challenges[n] EXCEPT !.reported = TRUE]
             r == [session[s] EXCEPT !.op = "enqueue"]
  <2>1. /\ session[s].op = "link" /\ session' = [session EXCEPT ![s] = r]
        /\ challenges' = [challenges EXCEPT ![n] = row]
        /\ attachments' = [o \in Objects |-> IF o \in session[s].report.attached
                                             THEN [attachments[o] EXCEPT !.challenge = n]
                                             ELSE attachments[o]]
        /\ UNCHANGED <<device, files>>
    BY <1>0, <1>2, <1>3 DEF LinkAttachments, GoOn
  <2>2. row \in Challenge /\ row.key = challenges[n].key
    BY <1>2 DEF Challenge
  <2>3. r \in Request /\ r.op = "enqueue" /\ r.report = session[s].report /\ r.challenge = n
    BY <1>0, <2>1 DEF Request
  <2>4. \A o \in Objects :
           attachments'[o] \in Attachment /\ attachments'[o].retention = attachments[o].retention
    <3>1. n \in 0 .. MaxChallenges
      BY <1>2, SubmissionAssumption
    <3>2. \A o \in Objects : attachments[o] \in Attachment
      BY <1>0
    <3> HIDE DEF n
    <3> QED  BY <2>1, <3>1, <3>2 DEF Attachment
  <2>5. attachments' \in [Objects -> Attachment]
    BY <2>1, <2>4
  <2> HIDE DEF row, r
  <2> QED  BY <1>1, <2>1, <2>2, <2>3, <2>4, <2>5, UpdateIInv
<1>4. CASE EnqueueJob(s)
  <2> DEFINE row == [challenges[n] EXCEPT !.queued = TRUE]
             r == [op |-> "answer", report |-> session[s].report]
  <2>1. /\ session' = [session EXCEPT ![s] = r] /\ UNCHANGED <<device, files, attachments>>
        /\ challenges' = [challenges EXCEPT ![n] = row]
    BY <1>0, <1>2, <1>4 DEF EnqueueJob, GoOn
  <2>2. row \in Challenge /\ row.key = challenges[n].key
    BY <1>2 DEF Challenge
  <2>3. r \in Request /\ r.op = "answer" /\ r.report = session[s].report
    BY <1>2 DEF Request
  <2> HIDE DEF row, r
  <2> QED  BY <1>0, <1>1, <2>1, <2>2, <2>3, UpdateIInv
<1> QED  BY <1>3, <1>4

LEMMA AnswerIInv ==
  ASSUME IInv, NEW s \in Sessions, Answer(s)
  PROVE  IInv'
<1> DEFINE d == session[s].report.draft
<1>1. /\ session[s].op = "answer" /\ session' = [session EXCEPT ![s] = Idle]
      /\ waiting' = waiting \ {s} /\ UNCHANGED <<retrying, server>>
      /\ drafts' = IF s \in waiting THEN [drafts EXCEPT ![d].status = "synced"] ELSE drafts
  BY DEF Answer, Finish, MarkSynced
<1>2. Has(d) /\ d \in Drafts
  BY <1>1, ReportOf DEF IInv, Known
<1>3. drafts \in [Drafts -> Draft]
  BY DEF IInv, TypeOK
<1>4. drafts' \in [Drafts -> Draft]
  BY <1>1, <1>3 DEF Draft, DraftStatus, Removed
<1>5. \A e \in Drafts : drafts'[e].status = "synced" => drafts[e].status = "synced" \/ Has(e)
  BY <1>1, <1>2, <1>3
<1>6. /\ session' \in [Sessions -> Request]
      /\ \A t \in Sessions : session'[t] = session[t] \/ Known(session[t])'
  BY <1>1, IdleRequest, MovesFreely
<1> QED  BY <1>1, <1>4, <1>5, <1>6, DeviceStep DEF IInv, TypeOK

LEMMA FailIInv ==
  ASSUME IInv, NEW s \in Sessions, FailReport(s) \/ HangUp(s)
  PROVE  IInv'
<1>1. /\ session' \in [Sessions -> Request]
      /\ \A t \in Sessions : session'[t] = session[t] \/ Known(session[t])'
  BY IdleRequest, MovesFreely DEF FailReport, HangUp, RollBack, IInv, TypeOK
<1> QED  BY <1>1, FailureKeeps, DeviceStep DEF FailReport, HangUp

-----------------------------------------------------------------------------
(* Attachments *)

(* Of the server only files and the retention of attachments change. *)
LEMMA StorageStep ==
  ASSUME IInv, UNCHANGED <<device, challenges>>, files \subseteq files', files' \subseteq Objects,
         attachments' \in [Objects -> Attachment], session' \in [Sessions -> Request],
         \A o \in Objects : attachments'[o].retention # "ABSENT" => Uploaded(o) \/ o \in files',
         \A t \in Sessions : session'[t] = session[t] \/ Known(session[t])'
  PROVE  IInv'
<1>1. TypeOK'
  BY DEF IInv, TypeOK, device
<1>2. KeysUnique' /\ Kept
  BY DEF IInv, KeysUnique, Kept
<1>3. AttachmentsStored'
  BY DEF IInv, AttachmentsStored, Uploaded
<1> QED  BY <1>1, <1>2, <1>3, KeepStep DEF device

LEMMA RetentionOf ==
  ASSUME IInv, NEW o \in Objects, NEW retention \in {"ACTIVE", "SOFT_DELETED"},
         attachments' = [attachments EXCEPT ![o].retention = retention]
  PROVE  /\ attachments' \in [Objects -> Attachment]
         /\ \A p \in Objects : attachments'[p].retention # "ABSENT" => Uploaded(p) \/ p = o
<1>1. attachments \in [Objects -> Attachment]
  BY DEF IInv, TypeOK
<1> QED  BY <1>1 DEF Attachment, Uploaded

LEMMA UploadIInv ==
  ASSUME IInv, NEW s \in Sessions, NEW o \in Objects, UploadAttachment(s, o)
  PROVE  IInv'
<1> DEFINE r == [op |-> "store", object |-> o]
<1>1. session' = [session EXCEPT ![s] = r] /\ UNCHANGED <<device, server>>
  BY DEF UploadAttachment, Receive
<1>2. r \in Request /\ r.op = "store"
  BY DEF Request
<1> HIDE DEF r
<1> QED  BY <1>1, <1>2, MovesFreely, DeviceStep DEF IInv, TypeOK, device

LEMMA UploadingIInv ==
  ASSUME IInv, NEW s \in Sessions, Uploading(s)
  PROVE  IInv'
<1> DEFINE o == session[s].object
<1>1. CASE StoreFile(s)
  <2> DEFINE r == [op |-> "attach", object |-> o]
  <2>1. /\ session[s].op = "store" /\ session' = [session EXCEPT ![s] = r]
        /\ files' = files \cup {o} /\ UNCHANGED <<device, challenges, attachments>>
    BY <1>1 DEF StoreFile, GoOn
  <2>2. o \in Objects
    BY <2>1 DEF IInv, TypeOK, Request
  <2>3. r \in Request /\ r.op = "attach" /\ r.object = o
    BY <2>2 DEF Request
  <2> HIDE DEF r, o
  <2>4. /\ session' \in [Sessions -> Request] /\ session'[s] = r
        /\ \A t \in Sessions : t # s => session'[t] = session[t]
    BY <2>1, <2>3, Moves
  <2>5. Known(session[s])'
    BY <2>1, <2>3, <2>4 DEF Known
  <2>6. files' \subseteq Objects /\ attachments' \in [Objects -> Attachment]
    BY <2>1, <2>2 DEF IInv, TypeOK
  <2> QED  BY <2>1, <2>4, <2>5, <2>6, StorageStep DEF Uploaded
<1>2. CASE CommitAttachment(s)
  <2>1. /\ session[s].op = "attach" /\ session' = [session EXCEPT ![s] = Idle]
        /\ attachments' = [attachments EXCEPT ![o].retention = "ACTIVE"]
        /\ UNCHANGED <<device, challenges, files>>
    BY <1>2 DEF CommitAttachment, Finish
  <2>2. o \in Objects /\ o \in files
    BY <2>1 DEF IInv, TypeOK, Request, Known
  <2>3. /\ attachments' \in [Objects -> Attachment]
        /\ \A p \in Objects : attachments'[p].retention # "ABSENT" => Uploaded(p) \/ p = o
    BY <2>1, <2>2, RetentionOf
  <2>4. /\ session' \in [Sessions -> Request]
        /\ \A t \in Sessions : session'[t] = session[t] \/ Known(session[t])'
    BY <2>1, IdleRequest, MovesFreely
  <2> QED  BY <2>1, <2>2, <2>3, <2>4, StorageStep DEF IInv, TypeOK
<1>3. CASE RollBack(s) /\ UNCHANGED <<device, server>>
  BY <1>3, IdleRequest, MovesFreely, DeviceStep DEF RollBack, IInv, TypeOK, device
<1> QED  BY <1>1, <1>2, <1>3 DEF Uploading

LEMMA RetainIInv ==
  ASSUME IInv, NEW o \in Objects, SoftDelete(o) \/ Restore(o)
  PROVE  IInv'
<1>1. PICK retention \in {"ACTIVE", "SOFT_DELETED"} : Retain(o, retention)
  BY DEF SoftDelete, Restore
<1>2. /\ attachments' = [attachments EXCEPT ![o].retention = retention] /\ Uploaded(o)
      /\ UNCHANGED <<device, challenges, files, session>>
  BY <1>1 DEF Retain
<1> QED  BY <1>2, RetentionOf, StorageStep DEF IInv, TypeOK

-----------------------------------------------------------------------------
LEMMA NextIInv == IInv /\ [Next]_vars => IInv'
<1> SUFFICES ASSUME IInv, [Next]_vars
             PROVE  IInv'
  OBVIOUS
<1>0. Reporters \subseteq Sessions /\ Uploaders \subseteq Sessions
  BY SubmissionAssumption
<1>1. ASSUME NEW d \in Drafts, Editing(d)
      PROVE  IInv'
  BY <1>1, EditingIInv
<1>2. CASE RetryAll \/ RestartApplication
  BY <1>2, RetryIInv
<1>3. ASSUME NEW s \in Reporters, NEW d \in Drafts, SubmitForm(s, d) \/ SyncSingleDraft(s, d)
      PROVE  IInv'
  BY <1>3, SendIInv
<1>4. ASSUME NEW s \in Reporters, Reporting(s)
      PROVE  IInv'
  BY <1>0, <1>4, AdmitIInv, CreateIInv, LinkIInv, AnswerIInv, FailIInv DEF Reporting
<1>5. ASSUME NEW s \in Uploaders, NEW o \in Objects, UploadAttachment(s, o)
      PROVE  IInv'
  BY <1>0, <1>5, UploadIInv
<1>6. ASSUME NEW s \in Uploaders, Uploading(s)
      PROVE  IInv'
  BY <1>0, <1>6, UploadingIInv
<1>7. ASSUME NEW o \in Objects, SoftDelete(o) \/ Restore(o)
      PROVE  IInv'
  BY <1>7, RetainIInv
<1>8. CASE UNCHANGED vars
  BY <1>8, DeviceStep DEF vars, device, IInv, TypeOK
<1> QED  BY <1>1, <1>2, <1>3, <1>4, <1>5, <1>6, <1>7, <1>8 DEF Next

LEMMA Invariance == Spec => []IInv
BY InitIInv, NextIInv, PTL DEF Spec

(* saveDraftItem, syncSingleDraft, report_challenge and the upload keep     *)
(* drafts, challenges, attachments and requests of their types. *)
THEOREM TypeCorrectness == Spec => []TypeOK
<1>1. IInv => TypeOK
  BY DEF IInv
<1> QED  BY <1>1, Invariance, PTL

(* markSynced removes a draft on any answer to its key, late or repeated:   *)
(* the server has exactly one challenge for it, because report_challenge    *)
(* looks for the key and the index on it is unique. *)
THEOREM SynchronisedOnce == Spec => []SyncedOnce
<1>1. IInv => SyncedOnce
  BY DEF IInv, SyncedHas, KeysUnique, Has, SyncedOnce
<1> QED  BY <1>1, Invariance, PTL

(* save_challenge_attachment writes the file before it commits the row, and *)
(* neither deletion nor restoring touches the file: what a report may name  *)
(* is stored. *)
THEOREM FilesStored == Spec => []AttachmentsStored
<1>1. IInv => AttachmentsStored
  BY DEF IInv
<1> QED  BY <1>1, Invariance, PTL

-----------------------------------------------------------------------------
(* The queue of analyses.  A process that has a job in hand has taken its  *)
(* batch before, and a process that is about to report the job as done has *)
(* committed the analysis. *)
Finished == {"COMPLETED", "FALLBACK_COMPLETED"}

Placed(p) ==
    /\ pc[p] \notin {"idle", "recover", "done"} => batch[p] # {}
    /\ pc[p] \in {"complete", "settle"} => Current(p) \in analysis

QueueInv ==
    /\ QueueTypeOK /\ FinishedAnalysed
    /\ \A p \in Processes : Placed(p)

(* An analysis is never removed. *)
AnalysesKept == analysis \subseteq analysis'

(* There is a least number in every set of natural numbers that is not      *)
(* empty: inclusion of the intervals below them is well-founded. *)
LEMMA LeastNumber ==
  ASSUME NEW T, T \subseteq Nat, T # {}
  PROVE  \E x \in T : \A y \in T : x <= y
<1> DEFINE below == {1 .. n : n \in T}
<1>1. below \subseteq FiniteSubsetsOf(Nat)
  BY FS_Interval DEF FiniteSubsetsOf
<1>2. below # {}
  OBVIOUS
<1>3. PICK b \in below : \A c \in below : ~(<<c, b>> \in StrictSubsetOrdering(Nat))
  <2> HIDE DEF below
  <2> QED  BY <1>1, <1>2, FS_StrictSubsetOrderingWellFounded, WFMin
<1>4. PICK x \in T : b = 1 .. x
  BY <1>3
<1>5. ASSUME NEW y \in T, y < x
      PROVE  FALSE
  <2>1. 1 .. y \subseteq 1 .. x /\ x \in 1 .. x /\ x \notin 1 .. y
    BY <1>5
  <2>2. 1 .. y \in SUBSET Nat /\ 1 .. x \in SUBSET Nat
    OBVIOUS
  <2>3. <<1 .. y, 1 .. x>> \in StrictSubsetOrdering(Nat)
    BY <2>1, <2>2, Zenon DEF StrictSubsetOrdering
  <2>4. 1 .. y \in below
    OBVIOUS
  <2> HIDE DEF below
  <2> QED  BY <1>3, <1>4, <2>3, <2>4, Zenon
<1> QED  BY <1>4, <1>5

LEMMA CurrentInBatch ==
  ASSUME QueueTypeOK, NEW p \in Processes, batch[p] # {}
  PROVE  Current(p) \in batch[p] /\ Current(p) \in Jobs
<1>1. batch[p] \subseteq Jobs /\ batch[p] \subseteq Nat
  BY JobsAssumption DEF QueueTypeOK
<1>2. \E j \in batch[p] : \A other \in batch[p] : j <= other
  BY <1>1, LeastNumber
<1> QED  BY <1>1, <1>2 DEF Current

LEMMA PlacedStays ==
  ASSUME QueueTypeOK, AnalysesKept, NEW p \in Processes, Placed(p),
         pc'[p] = pc[p], batch'[p] = batch[p], loaded'[p] = loaded[p]
  PROVE  Placed(p)'
<1>1. Current(p)' = Current(p)
  BY DEF Current
<1>2. batch[p] # {} => Current(p) \in Jobs
  BY CurrentInBatch
<1> QED  BY <1>1, <1>2 DEF Placed, AnalysesKept

(* A step that disturbs one process at most. *)
LEMMA QueueStep ==
  ASSUME QueueInv, QueueTypeOK', AnalysesKept,
         \A j \in Jobs : job'[j].status \in Finished =>
             job[j].status \in Finished \/ j \in analysis',
         \A p \in Processes :
             \/ pc'[p] = pc[p] /\ batch'[p] = batch[p] /\ loaded'[p] = loaded[p]
             \/ Placed(p)'
  PROVE  QueueInv'
<1>1. \A p \in Processes : Placed(p)'
  BY PlacedStays DEF QueueInv
<1>2. FinishedAnalysed'
  BY DEF QueueInv, FinishedAnalysed, Finished, AnalysesKept
<1> QED  BY <1>1, <1>2 DEF QueueInv

LEMMA RecordsStay == UNCHANGED records => AnalysesKept
BY DEF records, AnalysesKept

(* A process goes on to a place without a condition of its own. *)
Plain == {"idle", "recover", "enqueue", "load", "mark", "analyse", "failed", "back off",
          "fall back", "override", "done"}

LEMMA PlainPlace ==
  ASSUME QueueTypeOK, NEW p \in Processes, NEW place \in Plain, Goto(p, place),
         place \in {"idle", "recover", "done"} \/ batch'[p] # {}
  PROVE  Placed(p)'
BY DEF QueueTypeOK, Goto, Plain, Placed

(* The rows of ai_jobs after an UPDATE. *)
LEMMA WriteJob ==
  ASSUME QueueTypeOK, NEW j \in Jobs, NEW status \in AIJobStatus, NEW attempts \in Nat,
         NEW due \in BOOLEAN, Write(j, status, attempts, due)
  PROVE  /\ job' \in [Jobs -> Job] /\ job'[j].status = status
         /\ \A i \in Jobs : i # j => job'[i] = job[i]
BY DEF QueueTypeOK, Write, Job

LEMMA JobFields ==
  ASSUME QueueTypeOK, NEW j \in Jobs
  PROVE  job[j].status \in AIJobStatus /\ job[j].attempts \in Nat /\ job[j].due \in BOOLEAN
BY DEF QueueTypeOK, Job

(* What a process has loaded. *)
LEMMA LoadProcessing ==
  ASSUME NEW l \in Loaded, NEW b \in BOOLEAN
  PROVE  [l EXCEPT !.processing = b] \in Loaded
BY DEF Loaded

LEMMA LoadAttempts ==
  ASSUME NEW l \in Loaded, NEW n \in Nat
  PROVE  [l EXCEPT !.attempts = n] \in Loaded
BY DEF Loaded

LEMMA LoadChallenge ==
  ASSUME NEW l \in Loaded, NEW c \in Reviewable \cup {"UNDER_REVIEW"}, NEW v \in Priorities
  PROVE  /\ [l EXCEPT !.challenge = c, !.priority = v] \in Loaded
         /\ [l EXCEPT !.challenge = c, !.priority = v].challenge = c
BY DEF Loaded

LEMMA ExpiredLoaded == Expired \in Loaded /\ Expired.challenge = "SUBMITTED"
BY PriorityAssumption DEF Expired, Loaded, Reviewable

(* What a step on a process in hand starts from. *)
LEMMA InHand ==
  ASSUME QueueInv, NEW p \in Processes, pc[p] \notin {"idle", "recover", "done"}
  PROVE  batch[p] # {} /\ Current(p) \in batch[p] /\ Current(p) \in Jobs
BY CurrentInBatch DEF QueueInv, Placed

(* A step of one process that stays in its batch and leaves the challenges  *)
(* as they are. *)
LEMMA StayStep ==
  ASSUME QueueInv, NEW p \in Processes, batch[p] # {}, NEW place \in Plain, Goto(p, place),
         NEW l \in Loaded, loaded' = [loaded EXCEPT ![p] = l],
         job' \in [Jobs -> Job],
         \A j \in Jobs : job'[j].status \in Finished => job[j].status \in Finished,
         UNCHANGED <<records, batch, found, crashes, manual>>
  PROVE  QueueInv'
<1>1. QueueTypeOK'
  BY DEF QueueInv, QueueTypeOK, Goto, Plain, records
<1>2. Placed(p)'
  BY PlainPlace DEF QueueInv
<1>3. \A q \in Processes : q # p => pc'[q] = pc[q] /\ batch'[q] = batch[q] /\ loaded'[q] = loaded[q]
  BY DEF QueueInv, QueueTypeOK, Goto
<1> QED  BY <1>1, <1>2, <1>3, RecordsStay, QueueStep

(* The process has done with its job, or gives up. *)
LEMMA LeaveStep ==
  ASSUME QueueInv, NEW p \in Processes, batch[p] # {}, Advance(p) \/ Drop(p),
         job' \in [Jobs -> Job], AnalysesKept,
         analysis' \subseteq Jobs, priority' \in [Jobs -> Priorities],
         challenge' \in [Jobs -> Reviewable \cup {"UNDER_REVIEW"}],
         overrides' \in [Jobs -> Overrides \cup {NoOverride}],
         \A j \in Jobs : job'[j].status \in Finished =>
             job[j].status \in Finished \/ j \in analysis',
         found' \in [Processes -> [requeue : SUBSET Jobs, bury : SUBSET Jobs]],
         crashes' \in Nat, manual' \in Nat
  PROVE  QueueInv'
<1>0. QueueTypeOK /\ Current(p) \in batch[p]
  BY CurrentInBatch DEF QueueInv
<1>1. PICK place \in {"idle", "done", "load"} :
          /\ Goto(p, place)
          /\ place = "load" => batch'[p] # {}
          /\ \A q \in Processes : q # p => batch'[q] = batch[q]
          /\ batch' \in [Processes -> SUBSET Jobs]
          /\ loaded' = [loaded EXCEPT ![p] = Expired]
  <2>1. Rest(p) \in {"idle", "done"}
    BY DEF Rest
  <2>2. CASE Drop(p)
    BY <1>0, <2>1, <2>2 DEF Drop, QueueTypeOK
  <2>3. CASE Advance(p)
    <3>1. batch' = [batch EXCEPT ![p] = batch[p] \ {Current(p)}]
      BY <2>3 DEF Advance
    <3>2. batch[p] # {Current(p)} => batch[p] \ {Current(p)} # {}
      BY <1>0
    <3>3. batch'[p] = batch[p] \ {Current(p)} /\ batch' \in [Processes -> SUBSET Jobs]
      BY <1>0, <3>1 DEF QueueTypeOK
    <3> QED  BY <1>0, <2>1, <2>3, <3>1, <3>2, <3>3 DEF Advance, QueueTypeOK
  <2> QED  BY <2>2, <2>3
<1>2. QueueTypeOK'
  BY <1>0, <1>1, ExpiredLoaded DEF QueueTypeOK, Goto
<1>3. Placed(p)'
  BY <1>0, <1>1, PlainPlace DEF Plain
<1>4. \A q \in Processes : q # p => pc'[q] = pc[q] /\ batch'[q] = batch[q] /\ loaded'[q] = loaded[q]
  BY <1>0, <1>1 DEF QueueTypeOK, Goto
<1> QED  BY <1>2, <1>3, <1>4, QueueStep

-----------------------------------------------------------------------------
(* process_job, the steps that leave the challenge alone *)
LEMMA MarkInv ==
  ASSUME QueueInv, NEW p \in Processes, LoadJob(p) \/ MarkProcessing(p)
  PROVE  QueueInv'
<1>0. QueueTypeOK /\ batch[p] # {} /\ Current(p) \in Jobs
  BY InHand DEF QueueInv, LoadJob, MarkProcessing
<1>1. CASE LoadJob(p)
  <2> DEFINE l == [loaded[p] EXCEPT !.processing = job[Current(p)].status = "PROCESSING"]
  <2>1. l \in Loaded
    BY <1>0, LoadProcessing DEF QueueTypeOK
  <2>2. loaded' = [loaded EXCEPT ![p] = l]
    BY <1>1 DEF LoadJob
  <2> HIDE DEF l
  <2> QED  BY <1>0, <1>1, <2>1, <2>2, StayStep DEF LoadJob, Plain, QueueTypeOK
<1>2. CASE MarkProcessing(p)
  <2>1. /\ job' \in [Jobs -> Job]
        /\ \A j \in Jobs : job'[j].status \in Finished => job[j].status \in Finished
    <3>1. CASE loaded[p].processing
      BY <1>0, <1>2, <3>1 DEF MarkProcessing, QueueTypeOK
    <3>2. CASE ~loaded[p].processing
      <4>1. Write(Current(p), "PROCESSING", job[Current(p)].attempts, job[Current(p)].due)
        BY <1>2, <3>2 DEF MarkProcessing
      <4> QED  BY <1>0, <4>1, JobFields, WriteJob DEF AIJobStatus, Finished
    <3> QED  BY <3>1, <3>2
  <2> QED  BY <1>0, <1>2, <2>1, ExpiredLoaded, StayStep DEF MarkProcessing, Plain
<1> QED  BY <1>1, <1>2

LEMMA ReadInv ==
  ASSUME QueueInv, NEW p \in Processes, ReadChallenge(p)
  PROVE  QueueInv'
<1> DEFINE j == Current(p)
           l == [loaded[p] EXCEPT !.challenge = challenge[j], !.priority = priority[j]]
<1>0. QueueTypeOK /\ batch[p] # {} /\ j \in Jobs
  BY InHand DEF QueueInv, ReadChallenge
<1>1. l \in Loaded /\ l.challenge = challenge[j]
  <2>1. /\ loaded[p] \in Loaded /\ priority[j] \in Priorities
        /\ challenge[j] \in Reviewable \cup {"UNDER_REVIEW"}
    BY <1>0 DEF QueueTypeOK
  <2> HIDE DEF j
  <2> QED  BY <2>1, LoadChallenge DEF Loaded
<1>2. loaded' = [loaded EXCEPT ![p] = l]
  BY DEF ReadChallenge
<1>3. PICK place \in {"analysing", "falling back"} : Goto(p, place)
  BY DEF ReadChallenge
<1> HIDE DEF l
<1>4. /\ pc'[p] = place /\ loaded'[p].challenge = challenge[j]
      /\ \A q \in Processes : q # p => pc'[q] = pc[q] /\ loaded'[q] = loaded[q]
  BY <1>0, <1>1, <1>2, <1>3 DEF Goto, QueueTypeOK
<1>5. QueueTypeOK'
  <2>1. UNCHANGED <<job, records, batch, found, crashes, manual>>
    BY DEF ReadChallenge
  <2>2. loaded' \in [Processes -> Loaded]
    BY <1>0, <1>1, <1>2 DEF QueueTypeOK
  <2>3. pc' = [pc EXCEPT ![p] = place]
    BY <1>3 DEF Goto
  <2> QED  BY <1>0, <2>1, <2>2, <2>3 DEF QueueTypeOK, records
<1>6. Placed(p)'
  BY <1>0, <1>4 DEF Placed, ReadChallenge, records, Current
<1> QED  BY <1>4, <1>5, <1>6, RecordsStay, QueueStep DEF ReadChallenge

LEMMA FailedInv ==
  ASSUME QueueInv, NEW p \in Processes, AnalysisFails(p) \/ CountFailure(p)
  PROVE  QueueInv'
<1>0. QueueTypeOK /\ batch[p] # {} /\ Current(p) \in Jobs
  BY InHand DEF QueueInv, AnalysisFails, CountFailure
<1>1. CASE AnalysisFails(p)
  BY <1>0, <1>1, ExpiredLoaded, StayStep DEF AnalysisFails, Plain, QueueTypeOK
<1>2. CASE CountFailure(p)
  <2> DEFINE l == [loaded[p] EXCEPT !.attempts = job[Current(p)].attempts + 1]
  <2>1. l \in Loaded
    <3>1. loaded[p] \in Loaded /\ job[Current(p)].attempts + 1 \in Nat
      <4>1. job[Current(p)].attempts \in Nat
        BY <1>0, JobFields
      <4>2. loaded[p] \in Loaded
        BY <1>0 DEF QueueTypeOK
      <4> QED  BY <4>1, <4>2
    <3> QED  BY <3>1, LoadAttempts
  <2>2. loaded' = [loaded EXCEPT ![p] = l]
    BY <1>2 DEF CountFailure
  <2>3. PICK place \in {"fall back", "back off"} : Goto(p, place)
    BY <1>2 DEF CountFailure
  <2> HIDE DEF l
  <2> QED  BY <1>0, <1>2, <2>1, <2>2, <2>3, StayStep DEF CountFailure, Plain, QueueTypeOK
<1> QED  BY <1>1, <1>2

(* The job is reported as done, or for a later time, or is left. *)
LEMMA LeaveInv ==
  ASSUME QueueInv, NEW p \in Processes,
         Complete(p) \/ Settle(p) \/ BackOff(p) \/ FallbackBreaks(p)
  PROVE  QueueInv'
<1> DEFINE j == Current(p)
<1>0. QueueTypeOK /\ batch[p] # {} /\ j \in Jobs
  BY InHand DEF QueueInv, Complete, Settle, BackOff, FallbackBreaks
<1>1. UNCHANGED <<records, found, crashes, manual>> /\ (Advance(p) \/ Drop(p))
  BY DEF Complete, Settle, BackOff, FallbackBreaks
<1>2. /\ job' \in [Jobs -> Job]
      /\ \A i \in Jobs : job'[i].status \in Finished =>
             job[i].status \in Finished \/ i \in analysis
  <2>1. CASE Complete(p) \/ Settle(p)
    <3>1. j \in analysis
      BY <2>1 DEF QueueInv, Placed, Complete, Settle
    <3>2. PICK status \in Finished : Write(j, status, job[j].attempts, job[j].due)
      BY <2>1 DEF Complete, Settle, Finished
    <3>3. job' \in [Jobs -> Job] /\ \A i \in Jobs : i # j => job'[i] = job[i]
      BY <1>0, <3>2, JobFields, WriteJob DEF AIJobStatus, Finished
    <3> QED  BY <3>1, <3>3
  <2>2. CASE BackOff(p)
    <3>1. Write(j, "FAILED", loaded[p].attempts, FALSE) /\ loaded[p].attempts \in Nat
      BY <1>0, <2>2 DEF BackOff, QueueTypeOK, Loaded
    <3> QED  BY <1>0, <3>1, WriteJob DEF AIJobStatus, Finished
  <2>3. CASE FallbackBreaks(p)
    BY <1>0, <2>3 DEF FallbackBreaks, QueueTypeOK
  <2> QED  BY <2>1, <2>2, <2>3
<1>3. analysis' = analysis
  BY <1>1 DEF records
<1> QED  BY <1>0, <1>1, <1>2, <1>3, RecordsStay, LeaveStep DEF records, QueueTypeOK

-----------------------------------------------------------------------------
(* The analyses that are committed *)
LEMMA AddedAnalysis ==
  ASSUME QueueTypeOK, NEW p \in Processes, NEW j \in Jobs, AddAnalysis(j, p)
  PROVE  /\ analysis' = analysis \cup {j} /\ analysis' \subseteq Jobs
         /\ priority' \in [Jobs -> Priorities]
         /\ overrides' \in [Jobs -> Overrides \cup {NoOverride}]
BY DEF QueueTypeOK, AddAnalysis

(* An analysis that is committed adds its row. *)
LEMMA AnalysedKept ==
  ASSUME QueueInv, NEW p \in Processes, pc[p] \in {"analysing", "falling back"},
         Analysed(Current(p), p)
  PROVE  /\ Current(p) \in analysis' /\ AnalysesKept
         /\ challenge' \in [Jobs -> Reviewable \cup {"UNDER_REVIEW"}]
         /\ AddAnalysis(Current(p), p)
<1> DEFINE j == Current(p)
<1>0. QueueTypeOK /\ batch[p] # {} /\ j \in Jobs
  BY InHand DEF QueueInv
<1>1. /\ analysis' = analysis \cup {j} /\ AddAnalysis(j, p)
      /\ challenge' = IF loaded[p].challenge = "SUBMITTED"
                      THEN [challenge EXCEPT ![j] = "AI_ANALYSIS"] ELSE challenge
  BY <1>0, AddedAnalysis DEF Analysed
<1>2. challenge' \in [Jobs -> Reviewable \cup {"UNDER_REVIEW"}]
  BY <1>0, <1>1 DEF QueueTypeOK, Reviewable
<1>3. j \in analysis' /\ AnalysesKept
  BY <1>1 DEF AnalysesKept
<1> QED  BY <1>1, <1>2, <1>3

LEMMA SucceedInv ==
  ASSUME QueueInv, NEW p \in Processes, AnalysisSucceeds(p) \/ FallbackSucceeds(p)
  PROVE  QueueInv'
<1> DEFINE j == Current(p)
<1>0. /\ QueueTypeOK /\ batch[p] # {} /\ j \in Jobs
      /\ pc[p] \in {"analysing", "falling back"} /\ Analysed(j, p)
      /\ loaded' = [loaded EXCEPT ![p] = Expired]
      /\ UNCHANGED <<batch, found, crashes, manual>>
  BY InHand DEF QueueInv, AnalysisSucceeds, FallbackSucceeds
<1>1. /\ j \in analysis' /\ AnalysesKept
      /\ challenge' \in [Jobs -> Reviewable \cup {"UNDER_REVIEW"}]
      /\ AddAnalysis(j, p)
  BY <1>0, AnalysedKept
<1>2. /\ analysis' \subseteq Jobs /\ priority' \in [Jobs -> Priorities]
      /\ overrides' \in [Jobs -> Overrides \cup {NoOverride}]
  BY <1>0, <1>1, AddedAnalysis
<1>3. job' \in [Jobs -> Job] /\ \A i \in Jobs : job'[i].status = job[i].status
  <2>1. CASE AnalysisSucceeds(p)
    BY <1>0, <2>1 DEF AnalysisSucceeds, QueueTypeOK
  <2>2. CASE FallbackSucceeds(p)
    <3>1. Write(j, job[j].status, loaded[p].attempts, job[j].due) /\ loaded[p].attempts \in Nat
      BY <1>0, <2>2 DEF FallbackSucceeds, QueueTypeOK, Loaded
    <3>2. job[j].status \in AIJobStatus /\ job[j].due \in BOOLEAN
      BY <1>0, JobFields
    <3> HIDE DEF j
    <3>3. /\ job' \in [Jobs -> Job] /\ job'[j].status = job[j].status
          /\ \A i \in Jobs : i # j => job'[i] = job[i]
      BY <1>0, <3>1, <3>2, WriteJob
    <3> QED  BY <3>3
  <2> QED  BY <2>1, <2>2
<1>4. PICK place \in {"complete", "settle"} : pc' = [pc EXCEPT ![p] = place]
  BY DEF AnalysisSucceeds, FallbackSucceeds, Goto
<1>5. QueueTypeOK'
  BY <1>0, <1>1, <1>2, <1>3, <1>4, ExpiredLoaded DEF QueueTypeOK
<1>6. Placed(p)'
  BY <1>0, <1>1, <1>4 DEF Placed, Current, QueueTypeOK
<1>7. \A q \in Processes : q # p => pc'[q] = pc[q] /\ batch'[q] = batch[q] /\ loaded'[q] = loaded[q]
  BY <1>0, <1>4 DEF QueueTypeOK
<1> QED  BY <1>1, <1>3, <1>5, <1>6, <1>7, QueueStep

LEMMA FallbackFailsInv ==
  ASSUME QueueInv, NEW p \in Processes, FallbackFails(p)
  PROVE  QueueInv'
<1> DEFINE j == Current(p)
<1>0. QueueTypeOK /\ batch[p] # {} /\ j \in Jobs
  BY InHand DEF QueueInv, FallbackFails
<1>1. /\ Write(j, "DEAD_LETTER", loaded[p].attempts, job[j].due)
      /\ \/ UNCHANGED <<analysis, priority, overrides>>
         \/ AddAnalysis(j, p)
      /\ Advance(p) /\ UNCHANGED <<challenge, found, crashes, manual>>
  BY DEF FallbackFails
<1>2. loaded[p].attempts \in Nat
  BY <1>0 DEF QueueTypeOK, Loaded
<1>3. /\ job' \in [Jobs -> Job]
      /\ \A i \in Jobs : job'[i].status \in Finished => job[i].status \in Finished
  BY <1>0, <1>1, <1>2, JobFields, WriteJob DEF AIJobStatus, Finished
<1>4. /\ analysis \subseteq analysis' /\ analysis' \subseteq Jobs
      /\ priority' \in [Jobs -> Priorities]
      /\ overrides' \in [Jobs -> Overrides \cup {NoOverride}]
  BY <1>0, <1>1, AddedAnalysis DEF QueueTypeOK
<1>5. AnalysesKept
  BY <1>1, <1>4 DEF AnalysesKept
<1> QED  BY <1>0, <1>1, <1>3, <1>4, <1>5, LeaveStep DEF QueueTypeOK

LEMMA ProcessJobInv ==
  ASSUME QueueInv, NEW p \in Processes, ProcessJob(p)
  PROVE  QueueInv'
BY MarkInv, ReadInv, FailedInv, LeaveInv, SucceedInv, FallbackFailsInv DEF ProcessJob

-----------------------------------------------------------------------------
(* The worker's cycle and the others *)
LEMMA FindInv ==
  ASSUME QueueInv, NEW w \in Processes, FindStale(w)
  PROVE  QueueInv'
<1>1. QueueTypeOK'
  BY DEF QueueInv, QueueTypeOK, FindStale, Stale, Goto, records
<1>2. Placed(w)'
  BY PlainPlace DEF QueueInv, FindStale, Plain
<1> QED  BY <1>1, <1>2, RecordsStay, QueueStep DEF QueueInv, QueueTypeOK, FindStale, Goto

LEMMA RequeuedRow ==
  ASSUME NEW r \in Job
  PROVE  /\ [r EXCEPT !.status = "PENDING", !.due = TRUE, !.stale = FALSE] \in Job
         /\ [r EXCEPT !.status = "PENDING", !.due = TRUE, !.stale = FALSE].status = "PENDING"
BY DEF Job, AIJobStatus

LEMMA BuriedRow ==
  ASSUME NEW r \in Job
  PROVE  /\ [r EXCEPT !.status = "DEAD_LETTER", !.stale = FALSE] \in Job
         /\ [r EXCEPT !.status = "DEAD_LETTER", !.stale = FALSE].status = "DEAD_LETTER"
BY DEF Job, AIJobStatus

LEMMA ClaimedRow ==
  ASSUME NEW r \in Job
  PROVE  /\ [r EXCEPT !.status = "PROCESSING", !.attempts = @ + 1, !.stale = FALSE] \in Job
         /\ [r EXCEPT !.status = "PROCESSING", !.attempts = @ + 1, !.stale = FALSE].status
                = "PROCESSING"
<1>1. r.attempts + 1 \in Nat
  BY DEF Job
<1> QED  BY <1>1 DEF Job, AIJobStatus

LEMMA RecoverInv ==
  ASSUME QueueInv, NEW w \in Processes, Recover(w)
  PROVE  QueueInv'
<1>0. QueueTypeOK
  BY DEF QueueInv
<1>1. /\ job' \in [Jobs -> Job]
      /\ \A j \in Jobs : job'[j].status \in Finished => job[j].status \in Finished
  <2>1. ASSUME NEW j \in Jobs
        PROVE  job'[j] \in Job /\ job'[j].status \in {"PENDING", "DEAD_LETTER", job[j].status}
    <3>1. job[j] \in Job
      BY <1>0 DEF QueueTypeOK
    <3>2. CASE j \in found[w].requeue
      BY <3>1, <3>2, RequeuedRow DEF Recover
    <3>3. CASE j \notin found[w].requeue /\ j \in found[w].bury
      BY <3>1, <3>3, BuriedRow DEF Recover
    <3>4. CASE j \notin found[w].requeue /\ j \notin found[w].bury
      BY <3>1, <3>4 DEF Recover
    <3> QED  BY <3>2, <3>3, <3>4
  <2>2. job' = [j \in Jobs |-> job'[j]]
    BY DEF Recover
  <2> QED  BY <2>1, <2>2 DEF Finished
<1>2. QueueTypeOK'
  BY <1>0, <1>1 DEF QueueTypeOK, Recover, Goto, records
<1>3. Placed(w)'
  BY <1>0, PlainPlace DEF Recover, Plain
<1> QED  BY <1>0, <1>1, <1>2, <1>3, RecordsStay, QueueStep DEF QueueTypeOK, Recover, Goto

LEMMA ClaimInv ==
  ASSUME QueueInv, NEW w \in Processes, Claim(w)
  PROVE  QueueInv'
<1> DEFINE claimed == {j \in Waiting : Cardinality({i \in Waiting : i < j}) < Limit}
<1>0. QueueTypeOK /\ claimed # {} /\ claimed \subseteq Jobs
  BY DEF QueueInv, Claim, Waiting
<1>1. /\ job' = [j \in Jobs |->
             IF j \in claimed
             THEN [job[j] EXCEPT !.status = "PROCESSING", !.attempts = @ + 1, !.stale = FALSE]
             ELSE job[j]]
      /\ batch' = [batch EXCEPT ![w] = claimed] /\ Goto(w, "load")
      /\ UNCHANGED <<records, loaded, found, crashes, manual>>
  BY DEF Claim
<1> HIDE DEF claimed
<1>2. /\ job' \in [Jobs -> Job]
      /\ \A j \in Jobs : job'[j].status \in Finished => job[j].status \in Finished
  <2>1. ASSUME NEW j \in Jobs
        PROVE  job'[j] \in Job /\ job'[j].status \in {"PROCESSING", job[j].status}
    <3>1. job[j] \in Job
      BY <1>0 DEF QueueTypeOK
    <3>2. CASE j \in claimed
      BY <1>1, <3>1, <3>2, ClaimedRow
    <3>3. CASE j \notin claimed
      BY <1>1, <3>1, <3>3
    <3> QED  BY <3>2, <3>3
  <2>2. job' = [j \in Jobs |-> job'[j]]
    BY <1>1
  <2> QED  BY <2>1, <2>2 DEF Finished
<1>3. /\ batch'[w] = claimed /\ batch' \in [Processes -> SUBSET Jobs]
      /\ \A q \in Processes : q # w => batch'[q] = batch[q]
  BY <1>0, <1>1 DEF QueueTypeOK
<1>4. QueueTypeOK'
  BY <1>0, <1>1, <1>2, <1>3 DEF QueueTypeOK, Goto, records
<1>5. Placed(w)'
  BY <1>0, <1>1, <1>3, PlainPlace DEF Plain
<1> QED  BY <1>0, <1>1, <1>2, <1>3, <1>4, <1>5, RecordsStay, QueueStep DEF QueueTypeOK, Goto

LEMMA EnqueueInv ==
  ASSUME QueueInv, NEW p \in Processes, Enqueue(p)
  PROVE  QueueInv'
<1> DEFINE j == Current(p)
<1>0. QueueTypeOK /\ batch[p] # {} /\ j \in Jobs
  BY InHand DEF QueueInv, Enqueue
<1>1. /\ job' \in [Jobs -> Job]
      /\ \A i \in Jobs : job'[i].status \in Finished => job[i].status \in Finished
  <2>1. CASE Write(j, "PENDING", 0, TRUE)
    BY <1>0, <2>1, WriteJob DEF AIJobStatus, Finished
  <2>2. CASE UNCHANGED job
    BY <1>0, <2>2 DEF QueueTypeOK
  <2> QED  BY <2>1, <2>2 DEF Enqueue
<1>2. QueueTypeOK'
  BY <1>0, <1>1 DEF QueueTypeOK, Enqueue, Goto, records
<1>3. Placed(p)'
  BY <1>0, PlainPlace DEF Enqueue, Plain
<1> QED  BY <1>0, <1>1, <1>2, <1>3, RecordsStay, QueueStep DEF QueueTypeOK, Enqueue, Goto

(* A request of an administrator or an officer takes a batch. *)
LEMMA TakeStep ==
  ASSUME QueueInv, NEW p \in Processes, NEW jobs \in SUBSET Jobs, jobs # {},
         batch' = [batch EXCEPT ![p] = jobs],
         NEW place \in Plain, Goto(p, place),
         loaded' \in [Processes -> Loaded], \A q \in Processes : q # p => loaded'[q] = loaded[q],
         job' \in [Jobs -> Job],
         \A j \in Jobs : job'[j].status \in Finished => job[j].status \in Finished,
         manual' = manual + 1, UNCHANGED <<records, found, crashes>>
  PROVE  QueueInv'
<1>0. QueueTypeOK
  BY DEF QueueInv
<1>1. /\ batch'[p] = jobs /\ batch' \in [Processes -> SUBSET Jobs]
      /\ \A q \in Processes : q # p => batch'[q] = batch[q]
  BY <1>0 DEF QueueTypeOK
<1>2. QueueTypeOK'
  <2>1. manual' \in Nat /\ pc' = [pc EXCEPT ![p] = place]
    <3>1. manual \in Nat
      BY <1>0 DEF QueueTypeOK
    <3> QED  BY <3>1 DEF Goto
  <2>2. UNCHANGED <<analysis, challenge, priority, overrides, found, crashes>>
    BY DEF records
  <2> QED  BY <1>0, <1>1, <2>1, <2>2 DEF QueueTypeOK, Plain
<1>3. Placed(p)'
  BY <1>0, <1>1, PlainPlace
<1> QED  BY <1>0, <1>1, <1>2, <1>3, RecordsStay, QueueStep DEF QueueTypeOK, Goto

(* What a process has loaded of a job stays of its form when the priority of the job is    *)
(* read again, as the override of a priority does before it writes.                        *)
LEMMA LoadedPriority ==
  ASSUME NEW r \in Loaded, NEW value \in Priorities
  PROVE  [r EXCEPT !.priority = value] \in Loaded
BY DEF Loaded

LEMMA RequestInv ==
  ASSUME QueueInv, NEW p \in Processes, NEW j \in Jobs,
         RetryJob(p, j) \/ ProcessPendingJobs(p) \/ LoadOverridden(p, j)
  PROVE  QueueInv'
<1>0. QueueTypeOK
  BY DEF QueueInv
<1>1. CASE RetryJob(p, j)
  <2>1. /\ job' \in [Jobs -> Job]
        /\ \A i \in Jobs : job'[i].status \in Finished => job[i].status \in Finished
    BY <1>0, <1>1, WriteJob DEF RetryJob, Requeue, AIJobStatus, Finished
  <2>2. loaded' \in [Processes -> Loaded] /\ {j} \in SUBSET Jobs /\ {j} # {} /\ "load" \in Plain
    BY <1>0, <1>1 DEF RetryJob, QueueTypeOK, Plain
  <2> QED  BY <1>1, <2>1, <2>2, TakeStep DEF RetryJob
<1>2. CASE ProcessPendingJobs(p)
  <2>1. /\ loaded' \in [Processes -> Loaded] /\ job' \in [Jobs -> Job] /\ "load" \in Plain
        /\ Waiting # {} /\ Waiting \in SUBSET Jobs
    BY <1>0, <1>2 DEF ProcessPendingJobs, QueueTypeOK, Plain, Waiting
  <2> QED  BY <1>2, <2>1, TakeStep DEF ProcessPendingJobs
<1>3. CASE LoadOverridden(p, j)
  <2> DEFINE l == [loaded[p] EXCEPT !.priority = priority[j]]
  <2>1. l \in Loaded
    <3>1. loaded[p] \in Loaded /\ priority[j] \in Priorities
      BY <1>0 DEF QueueTypeOK
    <3> QED  BY LoadedPriority, <3>1
  <2>2. loaded' = [loaded EXCEPT ![p] = l]
    BY <1>3 DEF LoadOverridden
  <2> HIDE DEF l
  <2>3. loaded' \in [Processes -> Loaded] /\ \A q \in Processes : q # p => loaded'[q] = loaded[q]
    BY <1>0, <2>1, <2>2 DEF QueueTypeOK
  <2>4. UNCHANGED job /\ job' \in [Jobs -> Job]
    BY <1>0, <1>3 DEF LoadOverridden, QueueTypeOK
  <2>5. {j} \in SUBSET Jobs /\ {j} # {} /\ "override" \in Plain
    BY DEF Plain
  <2> QED  BY <1>3, <2>3, <2>4, <2>5, TakeStep DEF LoadOverridden
<1> QED  BY <1>1, <1>2, <1>3

LEMMA RecordOverrideInv ==
  ASSUME QueueInv, NEW o \in Processes, RecordOverride(o)
  PROVE  QueueInv'
<1> DEFINE j == Current(o)
<1>0. QueueTypeOK /\ batch[o] # {} /\ j \in Jobs
  BY InHand DEF QueueInv, RecordOverride
<1>1. PICK value \in Overrides :
          OverridePriority(o, j, value) /\ overrides' = [overrides EXCEPT ![j] = value]
  BY DEF RecordOverride
<1> HIDE DEF j
<1>2. /\ priority' \in [Jobs -> Priorities]
      /\ overrides' \in [Jobs -> Overrides \cup {NoOverride}]
  BY <1>0, <1>1 DEF QueueTypeOK, OverridePriority
<1>3. AnalysesKept
  BY DEF AnalysesKept, RecordOverride
<1> QED  BY <1>0, <1>2, <1>3, LeaveStep DEF RecordOverride, QueueTypeOK

(* An officer's decision, a stop and the clock. *)
LEMMA DecideInv ==
  ASSUME QueueInv, NEW j \in Jobs, OfficerDecides(j)
  PROVE  QueueInv'
<1>1. QueueTypeOK' /\ AnalysesKept
  <2>1. PICK status \in Reviewable \cup {"UNDER_REVIEW"} :
            challenge' = [challenge EXCEPT ![j] = status]
    BY DEF OfficerDecides
  <2>2. challenge' \in [Jobs -> Reviewable \cup {"UNDER_REVIEW"}]
    BY <2>1 DEF QueueInv, QueueTypeOK
  <2>3. manual' \in Nat
    <3>1. manual \in Nat /\ manual' = manual + 1
      BY DEF QueueInv, QueueTypeOK, OfficerDecides
    <3> QED  BY <3>1
  <2> QED  BY <2>2, <2>3 DEF QueueInv, QueueTypeOK, OfficerDecides, AnalysesKept
<1> QED  BY <1>1, QueueStep DEF OfficerDecides

LEMMA CrashInv ==
  ASSUME QueueInv, NEW p \in Processes, Crash(p)
  PROVE  QueueInv'
<1>0. QueueTypeOK
  BY DEF QueueInv
<1>1. Rest(p) \in {"idle", "done"}
  BY DEF Rest
<1>2. QueueTypeOK'
  <2>1. /\ crashes' \in Nat /\ UNCHANGED <<job, analysis, challenge, priority, overrides, manual>>
        /\ loaded' = [loaded EXCEPT ![p] = Expired] /\ batch' = [batch EXCEPT ![p] = {}]
        /\ pc' = [pc EXCEPT ![p] = Rest(p)]
        /\ found' = [found EXCEPT ![p] = [requeue |-> {}, bury |-> {}]]
    <3>1. crashes \in Nat
      BY <1>0 DEF QueueTypeOK
    <3> QED  BY <3>1 DEF Crash, Drop, Goto, records
  <2> QED  BY <1>0, <1>1, <2>1, ExpiredLoaded DEF QueueTypeOK
<1>3. Placed(p)'
  BY <1>0, <1>1, PlainPlace DEF Crash, Drop, Plain
<1> QED  BY <1>0, <1>2, <1>3, RecordsStay, QueueStep DEF QueueTypeOK, Crash, Drop, Goto

LEMMA ClockInv ==
  ASSUME QueueInv, NEW j \in Jobs, BecomeDue(j) \/ BecomeStale(j)
  PROVE  QueueInv'
<1>0. QueueTypeOK /\ job[j] \in Job
  BY DEF QueueInv, QueueTypeOK
<1>1. /\ job' \in [Jobs -> Job]
      /\ \A i \in Jobs : job'[i].status = job[i].status
  <2>1. /\ [job[j] EXCEPT !.due = TRUE] \in Job
        /\ [job[j] EXCEPT !.due = TRUE].status = job[j].status
        /\ [job[j] EXCEPT !.stale = TRUE] \in Job
        /\ [job[j] EXCEPT !.stale = TRUE].status = job[j].status
    BY <1>0 DEF Job
  <2>2. PICK row \in Job : row.status = job[j].status /\ job' = [job EXCEPT ![j] = row]
    BY <2>1 DEF BecomeDue, BecomeStale
  <2> QED  BY <1>0, <2>2 DEF QueueTypeOK
<1>2. UNCHANGED <<records, pc, batch, loaded, found, crashes, manual>>
  BY DEF BecomeDue, BecomeStale
<1>3. QueueTypeOK'
  BY <1>0, <1>1, <1>2 DEF QueueTypeOK, records
<1> QED  BY <1>1, <1>2, <1>3, RecordsStay, QueueStep

-----------------------------------------------------------------------------
LEMMA QueueInitInv == QueueInit => QueueInv
<1> SUFFICES ASSUME QueueInit
             PROVE  QueueInv
  OBVIOUS
<1>1. JobOf \in [Enqueuers -> Jobs]
  BY JobsAssumption
<1>2. QueueTypeOK
  BY <1>1, ExpiredLoaded, PriorityAssumption
     DEF QueueInit, QueueTypeOK, Job, AIJobStatus, Reviewable
<1>3. FinishedAnalysed
  BY DEF QueueInit, FinishedAnalysed
<1>4. \A p \in Processes : Placed(p)
  BY DEF QueueInit, Placed
<1> QED  BY <1>2, <1>3, <1>4 DEF QueueInv

LEMMA QueueNextInv == QueueInv /\ [QueueNext]_queueVars => QueueInv'
<1> SUFFICES ASSUME QueueInv, [QueueNext]_queueVars
             PROVE  QueueInv'
  OBVIOUS
<1>0. /\ Workers \subseteq Processes /\ Enqueuers \subseteq Processes
      /\ Admins \subseteq Processes /\ Officers \subseteq Processes
  BY DEF Processes, Processors
<1>1. ASSUME NEW w \in Workers, Work(w)
      PROVE  QueueInv'
  BY <1>0, <1>1, FindInv, RecoverInv, ClaimInv, ProcessJobInv DEF Work
<1>2. ASSUME NEW p \in Enqueuers, Enqueue(p) \/ ProcessJob(p)
      PROVE  QueueInv'
  BY <1>0, <1>2, EnqueueInv, ProcessJobInv
<1>3. ASSUME NEW p \in Admins,
             (\E j \in Jobs : RetryJob(p, j)) \/ ProcessPendingJobs(p) \/ ProcessJob(p)
      PROVE  QueueInv'
  <2>1. ProcessPendingJobs(p) => \E j \in Jobs : TRUE
    BY DEF ProcessPendingJobs, Waiting
  <2> QED  BY <1>0, <1>3, <2>1, RequestInv, ProcessJobInv
<1>4. ASSUME NEW o \in Officers, (\E j \in Jobs : LoadOverridden(o, j)) \/ RecordOverride(o)
      PROVE  QueueInv'
  BY <1>0, <1>4, RequestInv, RecordOverrideInv
<1>5. ASSUME NEW p \in Processes, Crash(p)
      PROVE  QueueInv'
  BY <1>5, CrashInv
<1>6. ASSUME NEW j \in Jobs, OfficerDecides(j) \/ BecomeDue(j) \/ BecomeStale(j)
      PROVE  QueueInv'
  BY <1>6, DecideInv, ClockInv
<1>7. CASE UNCHANGED queueVars
  <2>1. QueueTypeOK'
    BY <1>7 DEF QueueInv, QueueTypeOK, queueVars, records
  <2> QED  BY <1>7, <2>1, RecordsStay, QueueStep DEF queueVars
<1> QED  BY <1>1, <1>2, <1>3, <1>4, <1>5, <1>6, <1>7 DEF QueueNext

LEMMA QueueInvariance == QueueSpec => []QueueInv
BY QueueInitInv, QueueNextInv, PTL DEF QueueSpec

(* The workers, requests and the clock keep ai_jobs, the challenges and     *)
(* what they have in hand of their types. *)
THEOREM QueueTypeCorrectness == QueueSpec => []QueueTypeOK
<1>1. QueueInv => QueueTypeOK
  BY DEF QueueInv
<1> QED  BY <1>1, QueueInvariance, PTL

(* process_job reports COMPLETED or FALLBACK_COMPLETED only after it has    *)
(* committed an analysis, whatever other workers, retries and timeouts have *)
(* done with the same job. *)
THEOREM DoneIsAnalysed == QueueSpec => []FinishedAnalysed
<1>1. QueueInv => FinishedAnalysed
  BY DEF QueueInv
<1> QED  BY <1>1, QueueInvariance, PTL

(* _run_analysis_core can not commit a second analysis of a challenge: of   *)
(* an analysed challenge, only record_human_override changes the priority,  *)
(* and it records what it sets. *)
THEOREM AnalysesOverrideNoHuman == QueueSpec => OverridesStand
<1> DEFINE Stands == \A j \in analysis :
                         priority'[j] # priority[j] => priority'[j] = overrides'[j]
<1>1. ASSUME QueueInv, [QueueNext]_queueVars
      PROVE  Stands
  <2>1. QueueTypeOK
    BY <1>1 DEF QueueInv
  <2>2. ASSUME NEW p \in Processes, AnalysisSucceeds(p) \/ FallbackSucceeds(p) \/ FallbackFails(p)
        PROVE  Stands
    <3>1. UNCHANGED priority \/ AddAnalysis(Current(p), p)
      BY <2>2 DEF AnalysisSucceeds, FallbackSucceeds, FallbackFails, Analysed
    <3> QED  BY <2>1, <3>1 DEF AddAnalysis, QueueTypeOK
  <2>3. ASSUME NEW o \in Officers, RecordOverride(o)
        PROVE  Stands
    <3>1. o \in Processes
      BY DEF Processes
    <3>2. Current(o) \in Jobs
      BY <1>1, <2>3, <3>1, InHand DEF RecordOverride
    <3> QED  BY <2>1, <2>3, <3>2 DEF RecordOverride, OverridePriority, QueueTypeOK
  <2>4. CASE UNCHANGED priority
    BY <2>4
  <2> QED
    BY <1>1, <2>2, <2>3, <2>4
    DEF QueueNext, queueVars, records, Processes, Processors, Work, ProcessJob, LoadJob,
        MarkProcessing, ReadChallenge, Complete, AnalysisFails, CountFailure, BackOff, Settle,
        FallbackBreaks, FindStale, Recover, Claim, Enqueue, RetryJob, ProcessPendingJobs,
        LoadOverridden, OfficerDecides, Crash, BecomeDue, BecomeStale
<1>2. QueueInv /\ [QueueNext]_queueVars => [Stands]_queueVars
  BY <1>1
<1> QED  BY <1>2, QueueInvariance, PTL DEF QueueSpec, OverridesStand
=============================================================================
