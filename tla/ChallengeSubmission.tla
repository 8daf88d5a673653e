------------------------ MODULE ChallengeSubmission ------------------------
(***************************************************************************)
(* From a draft on a device to a challenge on the server: the drafts of    *)
(* offline_draft_service.dart, saved, queued and sent by the screen or by  *)
(* the retry of the banner; the report endpoint with its three commits and *)
(* the idempotency key a draft keeps; and the upload of attachments, a     *)
(* file first and then its row.  Answers may be lost, requests may stop    *)
(* between two commits and the application may be restarted.  What makes a *)
(* report inadmissible (words, district, consent) is a refusal like any.   *)
(***************************************************************************)
EXTENDS Requests, Naturals, Sequences

CONSTANTS
    Drafts,         \* drafts with their keys: each draft is given one of its own
    Objects,        \* object ids of attachments
    Reporters,      \* sessions of requests that report a challenge
    Uploaders,      \* sessions of requests that upload an attachment
    MaxEdits, MaxChallenges     \* bounds of the model

ASSUME SubmissionAssumption ==
    /\ Sessions = Reporters \cup Uploaders /\ Reporters \cap Uploaders = {}
    /\ MaxEdits \in Nat /\ MaxChallenges \in Nat

VARIABLES
    drafts,         \* the drafts on the device
    retrying,       \* drafts that runs of manualRetryAll have still to send
    waiting,        \* requests whose answer the device waits for
    challenges,     \* challenges, oldest first
    files,          \* object ids with a file in storage
    attachments     \* challenge_attachments

device == <<drafts, retrying, waiting>>
server == <<challenges, files, attachments>>
vars == <<device, server, session>>

(* The last two are no longer stored: removed by the user or by markSynced. *)
Removed == {"absent", "synced"}
DraftStatus == {"draft", "queued", "syncing", "conflict", "failed"} \cup Removed
Draft == [status : DraftStatus, edition : 0 .. MaxEdits,
          attached : SUBSET Objects]

(* A challenge is reported when its location, its attachments and its event *)
(* are committed, and queued when its job is. *)
Challenge == [key : Drafts, edition : 0 .. MaxEdits, reported : BOOLEAN, queued : BOOLEAN]

NoChallenge == 0
Attachment == [retention : {"ABSENT", "ACTIVE", "SOFT_DELETED"},
               challenge : 0 .. MaxChallenges]

(* The sender of a report is the screen or syncSingleDraft. *)
Report == [draft : Drafts, edition : 0 .. MaxEdits, attached : SUBSET Objects,
           sender : {"screen", "sync"}]

Request ==
    [op : {"none"}]
        \cup [op : {"arrived", "create", "answer"}, report : Report]
        \cup [op : {"link", "enqueue"}, report : Report, challenge : 1 .. MaxChallenges]
        \cup [op : {"store", "attach"}, object : Objects]

TypeOK ==
    /\ drafts \in [Drafts -> Draft]
    /\ retrying \subseteq Drafts /\ waiting \subseteq Reporters
    /\ challenges \in Seq(Challenge) /\ Len(challenges) <= MaxChallenges
    /\ files \subseteq Objects
    /\ attachments \in [Objects -> Attachment]
    /\ session \in [Sessions -> Request]

Init ==
    /\ drafts = [d \in Drafts |-> [status |-> "absent", edition |-> 0, attached |-> {}]]
    /\ retrying = {} /\ waiting = {}
    /\ challenges = << >> /\ files = {}
    /\ attachments = [o \in Objects |-> [retention |-> "ABSENT", challenge |-> NoChallenge]]
    /\ NoRequests

Present(d) == drafts[d].status \notin Removed
Uploaded(o) == attachments[o].retention # "ABSENT"

-----------------------------------------------------------------------------
(* Drafts on the device *)

(* saveDraftItem takes whatever the form has, also while it is being sent. *)
SaveDraft(d, attached) ==
    /\ drafts[d].edition < MaxEdits
    /\ \A o \in attached : Uploaded(o)
    /\ drafts' = [drafts EXCEPT ![d] = [status |-> "draft", edition |-> @.edition + 1,
                                        attached |-> attached]]
    /\ UNCHANGED <<retrying, waiting, server, session>>

QueueForSync(d) ==
    /\ Present(d)
    /\ drafts' = [drafts EXCEPT ![d].status = "queued"]
    /\ UNCHANGED <<retrying, waiting, server, session>>

DeleteDraft(d) ==
    /\ Present(d)
    /\ drafts' = [drafts EXCEPT ![d].status = "absent"]
    /\ UNCHANGED <<retrying, waiting, server, session>>

RetryAll ==
    /\ retrying' = retrying \cup {d \in Drafts : drafts[d].status \in {"queued", "failed"}}
    /\ UNCHANGED <<drafts, waiting, server, session>>

Send(s, d, sender) ==
    /\ Receive(s, [op |-> "arrived",
                   report |-> [draft |-> d, edition |-> drafts[d].edition,
                               attached |-> IF sender = "screen" THEN drafts[d].attached ELSE {},
                               sender |-> sender]])
    /\ waiting' = waiting \cup {s}
    /\ UNCHANGED server

(* The screen sends its form, with the key of the draft; its button is off   *)
(* while it waits. *)
SubmitForm(s, d) ==
    /\ \A w \in waiting : session[w].report.sender # "screen"
    /\ Send(s, d, "screen")
    /\ UNCHANGED <<drafts, retrying>>

(* manualRetryAll goes on with the drafts it has found, whatever became of  *)
(* their status.  It sends the payload the screen saved, where the          *)
(* attachments are not under the name the server reads. *)
SyncSingleDraft(s, d) ==
    /\ d \in retrying /\ Present(d)
    /\ Send(s, d, "sync")
    /\ retrying' = retrying \ {d}
    /\ drafts' = [drafts EXCEPT ![d].status = "syncing"]

(* What a failed request leaves of a draft: markFailed and markConflict look *)
(* for it again, and the screen leaves it as it is. *)
AfterFailure(sender, status) ==
    IF sender = "sync" /\ status \notin Removed THEN "failed" ELSE status

AfterConflict(sender, status) ==
    IF sender = "sync" /\ status \notin Removed THEN "conflict" ELSE status

(* An answer the device no longer waits for changes nothing there. *)
MarkSynced(s) ==
    LET d == session[s].report.draft
    IN  /\ waiting' = waiting \ {s}
        /\ drafts' = IF s \in waiting THEN [drafts EXCEPT ![d].status = "synced"] ELSE drafts
        /\ UNCHANGED retrying

MarkFailed(s) ==
    LET r == session[s].report
    IN  /\ waiting' = waiting \ {s}
        /\ \/ s \notin waiting /\ UNCHANGED drafts
           \/ /\ s \in waiting
              /\ \/ drafts' = [drafts EXCEPT ![r.draft].status = AfterFailure(r.sender, @)]
                 \/ drafts' = [drafts EXCEPT ![r.draft].status = AfterConflict(r.sender, @)]
        /\ UNCHANGED retrying

(* The connection breaks; the server goes on with the request. *)
HangUp(s) ==
    /\ s \in waiting
    /\ MarkFailed(s)
    /\ UNCHANGED <<server, session>>

(* A draft that was being sent stays syncing. *)
RestartApplication ==
    /\ waiting # {} \/ retrying # {}
    /\ waiting' = {} /\ retrying' = {}
    /\ UNCHANGED <<drafts, server, session>>

-----------------------------------------------------------------------------
(* report_challenge *)

GoOn(s, op, request) ==
    /\ session[s].op = op
    /\ session' = [session EXCEPT ![s] = request]

(* A saved payload has no location, so ChallengeCreate refuses what a retry *)
(* sends before the handler runs: it ends in FailReport. *)
Valid(report) == report.sender = "screen"

Has(key) == \E n \in DOMAIN challenges : challenges[n].key = key

(* A key that is known is answered with its challenge, in whatever state. *)
ReplayReport(s) ==
    /\ session[s].op = "arrived" /\ Valid(session[s].report) /\ Has(session[s].report.draft)
    /\ GoOn(s, "arrived", [op |-> "answer", report |-> session[s].report])
    /\ UNCHANGED <<device, server>>

AdmitReport(s) ==
    /\ session[s].op = "arrived" /\ Valid(session[s].report) /\ ~Has(session[s].report.draft)
    /\ \A o \in session[s].report.attached : Uploaded(o)
    /\ GoOn(s, "arrived", [op |-> "create", report |-> session[s].report])
    /\ UNCHANGED <<device, server>>

(* Mutant: the key of a challenge is not unique. *)
AnyKey(key) == TRUE

(* The unique index on idempotency_key. *)
Unused(key) == ~Has(key)

CreateChallenge(s) ==
    LET r == session[s].report
        n == Len(challenges) + 1
    IN  /\ session[s].op = "create" /\ Unused(r.draft) /\ n <= MaxChallenges
        /\ GoOn(s, "create", [op |-> "link", report |-> r, challenge |-> n])
        /\ challenges' = Append(challenges, [key |-> r.draft, edition |-> r.edition,
                                             reported |-> FALSE, queued |-> FALSE])
        /\ UNCHANGED <<device, files, attachments>>

(* Also an attachment that was deleted meanwhile, or linked elsewhere. *)
LinkAttachments(s) ==
    LET r == session[s]
    IN  /\ session[s].op = "link"
        /\ GoOn(s, "link", [r EXCEPT !.op = "enqueue"])
        /\ challenges' = [challenges EXCEPT ![r.challenge].reported = TRUE]
        /\ attachments' = [o \in Objects |->
                               IF o \in r.report.attached
                               THEN [attachments[o] EXCEPT !.challenge = r.challenge]
                               ELSE attachments[o]]
        /\ UNCHANGED <<device, files>>

EnqueueJob(s) ==
    LET r == session[s]
    IN  /\ session[s].op = "enqueue"
        /\ GoOn(s, "enqueue", [op |-> "answer", report |-> r.report])
        /\ challenges' = [challenges EXCEPT ![r.challenge].queued = TRUE]
        /\ UNCHANGED <<device, files, attachments>>

Answer(s) ==
    /\ Finish(s, "answer")
    /\ MarkSynced(s)
    /\ UNCHANGED server

(* A refusal, an error or a stop at any point, before or after a commit. *)
FailReport(s) ==
    /\ RollBack(s)
    /\ MarkFailed(s)
    /\ UNCHANGED server

-----------------------------------------------------------------------------
(* Attachments *)

UploadAttachment(s, o) ==
    /\ o \notin files
    /\ Receive(s, [op |-> "store", object |-> o])
    /\ UNCHANGED <<device, server>>

(* Mutant: the row is committed before the file is written. *)
StoreLater(s) ==
    LET o == session[s].object
    IN  /\ GoOn(s, "store", [op |-> "attach", object |-> o])
        /\ attachments' = [attachments EXCEPT ![o].retention = "ACTIVE"]
        /\ UNCHANGED <<device, challenges, files>>

StoreFile(s) ==
    LET o == session[s].object
    IN  /\ GoOn(s, "store", [op |-> "attach", object |-> o])
        /\ files' = files \cup {o}
        /\ UNCHANGED <<device, challenges, attachments>>

CommitAttachment(s) ==
    /\ Finish(s, "attach")
    /\ attachments' = [attachments EXCEPT ![session[s].object].retention = "ACTIVE"]
    /\ UNCHANGED <<device, challenges, files>>

(* By the owner or an administrator; nothing asks for the state before. *)
Retain(o, retention) ==
    /\ Uploaded(o)
    /\ attachments' = [attachments EXCEPT ![o].retention = retention]
    /\ UNCHANGED <<device, challenges, files, session>>

SoftDelete(o) == Retain(o, "SOFT_DELETED")
Restore(o) == Retain(o, "ACTIVE")

-----------------------------------------------------------------------------
Editing(d) ==
    \/ \E attached \in SUBSET Objects : SaveDraft(d, attached)
    \/ QueueForSync(d) \/ DeleteDraft(d)

Reporting(s) ==
    \/ ReplayReport(s) \/ AdmitReport(s) \/ CreateChallenge(s)
    \/ LinkAttachments(s) \/ EnqueueJob(s) \/ Answer(s)
    \/ FailReport(s) \/ HangUp(s)

Uploading(s) ==
    \/ StoreFile(s) \/ CommitAttachment(s)
    \/ RollBack(s) /\ UNCHANGED <<device, server>>

Next ==
    \/ \E d \in Drafts : Editing(d)
    \/ RetryAll \/ RestartApplication
    \/ \E s \in Reporters, d \in Drafts : SubmitForm(s, d) \/ SyncSingleDraft(s, d)
    \/ \E s \in Reporters : Reporting(s)
    \/ \E s \in Uploaders, o \in Objects : UploadAttachment(s, o)
    \/ \E s \in Uploaders : Uploading(s)
    \/ \E o \in Objects : SoftDelete(o) \/ Restore(o)

Spec == Init /\ [][Next]_vars

-----------------------------------------------------------------------------
(* Properties *)

(* A draft leaves the device as synced only when the server has one         *)
(* challenge for it, whatever was sent twice, timed out, answered late or   *)
(* stopped between two commits. *)
SyncedOnce ==
    \A d \in Drafts :
        drafts[d].status = "synced" =>
            \E n \in DOMAIN challenges :
                /\ challenges[n].key = d
                /\ \A m \in DOMAIN challenges : challenges[m].key = d => m = n

(* An attachment a report may name has its file, wherever the upload stops. *)
AttachmentsStored == \A o \in Objects : Uploaded(o) => o \in files

(* offline_draft_service.dart:32: "Zero data loss: drafts and attachments   *)
(* are persisted safely to local storage."  What a draft was last saved     *)
(* with is on the server once synchronisation has removed it. *)
LastSavedReported ==
    \A d \in Drafts :
        drafts[d].status = "synced" =>
            \E n \in DOMAIN challenges :
                challenges[n].key = d /\ challenges[n].edition = drafts[d].edition
=============================================================================
