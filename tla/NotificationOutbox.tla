------------------------- MODULE NotificationOutbox -------------------------
(***************************************************************************)
(* The outbox of external messages (table notification_outbox).  A row is  *)
(* queued in the transaction of its notification.  Requests to             *)
(* /outbox/process dispatch rows through the adapters: they select without *)
(* a lock, call the adapters one by one and commit once, at the end.       *)
(* Worker daemons claim rows too; they call a method of the service that   *)
(* does not exist, and record the failure.                                 *)
(*                                                                         *)
(* Every channel that is queued has an adapter, and an adapter refuses a   *)
(* recipient by its format alone.  Only mail leaves the process, and it    *)
(* can be lost on the way.                                                 *)
(***************************************************************************)
EXTENDS Naturals, FiniteSets

CONSTANTS
    Items,        \* ids of rows, in the order of their creation
    Malformed,    \* those whose recipient the adapter refuses
    Emails,       \* those of the channel EMAIL
    Workers,      \* worker daemons
    Senders,      \* requests to /outbox/process
    MaxRetries,   \* max_retries of a row
    Limit,        \* rows a worker claims or a request selects at once
    MaxCrashes    \* bound: processes that stop half-way

ASSUME ItemsAssumption == Items \subseteq Nat /\ Malformed \cup Emails \subseteq Items
ASSUME SendersAssumption == Workers \cap Senders = {}
ASSUME OutboxAssumption ==
    MaxRetries \in Nat \ {0} /\ Limit \in Nat \ {0} /\ MaxCrashes \in Nat

Processes == Workers \cup Senders

VARIABLES
    outbox,      \* rows: delivery_status, retry_count, whether last_attempt_at
                 \* is older than the timeout
    pc,          \* where each process is
    batch,       \* the rows a process still has to work on, by ascending id
    seen,        \* what the session of a request has loaded
    answers,     \* the rows of a request whose adapter has answered
    found,       \* the stale rows a worker is about to requeue and to give up
    tried,       \* rows whose adapter was ever called
    delivered,   \* how many times each message left the process
    crashes

vars == <<outbox, pc, batch, seen, answers, found, tried, delivered, crashes>>

DeliveryStatus == {"PENDING", "SENDING", "SENT", "FAILED"}
Unqueued == "unqueued"
Row == [status : DeliveryStatus \cup {Unqueued}, retries : 0 .. MaxRetries, stale : BOOLEAN]

Nothing == [requeue |-> {}, bury |-> {}]

(* retry_count never passes max_retries, although requests write it from    *)
(* what they loaded. *)
TypeOK ==
    /\ outbox \in [Items -> Row]
    /\ pc \in [Processes -> {"idle", "recover", "deliver", "send"}]
    /\ batch \in [Processes -> SUBSET Items]
    /\ seen \in [Senders -> [Items -> Row]]
    /\ answers \in [Senders -> SUBSET Items]
    /\ found \in [Workers -> [requeue : SUBSET Items, bury : SUBSET Items]]
    /\ tried \subseteq Items
    /\ delivered \in [Items -> Nat]
    /\ crashes \in Nat

Init ==
    /\ outbox = [i \in Items |-> [status |-> Unqueued, retries |-> 0, stale |-> FALSE]]
    /\ pc = [p \in Processes |-> "idle"]
    /\ batch = [p \in Processes |-> {}]
    /\ seen = [s \in Senders |-> outbox]
    /\ answers = [s \in Senders |-> {}]
    /\ found = [w \in Workers |-> Nothing]
    /\ tried = {}
    /\ delivered = [i \in Items |-> 0]
    /\ crashes = 0

-----------------------------------------------------------------------------
First(rows) == {i \in rows : Cardinality({j \in rows : j < i}) < Limit}
Current(p) == {i \in batch[p] : \A j \in batch[p] : i <= j}
Goto(p, place) == pc' = [pc EXCEPT ![p] = place]

(* create_notification: the notification and its rows are one commit. *)
Queue(i) ==
    /\ outbox[i].status = Unqueued
    /\ outbox' = [outbox EXCEPT ![i].status = "PENDING"]
    /\ UNCHANGED <<pc, batch, seen, answers, found, tried, delivered, crashes>>

-----------------------------------------------------------------------------
(* process_outbox *)

(* Mutant: one retry too many. *)
RetryableOnceMore ==
    {i \in Items : outbox[i].status \in {"PENDING", "FAILED"} /\ outbox[i].retries <= MaxRetries}

Retryable ==
    {i \in Items : outbox[i].status \in {"PENDING", "FAILED"} /\ outbox[i].retries < MaxRetries}

Select(s) ==
    /\ pc[s] = "idle" /\ Retryable # {}
    /\ batch' = [batch EXCEPT ![s] = First(Retryable)]
    /\ seen' = [seen EXCEPT ![s] = outbox]
    /\ Goto(s, "send")
    /\ UNCHANGED <<outbox, answers, found, tried, delivered, crashes>>

(* The adapter is called; a mail it could not hand over it reports as       *)
(* accepted. *)
Send(s) ==
    \E i \in Current(s) :
        /\ pc[s] = "send"
        /\ batch' = [batch EXCEPT ![s] = @ \ {i}]
        /\ answers' = [answers EXCEPT ![s] = @ \cup {i}]
        /\ tried' = tried \cup {i}
        /\ \/ i \notin Malformed /\ delivered' = [delivered EXCEPT ![i] = @ + 1]
           \/ i \in Malformed \cup Emails /\ UNCHANGED delivered
        /\ UNCHANGED <<outbox, pc, seen, found, crashes>>

(* Mutant: what the adapter answered is not looked at. *)
AnsweredSent(i) == "SENT"

Answered(i) == IF i \in Malformed THEN "FAILED" ELSE "SENT"

(* The one commit: of the status only what differs from the loaded row is   *)
(* written, the count of retries always. *)
Save(s) ==
    /\ pc[s] = "send" /\ batch[s] = {}
    /\ outbox' = [i \in Items |->
           IF i \in answers[s]
             THEN [status |-> IF Answered(i) = seen[s][i].status THEN outbox[i].status
                                                                ELSE Answered(i),
                   retries |-> seen[s][i].retries + 1,
                   stale |-> FALSE]
           ELSE outbox[i]]
    /\ answers' = [answers EXCEPT ![s] = {}]
    /\ Goto(s, "idle")
    /\ UNCHANGED <<batch, seen, found, tried, delivered, crashes>>

-----------------------------------------------------------------------------
(* The worker's cycle *)

(* Mutant: a row that was never counted is passed over. *)
StaleAndTried ==
    {i \in Items : outbox[i].status = "SENDING" /\ outbox[i].stale /\ outbox[i].retries > 0}

Stale == {i \in Items : outbox[i].status = "SENDING" /\ outbox[i].stale}
Pending == {i \in Items : outbox[i].status = "PENDING"}

FindStale(w) ==
    /\ pc[w] = "idle" /\ Stale # {}
    /\ found' = LET spent == {i \in Stale : outbox[i].retries >= MaxRetries}
                IN  [found EXCEPT ![w] = [requeue |-> Stale \ spent, bury |-> spent]]
    /\ Goto(w, "recover")
    /\ UNCHANGED <<outbox, batch, seen, answers, tried, delivered, crashes>>

(* The rows are written by id, without a second look. *)
Recover(w) ==
    /\ pc[w] = "recover"
    /\ outbox' = [i \in Items |->
           IF i \in found[w].requeue THEN [outbox[i] EXCEPT !.status = "PENDING"]
           ELSE IF i \in found[w].bury THEN [outbox[i] EXCEPT !.status = "FAILED"]
           ELSE outbox[i]]
    /\ found' = [found EXCEPT ![w] = Nothing]
    /\ Goto(w, "idle")
    /\ UNCHANGED <<batch, seen, answers, tried, delivered, crashes>>

(* claim_outbox_items: SELECT ... FOR UPDATE SKIP LOCKED makes it one step. *)
Claim(w) ==
    /\ pc[w] = "idle" /\ Pending # {}
    /\ outbox' = [i \in Items |->
           IF i \in First(Pending) THEN [outbox[i] EXCEPT !.status = "SENDING", !.stale = FALSE]
           ELSE outbox[i]]
    /\ batch' = [batch EXCEPT ![w] = First(Pending)]
    /\ Goto(w, "deliver")
    /\ UNCHANGED <<seen, answers, found, tried, delivered, crashes>>

(* deliver_outbox_item is not a method of the service: the row is FAILED,   *)
(* whatever it has become. *)
Deliver(w) ==
    \E i \in Current(w) :
        /\ pc[w] = "deliver"
        /\ outbox' = [outbox EXCEPT ![i].status = "FAILED"]
        /\ batch' = [batch EXCEPT ![w] = @ \ {i}]
        /\ Goto(w, IF batch[w] = {i} THEN "idle" ELSE "deliver")
        /\ UNCHANGED <<seen, answers, found, tried, delivered, crashes>>

-----------------------------------------------------------------------------
(* A process stops; what it has not committed is gone. *)
Crash(p) ==
    /\ pc[p] # "idle" /\ crashes < MaxCrashes
    /\ crashes' = crashes + 1
    /\ Goto(p, "idle")
    /\ batch' = [batch EXCEPT ![p] = {}]
    /\ answers' = [s \in Senders |-> IF s = p THEN {} ELSE answers[s]]
    /\ found' = [w \in Workers |-> IF w = p THEN Nothing ELSE found[w]]
    /\ UNCHANGED <<outbox, seen, tried, delivered>>

(* last_attempt_at falls behind the timeout, also while a slow worker holds *)
(* the row. *)
BecomeStale(i) ==
    /\ outbox[i].status = "SENDING" /\ ~outbox[i].stale
    /\ outbox' = [outbox EXCEPT ![i].stale = TRUE]
    /\ UNCHANGED <<pc, batch, seen, answers, found, tried, delivered, crashes>>

Work(w) == FindStale(w) \/ Recover(w) \/ Claim(w) \/ Deliver(w)
Dispatch(s) == Select(s) \/ Send(s) \/ Save(s)

Next ==
    \/ \E i \in Items : Queue(i) \/ BecomeStale(i)
    \/ \E w \in Workers : Work(w)
    \/ \E s \in Senders : Dispatch(s)
    \/ \E p \in Processes : Crash(p)

Spec == Init /\ [][Next]_vars

(* Workers run for ever and time passes; nobody has to ask for              *)
(* /outbox/process. *)
Fairness ==
    /\ \A w \in Workers : WF_vars(Work(w))
    /\ \A i \in Items : WF_vars(BecomeStale(i))

FairSpec == Spec /\ Fairness

-----------------------------------------------------------------------------
(* Properties *)

(* What a request has answered was tried, and what it has in hand was       *)
(* selected with a retry left and in no state the worker owns. *)
InHand ==
    \A s \in Senders :
        /\ answers[s] \subseteq tried /\ (pc[s] = "idle" => answers[s] = {})
        /\ \A i \in batch[s] \cup answers[s] :
               /\ seen[s][i].status \in {"PENDING", "FAILED"}
               /\ seen[s][i].retries < MaxRetries

(* A row that reads SENT has been accepted by its adapter: no race of       *)
(* requests, workers and recoveries makes a refused or an unsent message    *)
(* read SENT. *)
SentWasAccepted == \A i \in Items : outbox[i].status = "SENT" => i \in tried \ Malformed

(* The inductive invariant of the proofs. *)
IInv == TypeOK /\ InHand /\ SentWasAccepted

(* No row is stuck: whoever claims it, stops or is slow, it leaves SENDING. *)
ClaimsEnd == \A i \in Items : outbox[i].status = "SENDING" ~> outbox[i].status # "SENDING"

(* README.md: the queue is processed with zero duplicate dispatch. *)
NoDuplicateDispatch == \A i \in Items : delivered[i] <= 1
=============================================================================
