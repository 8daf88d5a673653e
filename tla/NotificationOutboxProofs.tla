----------------------- MODULE NotificationOutboxProofs -----------------------
(***************************************************************************)
(* Proofs about NotificationOutbox, for any rows, workers and requests.    *)
(* The type invariant holds the bound on retry_count, which a request      *)
(* writes from what it loaded long before; InHand carries the bound from   *)
(* the selection to the commit.                                            *)
(***************************************************************************)
EXTENDS NotificationOutbox, TLAPS

(* A row stays a row, and one that is not set to SENT does not read SENT    *)
(* unless it did. *)
LEMMA RowUpdate ==
  ASSUME NEW r \in Row
  PROVE  /\ [r EXCEPT !.status = "PENDING"] \in Row
         /\ [r EXCEPT !.status = "PENDING"].status = "PENDING"
         /\ [r EXCEPT !.status = "FAILED"] \in Row
         /\ [r EXCEPT !.status = "FAILED"].status = "FAILED"
         /\ [r EXCEPT !.status = "SENDING", !.stale = FALSE] \in Row
         /\ [r EXCEPT !.status = "SENDING", !.stale = FALSE].status = "SENDING"
         /\ [r EXCEPT !.stale = TRUE] \in Row
         /\ [r EXCEPT !.stale = TRUE].status = r.status
  BY DEF Row, DeliveryStatus

(* The inductive invariant holds initially. *)
LEMMA InitIInv == Init => IInv
<1> SUFFICES ASSUME Init PROVE IInv
  OBVIOUS
<1>1. outbox \in [Items -> Row]
  BY OutboxAssumption DEF Init, Row, Unqueued, DeliveryStatus
<1>2. TypeOK
  BY <1>1 DEF Init, TypeOK, Nothing
<1>3. InHand
  BY SendersAssumption DEF Init, InHand, Processes
<1>4. SentWasAccepted
  BY DEF Init, SentWasAccepted, Unqueued
<1> QED  BY <1>2, <1>3, <1>4 DEF IInv

(* A row is queued, or its last attempt becomes old. *)
LEMMA RowIInv ==
  ASSUME IInv, NEW i \in Items, Queue(i) \/ BecomeStale(i)
  PROVE  IInv'
<1>1. PICK row \in Row : outbox' = [outbox EXCEPT ![i] = row] /\ (row.status = "SENT" => outbox[i].status = "SENT")
  <2>1. outbox[i] \in Row
    BY DEF IInv, TypeOK
  <2>2. CASE Queue(i)
    <3>1. outbox' = [outbox EXCEPT ![i] = [outbox[i] EXCEPT !.status = "PENDING"]]
      BY <2>2 DEF Queue
    <3> QED  BY <2>1, <3>1, RowUpdate
  <2>3. CASE BecomeStale(i)
    <3>1. outbox' = [outbox EXCEPT ![i] = [outbox[i] EXCEPT !.stale = TRUE]]
      BY <2>3 DEF BecomeStale
    <3> QED  BY <2>1, <3>1, RowUpdate
  <2> QED  BY <2>2, <2>3
<1>2. TypeOK'
  BY <1>1 DEF IInv, TypeOK, Queue, BecomeStale
<1>3. InHand'
  BY DEF IInv, InHand, Queue, BecomeStale
<1>4. SentWasAccepted'
  BY <1>1 DEF IInv, TypeOK, SentWasAccepted, Queue, BecomeStale
<1> QED  BY <1>2, <1>3, <1>4 DEF IInv

(* A request selects rows that have a retry left, *)
LEMMA SelectIInv ==
  ASSUME IInv, NEW s \in Senders, Select(s)
  PROVE  IInv'
<1> USE DEF Goto, Processes
<1>1. TypeOK'
  BY DEF IInv, TypeOK, Select, First, Retryable
<1>2. InHand'
  <2>1. \A i \in batch'[s] : outbox[i].status \in {"PENDING", "FAILED"} /\ outbox[i].retries < MaxRetries
    BY DEF IInv, TypeOK, Select, First, Retryable
  <2>2. answers[s] = {}
    BY DEF IInv, InHand, Select
  <2> QED  BY <2>1, <2>2 DEF IInv, TypeOK, InHand, Select
<1>3. SentWasAccepted'
  BY DEF IInv, SentWasAccepted, Select
<1> QED  BY <1>1, <1>2, <1>3 DEF IInv

(* calls their adapters, *)
LEMMA SendIInv ==
  ASSUME IInv, NEW s \in Senders, Send(s)
  PROVE  IInv'
<1>1. PICK i \in batch[s] :
        /\ batch' = [batch EXCEPT ![s] = @ \ {i}]
        /\ answers' = [answers EXCEPT ![s] = @ \cup {i}]
        /\ tried' = tried \cup {i}
        /\ delivered' = [delivered EXCEPT ![i] = @ + 1] \/ UNCHANGED delivered
        /\ UNCHANGED <<outbox, pc, seen, found, crashes>>
  BY DEF Send, Current
<1>2. i \in Items
  BY <1>1 DEF IInv, TypeOK, Processes
<1>3. TypeOK'
  <2>1. delivered' \in [Items -> Nat]
    BY <1>1, <1>2 DEF IInv, TypeOK
  <2> QED  BY <1>1, <1>2, <2>1 DEF IInv, TypeOK, Processes
<1>4. InHand'
  <2> SUFFICES ASSUME NEW r \in Senders
               PROVE  /\ answers'[r] \subseteq tried' /\ (pc'[r] = "idle" => answers'[r] = {})
                      /\ batch'[r] \cup answers'[r] \subseteq batch[r] \cup answers[r]
    BY <1>1 DEF IInv, InHand
  <2>1. pc[s] = "send"
    BY DEF Send
  <2> QED  BY <1>1, <2>1 DEF IInv, TypeOK, InHand, Processes
<1>5. SentWasAccepted'
  BY <1>1 DEF IInv, SentWasAccepted
<1> QED  BY <1>3, <1>4, <1>5 DEF IInv

(* and commits. *)
LEMMA SaveIInv ==
  ASSUME IInv, NEW s \in Senders, Save(s)
  PROVE  IInv'
<1> USE DEF Goto, Processes
<1>1. \A i \in answers[s] : i \in Items /\ i \in tried /\ seen[s][i].retries + 1 \in 0 .. MaxRetries
  BY OutboxAssumption DEF IInv, TypeOK, InHand, Row
<1>2. \A i \in Items : outbox'[i] =
        IF i \in answers[s]
          THEN [status |-> IF Answered(i) = seen[s][i].status THEN outbox[i].status
                                                             ELSE Answered(i),
                retries |-> seen[s][i].retries + 1,
                stale |-> FALSE]
        ELSE outbox[i]
  BY DEF Save
<1>3. outbox' \in [Items -> Row]
  <2>1. \A i \in Items : outbox'[i] \in Row
    <3> SUFFICES ASSUME NEW i \in Items PROVE outbox'[i] \in Row
      OBVIOUS
    <3>1. outbox[i] \in Row /\ Answered(i) \in DeliveryStatus
      BY DEF IInv, TypeOK, Answered, DeliveryStatus
    <3>2. CASE i \in answers[s]
      <4> DEFINE status == IF Answered(i) = seen[s][i].status THEN outbox[i].status ELSE Answered(i)
      <4>1. status \in DeliveryStatus \cup {Unqueued}
        BY <3>1 DEF Row
      <4>2. outbox'[i] = [status |-> status, retries |-> seen[s][i].retries + 1, stale |-> FALSE]
        BY <1>2, <3>2
      <4>3. seen[s][i].retries + 1 \in 0 .. MaxRetries
        BY <1>1, <3>2
      <4> HIDE DEF status
      <4> QED  BY <4>1, <4>2, <4>3 DEF Row
    <3>3. CASE i \notin answers[s]
      BY <1>2, <3>1, <3>3
    <3> QED  BY <3>2, <3>3
  <2> QED  BY <2>1 DEF Save
<1>4. TypeOK'
  BY <1>3 DEF IInv, TypeOK, Save
<1>5. InHand'
  BY DEF IInv, TypeOK, InHand, Save
<1>6. SentWasAccepted'
  BY <1>1, <1>2, <1>4 DEF IInv, TypeOK, SentWasAccepted, Save, Answered
<1> QED  BY <1>4, <1>5, <1>6 DEF IInv

(* A worker writes no SENT and no retry. *)
LEMMA WorkIInv ==
  ASSUME IInv, NEW w \in Workers, Work(w)
  PROVE  IInv'
<1> USE DEF Goto, Processes, Nothing
<1>1. CASE FindStale(w)
  BY <1>1 DEF IInv, TypeOK, InHand, SentWasAccepted, FindStale, Stale
<1>2. CASE Recover(w)
  <2>1. \A i \in Items : outbox[i] \in Row
    BY DEF IInv, TypeOK
  <2>2. \A i \in Items : outbox'[i] \in Row /\ (outbox'[i].status = "SENT" => outbox[i].status = "SENT")
    <3> "PENDING" \in DeliveryStatus /\ "FAILED" \in DeliveryStatus
      BY DEF DeliveryStatus
    <3> TAKE i \in Items
    <3>1. CASE i \in found[w].requeue
      <4>1. outbox'[i] = [outbox[i] EXCEPT !.status = "PENDING"]
        BY <1>2, <3>1 DEF Recover
      <4>2. outbox[i] \in Row
        BY <2>1
      <4> QED  BY <4>1, <4>2, RowUpdate
    <3>2. CASE i \notin found[w].requeue /\ i \in found[w].bury
      <4>1. outbox'[i] = [outbox[i] EXCEPT !.status = "FAILED"]
        BY <1>2, <3>2 DEF Recover
      <4>2. outbox[i] \in Row
        BY <2>1
      <4> QED  BY <4>1, <4>2, RowUpdate
    <3>3. CASE i \notin found[w].requeue /\ i \notin found[w].bury
      BY <1>2, <2>1, <3>3 DEF Recover
    <3> QED  BY <3>1, <3>2, <3>3
  <2>3. TypeOK'
    BY <1>2, <2>2 DEF IInv, TypeOK, Recover
  <2>4. InHand'
    BY <1>2, SendersAssumption DEF IInv, TypeOK, InHand, Recover
  <2>5. SentWasAccepted'
    BY <1>2, <2>2 DEF IInv, SentWasAccepted, Recover
  <2> QED  BY <2>3, <2>4, <2>5 DEF IInv
<1>3. CASE Claim(w)
  <2>1. \A i \in Items : outbox[i] \in Row
    BY DEF IInv, TypeOK
  <2>2. \A i \in Items : outbox'[i] \in Row /\ (outbox'[i].status = "SENT" => outbox[i].status = "SENT")
    BY <1>3, <2>1, RowUpdate DEF Claim
  <2>3. TypeOK'
    BY <1>3, <2>2 DEF IInv, TypeOK, Claim, First, Pending
  <2>4. InHand'
    BY <1>3, SendersAssumption DEF IInv, TypeOK, InHand, Claim
  <2>5. SentWasAccepted'
    BY <1>3, <2>2 DEF IInv, SentWasAccepted, Claim
  <2> QED  BY <2>3, <2>4, <2>5 DEF IInv
<1>4. CASE Deliver(w)
  <2>1. PICK i \in batch[w] :
          /\ outbox' = [outbox EXCEPT ![i].status = "FAILED"]
          /\ batch' = [batch EXCEPT ![w] = @ \ {i}]
          /\ pc' = [pc EXCEPT ![w] = IF batch[w] = {i} THEN "idle" ELSE "deliver"]
          /\ UNCHANGED <<seen, answers, found, tried, delivered, crashes>>
    BY <1>4 DEF Deliver, Current
  <2>2. TypeOK'
    <3>1. outbox[i] \in Row /\ outbox \in [Items -> Row]
      BY <2>1 DEF IInv, TypeOK
    <3>2. [outbox[i] EXCEPT !.status = "FAILED"] \in Row
      BY <3>1, RowUpdate
    <3>3. outbox' \in [Items -> Row]
      BY <2>1, <3>1, <3>2
    <3> QED  BY <2>1, <3>3 DEF IInv, TypeOK
  <2>3. InHand'
    BY <2>1, SendersAssumption DEF IInv, TypeOK, InHand
  <2>4. SentWasAccepted'
    BY <2>1 DEF IInv, TypeOK, SentWasAccepted
  <2> QED  BY <2>2, <2>3, <2>4 DEF IInv
<1> QED  BY <1>1, <1>2, <1>3, <1>4 DEF Work

(* A process stops and loses what it had in hand. *)
LEMMA CrashIInv ==
  ASSUME IInv, NEW p \in Processes, Crash(p)
  PROVE  IInv'
  BY DEF IInv, TypeOK, InHand, SentWasAccepted, Crash, Goto, Nothing, Processes

(* Every step preserves the inductive invariant. *)
LEMMA NextIInv == IInv /\ [Next]_vars => IInv'
<1> SUFFICES ASSUME IInv, [Next]_vars
             PROVE  IInv'
  OBVIOUS
<1>1. CASE UNCHANGED vars
  BY <1>1 DEF IInv, TypeOK, InHand, SentWasAccepted, vars
<1>2. ASSUME NEW i \in Items, Queue(i) \/ BecomeStale(i) PROVE IInv'
  BY <1>2, RowIInv
<1>3. ASSUME NEW s \in Senders, Dispatch(s) PROVE IInv'
  BY <1>3, SelectIInv, SendIInv, SaveIInv DEF Dispatch
<1>4. ASSUME NEW w \in Workers, Work(w) PROVE IInv'
  BY <1>4, WorkIInv
<1>5. ASSUME NEW p \in Processes, Crash(p) PROVE IInv'
  BY <1>5, CrashIInv
<1> QED  BY <1>1, <1>2, <1>3, <1>4, <1>5 DEF Next

(* The inductive invariant is an invariant. *)
THEOREM Invariance == Spec => []IInv
  BY InitIInv, NextIInv, PTL DEF Spec

(* The rows, sessions and batches keep their types; in particular           *)
(* retry_count never passes max_retries, though requests write it from old  *)
(* values. *)
THEOREM TypeCorrectness == Spec => []TypeOK
<1>1. IInv => TypeOK
  BY DEF IInv
<1> QED  BY <1>1, Invariance, PTL

(* A row that reads SENT was accepted by its adapter, however many requests *)
(* and workers work on it. *)
THEOREM SentIsAccepted == Spec => []SentWasAccepted
<1>1. IInv => SentWasAccepted
  BY DEF IInv
<1> QED  BY <1>1, Invariance, PTL
=============================================================================
