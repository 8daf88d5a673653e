--------------------- MODULE WorkflowTransactionsProofs ---------------------
(***************************************************************************)
(* The audit ledger under any number of concurrent requests, operations    *)
(* and rows: type correctness, the inductive invariant, and what follows.  *)
(***************************************************************************)
EXTENDS WorkflowTransactions, TLAPS

-----------------------------------------------------------------------------
(* Lemmas about chains of events *)

(* In a set of events numbered without a gap, the tail is the last number,  *)
(* and the hash of an event of the set. *)
LEMMA TailNumber ==
    ASSUME NEW S \in SUBSET Event, Numbered(S)
    PROVE  /\ TailOf(S) \in Digest
           /\ Numbers(S) = 1 .. TailOf(S).seq
           /\ TailOf(S) = Genesis \/ \E e \in S : TailOf(S) = EventHash(e)
<1>1. CASE S = {}
    BY <1>1 DEF TailOf, Genesis, Digest, Numbers
<1>2. CASE S # {}
    <2>1. PICK last \in S : Numbers(S) = 1 .. last.seq
        BY <1>2 DEF Numbered
    <2>2. \A other \in S : other.seq \in Nat /\ other.seq <= last.seq
        BY <2>1 DEF Numbers, Event
    <2>3. LastEvent(S) \in S /\ \A other \in S : other.seq <= LastEvent(S).seq
        BY <2>2 DEF LastEvent
    <2>4. LastEvent(S).seq = last.seq
        BY <2>2, <2>3 DEF Event
    <2>5. TailOf(S) = EventHash(LastEvent(S))
        BY <1>2 DEF TailOf
    <2> QED BY <2>1, <2>3, <2>4, <2>5 DEF EventHash, Digest, Event
<1> QED BY <1>1, <1>2

(* An event numbered next and holding the hash of an event of the set       *)
(* extends the chain, and comes after all of it. *)
LEMMA Extension ==
    ASSUME NEW S \in SUBSET Event, Unbroken(S), Numbered(S),
           NEW event \in Event,
           event.prev = Genesis \/ \E e \in S : event.prev = EventHash(e),
           event.seq = event.prev.seq + 1, event.seq \notin Numbers(S)
    PROVE  /\ Unbroken(S \cup {event}) /\ Numbered(S \cup {event})
           /\ \A e \in S : e.seq < event.seq
<1> DEFINE T == S \cup {event}
<1>1. PICK n \in Nat : Numbers(S) = 1 .. n
    <2>1. Numbers(S) = 1 .. TailOf(S).seq /\ TailOf(S).seq \in Nat
        BY TailNumber DEF Digest
    <2> QED BY <2>1
<1>2. event.prev.seq \in 0 .. n
    BY <1>1 DEF Genesis, EventHash, Numbers, Event
<1>3. event.seq = n + 1
    BY <1>1, <1>2
<1>4. \A e \in S : e.seq \in 1 .. n
    BY <1>1 DEF Numbers
<1>5. Numbers(T) = 1 .. event.seq
    <2>1. Numbers(T) = Numbers(S) \cup {event.seq}
        BY DEF Numbers
    <2>2. (1 .. n) \cup {n + 1} = 1 .. (n + 1)
        OBVIOUS
    <2> QED BY <2>1, <2>2, <1>1, <1>3
<1>6. Numbered(T)
    BY <1>5 DEF Numbered
<1>7. Unbroken(T)
    <2>1. \A e, f \in T : e.seq = f.seq => e = f
        BY <1>3, <1>4 DEF Unbroken
    <2>2. \/ event.seq = 1 /\ event.prev = Genesis
          \/ \E f \in T : event.seq = f.seq + 1 /\ event.prev = EventHash(f)
        BY DEF Genesis, EventHash
    <2>3. \A e \in S :
              \/ e.seq = 1 /\ e.prev = Genesis
              \/ \E f \in T : e.seq = f.seq + 1 /\ e.prev = EventHash(f)
        BY DEF Unbroken
    <2> QED BY <2>1, <2>2, <2>3 DEF Unbroken
<1> QED BY <1>3, <1>4, <1>6, <1>7

-----------------------------------------------------------------------------
(* Type correctness *)

(* A running request is at an item of an operation of the code. *)
LEMMA CurrentItem ==
    ASSUME TypeOK, InPlan, NEW r \in Requests, pc[r] \in {"open", "tail", "insert"}
    PROVE  /\ Current(r) \in Item /\ Target(r) \in Entities /\ Current(r).to \in State
           /\ Target(r) \in Challenges \ Allocated => Current(r).call = "transition_challenge"
<1>1. plan[r] \in Plans /\ step[r] \in 1 .. Len(plan[r])
    BY DEF InPlan
<1>2. PlanShape(plan[r])
    BY <1>1, PlansAssumption
<1>3. plan[r][step[r]] \in Item
    BY <1>1, <1>2 DEF PlanShape
<1>4. /\ Current(r).call = "transition_project" => Target(r) \in Projects
      /\ Current(r).call = "decline" => Target(r) \in Allocated
    BY <1>1, <1>2 DEF PlanShape, Current, Target
<1> QED BY <1>3, <1>4, RowsAssumption DEF Current, Target, Item

(* A request's plan and position change only as the plan is followed. *)
LEMMA InPlanStep == TypeOK /\ InPlan /\ [Next]_vars => InPlan'
<1> SUFFICES ASSUME TypeOK, InPlan, [Next]_vars PROVE InPlan'
    OBVIOUS
<1> USE DEF TypeOK
<1>0. \A q \in Requests : pc[q] \in {"open", "tail", "insert"} => Target(q) \in Entities
    BY CurrentItem
<1>1. ASSUME NEW r \in Requests, NEW p \in Plans, Submit(r, p) PROVE InPlan'
    <2>1. p \in Seq(Item) /\ p # << >>
        BY PlansAssumption DEF PlanShape
    <2>2. 1 \in 1 .. Len(p)
        BY <2>1
    <2> QED BY <1>1, <2>2 DEF Submit, InPlan, Target, Current
<1>2. ASSUME NEW r \in Requests, NEW e \in Entities, Load(r, e) PROVE InPlan'
    BY <1>2 DEF Load, InPlan, Target, Current
<1>3. ASSUME NEW r \in Requests, Skip(r) PROVE InPlan'
    BY <1>3 DEF Skip, NextPc, InPlan, Target, Current
<1>4. ASSUME NEW r \in Requests, NEW outcome \in {"refused", "conflict", "aborted"},
             RollBack(r, outcome)
      PROVE InPlan'
    <2>1. \A q \in Requests : pc'[q] \in {"open", "tail", "insert"} => q # r /\ pc'[q] = pc[q]
        BY <1>4 DEF RollBack
    <2>2. \A q \in Requests \ {r} : \A e \in Entities : lock[e] = q => lock'[e] = q
        BY <1>4 DEF RollBack
    <2>3. plan' = plan /\ step' = step
        BY <1>4 DEF RollBack
    <2> QED BY <1>0, <2>1, <2>2, <2>3 DEF InPlan, Target, Current
<1>5. ASSUME NEW r \in Requests, Update(r) PROVE InPlan'
    <2>1. Target(r) \in Entities /\ pc[r] = "open" /\ lock[Target(r)] \in {r, Nobody}
        BY <1>0, <1>5 DEF Update, Writes, Free
    <2>2. \A q \in Requests \ {r} : \A e \in Entities : lock[e] = q => lock'[e] = q
        BY <1>5, <2>1, NobodyAssumption DEF Update
    <2>3. lock'[Target(r)] = r /\ plan' = plan
        BY <1>5, <2>1 DEF Update
    <2>4. \A q \in Requests \ {r} : pc'[q] = pc[q] /\ step'[q] = step[q]
        BY <1>5 DEF Update
    <2>5. \/ pc'[r] = "tail" /\ step' = step
          \/ pc'[r] = NextPc(r) /\ step'[r] = step[r] + 1
        BY <1>5 DEF Update
    <2> QED BY <1>0, <2>1, <2>2, <2>3, <2>4, <2>5 DEF NextPc, InPlan, Target, Current
<1>6. ASSUME NEW r \in Requests, ReadTail(r) PROVE InPlan'
    BY <1>6 DEF ReadTail, InPlan, Target, Current
<1>7. ASSUME NEW r \in Requests, Insert(r) PROVE InPlan'
    BY <1>7 DEF Insert, NextPc, InPlan, Target, Current
<1>8. ASSUME NEW r \in Requests, Commit(r) PROVE InPlan'
    <2>1. \A q \in Requests : pc'[q] \in {"open", "tail", "insert"} => q # r /\ pc'[q] = pc[q]
        BY <1>8 DEF Commit
    <2>2. \A q \in Requests \ {r} : \A e \in Entities : lock[e] = q => lock'[e] = q
        BY <1>8 DEF Commit
    <2>3. plan' = plan /\ step' = step
        BY <1>8 DEF Commit
    <2> QED BY <1>0, <2>1, <2>2, <2>3 DEF InPlan, Target, Current
<1>9. CASE UNCHANGED vars
    BY <1>9 DEF vars, InPlan, Target, Current
<1> QED
    BY <1>1, <1>2, <1>3, <1>4, <1>5, <1>6, <1>7, <1>8, <1>9
    DEF Next, Serve, Refuse, UniqueViolation, Crash, DeadlockVictim, Terminating

(* Every step keeps the variables in their types. *)
LEMMA TypeStep == TypeOK /\ InPlan /\ Chained /\ [Next]_vars => TypeOK'
<1> SUFFICES ASSUME TypeOK, InPlan, Chained, [Next]_vars PROVE TypeOK'
    OBVIOUS
<1> USE DEF TypeOK
<1>1. ASSUME NEW r \in Requests, NEW p \in Plans, Submit(r, p) PROVE TypeOK'
    <2>1. p[1].entity \in Entities
        <3>1. p \in Seq(Item) /\ 1 \in 1 .. Len(p)
            <4>1. p \in Seq(Item) /\ p # << >>
                BY PlansAssumption DEF PlanShape
            <4> QED BY <4>1
        <3>2. p[1] \in Item
            BY <3>1
        <3> QED BY <3>2 DEF Item
    <2>2. \A v \in {0, row[p[1].entity].version} : v \in Nat
        BY <2>1 DEF Row
    <2> QED BY <1>1, <2>2 DEF Submit
<1>2. ASSUME NEW r \in Requests, NEW e \in Entities, Load(r, e) PROVE TypeOK'
    BY <1>2 DEF Load
<1>3. ASSUME NEW r \in Requests, Skip(r) PROVE TypeOK'
    BY <1>3 DEF Skip, NextPc
<1>4. ASSUME NEW r \in Requests, NEW outcome \in {"refused", "conflict", "aborted"},
             RollBack(r, outcome)
      PROVE TypeOK'
    BY <1>4 DEF RollBack
<1>5. ASSUME NEW r \in Requests, Update(r) PROVE TypeOK'
    <2> DEFINE e == Target(r)
    <2>1. e \in Entities /\ Current(r).to \in State
        BY <1>5, CurrentItem DEF Update, Writes
    <2>2. mem[r][e] \in Row
        BY <1>5, <2>1 DEF Update, Writes, Loaded
    <2>3. "UNIVERSITY_ASSIGNED" \in State /\ mem[r][e].state \in State
        BY <2>2 DEF Row, State, ChallengeStatus
    <2>4. [state |-> Current(r).to, version |-> mem[r][e].version + 1] \in Row
        BY <2>1, <2>2 DEF Row
    <2>5. \A stored \in Row, v \in Nat : [stored EXCEPT !.version = v] \in Row
        BY DEF Row
    <2>6. mem[r][e].version + 1 \in Nat
        BY <2>2 DEF Row
    <2>7. mem' \in [Requests -> [Entities -> Row \cup {NotLoaded}]]
        BY <1>5, <2>1, <2>4 DEF Update
    <2>8. image' \in [Entities -> Row]
        <3> DEFINE stored == IF lock[e] = r THEN image[e] ELSE row[e]
        <3>1. stored \in Row
            BY <2>1
        <3>2. [stored EXCEPT !.version = mem[r][e].version + 1] \in Row
            BY <3>1, <2>5, <2>6
        <3> QED BY <1>5, <2>1, <2>4, <3>2 DEF Update
    <2>9. /\ lock' \in [Entities -> Requests \cup {Nobody}]
          /\ prior' \in [Requests -> State]
        BY <1>5, <2>1, <2>3 DEF Update
    <2>10. /\ pc' \in [Requests -> {"new", "open", "tail", "insert", "commit",
                                    "committed", "refused", "conflict", "aborted"}]
           /\ step' \in [Requests -> Nat]
        <3>1. CASE SameStatus(r)
            <4>1. /\ pc' = [pc EXCEPT ![r] = NextPc(r)]
                  /\ step' = [step EXCEPT ![r] = @ + 1]
                BY <1>5, <3>1 DEF Update
            <4>2. NextPc(r) \in {"open", "commit"}
                BY DEF NextPc
            <4> QED BY <4>1, <4>2
        <3>2. CASE ~SameStatus(r)
            BY <1>5, <3>2 DEF Update
        <3> QED BY <3>1, <3>2
    <2>11. UNCHANGED <<row, ledger, plan, expected, pending, tail>>
        BY <1>5 DEF Update
    <2> QED BY <2>7, <2>8, <2>9, <2>10, <2>11
<1>6. ASSUME NEW r \in Requests, ReadTail(r) PROVE TypeOK'
    <2>1. Visible(r) \in SUBSET Event /\ Numbered(Visible(r))
        BY DEF Visible, Chained
    <2>2. TailOf(Visible(r)) \in Digest
        BY <2>1, TailNumber
    <2> QED BY <1>6, <2>2 DEF ReadTail
<1>7. ASSUME NEW r \in Requests, Insert(r) PROVE TypeOK'
    <2>1. Target(r) \in Entities /\ Current(r).to \in State
        BY <1>7, CurrentItem DEF Insert
    <2>2. NewEvent(r) \in Event
        BY <2>1 DEF NewEvent, Event, Digest
    <2>3. pending' \in [Requests -> SUBSET Event]
        BY <1>7, <2>2 DEF Insert
    <2> QED BY <1>7, <2>3 DEF Insert, NextPc
<1>8. ASSUME NEW r \in Requests, Commit(r) PROVE TypeOK'
    BY <1>8 DEF Commit
<1>9. CASE UNCHANGED vars
    BY <1>9 DEF vars
<1> QED
    BY <1>1, <1>2, <1>3, <1>4, <1>5, <1>6, <1>7, <1>8, <1>9
    DEF Next, Serve, Refuse, UniqueViolation, Crash, DeadlockVictim, Terminating

-----------------------------------------------------------------------------
(* The ledger and the transactions that write it *)

LedgerInv == TypeOK /\ InPlan /\ Chained /\ SoleWriter /\ Signed /\ Holders /\ TailRead

(* The database ends, and the code rolls back, only running requests. *)
LEMMA VictimRuns == ASSUME NEW r \in Requests, DeadlockVictim(r) PROVE Running(r)
<1>1. WaitsFor(r) # {}
    BY DEF DeadlockVictim
<1> QED BY <1>1 DEF WaitsFor, Writes, Running

(* An uncommitted event is not in the ledger, and is numbered after it. *)
LEMMA PendingIsNew ==
    ASSUME LedgerInv, NEW q \in Requests, NEW event \in pending[q],
           NEW n \in Nat, Numbers(ledger) = 1 .. n
    PROVE  event \notin ledger /\ event.seq > n /\ event.seq \in Nat
<1>1. event \in Event /\ event.by = q /\ Running(q)
    BY DEF LedgerInv, TypeOK, Signed, Holders
<1>2. event \notin ledger
    BY <1>1 DEF LedgerInv, Signed, Running
<1>3. \A e \in ledger : e.seq # event.seq
    BY <1>2 DEF LedgerInv, Chained, Unbroken, Visible
<1>4. event.seq \notin 1 .. n
    BY <1>3 DEF Numbers
<1>5. event.seq \in Nat /\ event.seq # 0
    <2>1. event \in Visible(q) /\ Visible(q) \in SUBSET Event /\ Numbered(Visible(q))
        BY DEF Visible, LedgerInv, TypeOK, Chained
    <2>2. event.seq \in 1 .. TailOf(Visible(q)).seq
        BY <2>1, TailNumber DEF Numbers
    <2> QED BY <1>1, <2>2 DEF Event
<1> QED BY <1>2, <1>4, <1>5

(* An INSERT that succeeds is the only one in progress, and puts an event   *)
(* after all those its transaction sees. *)
LEMMA InsertExtends ==
    ASSUME LedgerInv, NEW r \in Requests, Insert(r)
    PROVE  /\ NewEvent(r) \in Event
           /\ \A q \in Requests \ {r} : pending[q] = {}
           /\ \A event \in Visible(r) : event.seq < NewEvent(r).seq
           /\ Unbroken(Visible(r) \cup {NewEvent(r)})
           /\ Numbered(Visible(r) \cup {NewEvent(r)})
<1> USE DEF LedgerInv
<1>0. PICK n \in Nat : Numbers(ledger) = 1 .. n
    <2>1. ledger \in SUBSET Event /\ Numbered(ledger)
        BY DEF TypeOK, Chained
    <2> QED BY <2>1, TailNumber DEF Digest
<1>1. NewEvent(r) \in Event
    <2>1. Target(r) \in Entities /\ Current(r).to \in State
        BY CurrentItem DEF Insert
    <2> QED BY <2>1 DEF NewEvent, Event, Digest, TypeOK
<1>2. tail[r] = Genesis \/ \E event \in Visible(r) : tail[r] = EventHash(event)
    BY DEF TailRead, Insert
<1>3. tail[r].seq \in Nat /\ tail[r].seq + 1 \notin 1 .. n
    BY <1>0 DEF Insert, TypeOK, Digest
<1>4. tail[r].seq + 1 \notin Numbers(Visible(r))
    <2>1. CASE pending[r] = {}
        BY <2>1 DEF Visible, Insert
    <2>2. CASE pending[r] # {}
        <3>1. \A event \in Visible(r) : event.seq <= tail[r].seq /\ event.seq \in Nat
            <4>1. Visible(r) \in SUBSET Event
                BY DEF Visible, TypeOK
            <4>2. \A event \in Visible(r) : event.seq <= tail[r].seq
                BY <2>2 DEF TailRead, Insert
            <4> QED BY <4>1, <4>2 DEF Event
        <3> QED BY <3>1, <1>3 DEF Numbers
    <2> QED BY <2>1, <2>2
<1>5. \A q \in Requests \ {r} : pending[q] = {}
    <2> SUFFICES ASSUME NEW q \in Requests \ {r}, pending[q] # {} PROVE FALSE
        OBVIOUS
    <2>1. pending[r] = {} /\ Visible(r) = ledger
        BY DEF SoleWriter, Visible
    <2>2. tail[r].seq \in 0 .. n
        <3>1. CASE tail[r] = Genesis
            BY <3>1 DEF Genesis
        <3>2. CASE \E event \in ledger : tail[r] = EventHash(event)
            BY <1>0, <3>2 DEF EventHash, Numbers
        <3> QED BY <1>2, <2>1, <3>1, <3>2
    <2>3. tail[r].seq = n
        BY <1>3, <2>2
    <2>4. PICK event \in pending[q] : event.seq \in Nat /\ event.seq > n
        BY <1>0, PendingIsNew
    <2>5. n + 1 \in Numbers(Visible(q))
        <3>1. Visible(q) \in SUBSET Event /\ Numbered(Visible(q))
            BY DEF Visible, TypeOK, Chained
        <3>2. Numbers(Visible(q)) = 1 .. TailOf(Visible(q)).seq /\ TailOf(Visible(q)).seq \in Nat
            BY <3>1, TailNumber DEF Digest
        <3>3. event.seq \in Numbers(Visible(q))
            BY DEF Numbers, Visible
        <3> QED BY <2>4, <3>2, <3>3
    <2>6. n + 1 \in Numbers(pending[q])
        BY <1>0, <2>5 DEF Numbers, Visible
    <2>7. q \in WaitsFor(r)
        BY <2>3, <2>6 DEF WaitsFor, Insert
    <2> QED BY <2>7 DEF Insert
<1>6. Visible(r) \in SUBSET Event /\ Unbroken(Visible(r)) /\ Numbered(Visible(r))
    BY DEF Visible, TypeOK, Chained
<1>7. NewEvent(r).prev = tail[r] /\ NewEvent(r).seq = tail[r].seq + 1
    BY DEF NewEvent
<1>8. /\ Unbroken(Visible(r) \cup {NewEvent(r)}) /\ Numbered(Visible(r) \cup {NewEvent(r)})
      /\ \A event \in Visible(r) : event.seq < NewEvent(r).seq
    BY <1>1, <1>2, <1>4, <1>6, <1>7, Extension
<1> QED BY <1>1, <1>5, <1>8

LedgerParts == Chained /\ SoleWriter /\ Signed /\ Holders /\ TailRead

(* A step of a request that neither inserts nor ends leaves the ledger and  *)
(* every view of it alone. *)
LEMMA QuietStep ==
    ASSUME LedgerInv, NEW r \in Requests, UNCHANGED <<ledger, pending, tail>>,
           \A q \in Requests \ {r} : pc'[q] = pc[q],
           pc[r] \in {"new", "open"}, pc'[r] \in {"open", "tail", "commit"},
           \A q \in Requests : \A e \in Entities : lock[e] = q => lock'[e] = q,
           \A q \in Requests \ {r} : \A e \in Entities : lock'[e] = q => lock[e] = q
    PROVE  LedgerParts'
<1> USE DEF LedgerInv
<1>1. \A q \in Requests : Visible(q)' = Visible(q)
    BY DEF Visible
<1>2. Chained' /\ SoleWriter'
    <2>1. Unbroken(ledger)' /\ Numbered(ledger)'
        BY DEF Chained, Unbroken, Numbered, Numbers
    <2>2. ASSUME NEW q \in Requests PROVE Unbroken(Visible(q))' /\ Numbered(Visible(q))'
        <3>1. Visible(q)' = Visible(q) /\ Unbroken(Visible(q)) /\ Numbered(Visible(q))
            BY <1>1 DEF Chained
        <3> QED BY <3>1 DEF Unbroken, Numbered, Numbers
    <2>3. SoleWriter'
        BY DEF SoleWriter
    <2> QED BY <2>1, <2>2, <2>3 DEF Chained
<1>3. Signed'
    <2>1. \A event \in ledger : event.by \in Requests /\ event.by # r
        BY DEF Signed, TypeOK, Event
    <2>2. \A q \in Requests : \A event \in pending[q] : event.entity \in Entities
        BY DEF TypeOK, Event
    <2> QED BY <2>1, <2>2 DEF Signed
<1>4. Holders' /\ TailRead'
    BY <1>1 DEF Holders, TailRead, Running
<1> QED BY <1>2, <1>3, <1>4 DEF LedgerParts

LEMMA ReadTailStep == ASSUME LedgerInv, NEW r \in Requests, ReadTail(r) PROVE LedgerParts'
<1> USE DEF LedgerInv
<1>1. \A q \in Requests : Visible(q)' = Visible(q)
    BY DEF Visible, ReadTail
<1>2. /\ UNCHANGED <<ledger, pending, lock>>
      /\ \A q \in Requests \ {r} : pc'[q] = pc[q] /\ tail'[q] = tail[q]
      /\ pc[r] = "tail" /\ pc'[r] = "insert" /\ tail'[r] = TailOf(Visible(r))
    BY DEF ReadTail, TypeOK
<1>3. Chained' /\ SoleWriter'
    <2>1. Unbroken(ledger)' /\ Numbered(ledger)'
        BY <1>2 DEF Chained, Unbroken, Numbered, Numbers
    <2>2. ASSUME NEW q \in Requests PROVE Unbroken(Visible(q))' /\ Numbered(Visible(q))'
        <3>1. Visible(q)' = Visible(q) /\ Unbroken(Visible(q)) /\ Numbered(Visible(q))
            BY <1>1 DEF Chained
        <3> QED BY <3>1 DEF Unbroken, Numbered, Numbers
    <2>3. SoleWriter'
        BY <1>2 DEF SoleWriter
    <2> QED BY <2>1, <2>2, <2>3 DEF Chained
<1>4. Signed' /\ Holders'
    <2>1. \A event \in ledger : event.by \in Requests /\ event.by # r
        BY <1>2 DEF Signed, TypeOK, Event
    <2>2. Signed'
        BY <1>2, <2>1 DEF Signed
    <2>3. \A q \in Requests : Running(q)' <=> Running(q)
        BY <1>2 DEF Running
    <2>4. Holders'
        BY <1>2, <2>3 DEF Holders
    <2> QED BY <2>2, <2>4
<1>5. Visible(r) \in SUBSET Event /\ Numbered(Visible(r))
    BY DEF Visible, TypeOK, Chained
<1>6. tail'[r] = Genesis \/ \E event \in Visible(r)' : tail'[r] = EventHash(event)
    BY <1>1, <1>2, <1>5, TailNumber
<1>7. \A event \in Visible(r)' : event.seq <= tail'[r].seq
    BY <1>1, <1>2, <1>5, TailNumber DEF Numbers, Digest
<1>8. TailRead'
    BY <1>1, <1>2, <1>6, <1>7 DEF TailRead
<1> QED BY <1>3, <1>4, <1>8 DEF LedgerParts

LEMMA InsertStep == ASSUME LedgerInv, NEW r \in Requests, Insert(r) PROVE LedgerParts'
<1> USE DEF LedgerInv
<1>1. /\ ledger' = ledger /\ lock' = lock /\ tail' = tail
      /\ pending'[r] = pending[r] \cup {NewEvent(r)}
      /\ \A q \in Requests \ {r} : pc'[q] = pc[q] /\ pending'[q] = pending[q]
      /\ pc[r] = "insert" /\ pc'[r] \in {"open", "commit"}
    BY DEF Insert, TypeOK, NextPc
<1>2. /\ Visible(r)' = Visible(r) \cup {NewEvent(r)}
      /\ \A q \in Requests \ {r} : Visible(q)' = Visible(q)
    BY <1>1 DEF Visible
<1>3. Chained'
    <2>1. \A q \in Requests : Unbroken(Visible(q)') /\ Numbered(Visible(q)')
        BY <1>2, InsertExtends DEF Chained
    <2> QED BY <1>1, <2>1 DEF Chained, Unbroken, Numbered, Numbers
<1>4. SoleWriter'
    BY <1>1, InsertExtends DEF SoleWriter
<1>5. Signed'
    <2>1. NewEvent(r).by = r /\ NewEvent(r).entity = Target(r) /\ lock[Target(r)] = r
        BY <1>1 DEF NewEvent, InPlan
    <2>2. \A event \in ledger : event.by \in Requests /\ event.by # r
        BY <1>1 DEF Signed, TypeOK, Event
    <2> QED BY <1>1, <2>1, <2>2 DEF Signed
<1>6. Holders' /\ TailRead'
    BY <1>1, <1>2 DEF Holders, TailRead, Running
<1> QED BY <1>3, <1>4, <1>5, <1>6 DEF LedgerParts

LEMMA RollBackStep ==
    ASSUME LedgerInv, NEW r \in Requests, NEW outcome \in {"refused", "conflict", "aborted"},
           Running(r), RollBack(r, outcome)
    PROVE  LedgerParts'
<1> USE DEF LedgerInv
<1>1. /\ ledger' = ledger /\ tail' = tail /\ pending'[r] = {}
      /\ \A q \in Requests \ {r} : pc'[q] = pc[q] /\ pending'[q] = pending[q]
      /\ \A e \in Entities : lock'[e] # r
      /\ \A q \in Requests \ {r} : \A e \in Entities : lock'[e] = q <=> lock[e] = q
      /\ pc'[r] = outcome
    BY NobodyAssumption DEF RollBack, TypeOK
<1>2. /\ Visible(r)' = ledger
      /\ \A q \in Requests \ {r} : Visible(q)' = Visible(q)
    BY <1>1 DEF Visible
<1>3. Chained'
    <2>1. \A q \in Requests : Unbroken(Visible(q)') /\ Numbered(Visible(q)')
        BY <1>2 DEF Chained
    <2> QED BY <1>1, <2>1 DEF Chained, Unbroken, Numbered, Numbers
<1>4. SoleWriter'
    BY <1>1 DEF SoleWriter
<1>5. Signed'
    <2>1. \A event \in ledger : event.by \in Requests /\ event.by # r
        BY DEF Signed, TypeOK, Event, Running
    <2>2. \A q \in Requests : \A event \in pending[q] : event.entity \in Entities
        BY DEF TypeOK, Event
    <2> QED BY <1>1, <2>1, <2>2 DEF Signed
<1>6. Holders' /\ TailRead'
    BY <1>1, <1>2 DEF Holders, TailRead, Running
<1> QED BY <1>3, <1>4, <1>5, <1>6 DEF LedgerParts

LEMMA CommitStep == ASSUME LedgerInv, NEW r \in Requests, Commit(r) PROVE LedgerParts'
<1> USE DEF LedgerInv
<1>1. /\ ledger' = Visible(r) /\ tail' = tail /\ pending'[r] = {}
      /\ \A q \in Requests \ {r} : pc'[q] = pc[q] /\ pending'[q] = pending[q]
      /\ \A e \in Entities : lock'[e] # r
      /\ \A q \in Requests \ {r} : \A e \in Entities : lock'[e] = q <=> lock[e] = q
      /\ pc[r] = "commit" /\ pc'[r] = "committed"
    BY NobodyAssumption DEF Commit, TypeOK, Visible
<1>2. \A q \in Requests : pending'[q] # {} => q # r /\ ledger' = ledger /\ Visible(q)' = Visible(q)
    BY <1>1 DEF SoleWriter, Visible
<1>3. \A q \in Requests : pending'[q] = {} => Visible(q)' = Visible(r)
    BY <1>1 DEF Visible
<1>4. Chained'
    <2>1. \A q \in Requests : Unbroken(Visible(q)') /\ Numbered(Visible(q)')
        BY <1>2, <1>3 DEF Chained
    <2>2. Unbroken(ledger') /\ Numbered(ledger')
        BY <1>1 DEF Chained
    <2> QED BY <2>1, <2>2 DEF Chained, Unbroken, Numbered, Numbers
<1>5. SoleWriter'
    BY <1>1 DEF SoleWriter
<1>6. Signed'
    <2>1. \A event \in ledger : event.by \in Requests /\ event.by # r
        BY <1>1 DEF Signed, TypeOK, Event
    <2>2. \A q \in Requests : \A event \in pending[q] : event.entity \in Entities
        BY DEF TypeOK, Event
    <2>3. \A event \in ledger' : pc'[event.by] = "committed"
        BY <1>1, <2>1 DEF Signed, Visible
    <2> QED BY <1>1, <2>2, <2>3 DEF Signed
<1>7. Holders'
    BY <1>1 DEF Holders, Running
<1>8. TailRead'
    <2>1. \A q \in Requests \ {r} : Visible(q) \subseteq Visible(q)'
        BY <1>1 DEF Visible
    <2> QED BY <1>1, <1>2, <2>1 DEF TailRead
<1> QED BY <1>4, <1>5, <1>6, <1>7, <1>8 DEF LedgerParts

(* Every step keeps the ledger and the views of it sound. *)
LEMMA LedgerStep == LedgerInv /\ [Next]_vars => LedgerInv'
<1> SUFFICES ASSUME LedgerInv, [Next]_vars PROVE LedgerInv'
    OBVIOUS
<1>1. TypeOK' /\ InPlan'
    BY TypeStep, InPlanStep DEF LedgerInv
<1>2. LedgerParts'
    <2>1. ASSUME NEW r \in Requests, NEW p \in Plans, Submit(r, p) PROVE LedgerParts'
        BY <2>1, QuietStep DEF Submit, LedgerInv, TypeOK
    <2>2. ASSUME NEW r \in Requests, NEW e \in Entities, Load(r, e) PROVE LedgerParts'
        BY <2>2, QuietStep DEF Load, LedgerInv, TypeOK
    <2>3. ASSUME NEW r \in Requests, Skip(r) PROVE LedgerParts'
        BY <2>3, QuietStep DEF Skip, NextPc, LedgerInv, TypeOK
    <2>4. ASSUME NEW r \in Requests, NEW outcome \in {"refused", "conflict", "aborted"},
                 Running(r), RollBack(r, outcome)
          PROVE LedgerParts'
        BY <2>4, RollBackStep
    <2>5. ASSUME NEW r \in Requests, Update(r) PROVE LedgerParts'
        <3>1. Target(r) \in Entities /\ pc[r] = "open" /\ lock[Target(r)] \in {r, Nobody}
            BY <2>5, CurrentItem DEF Update, Writes, Free, LedgerInv
        <3>2. lock' = [lock EXCEPT ![Target(r)] = r]
            BY <2>5 DEF Update
        <3>3. /\ \A q \in Requests : \A e \in Entities : lock[e] = q => lock'[e] = q
              /\ \A q \in Requests \ {r} : \A e \in Entities : lock'[e] = q => lock[e] = q
            BY <3>1, <3>2, NobodyAssumption DEF LedgerInv, TypeOK
        <3>4. pc' = [pc EXCEPT ![r] = "tail"] \/ pc' = [pc EXCEPT ![r] = NextPc(r)]
            BY <2>5 DEF Update
        <3>5. \A q \in Requests \ {r} : pc'[q] = pc[q]
            BY <3>4 DEF LedgerInv, TypeOK
        <3>6. pc'[r] \in {"open", "tail", "commit"}
            BY <3>4 DEF NextPc, LedgerInv, TypeOK
        <3>7. UNCHANGED <<ledger, pending, tail>>
            BY <2>5 DEF Update
        <3> QED BY <3>1, <3>3, <3>5, <3>6, <3>7, QuietStep
    <2>6. ASSUME NEW r \in Requests, ReadTail(r) PROVE LedgerParts'
        BY <2>6, ReadTailStep
    <2>7. ASSUME NEW r \in Requests, Insert(r) PROVE LedgerParts'
        BY <2>7, InsertStep
    <2>8. ASSUME NEW r \in Requests, Commit(r) PROVE LedgerParts'
        BY <2>8, CommitStep
    <2>9. CASE UNCHANGED vars
        BY <2>9 DEF vars, LedgerInv, LedgerParts, Chained, Unbroken, Numbered, Numbers,
                    Visible, SoleWriter, Signed, Holders, Running, TailRead
    <2>10. \A r \in Requests : Refuse(r) \/ UniqueViolation(r) => Running(r)
        BY DEF Refuse, UniqueViolation, Running
    <2> QED
        BY <2>1, <2>2, <2>3, <2>4, <2>5, <2>6, <2>7, <2>8, <2>9, <2>10, VictimRuns
        DEF Next, Serve, Refuse, UniqueViolation, Crash, DeadlockVictim, Terminating
<1> QED BY <1>1, <1>2 DEF LedgerInv, LedgerParts

(* A request that loses a number lost it to an event of another request,    *)
(* and both stay as they are. *)
LEMMA ConflictStep ==
    LedgerInv /\ ConflictHasWinner /\ [Next]_vars => ConflictHasWinner'
<1> SUFFICES ASSUME LedgerInv, ConflictHasWinner, [Next]_vars PROVE ConflictHasWinner'
    OBVIOUS
<1> USE DEF LedgerInv
<1> DEFINE Over(q) == pc[q] \in {"committed", "conflict"}
<1>1. \A q \in Requests : Over(q) => pc'[q] = pc[q] /\ tail'[q] = tail[q]
    <2>1. \A r \in Requests : \A outcome : Running(r) /\ RollBack(r, outcome) =>
              ~Over(r) /\ tail' = tail /\ \A q \in Requests \ {r} : pc'[q] = pc[q]
        BY DEF TypeOK, Running, RollBack
    <2>2. \A r \in Requests : Update(r) =>
              ~Over(r) /\ tail' = tail /\ \A q \in Requests \ {r} : pc'[q] = pc[q]
        BY DEF TypeOK, Update, Writes
    <2>3. \A r \in Requests : Refuse(r) \/ UniqueViolation(r) => Running(r)
        BY DEF Refuse, UniqueViolation, Running
    <2>4. ASSUME NEW r \in Requests,
                 Refuse(r) \/ UniqueViolation(r) \/ Crash(r) \/ DeadlockVictim(r)
          PROVE  ~Over(r) /\ tail' = tail /\ \A q \in Requests \ {r} : pc'[q] = pc[q]
        <3>1. Running(r) /\ \E outcome : RollBack(r, outcome)
            BY <2>3, <2>4, VictimRuns DEF Refuse, UniqueViolation, Crash, DeadlockVictim
        <3> QED BY <2>1, <3>1
    <2>5. ASSUME NEW r \in Requests,
                 \/ \E p \in Plans : Submit(r, p)
                 \/ \E e \in Entities : Load(r, e)
                 \/ Skip(r) \/ ReadTail(r) \/ Insert(r) \/ Commit(r)
          PROVE  ~Over(r) /\ \A q \in Requests \ {r} : pc'[q] = pc[q] /\ tail'[q] = tail[q]
        BY <2>5 DEF TypeOK, Submit, Load, Skip, ReadTail, Insert, Commit
    <2>6. CASE UNCHANGED vars
        BY <2>6 DEF vars
    <2>7. CASE \E r \in Requests : ~Over(r) /\ \A q \in Requests \ {r} :
                   pc'[q] = pc[q] /\ tail'[q] = tail[q]
        <3> HIDE DEF LedgerInv
        <3> QED BY <2>7
    <2>8. UNCHANGED vars \/ \E r \in Requests : ~Over(r) /\ \A q \in Requests \ {r} :
              pc'[q] = pc[q] /\ tail'[q] = tail[q]
        <3> HIDE DEF LedgerInv, Over
        <3>1. CASE \E r \in Requests : \/ Refuse(r) \/ UniqueViolation(r)
                                       \/ Crash(r) \/ DeadlockVictim(r)
            BY <2>4, <3>1
        <3>2. CASE \E r \in Requests : Update(r)
            BY <2>2, <3>2
        <3>3. CASE \E r \in Requests : \/ \E p \in Plans : Submit(r, p)
                                       \/ \E e \in Entities : Load(r, e)
                                       \/ Skip(r) \/ ReadTail(r) \/ Insert(r) \/ Commit(r)
            BY <2>5, <3>3
        <3> QED BY <3>1, <3>2, <3>3 DEF Next, Serve, Terminating
    <2> QED BY <2>6, <2>7, <2>8
<1>2. ledger \subseteq ledger'
    BY DEF vars, Next, Serve, Submit, Load, Skip, Refuse, Update, ReadTail, Insert,
        UniqueViolation, Commit, Crash, DeadlockVictim, RollBack, Terminating
<1>3. ASSUME NEW r \in Requests, pc[r] # "conflict", pc'[r] = "conflict"
      PROVE  \E event \in ledger :
                 event.seq = tail[r].seq + 1 /\ event.by # r /\ pc[event.by] = "committed"
    <2>1. UniqueViolation(r)
        BY <1>3 DEF TypeOK, vars, Next, Serve, Submit, Load, Skip, Refuse, Update, NextPc,
            ReadTail, Insert, UniqueViolation, Commit, Crash, DeadlockVictim, RollBack, Terminating
    <2>2. PICK event \in ledger : event.seq = tail[r].seq + 1
        BY <2>1 DEF UniqueViolation, Numbers
    <2>3. pc[event.by] = "committed" /\ pc[r] = "insert"
        BY <2>1 DEF Signed, UniqueViolation
    <2> QED BY <2>2, <2>3
<1>4. ASSUME NEW r \in Requests, pc'[r] = "conflict"
      PROVE  /\ tail'[r] = tail[r]
             /\ \E event \in ledger :
                    event.seq = tail[r].seq + 1 /\ event.by # r /\ pc[event.by] = "committed"
    <2>1. CASE pc[r] = "conflict"
        BY <1>1, <2>1 DEF ConflictHasWinner
    <2>2. CASE pc[r] # "conflict"
        <3>1. UniqueViolation(r)
            BY <1>4, <2>2 DEF TypeOK, vars, Next, Serve, Submit, Load, Skip, Refuse, Update,
                NextPc, ReadTail, Insert, UniqueViolation, Commit, Crash, DeadlockVictim,
                RollBack, Terminating
        <3> QED BY <1>3, <1>4, <2>2, <3>1 DEF UniqueViolation, RollBack
    <2> QED BY <2>1, <2>2
<1>5. \A event \in ledger : event.by \in Requests
    BY DEF TypeOK, Event
<1> QED BY <1>1, <1>2, <1>4, <1>5 DEF ConflictHasWinner

-----------------------------------------------------------------------------
(* The ledger and the challenges *)

LedgerTells == LedgerTellsStatus /\ Agreement

(* The events of a challenge that other transactions hold are those of the  *)
(* ledger: a transaction inserts events of the rows it has locked. *)
LEMMA UnlockedEvents ==
    ASSUME LedgerInv, NEW r \in Requests, NEW e, lock[e] # r
    PROVE  EventsOf(e, pending[r]) = {}
BY DEF EventsOf, LedgerInv, Signed

(* A step of r that leaves the rows, the ledger and the events alone, and   *)
(* what the others have locked. *)
LEMMA TellsQuietStep ==
    ASSUME LedgerInv, LedgerTells, NEW r \in Requests,
           UNCHANGED <<row, ledger, lock, image, pending>>,
           \A q \in Requests \ {r} : pc'[q] = pc[q] /\ plan'[q] = plan[q] /\ step'[q] = step[q],
           \/ pc[r] = "new"
           \/ pc[r] = "open" /\ pc'[r] \in {"open", "commit"}
           \/ pc[r] = "tail" /\ pc'[r] = "insert" /\ plan'[r] = plan[r] /\ step'[r] = step[r]
    PROVE  LedgerTells'
<1> USE DEF LedgerInv, LedgerTells
<1>1. LedgerTellsStatus'
    BY DEF LedgerTellsStatus, Tells, EventsOf
<1>2. ASSUME NEW q \in Requests, NEW c \in Challenges \ Allocated, lock[c] = q
      PROVE  IF pc'[q] \in {"tail", "insert"} /\ Target(q)' = c
               THEN image[c].state = Current(q).to' ELSE Tells(c, Visible(q), image[c].state)
    <2>0. c \in Entities
        BY RowsAssumption DEF Entities
    <2>1. CASE q = r
        BY <1>2, <2>0, <2>1 DEF Agreement, Holders, Running, Target, Current
    <2>2. CASE q # r
        BY <1>2, <2>2 DEF Agreement, Target, Current
    <2> QED BY <2>1, <2>2
<1>3. \A q \in Requests : Visible(q)' = Visible(q)
    BY DEF Visible
<1>4. Agreement'
    BY <1>2, <1>3 DEF Agreement, Tells, EventsOf
<1> QED BY <1>1, <1>4

LEMMA TellsRollBackStep ==
    ASSUME LedgerInv, LedgerTells, NEW r \in Requests, NEW outcome, RollBack(r, outcome)
    PROVE  LedgerTells'
<1> USE DEF LedgerInv, LedgerTells
<1>1. LedgerTellsStatus'
    BY DEF RollBack, LedgerTellsStatus, Tells, EventsOf
<1>2. ASSUME NEW q \in Requests, NEW c \in Challenges \ Allocated, lock'[c] = q
      PROVE  /\ q # r /\ lock[c] = q /\ pc'[q] = pc[q] /\ Visible(q)' = Visible(q)
             /\ Target(q)' = Target(q) /\ Current(q)' = Current(q) /\ image'[c] = image[c]
    <2>1. c \in Entities
        BY RowsAssumption DEF Entities
    <2>2. q # r /\ lock[c] = q
        BY <1>2, <2>1, NobodyAssumption DEF RollBack
    <2> QED BY <2>1, <2>2 DEF RollBack, TypeOK, Visible, Target, Current
<1>3. Agreement'
    BY <1>2 DEF Agreement, Tells, EventsOf
<1> QED BY <1>1, <1>3

(* The UPDATE puts the new state in the row the request is to report.       *)
LEMMA TellsUpdateStep ==
    ASSUME LedgerInv, LedgerTells, NEW r \in Requests, Update(r)
    PROVE  LedgerTells'
<1> USE DEF LedgerInv, LedgerTells
<1> DEFINE e == Target(r)
<1>0. Challenges \subseteq Entities
    BY DEF Entities
<1>1. /\ e \in Entities /\ pc[r] = "open" /\ lock[e] \in {r, Nobody}
      /\ mem[r][e] \in Row
    BY CurrentItem DEF Update, Writes, Free, Loaded, TypeOK
<1>2. /\ UNCHANGED <<row, ledger, pending, plan>>
      /\ lock' = [lock EXCEPT ![e] = r]
    BY DEF Update
<1>3. \A q \in Requests : Visible(q)' = Visible(q)
    BY <1>2 DEF Visible
<1>4. LedgerTellsStatus'
    BY <1>2 DEF LedgerTellsStatus, Tells, EventsOf
<1>5. \A q \in Requests \ {r} : pc'[q] = pc[q] /\ step'[q] = step[q]
    BY DEF Update, TypeOK
<1>6. \A other \in Entities \ {e} : image'[other] = image[other] /\ lock'[other] = lock[other]
    BY <1>2 DEF Update, TypeOK
<1>7. ASSUME NEW q \in Requests \ {r}, NEW c \in Challenges \ Allocated, lock'[c] = q
      PROVE  IF pc'[q] \in {"tail", "insert"} /\ Target(q)' = c
               THEN image'[c].state = Current(q).to' ELSE Tells(c, Visible(q), image'[c].state)
    <2>1. c # e
        BY <1>0, <1>1, <1>2, <1>7 DEF TypeOK
    <2>2. lock[c] = q /\ image'[c] = image[c]
        BY <1>0, <1>6, <1>7, <2>1
    <2> QED BY <1>2, <1>5, <2>2 DEF Agreement, Target, Current
<1>8. ASSUME NEW c \in Challenges \ Allocated, c # e, lock'[c] = r
      PROVE  Tells(c, Visible(r), image'[c].state)
    <2>1. lock[c] = r /\ image'[c] = image[c]
        BY <1>0, <1>6, <1>8
    <2> QED BY <1>1, <2>1 DEF Agreement
<1>9. CASE ~SameStatus(r)
    <2>1. pc' = [pc EXCEPT ![r] = "tail"] /\ step' = step
        BY <1>9 DEF Update
    <2>2. Target(r)' = e /\ Current(r)' = Current(r)
        BY <1>2, <2>1 DEF Target, Current
    <2>3. e \in Challenges \ Allocated => image'[e].state = Current(r).to
        <3> SUFFICES ASSUME e \in Challenges \ Allocated PROVE image'[e].state = Current(r).to
            OBVIOUS
        <3>1. Current(r).to # mem[r][e].state
            BY <1>1, <1>9, CurrentItem DEF SameStatus
        <3>2. image'[e] = [state |-> Current(r).to, version |-> mem[r][e].version + 1]
            BY <1>1, <3>1 DEF Update, TypeOK
        <3> QED BY <3>2
    <2>4. Agreement'
        <3>1. pc'[r] = "tail"
            BY <2>1 DEF TypeOK
        <3>2. ASSUME NEW c \in Challenges \ Allocated, lock'[c] = r
              PROVE  IF pc'[r] \in {"tail", "insert"} /\ Target(r)' = c
                       THEN image'[c].state = Current(r).to'
                       ELSE Tells(c, Visible(r), image'[c].state)
            BY <1>8, <2>2, <2>3, <3>1, <3>2
        <3> QED BY <1>3, <1>7, <3>2 DEF Agreement, Tells, EventsOf
    <2> QED BY <1>4, <2>4
<1>10. CASE SameStatus(r)
    <2>1. pc'[r] \in {"open", "commit"}
        BY <1>10 DEF Update, NextPc, TypeOK
    <2>2. ASSUME e \in Challenges \ Allocated
          PROVE  Tells(e, Visible(r), image'[e].state)
        <3> DEFINE stored == IF lock[e] = r THEN image[e] ELSE row[e]
        <3>1. stored \in Row
            BY <1>1 DEF TypeOK
        <3>2. image'[e].state = stored.state
            <4>1. image'[e] = [stored EXCEPT !.version = mem[r][e].version + 1]
                BY <1>1, <1>10 DEF Update, SameStatus, TypeOK
            <4> QED BY <3>1, <4>1 DEF Row
        <3>3. CASE lock[e] = r
            BY <1>1, <2>2, <3>2, <3>3 DEF Agreement
        <3>4. CASE lock[e] # r
            <4>1. EventsOf(e, Visible(r)) = EventsOf(e, ledger)
                BY <3>4, UnlockedEvents DEF EventsOf, Visible
            <4>2. Tells(e, ledger, row[e].state)
                BY <2>2 DEF LedgerTellsStatus
            <4> QED BY <3>2, <3>4, <4>1, <4>2 DEF Tells
        <3> QED BY <3>3, <3>4
    <2>3. Agreement'
        BY <1>3, <1>7, <1>8, <2>1, <2>2 DEF Agreement, Tells, EventsOf
    <2> QED BY <1>4, <2>3
<1> QED BY <1>9, <1>10

(* The event it reports is the last of its entity. *)
LEMMA TellsInsertStep ==
    ASSUME LedgerInv, LedgerTells, NEW r \in Requests, Insert(r)
    PROVE  LedgerTells'
<1> USE DEF LedgerInv, LedgerTells
<1>1. /\ UNCHANGED <<row, ledger, lock, image, plan>>
      /\ pc[r] = "insert" /\ pc'[r] \in {"open", "commit"}
      /\ \A q \in Requests \ {r} :
             pc'[q] = pc[q] /\ step'[q] = step[q] /\ pending'[q] = pending[q]
      /\ pending'[r] = pending[r] \cup {NewEvent(r)}
    BY DEF Insert, NextPc, TypeOK
<1>2. LedgerTellsStatus'
    BY <1>1 DEF LedgerTellsStatus, Tells, EventsOf
<1>3. ASSUME NEW q \in Requests \ {r}, NEW c \in Challenges \ Allocated, lock[c] = q
      PROVE  IF pc'[q] \in {"tail", "insert"} /\ Target(q)' = c
               THEN image[c].state = Current(q).to' ELSE Tells(c, Visible(q)', image[c].state)
    <2>1. Visible(q)' = Visible(q)
        BY <1>1 DEF Visible
    <2> QED BY <1>1, <1>3, <2>1 DEF Agreement, Target, Current
<1>4. Visible(r)' = Visible(r) \cup {NewEvent(r)}
    BY <1>1 DEF Visible
<1>5. ASSUME NEW c \in Challenges \ Allocated, lock[c] = r
      PROVE  Tells(c, Visible(r)', image[c].state)
    <2>1. CASE c = Target(r)
        <3>1. image[c].state = Current(r).to
            BY <1>1, <1>5, <2>1 DEF Agreement
        <3>2. /\ NewEvent(r).entity = c /\ NewEvent(r).to = Current(r).to
              /\ \A event \in Visible(r) : event.seq < NewEvent(r).seq
            BY <2>1, InsertExtends DEF NewEvent
        <3>3. \A event \in Visible(r) : event.seq \in Nat
            BY DEF Visible, TypeOK, Event
        <3> QED BY <1>4, <3>1, <3>2, <3>3, InsertExtends DEF Tells, EventsOf, Event
    <2>2. CASE c # Target(r)
        <3>1. EventsOf(c, Visible(r)') = EventsOf(c, Visible(r))
            BY <1>4, <2>2 DEF EventsOf, NewEvent
        <3>2. Tells(c, Visible(r), image[c].state)
            BY <1>1, <1>5, <2>2 DEF Agreement
        <3> QED BY <3>1, <3>2 DEF Tells
    <2> QED BY <2>1, <2>2
<1>6. Agreement'
    BY <1>1, <1>3, <1>5 DEF Agreement, Tells, EventsOf
<1> QED BY <1>2, <1>6

(* A commit publishes the rows with the events that report them. *)
LEMMA TellsCommitStep ==
    ASSUME LedgerInv, LedgerTells, NEW r \in Requests, Commit(r)
    PROVE  LedgerTells'
<1> USE DEF LedgerInv, LedgerTells
<1>0. Challenges \subseteq Entities
    BY DEF Entities
<1>1. /\ ledger' = Visible(r) /\ pc[r] = "commit"
      /\ UNCHANGED <<image, plan, step>>
      /\ \A q \in Requests \ {r} : pc'[q] = pc[q] /\ pending'[q] = pending[q]
    BY DEF Commit, TypeOK, Visible
<1>2. LedgerTellsStatus'
    <2> SUFFICES ASSUME NEW c \in Challenges \ Allocated PROVE Tells(c, Visible(r), row'[c].state)
        BY <1>1 DEF LedgerTellsStatus, Tells, EventsOf
    <2>1. CASE lock[c] = r
        <3>1. row'[c] = image[c]
            BY <1>0, <2>1 DEF Commit
        <3> QED BY <1>1, <2>1, <3>1 DEF Agreement
    <2>2. CASE lock[c] # r
        <3>1. row'[c] = row[c]
            BY <1>0, <2>2 DEF Commit
        <3>2. EventsOf(c, Visible(r)) = EventsOf(c, ledger)
            BY <2>2, UnlockedEvents DEF EventsOf, Visible
        <3>3. Tells(c, ledger, row[c].state)
            BY DEF LedgerTellsStatus
        <3> QED BY <3>1, <3>2, <3>3 DEF Tells
    <2> QED BY <2>1, <2>2
<1>3. ASSUME NEW q \in Requests, NEW c \in Challenges \ Allocated, lock'[c] = q
      PROVE  IF pc'[q] \in {"tail", "insert"} /\ Target(q)' = c
               THEN image[c].state = Current(q).to' ELSE Tells(c, Visible(q)', image[c].state)
    <2>1. q # r /\ lock[c] = q
        BY <1>0, <1>3, NobodyAssumption DEF Commit
    <2>2. EventsOf(c, Visible(q)') = EventsOf(c, Visible(q))
        <3>1. Visible(q)' = Visible(q) \cup pending[r]
            BY <1>1, <2>1 DEF Visible
        <3> QED BY <2>1, <3>1, UnlockedEvents DEF EventsOf
    <2> QED BY <1>1, <2>1, <2>2 DEF Agreement, Target, Current, Tells
<1>4. Agreement'
    BY <1>1, <1>3 DEF Agreement, Tells, EventsOf
<1> QED BY <1>2, <1>4

LEMMA TellsStep == LedgerInv /\ LedgerTells /\ [Next]_vars => LedgerTells'
<1> SUFFICES ASSUME LedgerInv, LedgerTells, [Next]_vars PROVE LedgerTells'
    OBVIOUS
<1>1. ASSUME NEW r \in Requests, NEW p \in Plans, Submit(r, p) PROVE LedgerTells'
    BY <1>1, TellsQuietStep DEF Submit, LedgerInv, TypeOK
<1>2. ASSUME NEW r \in Requests, NEW e \in Entities, Load(r, e) PROVE LedgerTells'
    BY <1>2, TellsQuietStep DEF Load, LedgerInv, TypeOK
<1>3. ASSUME NEW r \in Requests, Skip(r) PROVE LedgerTells'
    BY <1>3, TellsQuietStep DEF Skip, NextPc, LedgerInv, TypeOK
<1>4. ASSUME NEW r \in Requests, NEW outcome, RollBack(r, outcome) PROVE LedgerTells'
    BY <1>4, TellsRollBackStep
<1>5. ASSUME NEW r \in Requests, Update(r) PROVE LedgerTells'
    BY <1>5, TellsUpdateStep
<1>6. ASSUME NEW r \in Requests, ReadTail(r) PROVE LedgerTells'
    BY <1>6, TellsQuietStep DEF ReadTail, LedgerInv, TypeOK
<1>7. ASSUME NEW r \in Requests, Insert(r) PROVE LedgerTells'
    BY <1>7, TellsInsertStep
<1>8. ASSUME NEW r \in Requests, Commit(r) PROVE LedgerTells'
    BY <1>8, TellsCommitStep
<1>9. CASE UNCHANGED vars
    BY <1>9 DEF vars, LedgerTells, LedgerTellsStatus, Agreement, Tells, EventsOf,
                Visible, Target, Current
<1> QED
    BY <1>1, <1>2, <1>3, <1>4, <1>5, <1>6, <1>7, <1>8, <1>9
    DEF Next, Serve, Refuse, UniqueViolation, Crash, DeadlockVictim, Terminating

-----------------------------------------------------------------------------
(* Theorems *)

LEMMA InitInvariant == Init => IInv
<1> SUFFICES ASSUME Init PROVE IInv
    OBVIOUS
<1> USE DEF Init
<1>1. TypeOK
    <2>1. row \in [Entities -> Row]
        BY RowsAssumption DEF Row
    <2>2. "SUBMITTED" \in State /\ Genesis \in Digest
        BY DEF State, ChallengeStatus, Genesis, Digest
    <2> QED BY <2>1, <2>2 DEF TypeOK
<1>2. \A r \in Requests : Visible(r) = {}
    BY DEF Visible
<1>3. Chained
    BY <1>2 DEF Chained, Unbroken, Numbered
<1>4. SoleWriter /\ Signed /\ TailRead /\ InPlan /\ ConflictHasWinner
    BY DEF SoleWriter, Signed, TailRead, InPlan, ConflictHasWinner
<1>5. Challenges \subseteq Entities
    BY DEF Entities
<1>6. Holders /\ Agreement
    BY <1>5, NobodyAssumption DEF Holders, Agreement
<1>7. LedgerTellsStatus
    BY DEF LedgerTellsStatus, Tells, EventsOf
<1> QED BY <1>1, <1>3, <1>4, <1>6, <1>7 DEF IInv

(* The inductive invariant holds for any set of requests, challenges and    *)
(* projects, and any operations that keep to PlanShape. *)
THEOREM Invariance == Spec => []IInv
<1>1. Init => IInv
    BY InitInvariant
<1>2. IInv /\ [Next]_vars => IInv'
    BY LedgerStep, ConflictStep, TellsStep DEF IInv, LedgerInv, LedgerTells
<1> QED BY <1>1, <1>2, PTL DEF Spec

(* The variables keep their types. *)
THEOREM TypeCorrectness == Spec => []TypeOK
<1>1. IInv => TypeOK
    BY DEF IInv
<1> QED BY <1>1, Invariance, PTL

(* verify_audit_chain succeeds on the committed ledger at every moment. *)
THEOREM LedgerIsUnbroken == Spec => []LedgerUnbroken
<1>1. IInv => LedgerUnbroken
    BY DEF IInv, Chained, LedgerUnbroken
<1> QED BY <1>1, Invariance, PTL

(* Replaying the ledger gives the committed status of each challenge none   *)
(* of whose allocations can be answered, whatever updates concurrent        *)
(* requests lose. *)
THEOREM LedgerGivesStatus == Spec => []LedgerTellsStatus
<1>1. IInv => LedgerTellsStatus
    BY DEF IInv
<1> QED BY <1>1, Invariance, PTL

(* A request that fails on a sequence number lost it to a committed one. *)
THEOREM ConflictsHaveWinners == Spec => []ConflictHasWinner
<1>1. IInv => ConflictHasWinner
    BY DEF IInv
<1> QED BY <1>1, Invariance, PTL

(* A commit appends the request's events to the ledger, once and after all  *)
(* others; nothing else touches it. *)
LEMMA CommitAppends ==
    ASSUME LedgerInv, LedgerParts', NEW r \in Requests, Commit(r)
    PROVE  Trail!Append(r) \/ UNCHANGED ledger
<1> USE DEF LedgerInv
<1>1. ledger' = ledger \cup pending[r]
    BY DEF Commit
<1>2. PICK n \in Nat : Numbers(ledger) = 1 .. n
    <2>1. ledger \in SUBSET Event /\ Numbered(ledger)
        BY DEF TypeOK, Chained
    <2> QED BY <2>1, TailNumber DEF Digest
<1>3. \A event \in pending[r] : event \notin ledger /\ event.by = r
        /\ \A old \in ledger : old.seq < event.seq
    <2>1. \A old \in ledger : old.seq \in 1 .. n
        BY <1>2 DEF Numbers
    <2> QED BY <1>2, <2>1, PendingIsNew DEF Signed
<1>4. \A event \in ledger : event.by # r
    BY DEF Signed, Commit
<1>5. Trail!Unbroken(ledger')
    BY DEF LedgerParts, Chained, Unbroken, Trail!Unbroken,
           Genesis, Trail!Genesis, EventHash, Trail!EventHash
<1>6. CASE pending[r] = {}
    BY <1>1, <1>6
<1>7. CASE pending[r] # {}
    BY <1>1, <1>3, <1>4, <1>5, <1>7 DEF Trail!Append
<1> QED BY <1>6, <1>7

(* The transactions implement the abstract audit trail. *)
THEOREM Refinement == Spec => ImplementsAuditTrail
<1>1. Init => Trail!Init
    BY DEF Init, Trail!Init
<1>2. IInv /\ IInv' /\ [Next]_vars => [Trail!Next]_ledger
    <2> SUFFICES ASSUME IInv, IInv', [Next]_vars PROVE Trail!Next \/ UNCHANGED ledger
        OBVIOUS
    <2>1. ASSUME NEW r \in Requests, Commit(r) PROVE Trail!Next \/ UNCHANGED ledger
        BY <2>1, CommitAppends DEF Trail!Next, IInv, LedgerInv, LedgerParts
    <2> QED
        BY <2>1 DEF vars, Next, Serve, Submit, Load, Skip, Refuse, Update, ReadTail, Insert,
            UniqueViolation, Crash, DeadlockVictim, RollBack, Terminating
<1> QED BY <1>1, <1>2, Invariance, PTL DEF Spec, ImplementsAuditTrail, Trail!Spec
=============================================================================
