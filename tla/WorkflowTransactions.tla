------------------------ MODULE WorkflowTransactions ------------------------
(***************************************************************************)
(* HTTP requests that run WorkflowService operations concurrently, each in *)
(* a database transaction of its own (PostgreSQL, READ COMMITTED,          *)
(* SessionLocal with autoflush off).                                       *)
(*                                                                         *)
(* An operation is a plan: the entities it moves, in the code's order.     *)
(* For each of them _check_and_increment_version compares the version the  *)
(* session loaded, the new state is written by the flush that opens        *)
(* _record_domain_event (this takes the row lock), and one event is        *)
(* appended to the hash-chained ledger, numbered after the last event the  *)
(* transaction sees.  The unique index on sequence_number makes a second   *)
(* writer of a number wait for the first, and fail when that one commits.  *)
(***************************************************************************)
EXTENDS Naturals, Sequences, ChallengeStateMachine, HashChain

CONSTANTS
    Requests,      \* HTTP requests, each of which runs once
    Challenges,    \* rows of table challenges
    Projects,      \* rows of table projects
    Stages,        \* values of projects.current_stage
    Allocated,     \* the challenges with an allocation that can be answered
    Plans,         \* the operations requests run, see PlanShape
    InitialState   \* the state of each row at the start

Entities == Challenges \cup Projects
State == ChallengeStatus \cup Stages

(* One entity an operation moves: the call, its target, and the states in  *)
(* which close_project_and_challenge skips it.                             *)
Item == [call : {"transition_challenge", "transition_project", "decline"},
         entity : Entities, to : State, skipIf : SUBSET State]

PlanShape(plan) ==
    /\ plan \in Seq(Item) /\ plan # << >>
    /\ \A i \in 1 .. Len(plan) :
        /\ plan[i].call = "transition_challenge" => plan[i].entity \in Challenges
        /\ plan[i].call = "transition_project" => plan[i].entity \in Projects
        /\ plan[i].call = "decline" =>
               plan[i].entity \in Allocated /\ plan[i].to = "VALIDATED"

ASSUME RowsAssumption ==
    /\ Challenges \cap Projects = {} /\ Allocated \subseteq Challenges
    /\ InitialState \in [Entities -> State]
ASSUME PlansAssumption == \A plan \in Plans : PlanShape(plan)
ASSUME NobodyAssumption == Nobody \notin Requests

VARIABLES
    row,       \* committed rows: state and version
    ledger,    \* committed rows of table domain_audit_events
    lock,      \* the request holding each row's lock
    pc,        \* where each request is
    plan,      \* its operation
    step,      \* the item of the plan it is at
    expected,  \* expected_version of its payload, 0 when absent
    mem,       \* its session's copy of each row, NotLoaded before the query
    image,     \* the row versions it has written and not committed
    pending,   \* the events it has inserted and not committed
    prior,     \* the previous_state it records next
    tail       \* hash and number of the last event it read

vars == <<row, ledger, lock, pc, plan, step, expected, mem, image, pending, prior, tail>>

-----------------------------------------------------------------------------
Row == [state : State, version : Nat]
NotLoaded == [state |-> "not loaded", version |-> 0]

Digest == [seq : Nat, by : Requests \cup {Nobody}]
Event == [seq : Nat, by : Requests, prev : Digest, entity : Entities,
          from : State, to : State]

(* Mutant: the transaction's own events are not flushed before it looks for *)
(* the last one. *)
Committed(r) == ledger

(* The events r's queries see. *)
Visible(r) == ledger \cup pending[r]

Current(r) == plan[r][step[r]]
Target(r) == Current(r).entity
Loaded(r) == mem[r][Target(r)] # NotLoaded
Skipped(r) == mem[r][Target(r)].state \in Current(r).skipIf
SameStatus(r) ==
    /\ Current(r).call = "transition_challenge"
    /\ mem[r][Target(r)].state = Current(r).to

(* Only the first call of an operation is given the client's version. *)
VersionMatches(r) ==
    step[r] = 1 => expected[r] \in {0, mem[r][Target(r)].version}

(* A transition outside the table is refused.  A status the challenge      *)
(* already has passes before the table is looked up; declining and moving  *)
(* a project consult no table.                                             *)
InTable(r) ==
    Current(r).call = "transition_challenge" =>
        SameStatus(r) \/ IsTransition(mem[r][Target(r)].state, Current(r).to)

Free(r, e) == lock[e] \in {r, Nobody}
NextPc(r) == IF step[r] < Len(plan[r]) THEN "open" ELSE "commit"

(* r's next statement is the UPDATE of its current entity. *)
Writes(r) ==
    pc[r] = "open" /\ Loaded(r) /\ ~Skipped(r) /\ VersionMatches(r) /\ InTable(r)

(* The requests r has to wait for before its next database statement. *)
WaitsFor(r) ==
    {q \in Requests \ {r} :
        \/ Writes(r) /\ lock[Target(r)] = q
        \/ pc[r] = "insert" /\ tail[r].seq + 1 \in Numbers(pending[q])}

TypeOK ==
    /\ row \in [Entities -> Row]
    /\ ledger \subseteq Event
    /\ lock \in [Entities -> Requests \cup {Nobody}]
    /\ pc \in [Requests -> {"new", "open", "tail", "insert", "commit",
                            "committed", "refused", "conflict", "aborted"}]
    /\ plan \in [Requests -> Plans \cup {<< >>}]
    /\ step \in [Requests -> Nat]
    /\ expected \in [Requests -> Nat]
    /\ mem \in [Requests -> [Entities -> Row \cup {NotLoaded}]]
    /\ image \in [Entities -> Row]
    /\ pending \in [Requests -> SUBSET Event]
    /\ prior \in [Requests -> State]
    /\ tail \in [Requests -> Digest]

Init ==
    /\ row = [e \in Entities |-> [state |-> InitialState[e], version |-> 1]]
    /\ ledger = {}
    /\ lock = [e \in Entities |-> Nobody]
    /\ pc = [r \in Requests |-> "new"]
    /\ plan = [r \in Requests |-> << >>]
    /\ step = [r \in Requests |-> 1]
    /\ expected = [r \in Requests |-> 0]
    /\ mem = [r \in Requests |-> [e \in Entities |-> NotLoaded]]
    /\ image = row
    /\ pending = [r \in Requests |-> {}]
    /\ prior = [r \in Requests |-> "SUBMITTED"]
    /\ tail = [r \in Requests |-> Genesis]

-----------------------------------------------------------------------------
(* A client that shows the current row sends a request, with the version   *)
(* it shows or without one. *)
Submit(r, p) ==
    /\ pc[r] = "new"
    /\ pc' = [pc EXCEPT ![r] = "open"]
    /\ plan' = [plan EXCEPT ![r] = p]
    /\ step' = [step EXCEPT ![r] = 1]
    /\ \E v \in {0, row[p[1].entity].version} : expected' = [expected EXCEPT ![r] = v]
    /\ UNCHANGED <<row, ledger, lock, mem, image, pending, prior, tail>>

(* db.query(...).first() on an entity of the operation: the session keeps  *)
(* the committed row it finds. *)
Load(r, e) ==
    /\ pc[r] = "open"
    /\ \E i \in step[r] .. Len(plan[r]) : plan[r][i].entity = e
    /\ mem[r][e] = NotLoaded
    /\ mem' = [mem EXCEPT ![r][e] = row[e]]
    /\ UNCHANGED <<row, ledger, lock, pc, plan, step, expected, image, pending, prior, tail>>

(* close_project_and_challenge passes over a challenge already there. *)
Skip(r) ==
    /\ pc[r] = "open" /\ Loaded(r) /\ Skipped(r)
    /\ pc' = [pc EXCEPT ![r] = NextPc(r)]
    /\ step' = [step EXCEPT ![r] = @ + 1]
    /\ UNCHANGED <<row, ledger, lock, plan, expected, mem, image, pending, prior, tail>>

(* Mutant: the session of a request that ends early is left open. *)
LeaveOpen(r, outcome) ==
    /\ pc' = [pc EXCEPT ![r] = outcome]
    /\ UNCHANGED <<row, ledger, lock, plan, step, expected, mem, image, pending, prior, tail>>

(* The end of a transaction that is not committed: the session is closed   *)
(* and the database forgets what it wrote. *)
RollBack(r, outcome) ==
    /\ pc' = [pc EXCEPT ![r] = outcome]
    /\ lock' = [e \in Entities |-> IF lock[e] = r THEN Nobody ELSE lock[e]]
    /\ pending' = [pending EXCEPT ![r] = {}]
    /\ UNCHANGED <<row, ledger, plan, step, expected, mem, image, prior, tail>>

(* 409 VERSION_CONFLICT, or 400 for a transition outside the table. *)
Refuse(r) ==
    /\ pc[r] = "open" /\ Loaded(r) /\ ~Skipped(r)
    /\ ~(VersionMatches(r) /\ InTable(r))
    /\ RollBack(r, "refused")

(* The flush: UPDATE takes the row lock, or waits for it, and sets the     *)
(* columns in which the session's object differs from what it loaded, so a *)
(* state set to the value it already had is not written.  A transition to  *)
(* the status the challenge has writes its version and records no event.   *)
Update(r) ==
    LET e == Target(r)
        old == mem[r][e]
        new == [state |-> Current(r).to, version |-> old.version + 1]
        stored == IF lock[e] = r THEN image[e] ELSE row[e]
    IN  /\ Writes(r)
        /\ Free(r, e)
        /\ lock' = [lock EXCEPT ![e] = r]
        /\ mem' = [mem EXCEPT ![r][e] = new]
        /\ image' = [image EXCEPT ![e] =
               IF new.state = old.state THEN [stored EXCEPT !.version = new.version] ELSE new]
        /\ IF SameStatus(r)
              THEN /\ pc' = [pc EXCEPT ![r] = NextPc(r)]
                   /\ step' = [step EXCEPT ![r] = @ + 1]
              ELSE pc' = [pc EXCEPT ![r] = "tail"] /\ UNCHANGED step
        /\ prior' = [prior EXCEPT ![r] =
               IF Current(r).call = "decline" THEN "UNIVERSITY_ASSIGNED" ELSE old.state]
        /\ UNCHANGED <<row, ledger, plan, expected, pending, tail>>

(* The last event, of those committed and of the transaction's own. *)
ReadTail(r) ==
    /\ pc[r] = "tail"
    /\ tail' = [tail EXCEPT ![r] = TailOf(Visible(r))]
    /\ pc' = [pc EXCEPT ![r] = "insert"]
    /\ UNCHANGED <<row, ledger, lock, plan, step, expected, mem, image, pending, prior>>

(* Mutant: an event does not name who caused it. *)
AnonymousEvent(r) ==
    [seq |-> tail[r].seq + 1, by |-> Nobody, prev |-> tail[r],
     entity |-> Target(r), from |-> prior[r], to |-> Current(r).to]

(* Mutant: the previous and the new state are passed in the wrong order. *)
SwappedEvent(r) ==
    [seq |-> tail[r].seq + 1, by |-> r, prev |-> tail[r],
     entity |-> Target(r), from |-> Current(r).to, to |-> prior[r]]

NewEvent(r) ==
    [seq |-> tail[r].seq + 1, by |-> r, prev |-> tail[r],
     entity |-> Target(r), from |-> prior[r], to |-> Current(r).to]

(* Mutant: each event is committed as it is recorded. *)
InsertCommitted(r) ==
    /\ pc[r] = "insert"
    /\ WaitsFor(r) = {}
    /\ tail[r].seq + 1 \notin Numbers(ledger)
    /\ ledger' = ledger \cup {NewEvent(r)}
    /\ pc' = [pc EXCEPT ![r] = NextPc(r)]
    /\ step' = [step EXCEPT ![r] = @ + 1]
    /\ UNCHANGED <<row, lock, plan, expected, mem, image, pending, prior, tail>>

(* INSERT: it waits while another transaction has inserted the number and  *)
(* is not over. *)
Insert(r) ==
    /\ pc[r] = "insert"
    /\ WaitsFor(r) = {}
    /\ tail[r].seq + 1 \notin Numbers(ledger)
    /\ pending' = [pending EXCEPT ![r] = @ \cup {NewEvent(r)}]
    /\ pc' = [pc EXCEPT ![r] = NextPc(r)]
    /\ step' = [step EXCEPT ![r] = @ + 1]
    /\ UNCHANGED <<row, ledger, lock, plan, expected, mem, image, prior, tail>>

(* Mutant: the number of an event that may still be rolled back is refused. *)
RefuseTaken(r) ==
    /\ pc[r] = "insert"
    /\ tail[r].seq + 1 \in Numbers(ledger \cup UNION {pending[q] : q \in Requests})
    /\ RollBack(r, "conflict")

(* The number was committed by another transaction: IntegrityError. *)
UniqueViolation(r) ==
    /\ pc[r] = "insert"
    /\ tail[r].seq + 1 \in Numbers(ledger)
    /\ RollBack(r, "conflict")

(* db.commit() of the endpoint. *)
Commit(r) ==
    /\ pc[r] = "commit"
    /\ row' = [e \in Entities |-> IF lock[e] = r THEN image[e] ELSE row[e]]
    /\ ledger' = ledger \cup pending[r]
    /\ pending' = [pending EXCEPT ![r] = {}]
    /\ lock' = [e \in Entities |-> IF lock[e] = r THEN Nobody ELSE lock[e]]
    /\ pc' = [pc EXCEPT ![r] = "committed"]
    /\ UNCHANGED <<plan, step, expected, mem, image, prior, tail>>

Running(r) == pc[r] \in {"open", "tail", "insert", "commit"}

(* The server process stops, or the connection is lost, before the commit. *)
Crash(r) == Running(r) /\ RollBack(r, "aborted")

(* The database ends one of the transactions that wait for each other. *)
DeadlockVictim(r) ==
    /\ \E circle \in SUBSET Requests :
           /\ r \in circle
           /\ \A q \in circle : WaitsFor(q) \cap circle # {}
    /\ RollBack(r, "aborted")

Serve(r) ==
    \/ \E e \in Entities : Load(r, e)
    \/ Skip(r) \/ Refuse(r) \/ Update(r)
    \/ ReadTail(r) \/ Insert(r) \/ UniqueViolation(r) \/ Commit(r)
    \/ DeadlockVictim(r)

Terminating == (\A r \in Requests : ~Running(r) /\ pc[r] # "new") /\ UNCHANGED vars

Next ==
    \/ \E r \in Requests : (\E p \in Plans : Submit(r, p)) \/ Serve(r) \/ Crash(r)
    \/ Terminating

Spec == Init /\ [][Next]_vars

(* A worker thread runs its request to the end; nothing makes it crash or a *)
(* client send one. *)
FairSpec == Spec /\ \A r \in Requests : WF_vars(Serve(r))

-----------------------------------------------------------------------------
(* Properties *)

(* The ledger passes verify_audit_chain whatever requests were interleaved, *)
(* crashed or refused: no number repeats, none is missing, and each event   *)
(* holds the hash of the one before it. *)
LedgerUnbroken == Unbroken(ledger)

(* Replaying the ledger gives the status of every challenge: the last event *)
(* of a challenge carries its committed status, although concurrent         *)
(* requests overwrite each other's.  Challenges whose allocation can be     *)
(* declined are left out: DeclineReverts shows why. *)
EventsOf(e, events) == {event \in events : event.entity = e}
Tells(e, events, state) ==
    \A event \in EventsOf(e, events) :
        event.to = state \/ \E later \in EventsOf(e, events) : later.seq > event.seq
LedgerTellsStatus ==
    \A c \in Challenges \ Allocated : Tells(c, ledger, row[c].state)

(* The ledger is an append-only audit trail to which every request adds its *)
(* events once, all of them or none. *)
Trail == INSTANCE AuditTrail WITH trail <- ledger, Writers <- Requests
ImplementsAuditTrail == Trail!Spec

(* A request that fails on a sequence number lost it to another request,    *)
(* whose event carries that number in the committed ledger: concurrent      *)
(* requests never all fail on a number. *)
ConflictHasWinner ==
    \A r \in Requests : pc[r] = "conflict" =>
        \E event \in ledger :
            event.seq = tail[r].seq + 1 /\ event.by # r /\ pc[event.by] = "committed"

(* Requests that lock rows in opposite orders, or wait for the number       *)
(* another has taken, all come to an end. *)
EveryRequestEnds == \A r \in Requests : pc[r] = "open" ~> ~Running(r)

(* README.md: every transition is validated against the state machine.      *)
(* What is committed to a challenge should then be a step of the table. *)
CommittedChangesFollowTable ==
    [][\A c \in Challenges :
          row'[c].state # row[c].state => IsTransition(row[c].state, row'[c].state)]_vars

(* respond_allocation: "Revert challenge to VALIDATED".  A committed        *)
(* decline should leave the challenge there. *)
DeclineReverts ==
    [][\A r \in Requests, c \in Challenges :
          (pc[r] = "commit" /\ pc'[r] = "committed" /\ plan[r][1].call = "decline"
              /\ plan[r][1].entity = c) => row'[c].state = "VALIDATED"]_vars

-----------------------------------------------------------------------------
(* The inductive invariant behind the safety properties. *)

(* Numbers without a gap. *)
Numbered(events) ==
    events = {} \/ \E last \in events : Numbers(events) = 1 .. last.seq

(* Committed events and every transaction's view of them form a chain. *)
Chained ==
    /\ Unbroken(ledger) /\ Numbered(ledger)
    /\ \A r \in Requests : Unbroken(Visible(r)) /\ Numbered(Visible(r))

(* The unique index lets one transaction at a time have uncommitted events. *)
SoleWriter ==
    \A r, q \in Requests : pending[r] # {} /\ pending[q] # {} => r = q

Signed ==
    /\ \A event \in ledger : pc[event.by] = "committed"
    /\ \A r \in Requests : \A event \in pending[r] :
           event.by = r /\ lock[event.entity] = r

Holders ==
    \A r \in Requests : ~Running(r) => pending[r] = {} /\ \A e \in Entities : lock[e] # r

(* What a transaction read last is still there; it is still the last event  *)
(* when the transaction has events of its own. *)
TailRead ==
    \A r \in Requests : pc[r] = "insert" =>
        /\ tail[r] = Genesis \/ \E event \in Visible(r) : tail[r] = EventHash(event)
        /\ pending[r] # {} => \A event \in Visible(r) : event.seq <= tail[r].seq

InPlan ==
    \A r \in Requests :
        /\ pc[r] \in {"open", "tail", "insert"} =>
               plan[r] \in Plans /\ step[r] \in 1 .. Len(plan[r])
        /\ pc[r] \in {"tail", "insert"} => lock[Target(r)] = r

(* Between the UPDATE and the INSERT of its event, the row is one event     *)
(* ahead of the transaction's view of the ledger. *)
Agreement ==
    \A r \in Requests, c \in Challenges \ Allocated : lock[c] = r =>
        IF pc[r] \in {"tail", "insert"} /\ Target(r) = c
          THEN image[c].state = Current(r).to
          ELSE Tells(c, Visible(r), image[c].state)

IInv ==
    /\ TypeOK /\ Chained /\ SoleWriter /\ Signed /\ Holders /\ TailRead /\ InPlan
    /\ LedgerTellsStatus /\ Agreement /\ ConflictHasWinner
=============================================================================
