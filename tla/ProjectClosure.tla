--------------------------- MODULE ProjectClosure ---------------------------
(***************************************************************************)
(* The accountable closure of a project, with the records its gate reads:  *)
(* FundingLedger, IPConsents and OutcomeRecords, whose requests go on      *)
(* between the evaluation of the gate and the commit of the closure.       *)
(*                                                                         *)
(* The conditions about the proposal, the plan and its evidence are those  *)
(* of SolutionProposals and ProjectMilestones; the milestone of the ledger *)
(* stands for them here.  The endpoint asks for a maintenance plan that    *)
(* satisfies the ninth.  How the closure moves project and challenge along *)
(* their tables is in ChallengeWorkflow and WorkflowTransactions.          *)
(***************************************************************************)
EXTENDS FundingLedger, IPConsents, OutcomeRecords

CONSTANTS
    Desks,     \* sessions that work on the ledger, the verification, the metric
    Signers,   \* sessions that answer for a party
    Closers    \* sessions that close the project or report a regression

ASSUME ClosureAssumption ==
    /\ Sessions = Desks \cup Signers \cup Closers
    /\ Desks \cap Closers = {} /\ Signers \cap (Desks \cup Closers) = {}

VARIABLES
    stage,      \* of project and challenge: DEPLOYED, CLOSED, REOPENED
    closures    \* project_closure_records

recordVars == <<ledgerVars, ipVars, outcomeVars>>
vars == <<recordVars, stage, closures, session>>

(* The snapshot of the evaluation: the lines and the parties it found. *)
Closure == [lines : SUBSET Lines, parties : SUBSET Parties]

CloseRequest ==
    [op : {"close"}, found : Closure, moves : BOOLEAN] \cup [op : {"regress"}]

TypeOK ==
    /\ LedgerTypeOK /\ IPTypeOK /\ OutcomeTypeOK
    /\ stage \in {"DEPLOYED", "CLOSED", "REOPENED"}
    /\ closures \subseteq Closure
    /\ session \in [Sessions -> {Idle} \cup LedgerRequest \cup ConsentRequest
                                  \cup ReviewRequest \cup CloseRequest]

Init ==
    /\ LedgerInit /\ IPInit /\ OutcomeInit
    /\ stage = "DEPLOYED"
    /\ closures = {}
    /\ NoRequests

-----------------------------------------------------------------------------
(* evaluate_closure_preconditions *)

PlanComplete == milestone = "APPROVED"

(* Mutant: lines that are still pending do not count. *)
FundingIgnored == TRUE

(* Only pending lines count: held and reversed ones are settled. *)
FundingSettled == \A l \in Lines : funding[l].state # "PENDING"

FieldVerified == verification.status = "VERIFIED"

MetricsComplete ==
    /\ metric # NoMetric
    /\ metric.actual /\ metric.status = "MEASURED"

IPCleared == \A p \in Listed : consent[p] = "ACCEPTED"

GateOpen == PlanComplete /\ FundingSettled /\ FieldVerified /\ MetricsComplete /\ IPCleared

Found == [lines |-> {l \in Lines : Recorded(l)}, parties |-> Listed]

(* close_project: a challenge that is closed stays where it is, and so does *)
(* the project; the record is written all the same, whatever decision the   *)
(* request names. *)
CloseProject(s) ==
    /\ stage \in {"DEPLOYED", "CLOSED"}
    /\ GateOpen
    /\ Receive(s, [op |-> "close", found |-> Found, moves |-> stage = "DEPLOYED"])
    /\ UNCHANGED <<recordVars, stage, closures>>

CommitClosure(s) ==
    /\ Finish(s, "close")
    /\ closures' = closures \cup {session[s].found}
    /\ stage' = IF session[s].moves THEN "CLOSED" ELSE stage
    /\ UNCHANGED recordVars

EscalateRegression(s) ==
    /\ stage = "CLOSED"
    /\ Receive(s, [op |-> "regress"])
    /\ UNCHANGED <<recordVars, stage, closures>>

CommitRegression(s) ==
    /\ Finish(s, "regress")
    /\ stage' = "REOPENED"
    /\ UNCHANGED <<recordVars, closures>>

(* The way back through validation to deployment. *)
Redeploy ==
    /\ stage = "REOPENED"
    /\ stage' = "DEPLOYED"
    /\ UNCHANGED <<recordVars, closures, session>>

-----------------------------------------------------------------------------
LedgerStep ==
    /\ \/ \E s \in Desks : session[s] = Idle /\ LedgerRequests(s)
       \/ \E s \in Desks : LedgerCommits(s)
       \/ LedgerUploads \/ MilestoneMoves
    /\ UNCHANGED <<ipVars, outcomeVars, stage, closures>>

IPStep ==
    /\ \/ \E parties \in SUBSET Parties : CreateIPRecord(parties)
       \/ \E s \in Signers, p \in Parties, decision \in Answers :
              session[s] = Idle /\ RespondIPConsent(s, p, decision)
       \/ \E s \in Signers : CommitConsent(s)
    /\ UNCHANGED <<ledgerVars, outcomeVars, stage, closures>>

OutcomeStep ==
    /\ \/ OutcomeWrites
       \/ \E s \in Desks, by \in Officials, to \in {"VERIFIED", "REJECTED"} :
              session[s] = Idle /\ ReviewVerification(s, by, to)
       \/ \E s \in Desks : CommitInspection(s)
    /\ UNCHANGED <<ledgerVars, ipVars, stage, closures>>

ClosureStep ==
    \/ \E s \in Closers : session[s] = Idle /\ (CloseProject(s) \/ EscalateRegression(s))
    \/ \E s \in Closers : CommitClosure(s) \/ CommitRegression(s)
    \/ Redeploy

Abort == \E s \in Sessions : RollBack(s) /\ UNCHANGED <<recordVars, stage, closures>>

Next == LedgerStep \/ IPStep \/ OutcomeStep \/ ClosureStep \/ Abort

Spec == Init /\ [][Next]_vars

-----------------------------------------------------------------------------
(* Properties *)

(* Whatever is written between the evaluation and the commit, and ever      *)
(* after, a closure rests on a verification that somebody other than its    *)
(* inspector has decided, on a measured value, on an acceptance of every    *)
(* party it found, and on no line it found pending. *)
ClosureRests ==
    \A c \in closures :
        /\ verification.reviewer \notin {NoOne, verification.inspector}
        /\ metric.actual
        /\ c.parties \subseteq agreed
        /\ \A l \in c.lines : funding[l].state # "PENDING"

(* impact.py: "Prevent conflict of interest: project team cannot            *)
(* self-verify metrics".  The team's update sets a status the gate accepts, *)
(* and the project is closed on it. *)
MetricsVerifiedByOthers == stage = "CLOSED" => metric.verified
=============================================================================
