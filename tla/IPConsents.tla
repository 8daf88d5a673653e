----------------------------- MODULE IPConsents -----------------------------
(***************************************************************************)
(* The intellectual property record of a project and the consents of its   *)
(* parties.  A party answers as often as it likes.                         *)
(***************************************************************************)
EXTENDS Requests

CONSTANTS
    Parties,   \* users the record may list
    Owner      \* the one who creates it

ASSUME PartiesAssumption == Owner \in Parties

VARIABLES
    ip,        \* status of the record
    consent,   \* status of each party's consent
    agreed     \* parties with an IP_CONSENT_ACCEPTED event, or the owner

ipVars == <<ip, consent, agreed>>

NotListed == "NOT_LISTED"
Answers == {"ACCEPTED", "REJECTED"}
NoRecord == "NONE"

(* What of the answer and of the verdict on the record is written. *)
ConsentRequest ==
    [op : {"answer"}, party : Parties, decision : Answers, writes : BOOLEAN,
     verdict : {"KEPT", "APPROVED", "REJECTED"}]

IPTypeOK ==
    /\ ip \in {NoRecord, "PENDING_CONSENT", "APPROVED", "REJECTED"}
    /\ consent \in [Parties -> Answers \cup {"PENDING", NotListed}]
    /\ agreed \subseteq Parties

IPInit ==
    /\ ip = NoRecord
    /\ consent = [p \in Parties |-> NotListed]
    /\ agreed = {}

Listed == {p \in Parties : consent[p] # NotListed}

(* One flush and one commit; the owner's consent is given with the record,  *)
(* and the record waits also when the owner is the only party. *)
CreateIPRecord(parties) ==
    /\ ip = NoRecord
    /\ ip' = "PENDING_CONSENT"
    /\ consent' = [p \in Parties |-> IF p = Owner THEN "ACCEPTED"
                                     ELSE IF p \in parties THEN "PENDING" ELSE NotListed]
    /\ agreed' = {Owner}
    /\ UNCHANGED session

(* Mutant: one more acceptance is enough. *)
VerdictOfOne(p, decision) == IF decision = "REJECTED" THEN "REJECTED" ELSE "APPROVED"

(* The other consents are read as they are committed. *)
Verdict(p, decision) ==
    IF decision = "REJECTED" THEN "REJECTED"
    ELSE IF \A q \in Listed \ {p} : consent[q] = "ACCEPTED" THEN "APPROVED"
    ELSE "KEPT"

RespondIPConsent(s, p, decision) ==
    /\ p \in Listed
    /\ Receive(s, [op |-> "answer", party |-> p, decision |-> decision,
                   writes |-> consent[p] # decision,
                   verdict |-> IF Verdict(p, decision) = ip THEN "KEPT" ELSE Verdict(p, decision)])
    /\ UNCHANGED ipVars

CommitConsent(s) ==
    LET r == session[s]
    IN  /\ Finish(s, "answer")
        /\ consent' = [consent EXCEPT ![r.party] = IF r.writes THEN r.decision ELSE @]
        /\ ip' = IF r.verdict = "KEPT" THEN ip ELSE r.verdict
        /\ agreed' = agreed \cup {p \in {r.party} : r.decision = "ACCEPTED"}

-----------------------------------------------------------------------------
(* Properties *)

(* An approved record has an acceptance of every party behind it, however   *)
(* the answers overlap; a rejection that commits in between does not show. *)
ApprovedByAll == ip = "APPROVED" => Listed \subseteq agreed
=============================================================================
