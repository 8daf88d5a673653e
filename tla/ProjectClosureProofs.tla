------------------------ MODULE ProjectClosureProofs ------------------------
(***************************************************************************)
(* Proofs about ProjectClosure and its FundingLedger, for any lines,       *)
(* parties, officials and sessions.  What a request has read is out of     *)
(* date when it commits; the proofs rest on the part of it that no step    *)
(* takes back (LedgerKept, IPKept, OutcomeKept): an acceptance, a receipt, *)
(* an approved milestone, a line no longer pending, a consent on record,   *)
(* a reviewer, a measured value.                                           *)
(***************************************************************************)
EXTENDS ProjectClosure, TLAPS

-----------------------------------------------------------------------------
(* The ledger *)

LedgerFacts ==
    /\ LedgerTypeOK
    /\ agreement.status \in Accepted => agreement.accepted
    /\ FundingFollowsAcceptance
    /\ ReleaseConditions

(* What a request of the ledger was told, and what stays of it. *)
LedgerKnown(r) ==
    /\ r.op \in {"offer", "agreement", "record", "fund"} => r \in LedgerRequest
    /\ r.op = "agreement" /\ r.to \in Accepted \ {"ACCEPTED"} => agreement.accepted
    /\ r.op = "record" => agreement.accepted
    /\ r.op = "fund" =>
           /\ Recorded(r.line) /\ r.to # "PENDING"
           /\ r.to = "RELEASED" =>
                  /\ r.receipt \/ funding[r.line].receipt
                  /\ r.line \in Linked => milestone # "OPEN"

LedgerKept ==
    /\ agreement.accepted => agreement'.accepted
    /\ milestone # "OPEN" => milestone' # "OPEN"
    /\ \A l \in Lines : Recorded(l) =>
           /\ funding'[l] # NoLine
           /\ funding[l].receipt => funding'[l].receipt
           /\ funding[l].state # "PENDING" => funding'[l].state # "PENDING"

LEMMA LedgerKeepsKnown ==
  ASSUME LedgerKept, NEW t \in Sessions, LedgerKnown(session[t]), session'[t] = session[t]
  PROVE  LedgerKnown(session[t])'
<1>1. session[t].op = "fund" => session[t].line \in Lines
  BY DEF LedgerKnown, LedgerRequest
<1> QED  BY <1>1 DEF LedgerKnown, LedgerKept, Recorded, NoLine

LEMMA LineOf ==
  ASSUME LedgerTypeOK, NEW l \in Lines, Recorded(l)
  PROVE  funding[l] \in Line
BY DEF LedgerTypeOK, Recorded

(* A request of the ledger knows what it was told. *)
LEMMA LedgerBegins ==
  ASSUME LedgerFacts, NEW s \in Sessions, LedgerRequests(s)
  PROVE  /\ \E r \in LedgerRequest : LedgerKnown(r) /\ session' = [session EXCEPT ![s] = r]
         /\ UNCHANGED ledgerVars
<1>1. CASE OfferCollaboration(s)
  <2> DEFINE r == [op |-> "offer"]
  <2>1. r \in LedgerRequest /\ LedgerKnown(r)
    BY DEF LedgerRequest, LedgerKnown
  <2> QED  BY <1>1, <2>1 DEF OfferCollaboration, Receive
<1>2. ASSUME NEW role \in LedgerRoles, NEW to \in AgreementStatus, NEW named \in BOOLEAN,
             ReviewCollaboration(s, role, to, named)
      PROVE  /\ \E r \in LedgerRequest : LedgerKnown(r) /\ session' = [session EXCEPT ![s] = r]
             /\ UNCHANGED ledgerVars
  <2> DEFINE r == [op |-> "agreement", to |-> to, mou |-> MouWritten(to, named)]
  <2>1. r \in LedgerRequest
    BY DEF LedgerRequest, MouWritten
  <2>2. <<agreement.status, to>> \in AgreementSteps
    BY <1>2 DEF ReviewCollaboration, MayReview
  <2>3. to \in Accepted \ {"ACCEPTED"} => agreement.status \in Accepted
    BY <2>2 DEF AgreementSteps, Accepted
  <2>4. LedgerKnown(r)
    BY <2>1, <2>3 DEF LedgerKnown, LedgerFacts
  <2> QED  BY <1>2, <2>1, <2>4 DEF ReviewCollaboration, Receive
<1>3. ASSUME NEW l \in Lines, CreateFundingRecord(s, l)
      PROVE  /\ \E r \in LedgerRequest : LedgerKnown(r) /\ session' = [session EXCEPT ![s] = r]
             /\ UNCHANGED ledgerVars
  <2> DEFINE r == [op |-> "record", line |-> l]
  <2>1. r \in LedgerRequest /\ LedgerKnown(r)
    BY <1>3 DEF LedgerRequest, LedgerKnown, CreateFundingRecord, LedgerFacts
  <2> QED  BY <1>3, <2>1 DEF CreateFundingRecord, Receive
<1>4. ASSUME NEW role \in LedgerRoles, NEW l \in Lines, ActOnFunding(s, role, l)
      PROVE  /\ \E r \in LedgerRequest : LedgerKnown(r) /\ session' = [session EXCEPT ![s] = r]
             /\ UNCHANGED ledgerVars
  <2>1. ASSUME NEW to \in HoldState, NEW approves \in BOOLEAN, NEW receipt \in BOOLEAN,
               Act(s, l, to, approves, receipt), Recorded(l), to # "PENDING",
               to = "RELEASED" => /\ receipt \/ funding[l].receipt
                                  /\ l \in Linked => milestone # "OPEN"
        PROVE  /\ \E r \in LedgerRequest : LedgerKnown(r) /\ session' = [session EXCEPT ![s] = r]
               /\ UNCHANGED ledgerVars
    <3> DEFINE r == [op |-> "fund", line |-> l, moves |-> funding[l].state # to, to |-> to,
                     approves |-> approves, receipt |-> receipt]
    <3>1. r \in LedgerRequest
      BY DEF LedgerRequest
    <3>2. LedgerKnown(r)
      BY <2>1, <3>1 DEF LedgerKnown
    <3> QED  BY <2>1, <3>1, <3>2 DEF Act, Receive
  <2>2. funding[l].state \in HoldState => Recorded(l)
    BY DEF Recorded, NoLine, HoldState
  <2>3. CASE Approve(s, role, l)
    BY <2>1, <2>2, <2>3 DEF Approve, HoldState
  <2>4. CASE Hold(s, role, l)
    BY <2>1, <2>4 DEF Hold, HoldState
  <2>5. ASSUME NEW receipt \in BOOLEAN, Release(s, role, l, receipt)
        PROVE  /\ \E r \in LedgerRequest : LedgerKnown(r) /\ session' = [session EXCEPT ![s] = r]
               /\ UNCHANGED ledgerVars
    BY <2>1, <2>2, <2>5 DEF Release, HoldState
  <2>6. CASE Reverse(s, role, l)
    BY <2>1, <2>2, <2>6 DEF Reverse, HoldState
  <2> QED  BY <1>4, <2>3, <2>4, <2>5, <2>6 DEF ActOnFunding
<1> QED  BY <1>1, <1>2, <1>3, <1>4 DEF LedgerRequests

(* What a request writes, although it was told it earlier. *)
LEMMA LedgerEnds ==
  ASSUME LedgerFacts, NEW s \in Sessions, LedgerKnown(session[s]), LedgerCommits(s)
  PROVE  LedgerFacts' /\ LedgerKept /\ session' = [session EXCEPT ![s] = Idle]
<1> DEFINE r == session[s]
<1>0. LedgerTypeOK
  BY DEF LedgerFacts
<1>1. CASE CommitOffer(s)
  <2>1. /\ agreement' = [agreement EXCEPT !.status = "OFFERED"]
        /\ UNCHANGED <<funding, milestone>> /\ session' = [session EXCEPT ![s] = Idle]
    BY <1>1 DEF CommitOffer, Finish
  <2>2. agreement' \in Agreement /\ agreement'.status = "OFFERED"
        /\ agreement'.accepted = agreement.accepted
    BY <1>0, <2>1 DEF LedgerTypeOK, Agreement, AgreementStatus
  <2>3. LedgerFacts'
    BY <2>1, <2>2 DEF LedgerFacts, LedgerTypeOK, Accepted, FundingFollowsAcceptance,
                      ReleaseConditions, Recorded
  <2> QED  BY <2>1, <2>2, <2>3 DEF LedgerKept, Recorded
<1>2. CASE CommitAgreement(s)
  <2>1. /\ r.op = "agreement" /\ UNCHANGED <<funding, milestone>>
        /\ session' = [session EXCEPT ![s] = Idle]
    BY <1>2 DEF CommitAgreement, Finish
  <2>2. r.to \in AgreementStatus /\ (r.to \in Accepted \ {"ACCEPTED"} => agreement.accepted)
    BY <2>1 DEF LedgerKnown, LedgerRequest
  <2>3. /\ agreement' \in Agreement /\ agreement'.status = r.to
        /\ agreement'.accepted = (agreement.accepted \/ r.to = "ACCEPTED")
    BY <1>0, <1>2, <2>2 DEF CommitAgreement, LedgerTypeOK, Agreement
  <2>4. LedgerFacts'
    BY <2>1, <2>2, <2>3 DEF LedgerFacts, LedgerTypeOK, FundingFollowsAcceptance,
                            ReleaseConditions, Recorded
  <2> QED  BY <2>1, <2>3, <2>4 DEF LedgerKept, Recorded
<1>3. CASE CommitRecord(s)
  <2> DEFINE line == [state |-> "PENDING", approved |-> FALSE, receipt |-> FALSE]
  <2>1. /\ r.op = "record" /\ ~Recorded(r.line) /\ UNCHANGED <<agreement, milestone>>
        /\ funding' = [funding EXCEPT ![r.line] = line]
        /\ session' = [session EXCEPT ![s] = Idle]
    BY <1>3 DEF CommitRecord, Finish
  <2>2. r.line \in Lines /\ agreement.accepted
    BY <2>1 DEF LedgerKnown, LedgerRequest
  <2>3. line \in Line /\ line # NoLine
    BY DEF Line, HoldState, NoLine
  <2>4. \A l \in Lines : funding'[l] = IF l = r.line THEN line ELSE funding[l]
    BY <1>0, <2>1 DEF LedgerTypeOK
  <2>5. LedgerTypeOK'
    BY <1>0, <2>1, <2>2, <2>3 DEF LedgerTypeOK
  <2>6. LedgerFacts'
    BY <2>1, <2>2, <2>4, <2>5 DEF LedgerFacts, FundingFollowsAcceptance, ReleaseConditions
  <2> QED  BY <2>1, <2>4, <2>6 DEF LedgerKept, Recorded
<1>4. CASE CommitFunding(s)
  <2> DEFINE line == [state |-> IF r.moves THEN r.to ELSE funding[r.line].state,
                      approved |-> funding[r.line].approved \/ r.approves,
                      receipt |-> funding[r.line].receipt \/ r.receipt]
  <2>1. /\ r.op = "fund" /\ UNCHANGED <<agreement, milestone>>
        /\ session' = [session EXCEPT ![s] = Idle]
    BY <1>4 DEF CommitFunding, Finish
  <2>2. /\ r.line \in Lines /\ r.moves \in BOOLEAN /\ r.to \in HoldState
        /\ r.approves \in BOOLEAN /\ r.receipt \in BOOLEAN
    BY <2>1 DEF LedgerKnown, LedgerRequest
  <2>3. /\ Recorded(r.line) /\ r.to # "PENDING"
        /\ r.to = "RELEASED" => /\ r.receipt \/ funding[r.line].receipt
                                /\ r.line \in Linked => milestone # "OPEN"
    BY <2>1 DEF LedgerKnown
  <2>4. funding' = [funding EXCEPT ![r.line] = line]
    BY <1>0, <1>4, <2>2 DEF CommitFunding, LedgerTypeOK
  <2>5. funding[r.line] \in Line
    BY <1>0, <2>2, <2>3, LineOf
  <2>6. line \in Line /\ line # NoLine
    BY <2>2, <2>5 DEF Line, NoLine
  <2>7. \A l \in Lines : funding'[l] = IF l = r.line THEN line ELSE funding[l]
    BY <1>0, <2>4 DEF LedgerTypeOK
  <2>8. LedgerTypeOK'
    BY <1>0, <2>1, <2>4, <2>6 DEF LedgerTypeOK
  <2>9. FundingFollowsAcceptance'
    BY <2>1, <2>3, <2>7 DEF LedgerFacts, FundingFollowsAcceptance, Recorded
  <2>10. ReleaseConditions'
    <3> SUFFICES ASSUME NEW l \in Lines, funding'[l].state = "RELEASED"
                 PROVE  funding'[l].receipt /\ (l \in Linked => milestone # "OPEN")
      BY <2>1 DEF ReleaseConditions
    <3>0. line.state = (IF r.moves THEN r.to ELSE funding[r.line].state)
          /\ line.receipt = (funding[r.line].receipt \/ r.receipt)
      OBVIOUS
    <3> HIDE DEF line
    <3>1. CASE l # r.line
      BY <2>7, <3>1 DEF LedgerFacts, ReleaseConditions
    <3>2. CASE l = r.line /\ r.moves
      BY <2>3, <2>7, <3>0, <3>2
    <3>3. CASE l = r.line /\ ~r.moves
      <4>1. funding[l].state = "RELEASED"
        BY <2>7, <3>0, <3>3
      <4> QED  BY <2>7, <3>0, <3>3, <4>1 DEF LedgerFacts, ReleaseConditions
    <3> QED  BY <2>2, <3>1, <3>2, <3>3
  <2>11. LedgerKept
    <3>1. (funding[r.line].receipt => line.receipt)
          /\ (funding[r.line].state # "PENDING" => line.state # "PENDING")
      BY <2>3
    <3> HIDE DEF line
    <3> QED  BY <2>1, <2>6, <2>7, <3>1 DEF LedgerKept, Recorded
  <2> QED  BY <2>1, <2>8, <2>9, <2>10, <2>11 DEF LedgerFacts
<1> QED  BY <1>1, <1>2, <1>3, <1>4 DEF LedgerCommits

LEMMA LedgerOneStep ==
  ASSUME LedgerFacts, LedgerUploads \/ MilestoneMoves
  PROVE  LedgerFacts' /\ LedgerKept /\ UNCHANGED session
<1>1. CASE UploadCollaborationMou
  <2>1. /\ agreement' \in Agreement /\ agreement'.status = agreement.status
        /\ agreement'.accepted = agreement.accepted /\ UNCHANGED <<funding, milestone, session>>
    BY <1>1 DEF UploadCollaborationMou, LedgerFacts, LedgerTypeOK, Agreement
  <2>2. LedgerFacts'
    BY <2>1 DEF LedgerFacts, LedgerTypeOK, FundingFollowsAcceptance, ReleaseConditions, Recorded
  <2> QED  BY <2>1, <2>2 DEF LedgerKept, Recorded
<1>2. ASSUME NEW k \in Lines, UploadFundingReceipt(k)
      PROVE  LedgerFacts' /\ LedgerKept /\ UNCHANGED session
  <2>1. UNCHANGED <<agreement, milestone, session>> /\ Recorded(k)
        /\ funding' = [funding EXCEPT ![k].receipt = TRUE]
    BY <1>2 DEF UploadFundingReceipt
  <2>2. LedgerTypeOK /\ funding[k] \in Line
    BY <2>1, LineOf DEF LedgerFacts
  <2>3. \A l \in Lines : l # k => funding'[l] = funding[l]
    BY <2>1, <2>2 DEF LedgerTypeOK
  <2>4. funding'[k] \in Line /\ funding'[k].receipt /\ funding'[k].state = funding[k].state
    BY <2>1, <2>2 DEF LedgerTypeOK, Line
  <2>5. funding'[k] # NoLine
    BY <2>4 DEF Line, NoLine, HoldState
  <2>6. LedgerTypeOK'
    <3>1. funding' = [l \in Lines |-> funding'[l]]
      BY <2>1, <2>2 DEF LedgerTypeOK
    <3> QED  BY <2>1, <2>2, <2>3, <2>4, <3>1 DEF LedgerTypeOK
  <2>7. LedgerFacts'
    BY <2>1, <2>3, <2>4, <2>6 DEF LedgerFacts, FundingFollowsAcceptance, ReleaseConditions, Recorded
  <2> QED  BY <2>1, <2>3, <2>4, <2>5, <2>7 DEF LedgerKept, Recorded
<1>3. CASE MilestoneMoves
  <2>1. milestone' \in {"APPROVED", "LEFT"} /\ UNCHANGED <<agreement, funding, session>>
    BY <1>3 DEF MilestoneMoves
  <2>2. LedgerFacts'
    BY <2>1 DEF LedgerFacts, LedgerTypeOK, FundingFollowsAcceptance, ReleaseConditions, Recorded
  <2> QED  BY <2>1, <2>2 DEF LedgerKept, Recorded
<1> QED  BY <1>1, <1>2, <1>3 DEF LedgerUploads

LEMMA LedgerStarts == LedgerInit => LedgerFacts
<1> SUFFICES ASSUME LedgerInit
             PROVE  LedgerFacts
  OBVIOUS
<1>1. InitialAgreement \in AgreementStatus \cup {NotOffered}
  BY FundingAssumption DEF Accepted, AgreementStatus
<1>2. agreement \in Agreement
  BY <1>1 DEF LedgerInit, Agreement
<1>3. agreement.status = InitialAgreement /\ agreement.accepted = (InitialAgreement # NotOffered)
  BY DEF LedgerInit
<1>4. agreement.status \in Accepted => agreement.accepted
  BY <1>3 DEF Accepted, NotOffered
<1>5. \A l \in Lines : funding[l] = NoLine /\ funding[l].state = "NONE"
  BY DEF LedgerInit, NoLine
<1> QED  BY <1>2, <1>4, <1>5 DEF LedgerInit, LedgerFacts, LedgerTypeOK, FundingFollowsAcceptance,
                                  ReleaseConditions, Recorded

LEMMA LedgerStays ==
  ASSUME LedgerFacts, UNCHANGED ledgerVars
  PROVE  LedgerFacts' /\ LedgerKept
BY DEF LedgerFacts, LedgerTypeOK, FundingFollowsAcceptance, ReleaseConditions, Recorded,
       LedgerKept, ledgerVars

-----------------------------------------------------------------------------
(* The ledger on its own *)

LedgerIInv == LedgerFacts /\ LedgerSessionsOK /\ \A s \in Sessions : LedgerKnown(session[s])

LEMMA LedgerNextIInv == LedgerIInv /\ [LedgerNext]_<<ledgerVars, session>> => LedgerIInv'
<1> SUFFICES ASSUME LedgerIInv, [LedgerNext]_<<ledgerVars, session>>
             PROVE  LedgerIInv'
  OBVIOUS
<1>1. ASSUME LedgerFacts', LedgerKept, LedgerSessionsOK',
             \A t \in Sessions : session'[t] = session[t] \/ LedgerKnown(session[t])'
      PROVE  LedgerIInv'
  BY <1>1, LedgerKeepsKnown DEF LedgerIInv
<1>2. ASSUME NEW s \in Sessions, LedgerFacts', LedgerKept, session' = [session EXCEPT ![s] = Idle]
      PROVE  LedgerIInv'
  <2>1. LedgerSessionsOK' /\ session'[s] = Idle
        /\ \A t \in Sessions : t # s => session'[t] = session[t]
    BY <1>2 DEF LedgerIInv, LedgerSessionsOK
  <2>2. LedgerKnown(session[s])'
    BY <2>1 DEF LedgerKnown, Idle
  <2> QED  BY <1>1, <1>2, <2>1, <2>2
<1>3. ASSUME NEW s \in Sessions, LedgerRequests(s)
      PROVE  LedgerIInv'
  <2>1. PICK r \in LedgerRequest : LedgerKnown(r) /\ session' = [session EXCEPT ![s] = r]
    BY <1>3, LedgerBegins DEF LedgerIInv
  <2>2. UNCHANGED ledgerVars
    BY <1>3, LedgerBegins DEF LedgerIInv
  <2>3. LedgerSessionsOK' /\ session'[s] = r
        /\ \A t \in Sessions : t # s => session'[t] = session[t]
    BY <2>1 DEF LedgerIInv, LedgerSessionsOK
  <2>4. LedgerKnown(session[s])'
    BY <2>1, <2>2, <2>3 DEF LedgerKnown, Recorded, ledgerVars
  <2> QED  BY <1>1, <2>2, <2>3, <2>4, LedgerStays DEF LedgerIInv
<1>4. ASSUME NEW s \in Sessions, LedgerCommits(s)
      PROVE  LedgerIInv'
  BY <1>2, <1>4, LedgerEnds DEF LedgerIInv
<1>5. CASE LedgerUploads \/ MilestoneMoves
  BY <1>1, <1>5, LedgerOneStep DEF LedgerIInv, LedgerSessionsOK
<1>6. ASSUME NEW s \in Sessions, RollBack(s), UNCHANGED ledgerVars
      PROVE  LedgerIInv'
  BY <1>2, <1>6, LedgerStays DEF RollBack, LedgerIInv
<1>7. CASE UNCHANGED <<ledgerVars, session>>
  BY <1>1, <1>7, LedgerStays DEF LedgerIInv, LedgerSessionsOK
<1> QED  BY <1>3, <1>4, <1>5, <1>6, <1>7 DEF LedgerNext

LEMMA LedgerInvariance == LedgerSpec => []LedgerIInv
<1>1. LedgerStart => LedgerIInv
  BY LedgerStarts DEF LedgerStart, NoRequests, LedgerIInv, LedgerSessionsOK, LedgerKnown, Idle
<1> QED  BY <1>1, LedgerNextIInv, PTL DEF LedgerSpec

(* create_funding_record looks at the agreement in one transaction and      *)
(* transition_agreement writes it in another, in any number at once: no     *)
(* line is recorded but under an agreement that was accepted. *)
THEOREM FundingAfterAcceptance == LedgerSpec => []FundingFollowsAcceptance
<1>1. LedgerIInv => FundingFollowsAcceptance
  BY DEF LedgerIInv, LedgerFacts
<1> QED  BY <1>1, LedgerInvariance, PTL

(* apply_funding_action asks for the receipt and the milestone of a release *)
(* before other actions on the line commit: a line that reads RELEASED has  *)
(* met both, whatever was written last. *)
THEOREM ReleasesConditional == LedgerSpec => []ReleaseConditions
<1>1. LedgerIInv => ReleaseConditions
  BY DEF LedgerIInv, LedgerFacts
<1> QED  BY <1>1, LedgerInvariance, PTL

-----------------------------------------------------------------------------
(* The consents *)

IPFacts ==
    /\ IPTypeOK /\ ApprovedByAll
    /\ ip = NoRecord => agreed = {} /\ Listed = {}
    /\ \A p \in Parties : consent[p] = "ACCEPTED" => p \in agreed

IPKnown(r) ==
    r.op = "answer" =>
        /\ r \in ConsentRequest
        /\ ip # NoRecord /\ r.party \in Listed
        /\ r.verdict = "APPROVED" => r.decision = "ACCEPTED" /\ Listed \ {r.party} \subseteq agreed

IPKept ==
    /\ agreed \subseteq agreed'
    /\ ip # NoRecord => ip' # NoRecord /\ UNCHANGED Listed

LEMMA IPKeepsKnown ==
  ASSUME IPKept, NEW t \in Sessions, IPKnown(session[t]), session'[t] = session[t]
  PROVE  IPKnown(session[t])'
BY DEF IPKnown, IPKept

LEMMA ConsentRecorded ==
  ASSUME IPFacts, NEW parties \in SUBSET Parties, CreateIPRecord(parties)
  PROVE  IPFacts' /\ IPKept /\ UNCHANGED session
<1>1. /\ ip = NoRecord /\ ip' = "PENDING_CONSENT" /\ agreed' = {Owner} /\ UNCHANGED session
      /\ consent' = [p \in Parties |-> IF p = Owner THEN "ACCEPTED"
                                       ELSE IF p \in parties THEN "PENDING" ELSE NotListed]
  BY DEF CreateIPRecord
<1>2. agreed = {} /\ ip' # NoRecord
  BY <1>1 DEF IPFacts, NoRecord
<1>3. consent' \in [Parties -> Answers \cup {"PENDING", NotListed}]
  BY <1>1 DEF Answers, NotListed
<1>4. \A p \in Parties : consent'[p] = "ACCEPTED" => p = Owner
  BY <1>1 DEF NotListed
<1>5. IPTypeOK'
  BY <1>1, <1>3, PartiesAssumption DEF IPTypeOK
<1>6. IPFacts'
  BY <1>1, <1>2, <1>4, <1>5 DEF IPFacts, ApprovedByAll
<1> QED  BY <1>1, <1>2, <1>6 DEF IPKept

LEMMA ConsentBegins ==
  ASSUME IPFacts, NEW s \in Sessions, NEW p \in Parties, NEW decision \in Answers,
         RespondIPConsent(s, p, decision)
  PROVE  /\ \E r \in ConsentRequest : IPKnown(r) /\ session' = [session EXCEPT ![s] = r]
         /\ UNCHANGED ipVars
<1> DEFINE verdict == IF Verdict(p, decision) = ip THEN "KEPT" ELSE Verdict(p, decision)
           r == [op |-> "answer", party |-> p, decision |-> decision,
                 writes |-> consent[p] # decision, verdict |-> verdict]
<1>1. p \in Listed /\ session' = [session EXCEPT ![s] = r] /\ UNCHANGED ipVars
  BY DEF RespondIPConsent, Receive
<1>2. verdict \in {"KEPT", "APPROVED", "REJECTED"}
  BY DEF Verdict
<1>3. ip # NoRecord
  BY <1>1 DEF IPFacts
<1>4. ASSUME verdict = "APPROVED"
      PROVE  decision = "ACCEPTED" /\ \A q \in Listed \ {p} : consent[q] = "ACCEPTED"
  BY <1>4 DEF Verdict, Answers
<1>5. verdict = "APPROVED" => decision = "ACCEPTED" /\ Listed \ {p} \subseteq agreed
  BY <1>4 DEF IPFacts, Listed
<1> HIDE DEF verdict
<1>6. r \in ConsentRequest
  BY <1>2 DEF ConsentRequest
<1>7. IPKnown(r)
  BY <1>1, <1>3, <1>5, <1>6 DEF IPKnown
<1> QED  BY <1>1, <1>6, <1>7

LEMMA ConsentEnds ==
  ASSUME IPFacts, NEW s \in Sessions, IPKnown(session[s]), CommitConsent(s)
  PROVE  IPFacts' /\ IPKept /\ session' = [session EXCEPT ![s] = Idle]
<1> DEFINE r == session[s]
           answer == IF r.writes THEN r.decision ELSE consent[r.party]
<1>1. /\ r.op = "answer" /\ session' = [session EXCEPT ![s] = Idle]
      /\ consent' = [consent EXCEPT ![r.party] = answer]
      /\ ip' = IF r.verdict = "KEPT" THEN ip ELSE r.verdict
      /\ agreed' = agreed \cup {p \in {r.party} : r.decision = "ACCEPTED"}
  <2>1. [consent EXCEPT ![r.party] = IF r.writes THEN r.decision ELSE @]
            = [consent EXCEPT ![r.party] = answer]
    OBVIOUS
  <2> QED  BY <2>1 DEF CommitConsent, Finish
<1>2. /\ r \in ConsentRequest /\ ip # NoRecord /\ r.party \in Listed
      /\ r.verdict = "APPROVED" => r.decision = "ACCEPTED" /\ Listed \ {r.party} \subseteq agreed
  BY <1>1 DEF IPKnown
<1>3. /\ r.party \in Parties /\ r.decision \in Answers /\ r.writes \in BOOLEAN
      /\ r.verdict \in {"KEPT", "APPROVED", "REJECTED"}
  BY <1>2 DEF ConsentRequest
<1>4. consent \in [Parties -> Answers \cup {"PENDING", NotListed}] /\ agreed \subseteq Parties
      /\ ip \in {NoRecord, "PENDING_CONSENT", "APPROVED", "REJECTED"}
  BY DEF IPFacts, IPTypeOK
<1>5. answer \in Answers \cup {"PENDING"}
      /\ (answer = "ACCEPTED" => r.party \in agreed \/ r.decision = "ACCEPTED")
  BY <1>2, <1>3, <1>4 DEF Listed, IPFacts
<1> HIDE DEF answer
<1>6. \A p \in Parties : consent'[p] = IF p = r.party THEN answer ELSE consent[p]
  BY <1>1, <1>4
<1>7. UNCHANGED Listed
  BY <1>2, <1>5, <1>6 DEF Listed, Answers, NotListed
<1>8. ip' # NoRecord
  BY <1>1, <1>2, <1>3 DEF NoRecord
<1>9. IPTypeOK'
  BY <1>1, <1>3, <1>4, <1>5 DEF IPTypeOK
<1>10. \A p \in Parties : consent'[p] = "ACCEPTED" => p \in agreed'
  BY <1>1, <1>5, <1>6 DEF IPFacts
<1>11. ApprovedByAll'
  <2>1. CASE r.verdict = "KEPT"
    BY <1>1, <1>7, <2>1 DEF IPFacts, ApprovedByAll
  <2>2. CASE r.verdict = "APPROVED"
    BY <1>1, <1>2, <1>7, <2>2 DEF ApprovedByAll
  <2>3. CASE r.verdict = "REJECTED"
    BY <1>1, <2>3 DEF ApprovedByAll
  <2> QED  BY <1>3, <2>1, <2>2, <2>3
<1>12. IPFacts'
  BY <1>8, <1>9, <1>10, <1>11 DEF IPFacts
<1> QED  BY <1>1, <1>7, <1>8, <1>12 DEF IPKept

LEMMA IPStays ==
  ASSUME IPFacts, UNCHANGED ipVars
  PROVE  IPFacts' /\ IPKept
BY DEF IPFacts, IPTypeOK, ApprovedByAll, Listed, IPKept, ipVars

-----------------------------------------------------------------------------
(* Verification and metric *)

Decided == verification # NoVerification
               /\ verification.reviewer \notin {NoOne, verification.inspector}
Measured == metric # NoMetric /\ metric.actual

OutcomeFacts == OutcomeTypeOK /\ (verification.status = "VERIFIED" => Decided)

OutcomeKnown(r) ==
    r.op = "inspect" =>
        /\ r \in ReviewRequest
        /\ verification # NoVerification /\ r.by # verification.inspector

OutcomeKept ==
    /\ verification # NoVerification =>
           verification' # NoVerification /\ verification'.inspector = verification.inspector
    /\ Decided => Decided'
    /\ Measured => Measured'

LEMMA OutcomeKeepsKnown ==
  ASSUME OutcomeKept, NEW t \in Sessions, OutcomeKnown(session[t]), session'[t] = session[t]
  PROVE  OutcomeKnown(session[t])'
BY DEF OutcomeKnown, OutcomeKept

LEMMA RecordsAreNot ==
  /\ \A v \in Verification : v # NoVerification
  /\ \A m \in Metric : m # NoMetric
BY DEF Verification, NoVerification, Metric, MetricStatus, NoMetric

LEMMA OutcomeWritten ==
  ASSUME OutcomeFacts, OutcomeWrites
  PROVE  OutcomeFacts' /\ OutcomeKept /\ UNCHANGED session
<1>1. ASSUME NEW inspector \in Officials, SubmitVerificationRecord(inspector)
      PROVE  OutcomeFacts' /\ OutcomeKept /\ UNCHANGED session
  <2> DEFINE row == [status |-> "SUBMITTED", inspector |-> inspector, reviewer |-> NoOne]
  <2>1. /\ verification = NoVerification /\ verification' = row /\ UNCHANGED <<metric, session>>
    BY <1>1 DEF SubmitVerificationRecord
  <2>2. row \in Verification /\ row.status # "VERIFIED"
    BY DEF Verification
  <2> HIDE DEF row
  <2> QED  BY <2>1, <2>2 DEF OutcomeFacts, OutcomeTypeOK, OutcomeKept, Decided, Measured
<1>2. ASSUME UNCHANGED <<verification, session>>, metric' \in Metric,
             Measured => metric'.actual
      PROVE  OutcomeFacts' /\ OutcomeKept /\ UNCHANGED session
  BY <1>2, RecordsAreNot DEF OutcomeFacts, OutcomeTypeOK, OutcomeKept, Decided, Measured
<1>3. CASE CreateOutcomeMetric
  BY <1>2, <1>3 DEF CreateOutcomeMetric, Metric, MetricStatus, Measured
<1>4. metric # NoMetric => metric \in Metric
  BY DEF OutcomeFacts, OutcomeTypeOK
<1>5. ASSUME NEW value \in BOOLEAN, NEW status \in MetricStatus, UpdateOutcomeMetric(value, status)
      PROVE  OutcomeFacts' /\ OutcomeKept /\ UNCHANGED session
  BY <1>2, <1>4, <1>5 DEF UpdateOutcomeMetric, Metric, Measured
<1>6. ASSUME NEW status \in MetricStatus, VerifyOutcomeMetric(status)
      PROVE  OutcomeFacts' /\ OutcomeKept /\ UNCHANGED session
  BY <1>2, <1>4, <1>6 DEF VerifyOutcomeMetric, Metric, Measured
<1> QED  BY <1>1, <1>3, <1>5, <1>6 DEF OutcomeWrites

LEMMA InspectionBegins ==
  ASSUME OutcomeFacts, NEW s \in Sessions, NEW by \in Officials, NEW to \in {"VERIFIED", "REJECTED"},
         ReviewVerification(s, by, to)
  PROVE  /\ \E r \in ReviewRequest : OutcomeKnown(r) /\ session' = [session EXCEPT ![s] = r]
         /\ UNCHANGED outcomeVars
<1> DEFINE r == [op |-> "inspect", to |-> to, by |-> by, moves |-> verification.status # to]
<1>1. r \in ReviewRequest
  BY DEF ReviewRequest
<1>2. OutcomeKnown(r)
  BY <1>1 DEF OutcomeKnown, ReviewVerification
<1> QED  BY <1>1, <1>2 DEF ReviewVerification, Receive

LEMMA InspectionEnds ==
  ASSUME OutcomeFacts, NEW s \in Sessions, OutcomeKnown(session[s]), CommitInspection(s)
  PROVE  OutcomeFacts' /\ OutcomeKept /\ session' = [session EXCEPT ![s] = Idle]
<1> DEFINE r == session[s]
<1>1. /\ r.op = "inspect" /\ UNCHANGED metric /\ session' = [session EXCEPT ![s] = Idle]
  BY DEF CommitInspection, Finish
<1>2. /\ r.to \in {"VERIFIED", "REJECTED"} /\ r.by \in Officials /\ r.moves \in BOOLEAN
      /\ verification # NoVerification /\ r.by # verification.inspector
  BY <1>1 DEF OutcomeKnown, ReviewRequest
<1>3. verification \in Verification
  BY <1>2 DEF OutcomeFacts, OutcomeTypeOK
<1>4. /\ verification' \in Verification /\ verification'.inspector = verification.inspector
      /\ verification'.reviewer = r.by
  BY <1>2, <1>3 DEF CommitInspection, Verification
<1>5. Decided'
  BY <1>2, <1>4, RecordsAreNot, OfficialsAssumption DEF Decided
<1> QED  BY <1>1, <1>4, <1>5, RecordsAreNot DEF OutcomeFacts, OutcomeTypeOK, OutcomeKept, Measured

LEMMA OutcomeStays ==
  ASSUME OutcomeFacts, UNCHANGED outcomeVars
  PROVE  OutcomeFacts' /\ OutcomeKept
BY DEF OutcomeFacts, OutcomeTypeOK, OutcomeKept, Decided, Measured, outcomeVars

-----------------------------------------------------------------------------
(* The closure *)

Rests(c) ==
    /\ Decided /\ Measured
    /\ c.parties \subseteq agreed
    /\ \A l \in c.lines : Recorded(l) /\ funding[l].state # "PENDING"

CloseKnown(r) == r.op = "close" => r.found \in Closure /\ r.moves \in BOOLEAN /\ Rests(r.found)

Known(r) == LedgerKnown(r) /\ IPKnown(r) /\ OutcomeKnown(r) /\ CloseKnown(r)

Facts == LedgerFacts /\ IPFacts /\ OutcomeFacts
Kept == LedgerKept /\ IPKept /\ OutcomeKept

IInv ==
    /\ TypeOK /\ Facts
    /\ \A s \in Sessions : Known(session[s])
    /\ \A c \in closures : Rests(c)

AnyRequest ==
    {Idle} \cup LedgerRequest \cup ConsentRequest \cup ReviewRequest \cup CloseRequest

LEMMA RestsStays ==
  ASSUME Kept, NEW c \in Closure, Rests(c)
  PROVE  Rests(c)'
BY DEF Kept, LedgerKept, IPKept, OutcomeKept, Rests, Closure, Recorded

LEMMA KnownStays ==
  ASSUME Kept, NEW t \in Sessions, Known(session[t]), session'[t] = session[t]
  PROVE  Known(session[t])'
<1>1. CloseKnown(session[t])'
  <2> SUFFICES ASSUME session[t].op = "close"
               PROVE  session[t].found \in Closure /\ session[t].moves \in BOOLEAN
                      /\ Rests(session[t].found)'
    BY DEF CloseKnown, Rests
  <2> DEFINE c == session[t].found
  <2>1. c \in Closure /\ session[t].moves \in BOOLEAN /\ Rests(c)
    BY DEF Known, CloseKnown
  <2>2. Decided' /\ Measured' /\ c.parties \subseteq agreed'
        /\ \A l \in c.lines : (Recorded(l))' /\ funding'[l].state # "PENDING"
    BY <2>1 DEF Kept, LedgerKept, IPKept, OutcomeKept, Rests, Closure, Recorded
  <2> QED  BY <2>1, <2>2 DEF Rests
<1> QED  BY <1>1, LedgerKeepsKnown, IPKeepsKnown, OutcomeKeepsKnown DEF Kept, Known

LEMMA IdleKnown == Idle \in AnyRequest /\ Known(Idle)
BY DEF Idle, AnyRequest, Known, LedgerKnown, IPKnown, OutcomeKnown, CloseKnown

(* A step of one request: the records are kept, and closures rest. *)
LEMMA SessionStep ==
  ASSUME IInv, NEW s \in Sessions, NEW r \in AnyRequest, session' = [session EXCEPT ![s] = r],
         Facts', Kept, Known(session[s])',
         stage' \in {"DEPLOYED", "CLOSED", "REOPENED"},
         \A c \in closures' : c \in closures \/ (c \in Closure /\ Rests(c)')
  PROVE  IInv'
<1>1. session \in [Sessions -> AnyRequest]
  BY DEF IInv, TypeOK, AnyRequest
<1>2. session' \in [Sessions -> AnyRequest] /\ \A t \in Sessions : t # s => session'[t] = session[t]
  BY <1>1
<1>3. \A c \in closures : c \in Closure /\ Rests(c)
  BY DEF IInv, TypeOK
<1>4. \A c \in closures' : c \in Closure /\ Rests(c)'
  BY <1>3, RestsStays
<1>5. TypeOK'
  BY <1>2, <1>4 DEF TypeOK, AnyRequest, Facts, LedgerFacts, IPFacts, OutcomeFacts
<1>6. \A t \in Sessions : Known(session[t])'
  BY <1>2, KnownStays DEF IInv
<1> QED  BY <1>4, <1>5, <1>6 DEF IInv

(* A step of no request. *)
LEMMA RecordStep ==
  ASSUME IInv, UNCHANGED <<session, closures>>, Facts', Kept,
         stage' \in {"DEPLOYED", "CLOSED", "REOPENED"}
  PROVE  IInv'
<1>1. \A c \in closures' : c \in Closure /\ Rests(c)'
  <2>1. \A c \in closures : c \in Closure /\ Rests(c)
    BY DEF IInv, TypeOK
  <2> QED  BY <2>1, RestsStays
<1>2. TypeOK'
  BY <1>1 DEF IInv, TypeOK, Facts, LedgerFacts, IPFacts, OutcomeFacts
<1>3. \A t \in Sessions : Known(session[t])'
  BY KnownStays DEF IInv
<1> QED  BY <1>1, <1>2, <1>3 DEF IInv

(* The records that a step leaves alone. *)
LEMMA Others ==
  ASSUME Facts
  PROVE  /\ UNCHANGED ledgerVars => LedgerFacts' /\ LedgerKept
         /\ UNCHANGED ipVars => IPFacts' /\ IPKept
         /\ UNCHANGED outcomeVars => OutcomeFacts' /\ OutcomeKept
BY LedgerStays, IPStays, OutcomeStays DEF Facts

(* A request that has been told something, and nothing else. *)
LEMMA Begins ==
  ASSUME IInv, NEW s \in Sessions, NEW r \in AnyRequest, Known(r),
         session' = [session EXCEPT ![s] = r], UNCHANGED <<recordVars, stage, closures>>
  PROVE  IInv'
<1>1. Facts' /\ Kept
  BY Others DEF IInv, Facts, Kept, recordVars
<1>2. session'[s] = r
  BY DEF IInv, TypeOK
<1>3. Known(session[s])'
  BY <1>2 DEF Known, LedgerKnown, IPKnown, OutcomeKnown, CloseKnown, Rests, Decided, Measured,
              Recorded, Listed, recordVars, ledgerVars, ipVars, outcomeVars
<1> QED  BY <1>1, <1>3, SessionStep DEF IInv, TypeOK

LEMMA Ends ==
  ASSUME IInv, NEW s \in Sessions, session' = [session EXCEPT ![s] = Idle], Facts', Kept,
         stage' \in {"DEPLOYED", "CLOSED", "REOPENED"},
         \A c \in closures' : c \in closures \/ (c \in Closure /\ Rests(c)')
  PROVE  IInv'
<1>1. session'[s] = Idle
  BY DEF IInv, TypeOK
<1>2. Known(session[s])'
  BY <1>1 DEF Known, LedgerKnown, IPKnown, OutcomeKnown, CloseKnown, Idle
<1> QED  BY <1>2, IdleKnown, SessionStep

-----------------------------------------------------------------------------
LEMMA LedgerStepIInv ==
  ASSUME IInv, LedgerStep
  PROVE  IInv'
<1>0. Desks \subseteq Sessions /\ UNCHANGED <<ipVars, outcomeVars, stage, closures>>
  BY ClosureAssumption DEF LedgerStep
<1>1. stage' \in {"DEPLOYED", "CLOSED", "REOPENED"}
  BY <1>0 DEF IInv, TypeOK
<1>2. ASSUME NEW s \in Desks, LedgerRequests(s)
      PROVE  IInv'
  <2>1. s \in Sessions /\ LedgerFacts
    BY <1>0 DEF IInv, Facts
  <2>2. PICK r \in LedgerRequest : LedgerKnown(r) /\ session' = [session EXCEPT ![s] = r]
    BY <1>2, <2>1, LedgerBegins
  <2>3. UNCHANGED ledgerVars
    BY <1>2, <2>1, LedgerBegins
  <2>4. r \in AnyRequest /\ Known(r)
    BY <2>2 DEF AnyRequest, Known, IPKnown, OutcomeKnown, CloseKnown, LedgerRequest
  <2> QED  BY <1>0, <2>1, <2>2, <2>3, <2>4, Begins DEF recordVars
<1>3. ASSUME NEW s \in Desks, LedgerCommits(s)
      PROVE  IInv'
  <2>1. s \in Sessions /\ LedgerFacts /\ LedgerKnown(session[s])
    BY <1>0 DEF IInv, Facts, Known
  <2>2. LedgerFacts' /\ LedgerKept /\ session' = [session EXCEPT ![s] = Idle]
    BY <1>3, <2>1, LedgerEnds
  <2>3. Facts' /\ Kept
    BY <1>0, <2>2, Others DEF IInv, Facts, Kept
  <2> QED  BY <1>0, <1>1, <2>1, <2>2, <2>3, Ends
<1>4. CASE LedgerUploads \/ MilestoneMoves
  <2>1. LedgerFacts' /\ LedgerKept /\ UNCHANGED session
    BY <1>4, LedgerOneStep DEF IInv, Facts
  <2>2. Facts' /\ Kept
    BY <1>0, <2>1, Others DEF IInv, Facts, Kept
  <2> QED  BY <1>0, <1>1, <2>1, <2>2, RecordStep
<1> QED  BY <1>2, <1>3, <1>4 DEF LedgerStep

LEMMA IPStepIInv ==
  ASSUME IInv, IPStep
  PROVE  IInv'
<1>0. Signers \subseteq Sessions /\ UNCHANGED <<ledgerVars, outcomeVars, stage, closures>>
  BY ClosureAssumption DEF IPStep
<1>1. stage' \in {"DEPLOYED", "CLOSED", "REOPENED"} /\ IPFacts
  BY <1>0 DEF IInv, TypeOK, Facts
<1>2. ASSUME NEW parties \in SUBSET Parties, CreateIPRecord(parties)
      PROVE  IInv'
  <2>1. IPFacts' /\ IPKept /\ UNCHANGED session
    BY <1>1, <1>2, ConsentRecorded
  <2>2. Facts' /\ Kept
    BY <1>0, <2>1, Others DEF IInv, Facts, Kept
  <2> QED  BY <1>0, <1>1, <2>1, <2>2, RecordStep
<1>3. ASSUME NEW s \in Signers, NEW p \in Parties, NEW decision \in Answers,
             RespondIPConsent(s, p, decision)
      PROVE  IInv'
  <2>1. PICK r \in ConsentRequest : IPKnown(r) /\ session' = [session EXCEPT ![s] = r]
    BY <1>0, <1>1, <1>3, ConsentBegins
  <2>2. UNCHANGED ipVars
    BY <1>0, <1>1, <1>3, ConsentBegins
  <2>3. r \in AnyRequest /\ Known(r)
    BY <2>1 DEF AnyRequest, Known, LedgerKnown, OutcomeKnown, CloseKnown, ConsentRequest
  <2> QED  BY <1>0, <2>1, <2>2, <2>3, Begins DEF recordVars
<1>4. ASSUME NEW s \in Signers, CommitConsent(s)
      PROVE  IInv'
  <2>1. s \in Sessions /\ IPKnown(session[s])
    BY <1>0 DEF IInv, Known
  <2>2. IPFacts' /\ IPKept /\ session' = [session EXCEPT ![s] = Idle]
    BY <1>1, <1>4, <2>1, ConsentEnds
  <2>3. Facts' /\ Kept
    BY <1>0, <2>2, Others DEF IInv, Facts, Kept
  <2> QED  BY <1>0, <1>1, <2>1, <2>2, <2>3, Ends
<1> QED  BY <1>2, <1>3, <1>4 DEF IPStep

LEMMA OutcomeStepIInv ==
  ASSUME IInv, OutcomeStep
  PROVE  IInv'
<1>0. Desks \subseteq Sessions /\ UNCHANGED <<ledgerVars, ipVars, stage, closures>>
  BY ClosureAssumption DEF OutcomeStep
<1>1. stage' \in {"DEPLOYED", "CLOSED", "REOPENED"} /\ OutcomeFacts
  BY <1>0 DEF IInv, TypeOK, Facts
<1>2. CASE OutcomeWrites
  <2>1. OutcomeFacts' /\ OutcomeKept /\ UNCHANGED session
    BY <1>1, <1>2, OutcomeWritten
  <2>2. Facts' /\ Kept
    BY <1>0, <2>1, Others DEF IInv, Facts, Kept
  <2> QED  BY <1>0, <1>1, <2>1, <2>2, RecordStep
<1>3. ASSUME NEW s \in Desks, NEW by \in Officials, NEW to \in {"VERIFIED", "REJECTED"},
             ReviewVerification(s, by, to)
      PROVE  IInv'
  <2>1. PICK r \in ReviewRequest : OutcomeKnown(r) /\ session' = [session EXCEPT ![s] = r]
    BY <1>0, <1>1, <1>3, InspectionBegins
  <2>2. UNCHANGED outcomeVars
    BY <1>0, <1>1, <1>3, InspectionBegins
  <2>3. r \in AnyRequest /\ Known(r)
    BY <2>1 DEF AnyRequest, Known, LedgerKnown, IPKnown, CloseKnown, ReviewRequest
  <2> QED  BY <1>0, <2>1, <2>2, <2>3, Begins DEF recordVars
<1>4. ASSUME NEW s \in Desks, CommitInspection(s)
      PROVE  IInv'
  <2>1. s \in Sessions /\ OutcomeKnown(session[s])
    BY <1>0 DEF IInv, Known
  <2>2. OutcomeFacts' /\ OutcomeKept /\ session' = [session EXCEPT ![s] = Idle]
    BY <1>1, <1>4, <2>1, InspectionEnds
  <2>3. Facts' /\ Kept
    BY <1>0, <2>2, Others DEF IInv, Facts, Kept
  <2> QED  BY <1>0, <1>1, <2>1, <2>2, <2>3, Ends
<1> QED  BY <1>2, <1>3, <1>4 DEF OutcomeStep

(* What the gate finds is what a closure rests on. *)
LEMMA GateRests ==
  ASSUME Facts, GateOpen
  PROVE  Found \in Closure /\ Rests(Found)
<1>1. Found \in Closure
  BY DEF Found, Closure, Listed
<1>2. Decided /\ Measured
  BY DEF Facts, OutcomeFacts, GateOpen, FieldVerified, MetricsComplete, Measured
<1>3. Listed \subseteq agreed
  BY DEF Facts, IPFacts, GateOpen, IPCleared, Listed
<1>4. \A l \in Lines : funding[l].state # "PENDING"
  BY DEF GateOpen, FundingSettled
<1> QED  BY <1>1, <1>2, <1>3, <1>4 DEF Rests, Found

LEMMA ClosureStepIInv ==
  ASSUME IInv, ClosureStep
  PROVE  IInv'
<1>0. Closers \subseteq Sessions /\ Facts /\ stage \in {"DEPLOYED", "CLOSED", "REOPENED"}
      /\ closures \subseteq Closure
  BY ClosureAssumption DEF IInv, TypeOK
<1>1. ASSUME NEW s \in Closers, CloseProject(s)
      PROVE  IInv'
  <2> DEFINE r == [op |-> "close", found |-> Found, moves |-> stage = "DEPLOYED"]
  <2>1. GateOpen /\ session' = [session EXCEPT ![s] = r] /\ UNCHANGED <<recordVars, stage, closures>>
    BY <1>1 DEF CloseProject, Receive
  <2>2. Found \in Closure /\ Rests(Found)
    BY <1>0, <2>1, GateRests
  <2>3. r \in AnyRequest /\ Known(r)
    BY <2>2 DEF AnyRequest, CloseRequest, Known, LedgerKnown, IPKnown, OutcomeKnown, CloseKnown
  <2> HIDE DEF r
  <2> QED  BY <1>0, <2>1, <2>3, Begins
<1>2. ASSUME NEW s \in Closers, EscalateRegression(s)
      PROVE  IInv'
  <2> DEFINE r == [op |-> "regress"]
  <2>1. r \in AnyRequest /\ Known(r)
    BY DEF AnyRequest, CloseRequest, Known, LedgerKnown, IPKnown, OutcomeKnown, CloseKnown
  <2>2. session' = [session EXCEPT ![s] = r] /\ UNCHANGED <<recordVars, stage, closures>>
    BY <1>2 DEF EscalateRegression, Receive
  <2> HIDE DEF r
  <2> QED  BY <1>0, <2>1, <2>2, Begins
<1>3. UNCHANGED recordVars => Facts' /\ Kept
  BY <1>0, Others DEF Facts, Kept, recordVars
<1>4. ASSUME NEW s \in Closers, CommitClosure(s)
      PROVE  IInv'
  <2> DEFINE c == session[s].found
  <2>1. /\ session[s].op = "close" /\ session' = [session EXCEPT ![s] = Idle]
        /\ closures' = closures \cup {c} /\ UNCHANGED recordVars
        /\ stage' \in {"CLOSED", stage}
    BY <1>4 DEF CommitClosure, Finish
  <2>2. c \in Closure /\ Rests(c)
    BY <1>0, <2>1 DEF IInv, Known, CloseKnown
  <2>3. \A d \in closures : d \in Closure /\ Rests(d)
    BY <1>0 DEF IInv
  <2>4. \A d \in Closure : Rests(d) => Rests(d)'
    BY <1>3, <2>1, RestsStays
  <2>5. \A d \in closures' : d \in closures \/ (d \in Closure /\ Rests(d)')
    <3> SUFFICES ASSUME NEW d \in closures', d \notin closures
                 PROVE  d \in Closure /\ Rests(d)'
      OBVIOUS
    <3>1. d \in Closure /\ Rests(d)
      BY <2>1, <2>2
    <3> QED  BY <2>4, <3>1
  <2> QED  BY <1>0, <1>3, <2>1, <2>5, Ends
<1>5. ASSUME NEW s \in Closers, CommitRegression(s)
      PROVE  IInv'
  BY <1>0, <1>3, <1>5, Ends DEF CommitRegression, Finish
<1>6. CASE Redeploy
  BY <1>0, <1>3, <1>6, RecordStep DEF Redeploy
<1> QED  BY <1>1, <1>2, <1>4, <1>5, <1>6 DEF ClosureStep

LEMMA NextIInv == IInv /\ [Next]_vars => IInv'
<1> SUFFICES ASSUME IInv, [Next]_vars
             PROVE  IInv'
  OBVIOUS
<1>1. CASE LedgerStep \/ IPStep \/ OutcomeStep \/ ClosureStep
  BY <1>1, LedgerStepIInv, IPStepIInv, OutcomeStepIInv, ClosureStepIInv
<1>2. UNCHANGED recordVars => Facts' /\ Kept
  BY Others DEF IInv, Facts, Kept, recordVars
<1>3. CASE Abort
  BY <1>2, <1>3, Ends DEF Abort, RollBack, IInv, TypeOK
<1>4. CASE UNCHANGED vars
  BY <1>2, <1>4, RecordStep DEF vars, IInv, TypeOK
<1> QED  BY <1>1, <1>3, <1>4 DEF Next

LEMMA InitIInv == Init => IInv
<1> SUFFICES ASSUME Init
             PROVE  IInv
  OBVIOUS
<1>1. LedgerFacts
  BY LedgerStarts DEF Init
<1>2. IPFacts
  BY DEF Init, IPInit, IPFacts, IPTypeOK, ApprovedByAll, Listed, NotListed, NoRecord, Answers
<1>3. OutcomeFacts
  BY DEF Init, OutcomeInit, OutcomeFacts, OutcomeTypeOK, NoVerification
<1>4. \A s \in Sessions : session[s] = Idle
  BY DEF Init, NoRequests
<1>5. \A s \in Sessions : Known(session[s])
  BY <1>4, IdleKnown
<1>6. TypeOK
  BY <1>1, <1>2, <1>3 DEF Init, TypeOK, NoRequests, LedgerFacts, IPFacts, OutcomeFacts
<1> QED  BY <1>1, <1>2, <1>3, <1>5, <1>6 DEF IInv, Facts, Init

LEMMA Invariance == Spec => []IInv
BY InitIInv, NextIInv, PTL DEF Spec

(* The records, the closures and what every request has still to write stay *)
(* of their types, whichever requests overlap. *)
THEOREM TypeCorrectness == Spec => []TypeOK
<1>1. IInv => TypeOK
  BY DEF IInv
<1> QED  BY <1>1, Invariance, PTL

(* The closure of close_project commits on what evaluate_closure_-          *)
(* preconditions has read before: whatever the desks write in between and   *)
(* afterwards, it rests on a decided verification, a measured value, the    *)
(* acceptance of every party and lines that are not pending. *)
THEOREM ClosuresRest == Spec => []ClosureRests
<1>1. IInv => ClosureRests
  BY DEF IInv, Rests, ClosureRests, Decided, Measured
<1> QED  BY <1>1, Invariance, PTL

(* respond_ip_consent reads the other consents before it commits its own:   *)
(* with any number of parties that answer at once, an approved record has   *)
(* an acceptance of each behind it. *)
THEOREM ConsentsComplete == Spec => []ApprovedByAll
<1>1. IInv => ApprovedByAll
  BY DEF IInv, Facts, IPFacts
<1> QED  BY <1>1, Invariance, PTL
=============================================================================
