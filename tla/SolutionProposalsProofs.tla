----------------------- MODULE SolutionProposalsProofs -----------------------
(***************************************************************************)
(* Proofs about SolutionProposals, for any number of versions and of       *)
(* sessions that review and write at once.  A commit may overwrite what    *)
(* another has decided, so SignedOff is not inductive: PendingSigned says  *)
(* that a decision on its way already has the signatures it needs, and     *)
(* they are never taken back.                                              *)
(***************************************************************************)
EXTENDS SolutionProposals, TLAPS

AfterHEI == {"GOVERNMENT_REVIEWED", "INDUSTRY_FEEDBACK", "APPROVED"}

(* A review that has checked a version and not yet committed. *)
PendingSigned ==
    \A s \in Sessions :
        session[s].op = "review" =>
            LET i == session[s].proposal
            IN  /\ i \in DOMAIN proposals
                /\ session[s].to \in AfterHEI => proposals[i].hei
                /\ session[s].to \in {"INDUSTRY_FEEDBACK", "APPROVED"} => proposals[i].government

IInv == TypeOK /\ PendingSigned /\ SignedOff /\ ApprovalsSigned

(* A submission on its way has the number after that of the version it      *)
(* loaded, which is there for good. *)
SubmissionsNumbered ==
    \A s \in Sessions :
        session[s].op = "propose" /\ session[s].prior # NoPrior =>
            /\ session[s].prior \in DOMAIN proposals
            /\ session[s].version = proposals[session[s].prior].version + 1

NumberInv == IInv /\ SubmissionsNumbered /\ SupersededByLater

(* As long as no submissions overlapped, the one on its way supersedes the  *)
(* newest version, whatever has been reviewed since it was loaded. *)
SubmissionsFollow ==
    \A s \in Sessions :
        session[s].op = "propose" =>
            /\ s \in Authors
            /\ session[s].prior = Len(proposals)
            /\ session[s].version = Len(proposals) + 1

VersionInv == TypeOK /\ PendingSigned /\ OneCurrent /\ SubmissionsFollow

(* The table lets no version past the institution or the government. *)
LEMMA RulesSigned ==
  ASSUME NEW role, NEW from, NEW to, MayTransition(role, from, to)
  PROVE  /\ to = "GOVERNMENT_REVIEWED" => from = "HEI_APPROVED"
         /\ to = "INDUSTRY_FEEDBACK" => from = "GOVERNMENT_REVIEWED"
         /\ to = "APPROVED" => from \in {"GOVERNMENT_REVIEWED", "INDUSTRY_FEEDBACK"}
         /\ to # "DRAFT"
<1>1. PICK rule \in ProposalRules : from \in rule.from /\ to \in rule.to
  BY DEF MayTransition
<1> QED  BY <1>1 DEF ProposalRules, Rule, Team

(* Signatures that stay. *)
Grows(rows) ==
    /\ rows \in Seq(Proposal) /\ Len(rows) <= MaxProposals
    /\ \A i \in DOMAIN proposals : /\ i \in DOMAIN rows
                                   /\ proposals[i].hei => rows[i].hei
                                   /\ proposals[i].government => rows[i].government

(* A request begins. *)
LEMMA BeginStep ==
  ASSUME IInv, NEW s \in Sessions, NEW request \in Request, Begin(s, request),
         request.op = "review" =>
            /\ request.proposal \in DOMAIN proposals
            /\ request.to \in AfterHEI => proposals[request.proposal].hei
            /\ request.to \in {"INDUSTRY_FEEDBACK", "APPROVED"}
                  => proposals[request.proposal].government
  PROVE  IInv'
<1>1. session' = [session EXCEPT ![s] = request] /\ UNCHANGED <<proposals, challenge, overlapped>>
  BY DEF Begin
<1>2. TypeOK'
  BY <1>1 DEF IInv, TypeOK
<1>3. \A t \in Sessions : session'[t] = IF t = s THEN request ELSE session[t]
  BY <1>1 DEF IInv, TypeOK
<1>4. PendingSigned'
  BY <1>1, <1>3 DEF IInv, PendingSigned
<1> QED  BY <1>1, <1>2, <1>4 DEF IInv, SignedOff, ApprovalsSigned

(* A request ends. *)
LEMMA EndStep ==
  ASSUME IInv, NEW s \in Sessions, session' = [session EXCEPT ![s] = Idle],
         Grows(proposals'), challenge' \in Stage, overlapped' \in BOOLEAN,
         SignedOff', ApprovalsSigned'
  PROVE  IInv'
<1>1. TypeOK'
  BY DEF IInv, TypeOK, Grows, Idle, Request
<1>2. \A t \in Sessions : session'[t] = IF t = s THEN Idle ELSE session[t]
  BY DEF IInv, TypeOK
<1>3. PendingSigned'
  BY <1>2 DEF IInv, PendingSigned, Grows, Idle
<1> QED  BY <1>1, <1>3 DEF IInv

LEMMA InitIInv == Init => IInv
<1> SUFFICES ASSUME Init PROVE IInv
  OBVIOUS
<1>1. session \in [Sessions -> Request] /\ \A s \in Sessions : session[s].op = "none"
  BY DEF Init, Idle, Request
<1>2. overlapped \in BOOLEAN
  BY DEF Init
<1>3. TypeOK
  BY <1>1, <1>2, SessionsAssumption DEF Init, TypeOK, Stage
<1>4. PendingSigned
  BY <1>1 DEF PendingSigned
<1> QED  BY <1>3, <1>4 DEF Init, IInv, SignedOff, ApprovalsSigned

(* The author's requests. *)
LEMMA ProposeIInv ==
  ASSUME IInv, NEW s \in Authors, Propose(s)
  PROVE  IInv'
<1>0. s \in Sessions
  BY DEF Sessions
<1>1. ASSUME NEW role, NEW submit \in BOOLEAN, SubmitProposal(s, role, submit)
      PROVE  IInv'
  <2>1. PICK prior \in Prior :
            Begin(s, [op |-> "propose", prior |-> prior, version |-> NextVersion(prior),
                      submit |-> submit, from |-> Loaded(submit)])
    BY <1>1 DEF SubmitProposal
  <2>2. prior \in 0 .. MaxProposals /\ (prior # NoPrior => prior \in DOMAIN proposals)
    BY SessionsAssumption DEF Prior, Current, NoPrior, IInv, TypeOK
  <2>3. NextVersion(prior) \in Nat
    <3>1. CASE prior = NoPrior
      BY <3>1 DEF NextVersion
    <3>2. CASE prior # NoPrior
      <4>1. proposals[prior] \in Proposal
        BY <2>2, <3>2 DEF IInv, TypeOK
      <4> QED  BY <3>2, <4>1 DEF NextVersion, Proposal
    <3> QED  BY <3>1, <3>2
  <2>4. Loaded(submit) \in Stage \cup {NotUsed}
    BY DEF Loaded, IInv, TypeOK
  <2> DEFINE request == [op |-> "propose", prior |-> prior, version |-> NextVersion(prior),
                         submit |-> submit, from |-> Loaded(submit)]
  <2>5. request \in Request /\ request.op # "review"
    BY <2>2, <2>3, <2>4 DEF Request
  <2> HIDE DEF request
  <2> QED  BY <1>0, <2>1, <2>5, BeginStep DEF request
<1>2. CASE CommitProposal(s)
  <2> DEFINE r == session[s]
             old == Superseded(r.prior)
             new == NewProposal(r)
  <2>1. r.op = "propose" /\ r \in Request /\ session' = [session EXCEPT ![s] = Idle]
        /\ Len(proposals) < MaxProposals
    BY <1>0, <1>2 DEF CommitProposal, End, IInv, TypeOK
  <2>2. new \in Proposal /\ new.status \in {"SUBMITTED", "DRAFT"} /\ new.approved = FALSE
    BY <2>1 DEF Request, NewProposal, Proposal, ProposalStatus
  <2>3. old \in Seq(Proposal) /\ Len(old) = Len(proposals)
        /\ \A i \in DOMAIN proposals : /\ old[i].hei = proposals[i].hei
                                       /\ old[i].government = proposals[i].government
                                       /\ old[i].status = proposals[i].status
                                       /\ old[i].approved = proposals[i].approved
    <3>1. \A i \in DOMAIN proposals : proposals[i] \in Proposal
      BY DEF IInv, TypeOK
    <3>2. \A i \in DOMAIN proposals : old[i] \in Proposal
      BY <3>1 DEF Superseded, Proposal
    <3>3. /\ old = [i \in 1 .. Len(proposals) |-> old[i]]
          /\ Len(proposals) \in Nat /\ DOMAIN proposals = 1 .. Len(proposals)
      BY DEF Superseded, IInv, TypeOK
    <3>4. old \in Seq(Proposal) /\ Len(old) = Len(proposals)
      <4> HIDE DEF old
      <4> QED  BY <3>2, <3>3
    <3> QED  BY <3>1, <3>4 DEF Superseded, Proposal
  <2>4. proposals' = Append(old, new)
    BY <1>2 DEF CommitProposal
  <2> HIDE DEF old, new
  <2>5. Grows(proposals')
    BY <2>1, <2>2, <2>3, <2>4, SessionsAssumption DEF Grows, IInv, TypeOK
  <2>6. SignedOff'
    BY <2>2, <2>3, <2>4 DEF SignedOff, IInv, TypeOK
  <2>7. ApprovalsSigned'
    BY <2>2, <2>3, <2>4 DEF ApprovalsSigned, IInv, TypeOK
  <2>8. challenge' \in Stage /\ overlapped' \in BOOLEAN
    BY <1>2 DEF CommitProposal, ChallengeMoves, IInv, TypeOK, Stage
  <2> QED  BY <1>0, <2>1, <2>5, <2>6, <2>7, <2>8, EndStep
<1> QED  BY <1>1, <1>2 DEF Propose

(* The reviewers' requests. *)
LEMMA ReviewIInv ==
  ASSUME IInv, NEW s \in Reviewers, Review(s)
  PROVE  IInv'
<1>0. s \in Sessions
  BY DEF Sessions
<1>1. ASSUME NEW role, NEW i \in DOMAIN proposals, NEW to \in ProposalStatus,
             NEW from \in Stage \cup {NotUsed},
             MayTransition(role, proposals[i].status, to),
             Begin(s, [op |-> "review", proposal |-> i, to |-> to, from |-> from])
      PROVE  IInv'
  <2> DEFINE request == [op |-> "review", proposal |-> i, to |-> to, from |-> from]
  <2>1. i \in 1 .. MaxProposals
    BY SessionsAssumption DEF IInv, TypeOK
  <2>2. request \in Request
    BY <2>1 DEF Request
  <2>3. /\ to \in AfterHEI => proposals[i].hei
        /\ to \in {"INDUSTRY_FEEDBACK", "APPROVED"} => proposals[i].government
    BY <1>1, RulesSigned DEF AfterHEI, IInv, SignedOff
  <2>4. request.op = "review" /\ request.proposal = i /\ request.to = to
    OBVIOUS
  <2>5. Begin(s, request)
    BY <1>1
  <2> HIDE DEF request
  <2> QED  BY <1>0, <2>2, <2>3, <2>4, <2>5, BeginStep
<1>2. ASSUME NEW role, NEW i \in DOMAIN proposals, NEW to \in Decisions, ReviewProposal(s, role, i, to)
      PROVE  IInv'
  <2>1. to \in ProposalStatus
    BY DEF Decisions, ProposalStatus
  <2>2. Loaded(to = "APPROVED") \in Stage \cup {NotUsed}
    BY DEF Loaded, IInv, TypeOK
  <2>3. /\ MayTransition(role, proposals[i].status, to)
        /\ Begin(s, [op |-> "review", proposal |-> i, to |-> to, from |-> Loaded(to = "APPROVED")])
    BY <1>2 DEF ReviewProposal
  <2> QED  BY <2>1, <2>2, <2>3, <1>1
<1>3. ASSUME NEW role, NEW i \in DOMAIN proposals, ApproveAgain(s, role, i)
      PROVE  IInv'
  <2>1. [op |-> "move", to |-> "APPROVED"] \in Request
    BY DEF Request, Stage
  <2> QED  BY <1>0, <1>3, <2>1, BeginStep DEF ApproveAgain
<1>4. ASSUME NEW role, NEW i \in DOMAIN proposals, IndustryFeedback(s, role, i)
      PROVE  IInv'
  <2>1. "INDUSTRY_FEEDBACK" \in ProposalStatus
    BY DEF ProposalStatus
  <2> QED  BY <1>4, <2>1, <1>1 DEF IndustryFeedback
<1>5. CASE CommitReview(s)
  <2> DEFINE i == session[s].proposal
             to == session[s].to
             row == Reviewed(proposals[i], to)
  <2>1. session[s].op = "review" /\ session[s] \in Request /\ session' = [session EXCEPT ![s] = Idle]
    BY <1>0, <1>5 DEF CommitReview, End, IInv, TypeOK
  <2>2. /\ i \in DOMAIN proposals /\ proposals[i] \in Proposal /\ to \in ProposalStatus
        /\ to \in AfterHEI => proposals[i].hei
        /\ to \in {"INDUSTRY_FEEDBACK", "APPROVED"} => proposals[i].government
    BY <1>0, <2>1 DEF IInv, PendingSigned, TypeOK, Request
  <2>3. /\ row \in Proposal /\ row.status = to
        /\ row.hei = (proposals[i].hei \/ to = "HEI_APPROVED")
        /\ row.government = (proposals[i].government \/ to \in {"GOVERNMENT_REVIEWED", "APPROVED"})
        /\ row.approved = (proposals[i].approved \/ to = "APPROVED")
    BY <2>2 DEF Reviewed, Proposal
  <2>4. proposals' = [proposals EXCEPT ![i] = row]
    BY <1>5 DEF CommitReview
  <2> HIDE DEF row
  <2>5. Grows(proposals')
    <3>1. proposals \in Seq(Proposal) /\ Len(proposals) <= MaxProposals
      BY DEF IInv, TypeOK
    <3>2. proposals' \in Seq(Proposal) /\ Len(proposals') <= MaxProposals
      BY <2>2, <2>3, <2>4, <3>1
    <3>3. \A j \in DOMAIN proposals : /\ j \in DOMAIN proposals'
                                      /\ proposals'[j] = IF j = i THEN row ELSE proposals[j]
      BY <2>4, <3>1
    <3> QED  BY <2>3, <3>2, <3>3 DEF Grows
  <2>6. SignedOff'
    BY <2>2, <2>3, <2>4 DEF SignedOff, IInv, TypeOK, AfterHEI
  <2>7. ApprovalsSigned'
    BY <2>2, <2>3, <2>4 DEF ApprovalsSigned, IInv, TypeOK, AfterHEI
  <2>8. challenge' \in Stage /\ overlapped' \in BOOLEAN
    BY <1>5 DEF CommitReview, ChallengeMoves, IInv, TypeOK, Stage
  <2> QED  BY <1>0, <2>1, <2>5, <2>6, <2>7, <2>8, EndStep
<1>6. CASE CommitMove(s)
  <2>1. session[s].to \in Stage
    BY <1>0, <1>6 DEF CommitMove, End, IInv, TypeOK, Request
  <2>2. Grows(proposals) /\ UNCHANGED proposals
    BY <1>6 DEF CommitMove, Grows, IInv, TypeOK
  <2>3. session' = [session EXCEPT ![s] = Idle] /\ challenge' \in Stage
    BY <1>6, <2>1 DEF CommitMove, End
  <2>4. overlapped' \in BOOLEAN
    BY <1>6 DEF CommitMove, IInv, TypeOK
  <2>5. SignedOff' /\ ApprovalsSigned'
    BY <2>2 DEF IInv, SignedOff, ApprovalsSigned
  <2> QED  BY <1>0, <2>2, <2>3, <2>4, <2>5, EndStep
<1> QED  BY <1>2, <1>3, <1>4, <1>5, <1>6 DEF Review

LEMMA NextIInv == IInv /\ [Next]_vars => IInv'
<1> SUFFICES ASSUME IInv, [Next]_vars PROVE IInv'
  OBVIOUS
<1>1. CASE \E s \in Authors : Propose(s)
  BY <1>1, ProposeIInv
<1>2. CASE \E s \in Reviewers : Review(s)
  BY <1>2, ReviewIInv
<1>3. CASE \E role \in Government, to \in Stage : MoveChallenge(role, to)
  BY <1>3 DEF MoveChallenge, IInv, TypeOK, PendingSigned, SignedOff, ApprovalsSigned
<1>4. CASE \E s \in Sessions : RollBack(s)
  <2>1. Grows(proposals)
    BY DEF Grows, IInv, TypeOK
  <2> QED  BY <1>4, <2>1, EndStep DEF RollBack, IInv, TypeOK, SignedOff, ApprovalsSigned
<1>5. CASE UNCHANGED vars
  BY <1>5 DEF vars, IInv, TypeOK, PendingSigned, SignedOff, ApprovalsSigned
<1> QED  BY <1>1, <1>2, <1>3, <1>4, <1>5 DEF Next

LEMMA Invariance == Spec => []IInv
  BY InitIInv, NextIInv, PTL DEF Spec

(* The proposals are type correct. *)
THEOREM TypeCorrectness == Spec => []TypeOK
<1>1. IInv => TypeOK
  BY DEF IInv
<1> QED  BY <1>1, Invariance, PTL

(* However reviews of one version overlap, a version that stands as         *)
(* approved has its approvers on record (transition_proposal). *)
THEOREM SignaturesStand == Spec => []SignedOff
<1>1. IInv => SignedOff
  BY DEF IInv
<1> QED  BY <1>1, Invariance, PTL

(* The flag of the government's approval never comes without the            *)
(* institution's, also where the status was overwritten since. *)
THEOREM ApprovalsAreSigned == Spec => []ApprovalsSigned
<1>1. IInv => ApprovalsSigned
  BY DEF IInv
<1> QED  BY <1>1, Invariance, PTL

-----------------------------------------------------------------------------
(* The versions, as long as no submissions overlapped *)

(* A request begins; a submission is the author's, and of the next version. *)
LEMMA BeginKeepsVersions ==
  ASSUME VersionInv, TypeOK', PendingSigned', NEW s \in Sessions, NEW request, Begin(s, request),
         request.op = "propose" =>
            /\ s \in Authors
            /\ request.prior = Len(proposals) /\ request.version = Len(proposals) + 1
  PROVE  VersionInv'
<1>1. session' = [session EXCEPT ![s] = request] /\ UNCHANGED proposals
  BY DEF Begin
<1>2. \A t \in Sessions : session'[t] = IF t = s THEN request ELSE session[t]
  BY <1>1 DEF VersionInv, TypeOK
<1>3. SubmissionsFollow'
  BY <1>1, <1>2 DEF VersionInv, SubmissionsFollow
<1>4. OneCurrent'
  BY <1>1 DEF VersionInv, OneCurrent
<1> QED  BY <1>3, <1>4 DEF VersionInv

(* A request ends that adds no version: reviews leave its number and        *)
(* whether it is current. *)
LEMMA EndKeepsVersions ==
  ASSUME VersionInv, TypeOK', PendingSigned', NEW s \in Sessions,
         session' = [session EXCEPT ![s] = Idle],
         Len(proposals') = Len(proposals),
         \A i \in DOMAIN proposals : /\ proposals'[i].current = proposals[i].current
                                     /\ proposals'[i].version = proposals[i].version
  PROVE  VersionInv'
<1>1. \A t \in Sessions : session'[t] = IF t = s THEN Idle ELSE session[t]
  BY DEF VersionInv, TypeOK
<1>2. SubmissionsFollow'
  BY <1>1 DEF VersionInv, SubmissionsFollow, Idle
<1>3. DOMAIN proposals' = DOMAIN proposals
  BY DEF VersionInv, TypeOK
<1>4. OneCurrent'
  BY <1>3 DEF VersionInv, OneCurrent
<1> QED  BY <1>2, <1>4 DEF VersionInv

(* A submission loads the newest version. *)
LEMMA PriorIsNewest ==
  ASSUME VersionInv, NEW prior \in Prior
  PROVE  prior = Len(proposals) /\ NextVersion(prior) = Len(proposals) + 1
<1>1. Len(proposals) \in Nat /\ DOMAIN proposals = 1 .. Len(proposals)
  BY DEF VersionInv, TypeOK
<1>2. CASE Len(proposals) = 0
  BY <1>1, <1>2 DEF Prior, Current, NextVersion, NoPrior
<1>3. CASE Len(proposals) # 0
  <2>1. Len(proposals) \in DOMAIN proposals
    BY <1>1, <1>3
  <2>2. Current = {Len(proposals)}
    BY <2>1 DEF Current, VersionInv, OneCurrent
  <2>3. prior = Len(proposals)
    BY <2>2 DEF Prior
  <2> QED  BY <1>3, <2>1, <2>3 DEF NextVersion, NoPrior, VersionInv, OneCurrent
<1> QED  BY <1>2, <1>3

(* The authors' requests: no other submission is on its way when one commits. *)
LEMMA ProposeKeepsVersions ==
  ASSUME VersionInv, TypeOK', PendingSigned', ~overlapped', NEW s \in Authors, Propose(s)
  PROVE  VersionInv'
<1>0. s \in Sessions
  BY DEF Sessions
<1>1. ASSUME NEW role, NEW submit \in BOOLEAN, SubmitProposal(s, role, submit)
      PROVE  VersionInv'
  <2>1. PICK prior \in Prior :
            Begin(s, [op |-> "propose", prior |-> prior, version |-> NextVersion(prior),
                      submit |-> submit, from |-> Loaded(submit)])
    BY <1>1 DEF SubmitProposal
  <2>2. prior = Len(proposals) /\ NextVersion(prior) = Len(proposals) + 1
    BY PriorIsNewest
  <2> QED  BY <1>0, <2>1, <2>2, BeginKeepsVersions
<1>2. CASE CommitProposal(s)
  <2> DEFINE old == Superseded(session[s].prior)
             new == NewProposal(session[s])
  <2>1. session[s].op = "propose" /\ session' = [session EXCEPT ![s] = Idle]
        /\ proposals' = Append(old, new)
    BY <1>2 DEF CommitProposal, End
  <2>2. session[s].prior = Len(proposals) /\ session[s].version = Len(proposals) + 1
    BY <1>0, <2>1 DEF VersionInv, SubmissionsFollow
  <2>3. new.current = TRUE /\ new.version = Len(proposals) + 1
    BY <2>2 DEF NewProposal
  <2>4. Len(proposals) \in Nat /\ DOMAIN proposals = 1 .. Len(proposals)
        /\ \A i \in DOMAIN proposals : proposals[i] \in Proposal
    BY DEF VersionInv, TypeOK
  <2>5. /\ old \in Seq({old[i] : i \in DOMAIN proposals}) /\ Len(old) = Len(proposals)
        /\ \A i \in DOMAIN proposals : old[i].current = FALSE /\ old[i].version = i
    <3>1. \A i \in DOMAIN proposals : old[i].current = FALSE /\ old[i].version = i
      BY <2>2, <2>4 DEF Superseded, Proposal, VersionInv, OneCurrent
    <3>2. old = [i \in 1 .. Len(proposals) |-> old[i]]
      BY <2>4 DEF Superseded
    <3> HIDE DEF old
    <3> QED  BY <2>4, <3>1, <3>2
  <2> HIDE DEF old, new
  <2>6. /\ Len(proposals') = Len(proposals) + 1
        /\ \A i \in 1 .. Len(proposals) : proposals'[i] = old[i]
        /\ proposals'[Len(proposals) + 1] = new
    BY <2>1, <2>4, <2>5
  <2>7. DOMAIN proposals' = 1 .. Len(proposals) + 1
    BY <2>1, <2>4, <2>5
  <2>8. OneCurrent'
    <3>1. ASSUME NEW i \in 1 .. Len(proposals)
          PROVE  proposals'[i].current = FALSE /\ proposals'[i].version = i
                 /\ i # Len(proposals) + 1
      BY <2>4, <2>5, <2>6
    <3>2. proposals'[Len(proposals) + 1].current = TRUE
          /\ proposals'[Len(proposals) + 1].version = Len(proposals) + 1
      BY <2>3, <2>6
    <3>3. \A i \in DOMAIN proposals' : i \in 1 .. Len(proposals) \/ i = Len(proposals) + 1
      BY <2>4, <2>7
    <3> QED  BY <2>6, <3>1, <3>2, <3>3 DEF OneCurrent
  <2>9. ASSUME NEW t \in Sessions
        PROVE  session'[t].op # "propose"
    <3>1. session'[t] = IF t = s THEN Idle ELSE session[t]
      BY <1>0, <2>1 DEF VersionInv, TypeOK
    <3>2. \A a \in Authors \ {s} : session[a].op # "propose"
      BY <1>2 DEF CommitProposal
    <3> QED  BY <3>1, <3>2 DEF VersionInv, SubmissionsFollow, Idle
  <2> QED  BY <2>8, <2>9 DEF VersionInv, SubmissionsFollow
<1> QED  BY <1>1, <1>2 DEF Propose

(* The reviewers' requests. *)
LEMMA ReviewKeepsVersions ==
  ASSUME VersionInv, TypeOK', PendingSigned', NEW s \in Reviewers, Review(s)
  PROVE  VersionInv'
<1>0. s \in Sessions
  BY DEF Sessions
<1>1. ASSUME NEW role, NEW i \in DOMAIN proposals, NEW to \in Decisions,
             ReviewProposal(s, role, i, to) \/ ApproveAgain(s, role, i)
                \/ IndustryFeedback(s, role, i)
      PROVE  VersionInv'
  <2>1. PICK request : Begin(s, request) /\ request.op # "propose"
    BY <1>1 DEF ReviewProposal, ApproveAgain, IndustryFeedback
  <2> QED  BY <1>0, <2>1, BeginKeepsVersions
<1>2. CASE CommitReview(s)
  <2> DEFINE i == session[s].proposal
             row == Reviewed(proposals[i], session[s].to)
  <2>1. /\ session[s].op = "review" /\ session' = [session EXCEPT ![s] = Idle]
        /\ proposals' = [proposals EXCEPT ![i] = row]
    BY <1>2 DEF CommitReview, End
  <2>2. i \in DOMAIN proposals /\ proposals[i] \in Proposal
    BY <1>0, <2>1 DEF VersionInv, PendingSigned, TypeOK
  <2>3. row.current = proposals[i].current /\ row.version = proposals[i].version
    BY <2>2 DEF Reviewed, Proposal
  <2> HIDE DEF i, row
  <2>4. Len(proposals') = Len(proposals)
        /\ \A j \in DOMAIN proposals : proposals'[j] = IF j = i THEN row ELSE proposals[j]
    BY <2>1, <2>2 DEF VersionInv, TypeOK
  <2> QED  BY <1>0, <2>1, <2>3, <2>4, EndKeepsVersions
<1>3. CASE CommitMove(s)
  BY <1>0, <1>3, EndKeepsVersions DEF CommitMove, End
<1>4. Decisions # {}
  BY DEF Decisions
<1> QED  BY <1>1, <1>2, <1>3, <1>4 DEF Review

LEMMA NextVersionInv ==
  ASSUME VersionInv, TypeOK', PendingSigned', ~overlapped', [Next]_vars
  PROVE  VersionInv'
<1>1. CASE \E s \in Authors : Propose(s)
  BY <1>1, ProposeKeepsVersions
<1>2. CASE \E s \in Reviewers : Review(s)
  BY <1>2, ReviewKeepsVersions
<1>3. CASE \E role \in Government, to \in Stage : MoveChallenge(role, to)
  BY <1>3 DEF MoveChallenge, VersionInv, OneCurrent, SubmissionsFollow
<1>4. CASE \E s \in Sessions : RollBack(s)
  BY <1>4, EndKeepsVersions DEF RollBack
<1>5. CASE UNCHANGED vars
  BY <1>5 DEF vars, VersionInv, OneCurrent, SubmissionsFollow
<1> QED  BY <1>1, <1>2, <1>3, <1>4, <1>5 DEF Next

(* Overlapped submissions stay overlapped. *)
LEMMA OverlapStays == overlapped /\ [Next]_vars => overlapped'
<1> SUFFICES ASSUME overlapped, [Next]_vars PROVE overlapped'
  OBVIOUS
<1>1. \A s, request : Begin(s, request) => overlapped'
  BY DEF Begin
<1>2. CASE \E s \in Authors : Propose(s)
  BY <1>1, <1>2 DEF Propose, SubmitProposal, CommitProposal
<1>3. CASE \E s \in Reviewers : Review(s)
  BY <1>1, <1>3
     DEF Review, ReviewProposal, ApproveAgain, IndustryFeedback, CommitReview, CommitMove
<1>4. CASE \E role \in Government, to \in Stage : MoveChallenge(role, to)
  BY <1>4 DEF MoveChallenge
<1>5. CASE \E s \in Sessions : RollBack(s)
  BY <1>5 DEF RollBack
<1>6. CASE UNCHANGED vars
  BY <1>6 DEF vars
<1> QED  BY <1>2, <1>3, <1>4, <1>5, <1>6 DEF Next

-----------------------------------------------------------------------------
(* The numbers, however submissions overlap *)

(* Versions are kept, with their numbers. *)
SameNumbers ==
    \A i \in DOMAIN proposals : /\ i \in DOMAIN proposals'
                                /\ proposals'[i].version = proposals[i].version

(* A request begins or ends: the numbers of the others stay right. *)
LEMMA NumbersKept ==
  ASSUME NumberInv, SameNumbers, NEW s \in Sessions, NEW request,
         session' = [session EXCEPT ![s] = request],
         request.op = "propose" /\ request.prior # NoPrior =>
             /\ request.prior \in DOMAIN proposals
             /\ request.version = proposals[request.prior].version + 1
  PROVE  SubmissionsNumbered'
<1>1. \A t \in Sessions : session'[t] = IF t = s THEN request ELSE session[t]
  BY DEF NumberInv, IInv, TypeOK
<1> QED  BY <1>1 DEF NumberInv, SubmissionsNumbered, SameNumbers

(* A step that adds no version and supersedes none. *)
LEMMA CurrentKept ==
  ASSUME NumberInv, SameNumbers, DOMAIN proposals' = DOMAIN proposals,
         \A i \in DOMAIN proposals : proposals'[i].current = proposals[i].current
  PROVE  SupersededByLater'
BY DEF NumberInv, SupersededByLater, SameNumbers

(* A request that writes no version. *)
LEMMA UnwrittenNumberInv ==
  ASSUME NumberInv, IInv', UNCHANGED proposals, NEW s \in Sessions, NEW request,
         session' = [session EXCEPT ![s] = request],
         request.op = "propose" /\ request.prior # NoPrior =>
             /\ request.prior \in DOMAIN proposals
             /\ request.version = proposals[request.prior].version + 1
  PROVE  NumberInv'
<1>1. SameNumbers
  BY DEF SameNumbers
<1>2. SubmissionsNumbered' /\ SupersededByLater'
  BY <1>1, NumbersKept, CurrentKept
<1> QED  BY <1>2 DEF NumberInv

(* A version that is written supersedes the one it loaded, with a higher    *)
(* number. *)
LEMMA ProposeNumberInv ==
  ASSUME NumberInv, IInv', NEW s \in Authors, Propose(s)
  PROVE  NumberInv'
<1>0. s \in Sessions
  BY DEF Sessions
<1>1. ASSUME NEW role, NEW submit \in BOOLEAN, SubmitProposal(s, role, submit)
      PROVE  NumberInv'
  <2>1. PICK prior \in Prior :
            Begin(s, [op |-> "propose", prior |-> prior, version |-> NextVersion(prior),
                      submit |-> submit, from |-> Loaded(submit)])
    BY <1>1 DEF SubmitProposal
  <2>2. prior # NoPrior => prior \in DOMAIN proposals
    BY DEF Prior, Current
  <2>3. prior # NoPrior => NextVersion(prior) = proposals[prior].version + 1
    BY DEF NextVersion
  <2> DEFINE request == [op |-> "propose", prior |-> prior, version |-> NextVersion(prior),
                         submit |-> submit, from |-> Loaded(submit)]
  <2>4. /\ session' = [session EXCEPT ![s] = request] /\ UNCHANGED proposals
        /\ request.prior = prior /\ request.version = NextVersion(prior)
    BY <2>1 DEF Begin
  <2> HIDE DEF request
  <2> QED  BY <1>0, <2>2, <2>3, <2>4, UnwrittenNumberInv
<1>2. CASE CommitProposal(s)
  <2>0. PICK r : r = session[s]
    OBVIOUS
  <2> DEFINE old == Superseded(r.prior)
             new == NewProposal(r)
  <2>1. r.op = "propose" /\ session' = [session EXCEPT ![s] = Idle]
        /\ proposals' = Append(old, new)
    BY <1>2, <2>0 DEF CommitProposal, End
  <2>2. r.prior # NoPrior =>
            r.prior \in DOMAIN proposals /\ r.version = proposals[r.prior].version + 1
    BY <1>0, <2>0, <2>1 DEF NumberInv, SubmissionsNumbered
  <2>3. PICK n : n = Len(proposals)
    OBVIOUS
  <2>4. n \in Nat /\ DOMAIN proposals = 1 .. n /\ \A i \in 1 .. n : proposals[i] \in Proposal
    BY <2>3 DEF NumberInv, IInv, TypeOK
  <2>5. new.current = TRUE /\ new.version = r.version
    BY DEF NewProposal
  <2>6. /\ old = [i \in 1 .. n |-> old[i]]
        /\ \A i \in 1 .. n : /\ old[i].version = proposals[i].version
                             /\ i # r.prior => old[i].current = proposals[i].current
    BY <2>4 DEF Superseded, Proposal
  <2> HIDE DEF old, new
  <2>7. /\ DOMAIN proposals' = 1 .. n + 1 /\ proposals'[n + 1] = new
        /\ \A i \in 1 .. n : proposals'[i] = old[i]
    <3>1. old \in Seq({old[i] : i \in 1 .. n}) /\ Len(old) = n
      BY <2>4, <2>6
    <3> QED  BY <2>1, <2>4, <3>1
  <2>8. SameNumbers
    BY <2>4, <2>6, <2>7 DEF SameNumbers
  <2>9. ASSUME NEW i \in DOMAIN proposals', ~proposals'[i].current
        PROVE  \E j \in DOMAIN proposals' : proposals'[j].version > proposals'[i].version
    <3>1. i \in 1 .. n /\ proposals'[i].version = proposals[i].version
      BY <2>4, <2>5, <2>6, <2>7, <2>9
    <3>2. CASE i = r.prior
      <4>1. r.version = proposals[i].version + 1
        BY <2>2, <2>4, <3>1, <3>2 DEF NoPrior
      <4>2. proposals[i].version \in Nat
        BY <2>4, <3>1 DEF Proposal
      <4>3. n + 1 \in DOMAIN proposals' /\ proposals'[n + 1].version > proposals'[i].version
        BY <2>4, <2>5, <2>7, <3>1, <4>1, <4>2
      <4> QED  BY <4>3
    <3>3. CASE i # r.prior
      <4>1. ~proposals[i].current
        BY <2>6, <2>7, <2>9, <3>1, <3>3
      <4>2. PICK j \in DOMAIN proposals : proposals[j].version > proposals[i].version
        BY <2>4, <3>1, <4>1 DEF NumberInv, SupersededByLater
      <4> QED  BY <2>8, <3>1, <4>2 DEF SameNumbers
    <3> QED  BY <3>2, <3>3
  <2>10. SupersededByLater'
    BY <2>9 DEF SupersededByLater
  <2>11. SubmissionsNumbered'
    BY <1>0, <2>1, <2>8, NumbersKept DEF Idle
  <2> QED  BY <2>10, <2>11 DEF NumberInv
<1> QED  BY <1>1, <1>2 DEF Propose

(* Reviews leave the numbers, and what is current. *)
LEMMA ReviewNumberInv ==
  ASSUME NumberInv, IInv', NEW s \in Reviewers, Review(s)
  PROVE  NumberInv'
<1>0. s \in Sessions
  BY DEF Sessions
<1>1. ASSUME NEW role, NEW i \in DOMAIN proposals, NEW to \in Decisions,
             ReviewProposal(s, role, i, to) \/ ApproveAgain(s, role, i)
                \/ IndustryFeedback(s, role, i)
      PROVE  NumberInv'
  <2>1. PICK request : Begin(s, request) /\ request.op # "propose"
    BY <1>1 DEF ReviewProposal, ApproveAgain, IndustryFeedback
  <2> QED  BY <1>0, <2>1, UnwrittenNumberInv DEF Begin
<1>2. CASE CommitReview(s)
  <2> DEFINE i == session[s].proposal
             row == Reviewed(proposals[i], session[s].to)
  <2>1. /\ session[s].op = "review" /\ session' = [session EXCEPT ![s] = Idle]
        /\ proposals' = [proposals EXCEPT ![i] = row]
    BY <1>2 DEF CommitReview, End
  <2>2. i \in DOMAIN proposals /\ proposals[i] \in Proposal
    BY <1>0, <2>1 DEF NumberInv, IInv, PendingSigned, TypeOK
  <2>3. row.current = proposals[i].current /\ row.version = proposals[i].version
    BY <2>2 DEF Reviewed, Proposal
  <2> HIDE DEF i, row
  <2>4. DOMAIN proposals' = DOMAIN proposals
        /\ \A j \in DOMAIN proposals : proposals'[j] = IF j = i THEN row ELSE proposals[j]
    BY <2>1, <2>2
  <2>5. SameNumbers /\ \A j \in DOMAIN proposals : proposals'[j].current = proposals[j].current
    BY <2>3, <2>4 DEF SameNumbers
  <2>6. SubmissionsNumbered'
    BY <1>0, <2>1, <2>5, NumbersKept DEF Idle
  <2>7. SupersededByLater'
    BY <2>4, <2>5, CurrentKept
  <2> QED  BY <2>6, <2>7 DEF NumberInv
<1>3. CASE CommitMove(s)
  BY <1>0, <1>3, UnwrittenNumberInv DEF CommitMove, End, Idle
<1>4. Decisions # {}
  BY DEF Decisions
<1> QED  BY <1>1, <1>2, <1>3, <1>4 DEF Review

LEMMA NextNumberInv == NumberInv /\ IInv' /\ [Next]_vars => NumberInv'
<1> SUFFICES ASSUME NumberInv, IInv', [Next]_vars PROVE NumberInv'
  OBVIOUS
<1>1. CASE \E s \in Authors : Propose(s)
  BY <1>1, ProposeNumberInv
<1>2. CASE \E s \in Reviewers : Review(s)
  BY <1>2, ReviewNumberInv
<1>3. CASE UNCHANGED <<proposals, session>>
  BY <1>3 DEF NumberInv, SubmissionsNumbered, SupersededByLater
<1>4. CASE \E role \in Government, to \in Stage : MoveChallenge(role, to)
  BY <1>3, <1>4 DEF MoveChallenge
<1>5. CASE \E s \in Sessions : RollBack(s)
  BY <1>5, UnwrittenNumberInv DEF RollBack, Idle
<1>6. CASE UNCHANGED vars
  BY <1>3, <1>6 DEF vars
<1> QED  BY <1>1, <1>2, <1>4, <1>5, <1>6 DEF Next

(* A version is superseded only by one with a higher number, for any number *)
(* of authors who submit at once; as long as no submissions overlapped, the *)
(* newest alone is current and the numbers follow one another, whatever is  *)
(* reviewed meanwhile (submit_proposal). *)
THEOREM NewestVersionIsCurrent == Spec => []NewestIsCurrent
<1> DEFINE Inv == NumberInv /\ (overlapped \/ VersionInv)
<1>1. Init /\ IInv => Inv
  BY DEF Init, IInv, NumberInv, VersionInv, SupersededByLater, SubmissionsNumbered, OneCurrent,
         SubmissionsFollow, Idle
<1>2. Inv /\ IInv' /\ [Next]_vars => Inv'
  <2>1. NumberInv /\ IInv' /\ [Next]_vars => NumberInv'
    BY NextNumberInv
  <2>2. VersionInv /\ IInv' /\ [Next]_vars => overlapped' \/ VersionInv'
    BY NextVersionInv DEF IInv
  <2> QED  BY <2>1, <2>2, OverlapStays
<1>3. Inv => NewestIsCurrent
  BY DEF NumberInv, VersionInv, NewestIsCurrent
<1>4. Spec => []Inv
  BY <1>1, <1>2, Invariance, PTL DEF Spec
<1> QED  BY <1>3, <1>4, PTL
=============================================================================
