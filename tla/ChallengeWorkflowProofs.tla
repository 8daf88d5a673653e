---------------------- MODULE ChallengeWorkflowProofs ----------------------
(***************************************************************************)
(* One challenge, its allocations and projects, for any actors,            *)
(* universities and bounds: what the endpoints preserve.                   *)
(***************************************************************************)
EXTENDS ChallengeWorkflow, TLAPS

SessionType ==
    [challenge : Challenge, allocations : Seq(Allocation), projects : Seq(Project)]

Only(offers) ==
    \A i, j \in DOMAIN offers :
        offers[i].status = "OFFERED" /\ offers[j].status = "OFFERED" => i = j

(* The inductive invariant. *)
IInv ==
    /\ TypeOK /\ shown.version # 0
    /\ VersionIdentifiesChallenge /\ OneOffer /\ DeploymentTested /\ HistoryTellsStatus

(* What a request leaves behind: a new version, and the rest of IInv. *)
Sound ==
    /\ challenge' \in Challenge /\ challenge'.version > challenge.version
    /\ allocations' \in Seq(Allocation) /\ Only(allocations')
    /\ projects' \in Seq(Project)
    /\ history' \in ChallengeStatus \cup Tiers
    /\ shown' = shown
    /\ DeploymentTested' /\ HistoryTellsStatus'

-----------------------------------------------------------------------------
(* Lemmas *)

LEMMA SessionTyped == ASSUME TypeOK PROVE Session \in SessionType
BY DEF TypeOK, Session, SessionType

(* transition_challenge on a session keeps what the session holds, takes a  *)
(* version, and reaches deployment only with a test report. *)
LEMMA TransitionSound ==
    ASSUME IInv, NEW a, NEW to \in ChallengeStatus, NEW STATE expected,
           NEW STATE session, session \in SessionType,
           session.challenge.version = challenge.version,
           session.challenge.status = challenge.status,
           Only(session.allocations),
           \/ session.projects = projects
           \/ to # "DEPLOYMENT" /\ (challenge.status # "DEPLOYMENT" \/ ~Outside(a)),
           Transition(a, session, to, expected)
    PROVE  Sound
<1> DEFINE bumped == Bumped(session)
           moved == [bumped EXCEPT !.challenge.status = to]
<1>1. /\ bumped.challenge \in Challenge
      /\ bumped.challenge.version = challenge.version + 1
      /\ bumped.challenge.status = challenge.status
      /\ bumped.allocations = session.allocations /\ bumped.projects = session.projects
    BY DEF Bumped, SessionType, Challenge
<1>0. bumped \in SessionType
    <2>1. bumped = [session EXCEPT !.challenge = bumped.challenge]
        BY DEF Bumped, SessionType
    <2> QED BY <1>1, <2>1 DEF SessionType
<1>2. /\ moved.challenge \in Challenge
      /\ moved.challenge.version = challenge.version + 1
      /\ moved.challenge.status = to
      /\ moved.allocations = session.allocations /\ moved.projects = session.projects
    <2>1. /\ moved.challenge = [bumped.challenge EXCEPT !.status = to]
          /\ moved.allocations = bumped.allocations /\ moved.projects = bumped.projects
        BY <1>0 DEF SessionType
    <2>2. [bumped.challenge EXCEPT !.status = to] \in Challenge
        BY <1>1 DEF Challenge
    <2> QED BY <1>1, <2>1, <2>2 DEF Challenge
<1>3. challenge.version \in Nat
    BY DEF IInv, TypeOK, Challenge
<1>4. \/ Store(bumped) /\ history' = history /\ (challenge.status = to \/ Outside(a))
      \/ /\ Store(moved) /\ Record(session.challenge.status, to)
         /\ to = "DEPLOYMENT" => Tested(session)
    BY DEF Transition
<1>5. session.allocations \in Seq(Allocation) /\ session.projects \in Seq(Project)
    BY DEF SessionType
<1>6. CASE Store(bumped) /\ history' = history /\ (challenge.status = to \/ Outside(a))
    <2>1. DeploymentTested'
        BY <1>1, <1>6 DEF Store, IInv, DeploymentTested
    <2>2. HistoryTellsStatus'
        BY <1>1, <1>6 DEF Store, IInv, HistoryTellsStatus
    <2> QED BY <1>1, <1>3, <1>5, <1>6, <2>1, <2>2 DEF Store, Sound, IInv, TypeOK
<1>7. CASE /\ Store(moved) /\ Record(session.challenge.status, to)
           /\ to = "DEPLOYMENT" => Tested(session)
    <2>1. DeploymentTested'
        BY <1>2, <1>7 DEF Store, Tested, DeploymentTested
    <2>2. history' \in ChallengeStatus \cup Tiers
        BY <1>7 DEF Record, IInv, TypeOK
    <2>3. HistoryTellsStatus'
        BY <1>2, <1>7 DEF Store, Record, IInv, HistoryTellsStatus
    <2> QED BY <1>2, <1>3, <1>5, <1>7, <2>1, <2>2, <2>3 DEF Store, Sound
<1> QED BY <1>4, <1>6, <1>7

(* An answer closes an offer; it opens none. *)
LEMMA AnswerCloses ==
    ASSUME IInv, NEW i \in DOMAIN allocations, NEW status \in {"ACCEPTED", "DECLINED"}
    PROVE  Answer(i, status) \in Seq(Allocation) /\ Only(Answer(i, status))
<1>0. /\ allocations \in Seq(Allocation) /\ DOMAIN allocations = 1 .. Len(allocations)
      /\ allocations[i] \in Allocation
    BY DEF IInv, TypeOK
<1>1. Answer(i, status) \in Seq(Allocation)
    <2>1. [allocations[i] EXCEPT !.status = status] \in Allocation
        BY <1>0 DEF Allocation
    <2> QED BY <1>0, <2>1 DEF Answer
<1>2. /\ DOMAIN Answer(i, status) = DOMAIN allocations
      /\ Answer(i, status)[i].status = status
      /\ \A j \in DOMAIN allocations \ {i} : Answer(i, status)[j] = allocations[j]
    BY <1>0 DEF Answer, Allocation
<1>3. Only(Answer(i, status))
    BY <1>2 DEF IInv, OneOffer, Only
<1> QED BY <1>1, <1>3

LEMMA AnsweredCloses ==
    ASSUME IInv, NEW status \in {"ACCEPTED", "DECLINED"}, NEW offers \in Answered(status)
    PROVE  offers \in Seq(Allocation) /\ Only(offers)
<1>1. offers = allocations \/ \E i \in DOMAIN allocations : offers = Answer(i, status)
    BY DEF Answered
<1>2. allocations \in Seq(Allocation) /\ Only(allocations)
    BY DEF IInv, TypeOK, OneOffer, Only
<1> QED BY <1>1, <1>2, AnswerCloses

(* A new assignment supersedes every open offer before it adds its own. *)
LEMMA SupersedeCloses ==
    ASSUME IInv, NEW u \in Universities
    PROVE  /\ Append(Supersede(allocations), Offer(u)) \in Seq(Allocation)
           /\ Only(Append(Supersede(allocations), Offer(u)))
<1> DEFINE old == Supersede(allocations)
           n == Len(allocations)
<1>1. allocations \in Seq(Allocation) /\ n \in Nat /\ DOMAIN allocations = 1 .. n
    BY DEF IInv, TypeOK
<1>2. \A i \in 1 .. n : old[i] \in Allocation /\ old[i].status # "OFFERED"
    <2> SUFFICES ASSUME NEW i \in 1 .. n
                 PROVE  old[i] \in Allocation /\ old[i].status # "OFFERED"
        OBVIOUS
    <2>1. allocations[i] \in Allocation
        BY <1>1
    <2>2. [allocations[i] EXCEPT !.status = "SUPERSEDED"] \in Allocation
        BY <2>1 DEF Allocation
    <2>3. old[i] = IF allocations[i].status = "OFFERED"
                     THEN [allocations[i] EXCEPT !.status = "SUPERSEDED"] ELSE allocations[i]
        BY <1>1 DEF Supersede
    <2> QED BY <2>1, <2>2, <2>3 DEF Allocation
<1>3. old \in Seq(Allocation) /\ Len(old) = n
    <2>1. old = [i \in 1 .. n |-> old[i]]
        BY <1>1 DEF Supersede
    <2> QED BY <1>1, <1>2, <2>1
<1>4. Offer(u) \in Allocation
    BY DEF Offer, Allocation
<1>5. Append(old, Offer(u)) \in Seq(Allocation)
    BY <1>3, <1>4
<1>6. /\ DOMAIN Append(old, Offer(u)) = 1 .. (n + 1)
      /\ \A i \in 1 .. n : Append(old, Offer(u))[i] = old[i]
    BY <1>1, <1>3, <1>4
<1>7. Only(Append(old, Offer(u)))
    BY <1>1, <1>2, <1>6 DEF Only
<1> QED BY <1>5, <1>7

-----------------------------------------------------------------------------
(* The endpoints *)

(* A request that keeps the projects and reaches no deployment. *)
LEMMA KeptProjectsSound ==
    ASSUME IInv,
           challenge' \in Challenge, challenge'.version > challenge.version,
           challenge'.status \in {challenge.status, "VALIDATED"},
           allocations' \in Seq(Allocation), Only(allocations'), projects' = projects,
           history' \in ChallengeStatus \cup Tiers, HistoryTellsStatus', shown' = shown
    PROVE  Sound
BY DEF IInv, TypeOK, Sound, DeploymentTested

LEMMA SessionHolds ==
    ASSUME IInv
    PROVE  /\ Session \in SessionType /\ Only(allocations)
           /\ Session.challenge = challenge /\ Session.allocations = allocations
           /\ Session.projects = projects
           /\ challenge \in Challenge /\ challenge.version \in Nat
           /\ allocations \in Seq(Allocation) /\ projects \in Seq(Project)
           /\ history \in ChallengeStatus \cup Tiers
BY SessionTyped DEF IInv, TypeOK, Session, OneOffer, Only, Challenge

(* The same for a session whose changed rows are given one by one. *)
LEMMA RowsSound ==
    ASSUME IInv, NEW a, NEW to \in ChallengeStatus, NEW STATE expected, NEW STATE session,
           NEW STATE row, row \in Challenge,
           NEW STATE offers, offers \in Seq(Allocation), Only(offers),
           row.version = challenge.version, row.status = challenge.status,
           session = [challenge |-> row, allocations |-> offers, projects |-> projects],
           Transition(a, session, to, expected)
    PROVE  Sound
<1>1. session \in SessionType /\ session.challenge = row /\ session.allocations = offers
      /\ session.projects = projects
    BY SessionHolds DEF SessionType
<1> QED BY <1>1, TransitionSound

(* transition_challenge on the rows as they are. *)
LEMMA PlainSound ==
    ASSUME IInv, NEW a, NEW to \in ChallengeStatus, NEW STATE expected,
           Transition(a, Session, to, expected)
    PROVE  Sound
<1>1. Only(Session.allocations) /\ Session \in SessionType
    BY SessionHolds
<1>2. /\ Session.challenge.version = challenge.version
      /\ Session.challenge.status = challenge.status
      /\ Session.projects = projects
    BY SessionHolds
<1> QED BY <1>1, <1>2, TransitionSound

(* A request that carries no version, or the one displayed. *)
LEMMA DecideSound ==
    ASSUME IInv, NEW a \in Actors, NEW STATE expected, Decide(a, expected)
    PROVE  Sound
<1>1. ASSUME NEW to \in ChallengeStatus, Transition(a, Session, to, expected)
      PROVE  Sound
    BY <1>1, PlainSound
<1>2. ASSUME \/ \E to \in ChallengeStatus : UpdateStatus(a, to, expected)
             \/ AcceptForReview(a, expected) \/ RequestInfo(a, expected)
             \/ RejectReport(a, expected) \/ MarkDuplicate(a, expected)
             \/ PauseChallenge(a, expected) \/ Resume(a, expected)
      PROVE  Sound
    <2>1. {"UNDER_REVIEW", "NEEDS_MORE_INFO", "REJECTED", "DUPLICATE", "PAUSED",
           "UNIVERSITY_ASSIGNED"} \subseteq ChallengeStatus
        BY DEF ChallengeStatus
    <2>2. \E to \in ChallengeStatus : Transition(a, Session, to, expected)
        BY <1>2, <2>1 DEF UpdateStatus, Review, AcceptForReview, RequestInfo, RejectReport,
                          MarkDuplicate, PauseChallenge, Resume, Resumed
    <2> QED BY <1>1, <2>2
<1>3. ASSUME NEW tier \in Tiers, Validate(a, tier, expected)
      PROVE  Sound
    <2> DEFINE row == [challenge EXCEPT !.tier = tier]
               session == [Session EXCEPT !.challenge.tier = tier]
    <2>1. session = [challenge |-> row, allocations |-> allocations, projects |-> projects]
        BY DEF Session
    <2>2. row \in Challenge /\ row.version = challenge.version /\ row.status = challenge.status
        BY SessionHolds DEF Challenge
    <2>3. "VALIDATED" \in ChallengeStatus
        BY DEF ChallengeStatus
    <2>4. Transition(a, session, "VALIDATED", expected)
        BY <1>3 DEF Validate
    <2> HIDE DEF row, session
    <2> QED BY <2>1, <2>2, <2>3, <2>4, SessionHolds, RowsSound
<1>4. ASSUME SubmitClarification(a, expected) \/ Reopen(a, expected)
      PROVE  Sound
    <2>1. \E to \in {"UNDER_REVIEW", "REOPENED"} :
              Transition(a, Session, to, expected)
        BY <1>4 DEF SubmitClarification, Reopen
    <2> QED BY <1>1, <2>1 DEF ChallengeStatus
<1>5. ASSUME KeepSeparate(a, expected) PROVE Sound
    <2>1. /\ challenge' = [challenge EXCEPT !.version = @ + 1]
          /\ UNCHANGED <<allocations, projects, history, shown>>
        BY <1>5 DEF KeepSeparate, Store, Bumped, Session
    <2>2. challenge' \in Challenge /\ challenge'.version > challenge.version
          /\ challenge'.status = challenge.status
        BY <2>1, SessionHolds DEF Challenge
    <2>3. HistoryTellsStatus'
        BY <2>1, <2>2 DEF IInv, HistoryTellsStatus
    <2>4. Sound
        BY <2>1, <2>2, <2>3, SessionHolds, KeptProjectsSound
    <2> QED BY <2>4
<1>6. ASSUME NEW tier \in Tiers, EscalateTier(a, tier, expected)
      PROVE  Sound
    <2>1. /\ challenge' = [challenge EXCEPT !.version = @ + 1, !.tier = tier]
          /\ UNCHANGED <<allocations, projects, shown>>
        BY <1>6 DEF EscalateTier, Escalated, Store, Bumped, Session
    <2>2. challenge' \in Challenge /\ challenge'.version > challenge.version
          /\ challenge'.status = challenge.status
        <3>1. challenge \in Challenge
            BY SessionHolds
        <3> DEFINE bumped == [challenge EXCEPT !.version = @ + 1]
        <3>2. bumped \in Challenge /\ bumped.version > challenge.version
              /\ bumped.status = challenge.status
            BY <3>1 DEF Challenge
        <3>3. challenge' = [bumped EXCEPT !.tier = tier]
            BY <2>1
        <3> QED BY <3>2, <3>3 DEF Challenge
    <2>3. history' \in ChallengeStatus \cup Tiers
        BY <1>6, SessionHolds DEF EscalateTier, Record
    <2>4. HistoryTellsStatus'
        BY <1>6, <2>2 DEF EscalateTier, Record, IInv, HistoryTellsStatus
    <2>5. Sound
        BY <2>1, <2>2, <2>3, <2>4, SessionHolds, KeptProjectsSound
    <2> QED BY <2>5
<1>7. ASSUME NEW u \in Universities, AssignChallenge(a, u, expected)
      PROVE  Sound
    <2> DEFINE row == [challenge EXCEPT !.university = u]
               offers == Append(Supersede(allocations), Offer(u))
               session == [Session EXCEPT !.allocations = Append(Supersede(@), Offer(u)),
                                          !.challenge.university = u]
    <2>1. session = [challenge |-> row, allocations |-> offers, projects |-> projects]
        <3> DEFINE offered == [Session EXCEPT !.allocations = offers]
        <3>1. offered = [challenge |-> challenge, allocations |-> offers, projects |-> projects]
            BY DEF Session
        <3>2. session = [offered EXCEPT !.challenge = row]
            BY DEF Session
        <3> HIDE DEF row, offers, offered, session
        <3> QED BY <3>1, <3>2
    <2>2. row \in Challenge /\ row.version = challenge.version /\ row.status = challenge.status
        BY SessionHolds DEF Challenge
    <2>3. offers \in Seq(Allocation) /\ Only(offers)
        BY SupersedeCloses
    <2>4. Transition(a, session, "UNIVERSITY_ASSIGNED", expected)
        BY <1>7 DEF AssignChallenge, Assigned
    <2>5. "UNIVERSITY_ASSIGNED" \in ChallengeStatus
        BY DEF ChallengeStatus
    <2> HIDE DEF row, offers, session
    <2> QED BY <2>1, <2>2, <2>3, <2>4, <2>5, RowsSound
<1>8. ASSUME NEW i \in DOMAIN allocations, AcceptAllocation(a, i, expected)
      PROVE  Sound
    <2>1. /\ challenge' = [challenge EXCEPT !.version = @ + 1]
          /\ allocations' = Answer(i, "ACCEPTED")
          /\ UNCHANGED <<projects, history, shown>>
        BY <1>8 DEF AcceptAllocation, Store, Bumped, Session
    <2>2. challenge' \in Challenge /\ challenge'.version > challenge.version
          /\ challenge'.status = challenge.status
        BY <2>1, SessionHolds DEF Challenge
    <2>3. Answer(i, "ACCEPTED") \in Seq(Allocation) /\ Only(Answer(i, "ACCEPTED"))
        BY AnswerCloses
    <2>4. HistoryTellsStatus'
        BY <2>1, <2>2 DEF IInv, HistoryTellsStatus
    <2>5. Sound
        BY <2>1, <2>2, <2>3, <2>4, SessionHolds, KeptProjectsSound
    <2> QED BY <2>5
<1>9. ASSUME NEW i \in DOMAIN allocations, DeclineAllocation(a, i, expected)
      PROVE  Sound
    <2>1. /\ challenge' = [challenge EXCEPT !.version = @ + 1, !.university = NoUniversity,
                                            !.status = "VALIDATED"]
          /\ allocations' = Answer(i, "DECLINED")
          /\ UNCHANGED <<projects, shown>>
        BY <1>9 DEF DeclineAllocation, Store, Bumped, Session
    <2>2. challenge' \in Challenge /\ challenge'.version > challenge.version
          /\ challenge'.status = "VALIDATED"
        <3>1. challenge \in Challenge
            BY SessionHolds
        <3> DEFINE bumped == [challenge EXCEPT !.version = @ + 1]
        <3>2. bumped \in Challenge /\ bumped.version > challenge.version
              /\ bumped.status = challenge.status
            BY <3>1 DEF Challenge
        <3> DEFINE freed == [bumped EXCEPT !.university = NoUniversity]
        <3>3. freed \in Challenge /\ freed.version > challenge.version
            BY <3>2 DEF Challenge
        <3>4. challenge' = [freed EXCEPT !.status = "VALIDATED"]
            BY <2>1
        <3>5. "VALIDATED" \in ChallengeStatus
            BY DEF ChallengeStatus
        <3> QED BY <3>3, <3>4, <3>5 DEF Challenge
    <2>3. history' \in ChallengeStatus \cup Tiers
        BY <1>9 DEF DeclineAllocation, Record, ChallengeStatus
    <2>4. Answer(i, "DECLINED") \in Seq(Allocation) /\ Only(Answer(i, "DECLINED"))
        BY AnswerCloses
    <2>5. HistoryTellsStatus'
        BY <1>9, <2>2 DEF DeclineAllocation, Record, HistoryTellsStatus
    <2>6. Sound
        BY <2>1, <2>2, <2>3, <2>4, <2>5, KeptProjectsSound
    <2> QED BY <1>9, <2>6 DEF DeclineAllocation
<1> QED BY <1>2, <1>3, <1>4, <1>5, <1>6, <1>7, <1>8, <1>9 DEF Decide, RespondAllocation

(* A request that answers an offer and settles the assignment. *)
LEMMA AdoptSound ==
    ASSUME IInv, NEW a, NEW to \in ChallengeStatus,
           NEW STATE u, u \in Universities \cup {NoUniversity},
           NEW STATE offers, offers \in Seq(Allocation), Only(offers),
           Transition(a, [Session EXCEPT !.allocations = offers, !.challenge.university = u], to, 0)
    PROVE  Sound
<1> DEFINE row == [challenge EXCEPT !.university = u]
           offered == [Session EXCEPT !.allocations = offers]
           session == [Session EXCEPT !.allocations = offers, !.challenge.university = u]
<1>1. offered = [challenge |-> challenge, allocations |-> offers, projects |-> projects]
    BY DEF Session
<1>2. session = [offered EXCEPT !.challenge = row]
    BY DEF Session
<1>3. row \in Challenge /\ row.version = challenge.version /\ row.status = challenge.status
    BY SessionHolds DEF Challenge
<1>4. Transition(a, session, to, 0)
    OBVIOUS
<1>5. session = [challenge |-> row, allocations |-> offers, projects |-> projects]
    <2> HIDE DEF row, offered, session
    <2> QED BY <1>1, <1>2
<1> HIDE DEF row, offered, session
<1> QED BY <1>3, <1>4, <1>5, RowsSound

(* A request that changes projects, short of deployment. *)
LEMMA ProjectsSound ==
    ASSUME IInv, NEW a, NEW to \in ChallengeStatus, to # "DEPLOYMENT",
           challenge.status # "DEPLOYMENT" \/ ~Outside(a),
           NEW STATE row, row \in Challenge, NEW STATE stages, stages \in Seq(Project),
           row.version = challenge.version, row.status = challenge.status,
           NEW STATE session,
           session = [challenge |-> row, allocations |-> allocations, projects |-> stages],
           Transition(a, session, to, 0)
    PROVE  Sound
<1>1. session \in SessionType /\ session.challenge = row
      /\ session.allocations = allocations /\ Only(session.allocations)
    BY SessionHolds DEF SessionType
<1> QED BY <1>1, TransitionSound

LEMMA ActorUniversity ==
    ASSUME NEW a \in Actors PROVE a.university \in Universities \cup {NoUniversity}
BY ActorsAssumption DEF ActorShape

LEMMA CreateSound ==
    ASSUME IInv, NEW a \in Actors, CreateProject(a)
    PROVE  Sound
<1> DEFINE u == IF a.role = "UNIVERSITY" THEN a.university ELSE challenge.university
           row == [challenge EXCEPT !.university = u]
           created == Append(projects, NewProject(u))
           session == [Session EXCEPT !.projects = Append(@, NewProject(u)),
                                      !.challenge.university = u]
           extended == [Session EXCEPT !.projects = created]
<1>1. /\ u # NoUniversity /\ challenge.status \in {"UNIVERSITY_ASSIGNED", "TEAM_FORMED"}
      /\ Transition(a, session, "TEAM_FORMED", 0)
    BY DEF CreateProject, Adopting
<1>2. u \in Universities
    BY <1>1, ActorUniversity, SessionHolds DEF Challenge
<1>3. row \in Challenge /\ row.version = challenge.version /\ row.status = challenge.status
    BY <1>2, SessionHolds DEF Challenge
<1>4. NewProject(u) \in Project
    BY <1>2 DEF NewProject, Project
<1>5. created \in Seq(Project)
    BY <1>4, SessionHolds
<1>6. session = [challenge |-> row, allocations |-> allocations, projects |-> created]
    <2>1. extended = [challenge |-> challenge, allocations |-> allocations, projects |-> created]
        BY DEF Session
    <2>2. session = [extended EXCEPT !.challenge = row]
        BY DEF Session
    <2> HIDE DEF row, created, session, extended
    <2> QED BY <2>1, <2>2
<1>7. "TEAM_FORMED" \in ChallengeStatus
    BY DEF ChallengeStatus
<1> HIDE DEF u, row, created, session, extended
<1> QED BY <1>1, <1>3, <1>5, <1>6, <1>7, ProjectsSound

LEMMA RegressionSound ==
    ASSUME IInv, NEW a \in Actors, EscalateRegression(a)
    PROVE  Sound
<1> DEFINE n == Len(projects)
           remediated == IF n = 0 THEN projects
                         ELSE [projects EXCEPT ![n].stage = "Post-Deployment Remediation"]
           session == [Session EXCEPT !.projects = remediated]
<1>1. ~Outside(a) /\ Transition(a, session, "REOPENED", 0)
    BY DEF EscalateRegression
<1>2. remediated \in Seq(Project)
    <2>1. CASE n = 0
        BY <2>1, SessionHolds
    <2>2. CASE n # 0
        <3>1. n \in DOMAIN projects /\ projects[n] \in Project
            BY <2>2, SessionHolds
        <3> DEFINE row == [projects[n] EXCEPT !.stage = "Post-Deployment Remediation"]
        <3>2. row \in Project
            BY <3>1 DEF Project
        <3>3. n \in 1 .. Len(projects) /\ projects = [j \in 1 .. Len(projects) |-> projects[j]]
            BY <2>2, SessionHolds
        <3>4. [projects EXCEPT ![n] = row] \in Seq(Project)
            <4> HIDE DEF n, row
            <4> QED BY <3>1, <3>2, <3>3, SessionHolds
        <3> QED BY <2>2, <3>4
    <2> QED BY <2>1, <2>2
<1>3. session = [challenge |-> challenge, allocations |-> allocations, projects |-> remediated]
    <2> HIDE DEF remediated
    <2> QED BY DEF Session
<1>4. "REOPENED" \in ChallengeStatus
    BY DEF ChallengeStatus
<1> HIDE DEF n, remediated, session
<1> QED BY <1>1, <1>2, <1>3, <1>4, SessionHolds, ProjectsSound

(* Closing takes no version when the challenge is closed already. *)
LEMMA CloseKeeps ==
    ASSUME IInv, NEW a \in Actors, NEW i \in DOMAIN projects, CloseProject(a, i)
    PROVE  IInv'
<1> DEFINE steps == IF challenge.status = "CLOSED" THEN 0
                    ELSE IF challenge.status \in {"RESOLVED", "IMPACT_AUDITED"} THEN 1 ELSE 2
<1>1. /\ steps \in {0, 1, 2} /\ (steps = 0 <=> challenge.status = "CLOSED")
      /\ challenge' = [challenge EXCEPT !.status = "CLOSED", !.version = @ + steps]
    BY DEF CloseProject
<1>2. /\ UNCHANGED <<allocations, shown>> /\ Record(challenge.status, "CLOSED")
      /\ projects' = [projects EXCEPT ![i].stage = "Completed"]
    BY DEF CloseProject
<1>3. "CLOSED" \in ChallengeStatus
    BY DEF ChallengeStatus
<1>4. /\ challenge' \in Challenge /\ challenge'.status = "CLOSED"
      /\ challenge'.version = challenge.version + steps
    <2> DEFINE closed == [challenge EXCEPT !.status = "CLOSED"]
    <2>1. closed \in Challenge /\ closed.version = challenge.version
        BY <1>3, SessionHolds DEF Challenge
    <2>2. challenge' = [closed EXCEPT !.version = challenge.version + steps]
        BY <1>1, SessionHolds DEF Challenge
    <2>3. challenge.version + steps \in Nat
        BY SessionHolds
    <2>4. closed.status = "CLOSED"
        BY SessionHolds DEF Challenge
    <2> HIDE DEF closed
    <2> QED BY <2>1, <2>2, <2>3, <2>4 DEF Challenge
<1>5. steps = 0 => challenge' = challenge
    <2> SUFFICES ASSUME steps = 0 PROVE challenge' = challenge
        OBVIOUS
    <2>1. challenge.status = "CLOSED" /\ challenge.version + steps = challenge.version
        BY <1>1, SessionHolds
    <2> QED BY <1>1, <2>1, SessionHolds DEF Challenge
<1>6. projects' \in Seq(Project)
    <2>1. projects[i] \in Project
        BY SessionHolds
    <2>2. [projects[i] EXCEPT !.stage = "Completed"] \in Project
        BY <2>1 DEF Project
    <2> QED BY <1>2, <2>2, SessionHolds
<1>7. TypeOK'
    <2>1. history' \in ChallengeStatus \cup Tiers
        BY <1>2, <1>3, SessionHolds DEF Record
    <2> QED BY <1>2, <1>4, <1>6, <2>1 DEF IInv, TypeOK
<1>8. VersionIdentifiesChallenge'
    <2>1. shown.version \in Nat
        BY DEF IInv, TypeOK, Challenge
    <2> QED BY <1>2, <1>4, <1>5, <2>1, SessionHolds DEF IInv, VersionIdentifiesChallenge
<1>9. HistoryTellsStatus'
    BY <1>2, <1>4 DEF Record, IInv, HistoryTellsStatus
<1> QED BY <1>2, <1>4, <1>7, <1>8, <1>9 DEF IInv, OneOffer, DeploymentTested

(* The requests that carry no version. *)
LEMMA ActKeeps ==
    ASSUME IInv, NEW a \in Actors, Act(a)
    PROVE  Sound \/ IInv'
<1>1. CASE Appeal(a)
    BY <1>1, PlainSound DEF Appeal, ChallengeStatus
<1>2. CASE AcceptChallenge(a)
    <2> DEFINE u == IF a.role = "UNIVERSITY" THEN a.university ELSE challenge.university
    <2>1. PICK answered \in Answered("ACCEPTED") :
              Transition(a, [Session EXCEPT !.allocations = answered,
                                            !.challenge.university = u], "TEAM_FORMED", 0)
        BY <1>2 DEF AcceptChallenge, Adopting
    <2>2. answered \in Seq(Allocation) /\ Only(answered)
        BY AnsweredCloses
    <2>3. u \in Universities \cup {NoUniversity}
        BY ActorUniversity, SessionHolds DEF Challenge
    <2>4. "TEAM_FORMED" \in ChallengeStatus
        BY DEF ChallengeStatus
    <2> HIDE DEF u
    <2> QED BY <2>1, <2>2, <2>3, <2>4, AdoptSound
<1>3. CASE RejectChallenge(a)
    <2>1. PICK answered \in Answered("DECLINED") :
              Transition(a, [Session EXCEPT !.allocations = answered,
                                            !.challenge.university = NoUniversity], "VALIDATED", 0)
        BY <1>3 DEF RejectChallenge
    <2>2. answered \in Seq(Allocation) /\ Only(answered)
        BY AnsweredCloses
    <2>3. "VALIDATED" \in ChallengeStatus
        BY DEF ChallengeStatus
    <2> QED BY <2>1, <2>2, <2>3, AdoptSound
<1>4. CASE EscalateRegression(a) \/ CreateProject(a)
    BY <1>4, CreateSound, RegressionSound
<1>5. CASE \E i \in DOMAIN projects : CloseProject(a, i)
    BY <1>5, CloseKeeps
<1> QED BY <1>1, <1>2, <1>3, <1>4, <1>5 DEF Act

(* A new version that nobody displays yet keeps the invariant. *)
LEMMA SoundKeeps == ASSUME IInv, Sound PROVE IInv'
<1>1. shown.version \in Nat /\ challenge.version \in Nat /\ challenge'.version \in Nat
    BY DEF IInv, TypeOK, Sound, Challenge
<1>2. VersionIdentifiesChallenge'
    BY <1>1 DEF IInv, Sound, VersionIdentifiesChallenge
<1> QED BY <1>2 DEF IInv, Sound, TypeOK, OneOffer, Only

(* A deadline marks an allocation late and changes no status. *)
LEMMA DeadlineKeeps ==
    ASSUME IInv, NEW i \in DOMAIN allocations, DeadlinePasses(i)
    PROVE  IInv'
<1>1. allocations' = [allocations EXCEPT ![i].late = TRUE]
      /\ UNCHANGED <<challenge, projects, history, shown>>
    BY DEF DeadlinePasses
<1>2. allocations[i] \in Allocation
    BY SessionHolds
<1>3. [allocations[i] EXCEPT !.late = TRUE] \in Allocation
    BY <1>2 DEF Allocation
<1>4. allocations' \in Seq(Allocation)
    BY <1>1, <1>3, SessionHolds
<1>5. /\ DOMAIN allocations' = DOMAIN allocations
      /\ \A j \in DOMAIN allocations : allocations'[j].status = allocations[j].status
    BY <1>1, <1>2, SessionHolds DEF Allocation
<1> QED BY <1>1, <1>4, <1>5
        DEF IInv, TypeOK, OneOffer, VersionIdentifiesChallenge, DeploymentTested,
            HistoryTellsStatus

LEMMA TestReportKeeps ==
    ASSUME IInv, NEW i \in DOMAIN projects, AddTestReport(i)
    PROVE  IInv'
<1>1. projects' = [projects EXCEPT ![i].tested = TRUE]
      /\ UNCHANGED <<challenge, allocations, history, shown>>
    BY DEF AddTestReport
<1>2. projects[i] \in Project
    BY SessionHolds
<1>3. [projects[i] EXCEPT !.tested = TRUE] \in Project
    BY <1>2 DEF Project
<1>4. projects' \in Seq(Project)
    BY <1>1, <1>3, SessionHolds
<1>5. i \in DOMAIN projects' /\ projects'[i].tested
    BY <1>1, <1>2, SessionHolds DEF Project
<1>6. DeploymentTested'
    BY <1>5 DEF DeploymentTested
<1> QED BY <1>1, <1>4, <1>6
        DEF IInv, TypeOK, OneOffer, VersionIdentifiesChallenge, HistoryTellsStatus

LEMMA AnalysisSound == ASSUME IInv, AnalyzeChallenge PROVE Sound
BY PlainSound DEF AnalyzeChallenge, ChallengeStatus

LEMMA InitKeeps == Init => IInv
<1> SUFFICES ASSUME Init PROVE IInv
    OBVIOUS
<1>1. challenge \in Challenge /\ challenge.version = 1 /\ challenge.status # "DEPLOYMENT"
    BY StatusesAssumption, TiersAssumption DEF Init, Challenge
<1>2. << >> \in Seq(Allocation) /\ << >> \in Seq(Project)
    OBVIOUS
<1>3. TypeOK
    BY <1>1, <1>2 DEF Init, TypeOK, Challenge
<1> QED BY <1>1, <1>3
        DEF Init, IInv, VersionIdentifiesChallenge, OneOffer, DeploymentTested,
            HistoryTellsStatus

LEMMA StepKeeps == IInv /\ [Next]_vars => IInv'
<1> SUFFICES ASSUME IInv, [Next]_vars PROVE IInv'
    OBVIOUS
<1>1. ASSUME NEW a \in Actors, Act(a) PROVE IInv'
    BY <1>1, ActKeeps, SoundKeeps
<1>2. ASSUME NEW a \in Actors, NEW expected, Decide(a, expected) PROVE IInv'
    BY <1>2, DecideSound, SoundKeeps
<1>3. CASE AnalyzeChallenge
    BY <1>3, AnalysisSound, SoundKeeps
<1>4. CASE Show
    <2>1. shown' = challenge /\ UNCHANGED <<challenge, allocations, projects, history>>
        BY <1>4 DEF Show
    <2>2. challenge.version # 0
        BY SessionHolds DEF IInv, VersionIdentifiesChallenge, TypeOK, Challenge
    <2>3. VersionIdentifiesChallenge'
        BY <2>1, SessionHolds DEF VersionIdentifiesChallenge
    <2> QED BY <2>1, <2>2, <2>3
            DEF IInv, TypeOK, OneOffer, DeploymentTested, HistoryTellsStatus
<1>5. CASE UNCHANGED vars
    BY <1>5 DEF vars, IInv, TypeOK, OneOffer, VersionIdentifiesChallenge, DeploymentTested,
                HistoryTellsStatus
<1>6. CASE \E a \in Actors : Act(a) \/ \E expected \in {0, shown.version} : Decide(a, expected)
    <2>1. PICK a \in Actors : Act(a) \/ Decide(a, 0) \/ Decide(a, shown.version)
        BY <1>6
    <2>2. Decide(a, 0) => Sound
        BY DecideSound
    <2>3. Decide(a, shown.version) => Sound
        BY DecideSound
    <2> QED BY <1>1, <2>1, <2>2, <2>3, SoundKeeps
<1> QED BY <1>3, <1>4, <1>5, <1>6, DeadlineKeeps, TestReportKeeps DEF Next

-----------------------------------------------------------------------------
(* Theorems *)

(* Every reachable state satisfies the inductive invariant. *)
THEOREM Invariance == Spec => []IInv
<1>1. Init => IInv
    BY InitKeeps
<1>2. IInv /\ [Next]_vars => IInv'
    BY StepKeeps
<1> QED BY <1>1, <1>2, PTL DEF Spec

(* The rows keep their shape, whatever the endpoints do. *)
THEOREM TypeCorrectness == Spec => []TypeOK
<1>1. IInv => TypeOK
    BY DEF IInv
<1> QED BY <1>1, Invariance, PTL

(* Who displays the current version displays the current challenge. *)
THEOREM VersionsIdentify == Spec => []VersionIdentifiesChallenge
<1>1. IInv => VersionIdentifiesChallenge
    BY DEF IInv
<1> QED BY <1>1, Invariance, PTL

(* No two institutions hold an open offer on the challenge, however         *)
(* assignments, answers and refused requests follow each other. *)
THEOREM AtMostOneOffer == Spec => []OneOffer
<1>1. IInv => OneOffer
    BY DEF IInv
<1> QED BY <1>1, Invariance, PTL

(* A deployed challenge has a project with a test report. *)
THEOREM DeploymentIsTested == Spec => []DeploymentTested
<1>1. IInv => DeploymentTested
    BY DEF IInv
<1> QED BY <1>1, Invariance, PTL

(* The last row of status_history is the status, or the tier of an          *)
(* escalation: also after the declines that bypass transition_challenge.    *)
THEOREM HistoryGivesStatus == Spec => []HistoryTellsStatus
<1>1. IInv => HistoryTellsStatus
    BY DEF IInv
<1> QED BY <1>1, Invariance, PTL
=============================================================================
