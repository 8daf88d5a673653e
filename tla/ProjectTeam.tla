----------------------------- MODULE ProjectTeam -----------------------------
(***************************************************************************)
(* The team of one project: invitations and answers, members and their     *)
(* replacement, the mentor, the membership history, and the tasks that     *)
(* members are given.  The account of the university may make every        *)
(* request but an answer, so who asks is left out; an answer is the        *)
(* invitee's own.                                                          *)
(*                                                                         *)
(* A request has two steps (Requests).                                     *)
(***************************************************************************)
EXTENDS Requests, Naturals, Sequences

CONSTANTS
    Students, Faculty,   \* of the project's university
    Nobody,              \* NULL
    Invited,             \* the invitees of the request that created the project
    Managers,            \* sessions that run the team
    Invitees,            \* sessions that answer invitations
    MaxInvitations, MaxMembers, MaxTasks   \* bounds of the model

People == Students \cup Faculty

ASSUME TeamAssumption ==
    /\ Students \cap Faculty = {} /\ Nobody \notin People
    /\ Invited \in Seq(People) /\ Len(Invited) <= MaxInvitations
    /\ Managers \cap Invitees = {} /\ Managers \cup Invitees \subseteq Sessions
    /\ MaxInvitations \in Nat /\ MaxMembers \in Nat /\ MaxTasks \in Nat

VARIABLES
    invitations,   \* team_invitations, oldest first
    members,       \* project_members, oldest first
    mentor,        \* faculty_mentor_id
    history,       \* project_membership_history
    tasks,         \* project_tasks, oldest first
    contested      \* history: the invitations of which an answer was
                   \* committed while another answer was under way

team == <<invitations, members, mentor, history, tasks, contested>>
teamVars == <<team, session>>

(* No endpoint withdraws or expires an invitation. *)
Invitation == [to : People, status : {"PENDING", "ACCEPTED", "DECLINED"}]
NoInvitation == 0
Member == [student : Students, active : BOOLEAN, invitation : 0 .. MaxInvitations]
Entry == [action : {"ADDED", "REMOVED", "REPLACED"}, person : People]
Task == [assignee : Students \cup {Nobody}, completed : BOOLEAN, evidence : BOOLEAN,
         status : {"PENDING", "SUBMITTED", "APPROVED", "REVISION_REQUESTED"}]

TeamRequest ==
    [op : {"none"}]
        \cup [op : {"invite"}, to : People]
        \cup [op : {"answer"}, invitation : 1 .. MaxInvitations, accept : BOOLEAN]
        \cup [op : {"remove"}, member : 1 .. MaxMembers, by : Students \cup {Nobody}]
        \cup [op : {"assign"}, to : Students \cup {Nobody}]
        \cup [op : {"grade"}, task : 1 .. MaxTasks, approve : BOOLEAN,
              writes : SUBSET {"status", "completed"}]

TeamTypeOK ==
    /\ invitations \in Seq(Invitation) /\ Len(invitations) <= MaxInvitations
    /\ members \in Seq(Member) /\ Len(members) <= MaxMembers
    /\ mentor \in Faculty \cup {Nobody}
    /\ history \subseteq Entry
    /\ tasks \in Seq(Task) /\ Len(tasks) <= MaxTasks
    /\ contested \subseteq 1 .. MaxInvitations
    /\ session \in [Sessions -> TeamRequest]

Pending(person) == [to |-> person, status |-> "PENDING"]

TeamInit ==
    /\ invitations = [i \in DOMAIN Invited |-> Pending(Invited[i])]
    /\ members = << >> /\ mentor = Nobody /\ history = {} /\ tasks = << >>
    /\ contested = {} /\ NoRequests

(* A handler has checked its request. *)
AskTeam(s, request) == Receive(s, request) /\ UNCHANGED team

IsMember(student) == \E m \in DOMAIN members : members[m].student = student /\ members[m].active

-----------------------------------------------------------------------------
(* Invitations *)

InviteTeamMember(s, person) ==
    /\ ~IsMember(person)
    /\ AskTeam(s, [op |-> "invite", to |-> person])

CommitInvitation(s) ==
    /\ Finish(s, "invite")
    /\ Len(invitations) < MaxInvitations
    /\ invitations' = Append(invitations, Pending(session[s].to))
    /\ UNCHANGED <<members, mentor, history, tasks, contested>>

(* Mutant: an answered invitation can be answered again. *)
RespondAgain(s, i, accept) ==
    AskTeam(s, [op |-> "answer", invitation |-> i, accept |-> accept])

RespondToInvitation(s, i, accept) ==
    /\ invitations[i].status = "PENDING"
    /\ AskTeam(s, [op |-> "answer", invitation |-> i, accept |-> accept])

NewMember(student, invitation) ==
    [student |-> student, active |-> TRUE, invitation |-> invitation]

(* Mutant: a replacement leaves no trace of whom it replaced. *)
RecordedRemovalOnly(action, person) ==
    history' = IF action = "REPLACED" THEN history
               ELSE history \cup {[action |-> action, person |-> person]}

Recorded(action, person) == history' = history \cup {[action |-> action, person |-> person]}

(* Mutant: an acceptance writes the member and leaves the invitation open. *)
Unanswered(i, status) == UNCHANGED invitations

Answered(i, status) == invitations' = [invitations EXCEPT ![i].status = status]

Contested(s) ==
    contested' = contested \cup
        {i \in {session[s].invitation} :
            \E t \in Sessions \ {s} : session[t].op = "answer" /\ session[t].invitation = i}

CommitDecline(s) ==
    /\ Finish(s, "answer") /\ ~session[s].accept
    /\ Answered(session[s].invitation, "DECLINED")
    /\ Contested(s)
    /\ UNCHANGED <<members, mentor, history, tasks>>

(* Mutant: whoever accepts becomes a student of the team, a mentor too. *)
JoinsAsStudent(person, i) ==
    /\ Len(members) < MaxMembers
    /\ members' = Append(members, NewMember(person, i))
    /\ UNCHANGED mentor

Joins(person, i) ==
    \/ /\ person \in Students /\ Len(members) < MaxMembers
       /\ members' = Append(members, NewMember(person, i))
       /\ UNCHANGED mentor
    \/ /\ person \in Faculty
       /\ mentor' = person
       /\ UNCHANGED members

CommitAcceptance(s) ==
    LET i == session[s].invitation
        person == invitations[i].to
    IN  /\ Finish(s, "answer") /\ session[s].accept
        /\ Answered(i, "ACCEPTED")
        /\ Recorded("ADDED", person)
        /\ Joins(person, i)
        /\ Contested(s)
        /\ UNCHANGED tasks

-----------------------------------------------------------------------------
(* Removal, with a replacement or without: the replacement is asked nothing *)
(* and may be a member already. *)

RemoveProjectMember(s, m, by) ==
    /\ members[m].active
    /\ AskTeam(s, [op |-> "remove", member |-> m, by |-> by])

CommitRemoval(s) ==
    LET r == session[s]
        left == [members EXCEPT ![r.member].active = FALSE]
        person == members[r.member].student
    IN  /\ Finish(s, "remove")
        /\ IF r.by = Nobody
             THEN members' = left /\ Recorded("REMOVED", person)
             ELSE /\ Len(members) < MaxMembers
                  /\ members' = Append(left, NewMember(r.by, NoInvitation))
                  /\ Recorded("REPLACED", person)
        /\ UNCHANGED <<invitations, mentor, tasks, contested>>

-----------------------------------------------------------------------------
(* Tasks *)

AddTask(s, student) ==
    /\ student # Nobody => IsMember(student)
    /\ AskTeam(s, [op |-> "assign", to |-> student])

CommitTask(s) ==
    /\ Finish(s, "assign")
    /\ Len(tasks) < MaxTasks
    /\ tasks' = Append(tasks, [assignee |-> session[s].to, status |-> "PENDING",
                               completed |-> FALSE, evidence |-> FALSE])
    /\ UNCHANGED <<invitations, members, mentor, history, contested>>

(* The first commit of an upload. *)
UploadTaskEvidence(t) ==
    /\ tasks' = [tasks EXCEPT ![t].evidence = TRUE]
    /\ UNCHANGED <<invitations, members, mentor, history, contested, session>>

(* The second commit of an upload, which reloads nothing, and the student's *)
(* own submission. *)
SubmitTaskWork(t) ==
    /\ tasks[t].evidence
    /\ tasks' = [tasks EXCEPT ![t].status = "SUBMITTED"]
    /\ UNCHANGED <<invitations, members, mentor, history, contested, session>>

Grade(approve) == IF approve THEN "APPROVED" ELSE "REVISION_REQUESTED"

(* A review asks for no status.  Only a column that differs from what was  *)
(* loaded is written. *)
ReviewTask(s, t, approve) ==
    AskTeam(s, [op |-> "grade", task |-> t, approve |-> approve,
                writes |-> {c \in {"status", "completed"} :
                              IF c = "status" THEN tasks[t].status # Grade(approve)
                                              ELSE tasks[t].completed # approve}])

CommitGrade(s) ==
    LET r == session[s]
    IN  /\ Finish(s, "grade")
        /\ tasks' = [tasks EXCEPT
               ![r.task].status = IF "status" \in r.writes THEN Grade(r.approve) ELSE @,
               ![r.task].completed = IF "completed" \in r.writes THEN r.approve ELSE @]
        /\ UNCHANGED <<invitations, members, mentor, history, contested>>

-----------------------------------------------------------------------------
Manage(s) ==
    \/ /\ session[s] = Idle
       /\ \/ \E person \in People : InviteTeamMember(s, person)
          \/ \E m \in DOMAIN members, by \in Students \cup {Nobody} :
                 RemoveProjectMember(s, m, by)
          \/ \E student \in Students \cup {Nobody} : AddTask(s, student)
          \/ \E t \in DOMAIN tasks, approve \in BOOLEAN : ReviewTask(s, t, approve)
    \/ CommitInvitation(s) \/ CommitRemoval(s) \/ CommitTask(s) \/ CommitGrade(s)

Answer(s) ==
    \/ \E i \in DOMAIN invitations, accept \in BOOLEAN : RespondToInvitation(s, i, accept)
    \/ CommitDecline(s) \/ CommitAcceptance(s)

TeamNext ==
    \/ \E s \in Managers : Manage(s)
    \/ \E s \in Invitees : Answer(s)
    \/ \E t \in DOMAIN tasks : UploadTaskEvidence(t) \/ SubmitTaskWork(t)
    \/ \E s \in Sessions : RollBack(s) /\ UNCHANGED team

TeamSpec == TeamInit /\ [][TeamNext]_teamVars

-----------------------------------------------------------------------------
(* Properties *)

(* Whoever became a member by invitation was invited, answered, and has     *)
(* accepted, unless two answers to the invitation overlapped; and so was    *)
(* the mentor, however invitations, answers, removals and replacements      *)
(* overlap. *)
Consented(i, person) ==
    /\ invitations[i].to = person
    /\ invitations[i].status \in {"ACCEPTED"} \cup (IF i \in contested THEN {"DECLINED"} ELSE {})

MembersConsented ==
    /\ \A m \in DOMAIN members :
           members[m].invitation # NoInvitation
              => Consented(members[m].invitation, members[m].student)
    /\ mentor # Nobody => \E i \in DOMAIN invitations : Consented(i, mentor)

(* An invitation makes one member, unless two answers to it overlapped. *)
OneMemberPerInvitation ==
    \A m, n \in DOMAIN members :
        members[m].invitation = members[n].invitation
            => m = n \/ members[m].invitation \in contested \cup {NoInvitation}

(* Who left the team is on record, also when two requests remove or replace *)
(* the same member. *)
LeaversRecorded ==
    \A m \in DOMAIN members : ~members[m].active
        => \E entry \in history : entry.person = members[m].student /\ entry.action # "ADDED"

(* projects.py: "Team formation happens via invitation + acceptance; never  *)
(* auto-add members".  A replacement is added without either. *)
MembersInvited == \A m \in DOMAIN members : members[m].invitation # NoInvitation
=============================================================================
