-------------------------- MODULE ProjectWorkProofs --------------------------
(***************************************************************************)
(* Proofs about ProjectMilestones and ProjectTeam, for any plan, weights,  *)
(* sessions, people and bounds.  What a handler has checked is written by  *)
(* its commit, after other requests have written: the invariants say what  *)
(* the requests in between may still count on.                             *)
(*                                                                         *)
(* The sum of the weights is a recursive function.  Its lemmas are by      *)
(* induction on the length, which rests on the least number of a set.      *)
(***************************************************************************)
EXTENDS ProjectMilestones, ProjectTeam, TLAPS, FiniteSetTheorems

-----------------------------------------------------------------------------
(* Sums *)

(* A set of natural numbers has a least one. *)
LEMMA LeastNumber ==
  ASSUME NEW T, T \subseteq Nat, T # {}
  PROVE  \E x \in T : \A y \in T : x <= y
<1> DEFINE below == {1 .. n : n \in T}
<1>1. below \subseteq FiniteSubsetsOf(Nat)
  BY FS_Interval DEF FiniteSubsetsOf
<1>2. below # {}
  OBVIOUS
<1>3. PICK b \in below : \A c \in below : ~(<<c, b>> \in StrictSubsetOrdering(Nat))
  <2> HIDE DEF below
  <2> QED  BY <1>1, <1>2, FS_StrictSubsetOrderingWellFounded, WFMin
<1>4. PICK x \in T : b = 1 .. x
  BY <1>3
<1>5. ASSUME NEW y \in T, y < x
      PROVE  FALSE
  <2>1. 1 .. y \subseteq 1 .. x /\ x \in 1 .. x /\ x \notin 1 .. y
    BY <1>5
  <2>2. 1 .. y \in SUBSET Nat /\ 1 .. x \in SUBSET Nat
    OBVIOUS
  <2>3. <<1 .. y, 1 .. x>> \in StrictSubsetOrdering(Nat)
    BY <2>1, <2>2, Zenon DEF StrictSubsetOrdering
  <2>4. 1 .. y \in below
    OBVIOUS
  <2> HIDE DEF below
  <2> QED  BY <1>3, <1>4, <2>3, <2>4, Zenon
<1> QED  BY <1>4, <1>5

(* The induction that the other lemmas use. *)
LEMMA NaturalInduction ==
  ASSUME NEW S, 0 \in S, \A n \in Nat : n \in S => n + 1 \in S
  PROVE  Nat \subseteq S
<1> SUFFICES ASSUME {n \in Nat : n \notin S} # {} PROVE FALSE
  OBVIOUS
<1>1. PICK n \in {n \in Nat : n \notin S} : \A m \in {k \in Nat : k \notin S} : n <= m
  BY LeastNumber
<1>2. n - 1 \in Nat /\ n - 1 \in S
  BY <1>1
<1> QED  BY <1>1, <1>2

(* The partial sums of a sequence. *)
Partial(v, g) ==
    /\ g = [n \in 0 .. Len(v) |-> g[n]] /\ g[0] = 0
    /\ \A n \in 1 .. Len(v) : g[n] = g[n - 1] + v[n]

(* Every sequence of integers has partial sums, and they are integers. *)
LEMMA PartialExists ==
  ASSUME NEW v \in Seq(Int)
  PROVE  \E g : Partial(v, g)
<1> DEFINE Sums(g, n) == g[0] = 0 /\ \A k \in 1 .. n : g[k] = g[k - 1] + v[k]
           S == {n \in Nat : n <= Len(v) => \E g \in [0 .. n -> Int] : Sums(g, n)}
<1>1. 0 \in S
  <2> DEFINE zero == [k \in 0 .. 0 |-> 0]
  <2>1. zero \in [0 .. 0 -> Int] /\ Sums(zero, 0)
    OBVIOUS
  <2> HIDE DEF zero, Sums
  <2> QED  BY <2>1
<1>2. ASSUME NEW n \in Nat, n \in S
      PROVE  n + 1 \in S
  <2>1. SUFFICES ASSUME n + 1 <= Len(v)
                 PROVE  \E h \in [0 .. n + 1 -> Int] : Sums(h, n + 1)
    <3> HIDE DEF Sums
    <3> QED  OBVIOUS
  <2>2. PICK g \in [0 .. n -> Int] : Sums(g, n)
    <3> HIDE DEF Sums
    <3> QED  BY <1>2, <2>1
  <2> DEFINE h == [k \in 0 .. n + 1 |-> IF k = n + 1 THEN g[n] + v[n + 1] ELSE g[k]]
  <2>3. g[n] + v[n + 1] \in Int
    BY <2>1
  <2>4. h \in [0 .. n + 1 -> Int]
    BY <2>3
  <2>5. Sums(h, n + 1)
    BY <2>2
  <2> HIDE DEF h, Sums
  <2> QED  BY <2>4, <2>5
<1>3. Len(v) \in S
  <2> HIDE DEF S
  <2> QED  BY <1>1, <1>2, NaturalInduction, SMTT(30)
<1>4. PICK g \in [0 .. Len(v) -> Int] : Sums(g, Len(v))
  <2> HIDE DEF Sums
  <2> QED  BY <1>3
<1> QED  BY <1>4 DEF Partial

LEMMA PartialInt ==
  ASSUME NEW v \in Seq(Int), NEW g, Partial(v, g)
  PROVE  \A n \in 0 .. Len(v) : g[n] \in Int
<1> DEFINE S == {n \in Nat : n <= Len(v) => g[n] \in Int}
<1>1. 0 \in S
  BY DEF Partial
<1>2. ASSUME NEW n \in Nat, n \in S
      PROVE  n + 1 \in S
  <2>1. SUFFICES ASSUME n + 1 <= Len(v)
                 PROVE  g[n + 1] \in Int
    OBVIOUS
  <2>2. g[n] \in Int /\ v[n + 1] \in Int
    BY <1>2, <2>1
  <2>3. n + 1 \in 1 .. Len(v) /\ (n + 1) - 1 = n
    BY <2>1
  <2>4. g[n + 1] = g[(n + 1) - 1] + v[n + 1]
    BY <2>3 DEF Partial
  <2> QED  BY <2>2, <2>3, <2>4
<1> HIDE DEF S
<1>3. Nat \subseteq S
  BY <1>1, <1>2, NaturalInduction
<1> QED  BY <1>3 DEF S

(* SumOf is the last of the partial sums, whichever function they are. *)
LEMMA SumIsPartial ==
  ASSUME NEW v \in Seq(Int)
  PROVE  \E g : Partial(v, g) /\ SumOf(v) = g[Len(v)]
<1> DEFINE body(h) == [n \in 0 .. Len(v) |-> IF n = 0 THEN 0 ELSE h[n - 1] + v[n]]
           sum == CHOOSE h : h = body(h)
<1>1. PICK g : Partial(v, g)
  BY PartialExists
<1>2. g = body(g)
  <2>1. \A n \in 0 .. Len(v) : n # 0 => n \in 1 .. Len(v)
    OBVIOUS
  <2>2. \A n \in 0 .. Len(v) : g[n] = body(g)[n]
    BY <1>1, <2>1 DEF Partial
  <2> QED  BY <1>1, <2>2 DEF Partial
<1>3. sum = body(sum)
  BY <1>2
<1>4. SumOf(v) = sum[Len(v)]
  BY DEF SumOf
<1> HIDE DEF sum
<1>5. Partial(v, sum)
  <2>1. 0 \in 0 .. Len(v) /\ \A n \in 1 .. Len(v) : n \in 0 .. Len(v) /\ n # 0
    OBVIOUS
  <2>2. sum[0] = 0 /\ \A n \in 1 .. Len(v) : sum[n] = sum[n - 1] + v[n]
    BY <1>3, <2>1
  <2>3. sum = [n \in 0 .. Len(v) |-> sum[n]]
    BY <1>3
  <2> QED  BY <2>2, <2>3 DEF Partial
<1> QED  BY <1>4, <1>5

(* A sum of integers is an integer. *)
LEMMA SumInt ==
  ASSUME NEW v \in Seq(Int)
  PROVE  SumOf(v) \in Int
BY SumIsPartial, PartialInt

(* Two sequences that are equal but for one number, up to the l-th. *)
EqualBut(u, v, i, l) == \A n \in 1 .. l : n # i => u[n] = v[n]

(* Their partial sums differ by as much as the number. *)
LEMMA PartialsDiffer ==
  ASSUME NEW u \in Seq(Int), NEW v \in Seq(Int), NEW f, NEW g, Partial(u, f), Partial(v, g),
         NEW l \in 0 .. Len(v), l \in 0 .. Len(u), NEW i \in 1 .. Len(v), EqualBut(u, v, i, l)
  PROVE  f[l] = IF l < i THEN g[l] ELSE g[l] + (u[i] - v[i])
<1> DEFINE S == {n \in Nat : n <= l => f[n] = IF n < i THEN g[n] ELSE g[n] + (u[i] - v[i])}
<1>0. /\ \A n \in 0 .. l : f[n] \in Int /\ g[n] \in Int
      /\ \A n \in 1 .. l : u[n] \in Int /\ v[n] \in Int
  BY PartialInt
<1>1. 0 \in S
  BY DEF Partial
<1>2. ASSUME NEW n \in Nat, n \in S
      PROVE  n + 1 \in S
  <2>1. SUFFICES ASSUME n + 1 <= l
                 PROVE  f[n + 1] = IF n + 1 < i THEN g[n + 1] ELSE g[n + 1] + (u[i] - v[i])
    OBVIOUS
  <2>2. f[n] = IF n < i THEN g[n] ELSE g[n] + (u[i] - v[i])
    BY <1>2, <2>1
  <2>3. n + 1 \in 1 .. Len(u) /\ n + 1 \in 1 .. Len(v) /\ n + 1 \in 1 .. l /\ (n + 1) - 1 = n
        /\ n \in 0 .. l
    BY <2>1
  <2>4. f[n + 1] = f[(n + 1) - 1] + u[n + 1] /\ g[n + 1] = g[(n + 1) - 1] + v[n + 1]
    BY <2>3 DEF Partial
  <2>5. CASE n + 1 = i
    BY <1>0, <2>2, <2>3, <2>4, <2>5, SMTT(30)
  <2>6. CASE n + 1 # i /\ n + 1 < i
    BY <1>0, <2>2, <2>3, <2>4, <2>6 DEF EqualBut
  <2>7. CASE n + 1 # i /\ ~(n + 1 < i)
    <3>1. u[n + 1] = v[n + 1]
      BY <2>3, <2>7 DEF EqualBut
    <3>2. u[i] \in Int /\ v[i] \in Int
      BY <1>0, <2>1, <2>7
    <3>3. f[n] = g[n] + (u[i] - v[i])
      BY <2>2, <2>7
    <3>4. f[n + 1] = f[n] + u[n + 1] /\ g[n + 1] = g[n] + v[n + 1]
      BY <2>3, <2>4
    <3>5. g[n] \in Int /\ v[n + 1] \in Int
      BY <1>0, <2>3
    <3> QED  BY <2>7, <3>1, <3>2, <3>3, <3>4, <3>5, SMTT(30)
  <2> QED  BY <2>5, <2>6, <2>7
<1> HIDE DEF S
<1>3. Nat \subseteq S
  BY <1>1, <1>2, NaturalInduction
<1> QED  BY <1>3 DEF S

(* One number of a sequence is replaced. *)
LEMMA SumUpdate ==
  ASSUME NEW u \in Seq(Int), NEW v \in Seq(Int), Len(u) = Len(v), NEW i \in 1 .. Len(v),
         \A n \in 1 .. Len(v) : n # i => u[n] = v[n]
  PROVE  SumOf(u) = SumOf(v) + (u[i] - v[i])
<1>1. PICK f : Partial(u, f) /\ SumOf(u) = f[Len(u)]
  BY SumIsPartial
<1>2. PICK g : Partial(v, g) /\ SumOf(v) = g[Len(v)]
  BY SumIsPartial
<1>3. EqualBut(u, v, i, Len(v)) /\ Len(v) \in 0 .. Len(v) /\ Len(v) \in 0 .. Len(u)
  BY SMTT(30) DEF EqualBut
<1>4. ASSUME NEW l \in 0 .. Len(v), l \in 0 .. Len(u), EqualBut(u, v, i, l)
      PROVE  f[l] = IF l < i THEN g[l] ELSE g[l] + (u[i] - v[i])
  BY <1>1, <1>2, <1>4, PartialsDiffer
<1>5. f[Len(v)] = IF Len(v) < i THEN g[Len(v)] ELSE g[Len(v)] + (u[i] - v[i])
  BY <1>3, <1>4
<1> QED  BY <1>1, <1>2, <1>5

(* A number is added at the end. *)
LEMMA SumAppend ==
  ASSUME NEW u \in Seq(Int), NEW v \in Seq(Int), Len(u) = Len(v) + 1,
         \A n \in 1 .. Len(v) : u[n] = v[n]
  PROVE  SumOf(u) = SumOf(v) + u[Len(u)]
<1>1. PICK f : Partial(u, f) /\ SumOf(u) = f[Len(u)]
  BY SumIsPartial
<1>2. PICK g : Partial(v, g) /\ SumOf(v) = g[Len(v)]
  BY SumIsPartial
<1>3. f[Len(v)] = g[Len(v)]
  <2>1. CASE Len(v) = 0
    BY <1>1, <1>2, <2>1 DEF Partial
  <2>2. CASE Len(v) # 0
    <3>1. Len(v) \in 1 .. Len(v) /\ Len(v) \in 0 .. Len(v) /\ Len(v) \in 0 .. Len(u)
      BY <2>2
    <3>2. EqualBut(u, v, Len(v), Len(v))
      BY DEF EqualBut
    <3>3. f[Len(v)] = IF Len(v) < Len(v) THEN g[Len(v)]
                      ELSE g[Len(v)] + (u[Len(v)] - v[Len(v)])
      BY <1>1, <1>2, <3>1, <3>2, PartialsDiffer
    <3>4. u[Len(v)] = v[Len(v)] /\ v[Len(v)] \in Int /\ g[Len(v)] \in Int
      BY <1>2, <3>1, PartialInt
    <3> QED  BY <3>1, <3>3, <3>4
  <2> QED  BY <2>1, <2>2
<1>4. Len(u) \in 1 .. Len(u) /\ Len(u) - 1 = Len(v)
  OBVIOUS
<1>5. f[Len(u)] = f[Len(u) - 1] + u[Len(u)]
  BY <1>1, <1>4 DEF Partial
<1> QED  BY <1>1, <1>2, <1>3, <1>4, <1>5

(* Zeros sum to zero. *)
LEMMA SumOfZeros ==
  ASSUME NEW v \in Seq(Int), \A n \in 1 .. Len(v) : v[n] = 0
  PROVE  SumOf(v) = 0
<1>1. PICK g : Partial(v, g) /\ SumOf(v) = g[Len(v)]
  BY SumIsPartial
<1> DEFINE S == {n \in Nat : n <= Len(v) => g[n] = 0}
<1>2. 0 \in S
  BY <1>1 DEF Partial
<1>3. ASSUME NEW n \in Nat, n \in S
      PROVE  n + 1 \in S
  <2>1. SUFFICES ASSUME n + 1 <= Len(v)
                 PROVE  g[n + 1] = 0
    OBVIOUS
  <2>2. g[n] = 0 /\ v[n + 1] = 0 /\ n + 1 \in 1 .. Len(v) /\ (n + 1) - 1 = n
    BY <1>3, <2>1
  <2>3. g[n + 1] = g[(n + 1) - 1] + v[n + 1]
    BY <1>1, <2>2 DEF Partial
  <2> QED  BY <2>2, <2>3
<1> HIDE DEF S
<1>4. Nat \subseteq S
  BY <1>2, <1>3, NaturalInduction
<1> QED  BY <1>1, <1>4 DEF S

-----------------------------------------------------------------------------
(* The work on the milestones *)

EarningApproved ==
    \A i \in DOMAIN milestones : milestones[i].status \in Earning => milestones[i].approved

(* What a request that moves a milestone may count on when it commits. *)
Supported(r) ==
    /\ r.op \in {"move", "review"} /\ r.to = "SUBMITTED"
        => r.milestone \in DOMAIN milestones /\ milestones[r.milestone].evidence
    /\ r.op = "move" => r.to # "COMPLETED"
    /\ r.op = "review" => r.to \in {"APPROVED", "REVISION_REQUESTED"}
    /\ r.op = "review" /\ r.to \in Earning /\ ~r.moves
        => r.milestone \in DOMAIN milestones /\ milestones[r.milestone].approved

RequestsSupported == \A s \in Sessions : Supported(session[s])

IInv ==
    /\ TypeOK
    /\ SubmittedHasEvidence /\ EarningApproved /\ ProgressOfApproved
    /\ RequestsSupported

(* The rows keep what requests in flight count on. *)
Kept(rows) ==
    /\ rows \in Seq(Row) /\ Len(rows) <= MaxMilestones
    /\ \A i \in DOMAIN milestones :
           /\ i \in DOMAIN rows
           /\ milestones[i].evidence => rows[i].evidence
           /\ milestones[i].approved => rows[i].approved
    /\ \A i \in DOMAIN rows :
           /\ rows[i].status = "SUBMITTED" => rows[i].evidence
           /\ rows[i].status \in Earning => rows[i].approved

LEMMA KeptSupported ==
  ASSUME Kept(milestones'), NEW r, Supported(r)
  PROVE  Supported(r)'
  BY DEF Kept, Supported

(* A request that begins or ends disturbs no other. *)
LEMMA WorkStep ==
  ASSUME IInv, NEW s \in Sessions, NEW request \in Request, Supported(request),
         session' = [session EXCEPT ![s] = request], Kept(milestones'),
         locked' \in BOOLEAN, progress' \in Int, ProgressOfApproved', overtaken' \in BOOLEAN
  PROVE  IInv'
<1>1. \A t \in Sessions : session'[t] = IF t = s THEN request ELSE session[t]
  BY DEF IInv, TypeOK
<1>2. session' \in [Sessions -> Request]
  BY <1>1 DEF IInv, TypeOK
<1>3. TypeOK'
  BY <1>2 DEF TypeOK, Kept
<1>4. ASSUME NEW t \in Sessions
      PROVE  Supported(session[t])'
  <2>1. PICK r : r = session'[t]
    OBVIOUS
  <2>2. Supported(r)
    BY <1>1, <2>1 DEF IInv, RequestsSupported
  <2>3. Supported(r)'
    BY <2>2, KeptSupported
  <2> QED  BY <2>1, <2>3 DEF Supported
<1>5. SubmittedHasEvidence' /\ EarningApproved'
  BY DEF Kept, SubmittedHasEvidence, EarningApproved
<1> QED  BY <1>3, <1>4, <1>5 DEF IInv, RequestsSupported

(* Progress that is left alone stays of approved milestones. *)
LEMMA KeptProgress ==
  ASSUME IInv, Kept(milestones'), progress' = progress
  PROVE  progress' \in Int /\ ProgressOfApproved'
  BY DEF IInv, TypeOK, Kept, ProgressOfApproved

LEMMA KeptRows == IInv => Kept(milestones)
  BY DEF IInv, TypeOK, SubmittedHasEvidence, EarningApproved, Kept

LEMMA KeptUpdate ==
  ASSUME IInv, NEW i \in DOMAIN milestones, NEW row \in Row,
         milestones[i].evidence => row.evidence, milestones[i].approved => row.approved,
         row.status = "SUBMITTED" => row.evidence, row.status \in Earning => row.approved
  PROVE  Kept([milestones EXCEPT ![i] = row])
  BY DEF IInv, TypeOK, SubmittedHasEvidence, EarningApproved, Kept

LEMMA KeptAppend ==
  ASSUME IInv, NEW row \in Row, row.status = "NOT_STARTED", Len(milestones) < MaxMilestones
  PROVE  Kept(Append(milestones, row))
<1>1. milestones \in Seq(Row) /\ MaxMilestones \in Nat
  BY PlanAssumption DEF IInv, TypeOK
<1>2. Append(milestones, row) \in Seq(Row) /\ Len(Append(milestones, row)) = Len(milestones) + 1
  BY <1>1
<1>3. /\ \A i \in 1 .. Len(milestones) : Append(milestones, row)[i] = milestones[i]
      /\ Append(milestones, row)[Len(milestones) + 1] = row
  BY <1>1
<1>4. Len(Append(milestones, row)) <= MaxMilestones
  BY <1>1, <1>2
<1> QED  BY <1>1, <1>2, <1>3, <1>4 DEF IInv, SubmittedHasEvidence, EarningApproved, Kept, Earning

(* A request that asks, or one that writes nothing. *)
LEMMA AskStep ==
  ASSUME IInv, NEW s \in Sessions, NEW request \in Request, Supported(request),
         session' = [session EXCEPT ![s] = request], UNCHANGED <<project, overtaken>>
  PROVE  IInv'
<1>1. /\ Kept(milestones') /\ locked' \in BOOLEAN /\ progress' = progress
      /\ overtaken' \in BOOLEAN
  BY KeptRows DEF project, IInv, TypeOK, Kept
<1> QED  BY <1>1, KeptProgress, WorkStep

(* What a request of each operation holds. *)
LEMMA RequestFields ==
  ASSUME NEW r \in Request
  PROVE  /\ r.op = "add" => r.weight \in Weights
         /\ r.op = "weigh" => r.milestone \in Id /\ r.weight \in NewWeights
         /\ r.op \in {"delete", "start", "move", "review"} => r.milestone \in Id
         /\ r.op \in {"move", "review"} => r.to \in MilestoneStatus
         /\ r.op = "review" => /\ r.moves \in BOOLEAN
                               /\ r.weight \in Int /\ r.progress \in Int
  BY DEF Request

LEMMA IdleSupported ==
  Idle \in Request /\ Supported(Idle) /\ Idle.op \notin {"add", "weigh", "delete", "finalize"}
  BY DEF Idle, Request, Supported

(* transition_milestone keeps the rows: what it submits has evidence, what *)
(* it approves is approved. *)
LEMMA MovedRow ==
  ASSUME NEW old \in Row, NEW to \in MilestoneStatus
  PROVE  /\ [old EXCEPT !.status = to, !.approved = @ \/ to = "APPROVED"] \in Row
         /\ [old EXCEPT !.status = to, !.approved = @ \/ to = "APPROVED"].status = to
         /\ [old EXCEPT !.status = to, !.approved = @ \/ to = "APPROVED"].evidence = old.evidence
         /\ [old EXCEPT !.status = to, !.approved = @ \/ to = "APPROVED"].weight = old.weight
         /\ [old EXCEPT !.status = to, !.approved = @ \/ to = "APPROVED"].approved
                = (old.approved \/ to = "APPROVED")
  BY DEF Row

LEMMA KeptMoved ==
  ASSUME IInv, NEW s \in Sessions, session[s].op \in {"move", "review"},
         session[s].milestone \in DOMAIN milestones
  PROVE  Kept(Moved(session[s].milestone, session[s].to))
<1> DEFINE i == session[s].milestone
           to == session[s].to
           row == [milestones[i] EXCEPT !.status = to, !.approved = @ \/ to = "APPROVED"]
<1>1. milestones[i] \in Row /\ session[s] \in Request
  BY DEF IInv, TypeOK
<1>2. to \in MilestoneStatus
  BY <1>1, RequestFields
<1>3. Supported(session[s])
  BY DEF IInv, RequestsSupported
<1>4. to # "COMPLETED" /\ (to = "SUBMITTED" => milestones[i].evidence)
  BY <1>3 DEF Supported
<1>5. /\ row \in Row /\ row.status = to /\ row.evidence = milestones[i].evidence
      /\ row.approved = (milestones[i].approved \/ to = "APPROVED")
  BY <1>1, <1>2, MovedRow
<1>6. Moved(i, to) = [milestones EXCEPT ![i] = row]
  BY DEF Moved, IInv, TypeOK
<1> HIDE DEF row, i, to
<1>7. i \in DOMAIN milestones
  BY DEF i
<1>8. Kept([milestones EXCEPT ![i] = row])
  BY <1>4, <1>5, <1>7, KeptUpdate DEF Earning
<1> QED  BY <1>6, <1>8 DEF i, to

LEMMA FullNumber == Full \in Nat
BY DEF Full, Percent

(* The scaffold of a new project. *)
LEMMA ScaffoldRows ==
  Init => /\ milestones \in Seq(Row) /\ Len(milestones) = Len(InitialPlan)
          /\ \A i \in DOMAIN milestones : milestones[i] = NewRow(InitialPlan[i])
          /\ \A i \in DOMAIN InitialPlan : InitialPlan[i] \in 1 .. Full
          /\ InitialPlan \in Seq(Int) /\ DOMAIN milestones = DOMAIN InitialPlan
<1> SUFFICES ASSUME Init
             PROVE  /\ milestones \in Seq(Row) /\ Len(milestones) = Len(InitialPlan)
                    /\ \A i \in DOMAIN milestones : milestones[i] = NewRow(InitialPlan[i])
                    /\ \A i \in DOMAIN InitialPlan : InitialPlan[i] \in 1 .. Full
                    /\ InitialPlan \in Seq(Int) /\ DOMAIN milestones = DOMAIN InitialPlan
  OBVIOUS
<1> DEFINE W == 1 .. Full
<1>1. InitialPlan \in Seq(W)
  BY PlanAssumption
<1>2. W \subseteq Int
  BY FullNumber
<1>3. \A weight \in W : NewRow(weight) \in Row
  BY <1>2 DEF NewRow, Row, MilestoneStatus
<1> HIDE DEF W
<1>4. Len(InitialPlan) \in Nat /\ DOMAIN InitialPlan = 1 .. Len(InitialPlan)
  BY <1>1
<1>5. \A i \in 1 .. Len(InitialPlan) : InitialPlan[i] \in W
  BY <1>1
<1>6. InitialPlan \in Seq(Int)
  <2>1. InitialPlan = [i \in 1 .. Len(InitialPlan) |-> InitialPlan[i]]
    BY <1>1
  <2> QED  BY <1>2, <1>4, <1>5, <2>1
<1>7. milestones = [i \in 1 .. Len(InitialPlan) |-> NewRow(InitialPlan[i])]
  BY <1>4 DEF Init
<1>8. milestones \in Seq(Row) /\ Len(milestones) = Len(InitialPlan)
  BY <1>3, <1>4, <1>5, <1>7
<1> QED  BY <1>4, <1>5, <1>6, <1>7, <1>8 DEF W

LEMMA InitIInv == Init => IInv
<1> SUFFICES ASSUME Init PROVE IInv
  OBVIOUS
<1>1. \A i \in DOMAIN milestones : milestones[i].status = "NOT_STARTED"
  BY ScaffoldRows DEF NewRow
<1>2. session \in [Sessions -> Request] /\ RequestsSupported
  BY IdleSupported DEF Init, NoRequests, RequestsSupported
<1>3. locked \in BOOLEAN /\ progress = 0 /\ overtaken \in BOOLEAN
  BY DEF Init
<1>4. milestones \in Seq(Row) /\ Len(milestones) <= MaxMilestones
  BY ScaffoldRows, PlanAssumption
<1>5. TypeOK
  BY <1>2, <1>3, <1>4 DEF TypeOK
<1>6. SubmittedHasEvidence /\ EarningApproved /\ ProgressOfApproved
  BY <1>1, <1>3 DEF SubmittedHasEvidence, EarningApproved, ProgressOfApproved, Earning, Full, Percent
<1> QED  BY <1>2, <1>5, <1>6 DEF IInv

(* An edition of the plan: the requests, and their commits. *)
LEMMA EditIInv ==
  ASSUME IInv, NEW s \in Planners, Edit(s)
  PROVE  IInv'
<1>0. s \in Sessions /\ session[s] \in Request /\ DOMAIN milestones \subseteq Id
  BY PlanAssumption DEF IInv, TypeOK, Id
<1>a. ASSUME NEW op, FinishEdition(s, op)
      PROVE  /\ session[s].op = op /\ session' = [session EXCEPT ![s] = Idle]
             /\ overtaken' \in BOOLEAN
  BY <1>a DEF FinishEdition, Finish, IInv, TypeOK
<1>1. ASSUME NEW weight \in Weights, AddMilestone(s, weight)
      PROVE  IInv'
  <2> DEFINE request == [op |-> "add", weight |-> weight]
  <2>1. request \in Request /\ Supported(request)
    BY DEF Request, Supported
  <2>2. session' = [session EXCEPT ![s] = request] /\ UNCHANGED <<project, overtaken>>
    BY <1>1 DEF AddMilestone, Ask, Receive
  <2> HIDE DEF request
  <2> QED  BY <1>0, <2>1, <2>2, AskStep
<1>2. CASE FinalizeMilestones(s)
  <2> DEFINE request == [op |-> "finalize"]
  <2>1. request \in Request /\ Supported(request)
    BY DEF Request, Supported
  <2>2. session' = [session EXCEPT ![s] = request] /\ UNCHANGED <<project, overtaken>>
    BY <1>2 DEF FinalizeMilestones, Ask, Receive
  <2> HIDE DEF request
  <2> QED  BY <1>0, <2>1, <2>2, AskStep
<1>3. ASSUME NEW i \in DOMAIN milestones, DeleteMilestone(s, i)
      PROVE  IInv'
  <2> DEFINE request == [op |-> "delete", milestone |-> i]
  <2>1. request \in Request /\ Supported(request)
    BY <1>0 DEF Request, Supported
  <2>2. session' = [session EXCEPT ![s] = request] /\ UNCHANGED <<project, overtaken>>
    BY <1>3 DEF DeleteMilestone, Ask, Receive
  <2> HIDE DEF request
  <2> QED  BY <1>0, <2>1, <2>2, AskStep
<1>4. ASSUME NEW i \in DOMAIN milestones, NEW weight \in NewWeights, UpdateMilestone(s, i, weight)
      PROVE  IInv'
  <2> DEFINE request == [op |-> "weigh", milestone |-> i, weight |-> weight]
  <2>1. request \in Request /\ Supported(request)
    BY <1>0 DEF Request, Supported
  <2>2. session' = [session EXCEPT ![s] = request] /\ UNCHANGED <<project, overtaken>>
    BY <1>4 DEF UpdateMilestone, Ask, Receive
  <2> HIDE DEF request
  <2> QED  BY <1>0, <2>1, <2>2, AskStep
<1>5. CASE CommitAdd(s)
  <2>1. session[s].weight \in Int
    <3>1. session[s].weight \in Weights
      BY <1>0, <1>5, <1>a, RequestFields DEF CommitAdd
    <3>2. PICK weight \in Weights : weight = session[s].weight
      BY <3>1
    <3>3. weight \in 1 .. Full
      BY PlanAssumption
    <3>4. weight \in Int
      BY <3>3, FullNumber
    <3> QED  BY <3>2, <3>4
  <2>2. NewRow(session[s].weight) \in Row /\ NewRow(session[s].weight).status = "NOT_STARTED"
    BY <2>1 DEF NewRow, Row, MilestoneStatus
  <2>3. Kept(milestones')
    BY <1>5, <2>2, KeptAppend DEF CommitAdd
  <2>4. /\ session' = [session EXCEPT ![s] = Idle] /\ UNCHANGED <<locked, progress>>
        /\ overtaken' \in BOOLEAN
    BY <1>5, <1>a DEF CommitAdd
  <2> QED  BY <1>0, <2>3, <2>4, IdleSupported, KeptProgress, WorkStep DEF IInv, TypeOK
<1>6. CASE CommitWeight(s)
  <2> DEFINE i == session[s].milestone
             row == [milestones[i] EXCEPT !.weight = session[s].weight]
  <2>1. i \in DOMAIN milestones /\ milestones[i] \in Row
    BY <1>6 DEF CommitWeight, Live, IInv, TypeOK
  <2>2. session[s].weight \in Int
    BY <1>0, <1>6, <1>a, RequestFields, PlanAssumption DEF CommitWeight
  <2>3. /\ row \in Row /\ row.evidence = milestones[i].evidence
        /\ row.status = milestones[i].status /\ row.approved = milestones[i].approved
    BY <2>1, <2>2 DEF Row
  <2>4. Kept([milestones EXCEPT ![i] = row])
    BY <2>1, <2>3, KeptUpdate DEF IInv, SubmittedHasEvidence, EarningApproved
  <2>5. milestones' = [milestones EXCEPT ![i] = row]
    BY <1>6 DEF CommitWeight
  <2>6. /\ session' = [session EXCEPT ![s] = Idle] /\ UNCHANGED <<locked, progress>>
        /\ overtaken' \in BOOLEAN
    BY <1>6, <1>a DEF CommitWeight
  <2> QED  BY <1>0, <2>4, <2>5, <2>6, IdleSupported, KeptProgress, WorkStep DEF IInv, TypeOK
<1>7. CASE CommitDelete(s)
  <2> DEFINE i == session[s].milestone
             row == [milestones[i] EXCEPT !.status = Deleted]
  <2>1. i \in DOMAIN milestones /\ milestones[i] \in Row
    BY <1>7 DEF CommitDelete, Live, IInv, TypeOK
  <2>2. /\ row \in Row /\ row.evidence = milestones[i].evidence
        /\ row.status = Deleted /\ row.approved = milestones[i].approved
    BY <2>1 DEF Row
  <2>3. Kept([milestones EXCEPT ![i] = row])
    BY <2>1, <2>2, KeptUpdate DEF Deleted, Earning
  <2>4. milestones' = [milestones EXCEPT ![i] = row]
    BY <1>7 DEF CommitDelete
  <2>5. /\ session' = [session EXCEPT ![s] = Idle] /\ UNCHANGED <<locked, progress>>
        /\ overtaken' \in BOOLEAN
    BY <1>7, <1>a DEF CommitDelete
  <2> QED  BY <1>0, <2>3, <2>4, <2>5, IdleSupported, KeptProgress, WorkStep DEF IInv, TypeOK
<1>8. CASE CommitLock(s)
  <2>1. /\ session' = [session EXCEPT ![s] = Idle] /\ locked' = TRUE
        /\ UNCHANGED <<milestones, progress>> /\ overtaken' \in BOOLEAN
    BY <1>8, <1>a DEF CommitLock
  <2>2. Kept(milestones')
    BY <2>1, KeptRows DEF Kept
  <2> QED  BY <1>0, <2>1, <2>2, IdleSupported, KeptProgress, WorkStep
<1> QED  BY <1>1, <1>2, <1>3, <1>4, <1>5, <1>6, <1>7, <1>8 DEF Edit

(* The weights of some rows, as a sequence. *)
LEMMA RowWeights ==
  ASSUME NEW rows \in Seq(Row), NEW ids
  PROVE  /\ WeightsOf(rows, ids) \in Seq(Int)
         /\ Len(WeightsOf(rows, ids)) = Len(rows)
         /\ \A n \in 1 .. Len(rows) :
                WeightsOf(rows, ids)[n] = IF n \in ids THEN rows[n].weight ELSE 0
<1>1. \A n \in 1 .. Len(rows) : rows[n].weight \in Int
  <2>1. \A n \in 1 .. Len(rows) : rows[n] \in Row
    OBVIOUS
  <2> QED  BY <2>1 DEF Row
<1>2. WeightsOf(rows, ids) = [n \in 1 .. Len(rows) |-> IF n \in ids THEN rows[n].weight ELSE 0]
  BY DEF WeightsOf
<1>3. Len(rows) \in Nat
  OBVIOUS
<1> QED  BY <1>1, <1>2, <1>3

LEMMA TotalInt ==
  ASSUME NEW rows \in Seq(Row), NEW ids
  PROVE  Total(rows, ids) \in Int
BY RowWeights, SumInt DEF Total

(* Rounding stays within 100%, and makes no progress of none. *)
LEMMA RoundedProgress ==
  ASSUME NEW n \in Int, n <= Full
  PROVE  Rounded(n) \in Int /\ Rounded(n) <= Full /\ (Rounded(n) # 0 => n # 0)
<1>1. LockTolerance = 10000 /\ Full = 100000000
  BY DEF LockTolerance, Full, Percent
<1>2. Rounded(n) = ((n + 5000) \div 10000) * 10000
  BY <1>1 DEF Rounded
<1> QED  BY <1>1, <1>2

(* Progress is of approved milestones: the sum of no weights is none. *)
LEMMA EarnedProgress ==
  ASSUME IInv, NEW i, NEW to, NEW weight \in Int
  PROVE  /\ Earned(i, to, weight) \in Int /\ Earned(i, to, weight) <= Full
         /\ Earned(i, to, weight) # 0
               => to \in Earning \/ \E j \in DOMAIN milestones : milestones[j].approved
<1> DEFINE ids == {j \in Plan \ {i} : milestones[j].status \in Earning}
           others == Total(milestones, ids)
<1>1. milestones \in Seq(Row) /\ EarningApproved
  BY DEF IInv, TypeOK
<1>2. /\ WeightsOf(milestones, ids) \in Seq(Int)
      /\ Len(WeightsOf(milestones, ids)) = Len(milestones)
      /\ \A n \in 1 .. Len(milestones) :
             WeightsOf(milestones, ids)[n] = IF n \in ids THEN milestones[n].weight ELSE 0
  <2> HIDE DEF ids
  <2> QED  BY <1>1, RowWeights
<1>3. others \in Int
  BY <1>2, SumInt DEF Total
<1>4. ASSUME others # 0
      PROVE  \E j \in DOMAIN milestones : milestones[j].approved
  <2>1. PICK j \in 1 .. Len(milestones) : WeightsOf(milestones, ids)[j] # 0
    BY <1>2, <1>4, SumOfZeros DEF Total
  <2>2. j \in ids
    BY <1>2, <2>1
  <2>3. j \in DOMAIN milestones /\ milestones[j].status \in Earning
    BY <2>2 DEF Plan
  <2> QED  BY <1>1, <2>3 DEF EarningApproved
<1> DEFINE sum == IF to \in Earning THEN others + weight ELSE others
           capped == IF sum < Full THEN sum ELSE Full
<1>5. Earned(i, to, weight) = Rounded(capped)
  BY DEF Earned
<1> HIDE DEF others, ids
<1>6. sum \in Int /\ Full \in Int /\ Full # 0
  BY <1>3 DEF Full, Percent
<1>7. capped \in Int /\ capped <= Full /\ (capped # 0 => to \in Earning \/ others # 0)
  <2>1. to \notin Earning => sum = others
    OBVIOUS
  <2> HIDE DEF sum
  <2> QED  BY <1>3, <1>6, <2>1 DEF Full, Percent
<1> HIDE DEF capped
<1>8. Rounded(capped) \in Int /\ Rounded(capped) <= Full /\ (Rounded(capped) # 0 => capped # 0)
  BY <1>7, RoundedProgress
<1> QED  BY <1>4, <1>5, <1>7, <1>8

(* An upload, a submission, an inspection or a review, and their commits. *)
LEMMA WorkIInv ==
  ASSUME IInv, NEW s \in Workers, Work(s)
  PROVE  IInv'
<1>0. s \in Sessions /\ session[s] \in Request /\ DOMAIN milestones \subseteq Id
  BY PlanAssumption DEF IInv, TypeOK, Id
<1>1. ASSUME NEW i \in DOMAIN milestones, NEW role, UploadMilestoneEvidence(s, role, i)
      PROVE  IInv'
  <2> DEFINE row == [milestones[i] EXCEPT !.evidence = TRUE]
             request == [op |-> "start", milestone |-> i,
                         may |-> MayMove(role, "NOT_STARTED", "IN_PROGRESS")]
  <2>1. milestones[i] \in Row
    BY DEF IInv, TypeOK
  <2>2. /\ row \in Row /\ row.evidence /\ row.status = milestones[i].status
        /\ row.approved = milestones[i].approved
    BY <2>1 DEF Row
  <2>3. Kept([milestones EXCEPT ![i] = row])
    BY <2>2, KeptUpdate DEF IInv, EarningApproved
  <2>4. milestones' = [milestones EXCEPT ![i] = row] /\ session' = [session EXCEPT ![s] = request]
        /\ UNCHANGED <<locked, progress, overtaken>>
    BY <1>1 DEF UploadMilestoneEvidence, Evidenced
  <2>5. MayMove(role, "NOT_STARTED", "IN_PROGRESS") \in BOOLEAN
    BY DEF MayMove
  <2>6. request \in Request /\ Supported(request)
    BY <1>0, <2>5 DEF Request, Supported
  <2> HIDE DEF row, request
  <2> QED  BY <1>0, <2>3, <2>4, <2>6, KeptProgress, WorkStep DEF IInv, TypeOK
<1>2. ASSUME NEW i \in DOMAIN milestones, NEW role, SubmitMilestone(s, role, i)
      PROVE  IInv'
  <2> DEFINE request == [op |-> "move", milestone |-> i, to |-> "SUBMITTED"]
  <2>1. request \in Request /\ Supported(request)
    BY <1>0, <1>2 DEF SubmitMilestone, Request, Supported, MilestoneStatus
  <2>2. session' = [session EXCEPT ![s] = request] /\ UNCHANGED <<project, overtaken>>
    BY <1>2 DEF SubmitMilestone, Ask, Receive
  <2> HIDE DEF request
  <2> QED  BY <1>0, <2>1, <2>2, AskStep
<1>3. ASSUME NEW i \in DOMAIN milestones, NEW role, VerifyMilestone(s, role, i)
      PROVE  IInv'
  <2> DEFINE request == [op |-> "move", milestone |-> i, to |-> "APPROVED"]
  <2>1. request \in Request /\ Supported(request)
    BY <1>0 DEF Request, Supported, MilestoneStatus
  <2>2. session' = [session EXCEPT ![s] = request] /\ UNCHANGED <<project, overtaken>>
    BY <1>3 DEF VerifyMilestone, Ask, Receive
  <2> HIDE DEF request
  <2> QED  BY <1>0, <2>1, <2>2, AskStep
<1>4. ASSUME NEW i \in DOMAIN milestones, NEW role, NEW to \in {"APPROVED", "REVISION_REQUESTED"},
             ReviewMilestone(s, role, i, to)
      PROVE  IInv'
  <2> DEFINE request == [op |-> "review", milestone |-> i, to |-> to,
                         moves |-> milestones[i].status # to,
                         weight |-> milestones[i].weight, progress |-> progress]
  <2>1. milestones[i] \in Row /\ progress \in Int
    BY DEF IInv, TypeOK
  <2>2. milestones[i].status \in MilestoneStatus
    BY <1>4, <2>1 DEF ReviewMilestone, Live, Row
  <2>3. request \in Request
    BY <1>0, <2>1, <2>2 DEF Request, Row, MilestoneStatus
  <2>4. Supported(request)
    BY DEF Supported, IInv, EarningApproved
  <2>5. session' = [session EXCEPT ![s] = request] /\ UNCHANGED <<project, overtaken>>
    BY <1>4 DEF ReviewMilestone, Ask, Receive
  <2> HIDE DEF request
  <2> QED  BY <1>0, <2>3, <2>4, <2>5, AskStep
<1>5. ASSUME NEW i \in DOMAIN milestones, NEW role, ApproveMilestone(s, role, i)
      PROVE  IInv'
  BY <1>4, <1>5 DEF ApproveMilestone
<1>6. CASE StartMilestone(s)
  <2> DEFINE request == [op |-> "move", milestone |-> session[s].milestone, to |-> "IN_PROGRESS"]
  <2>1. PICK r \in {request, Idle} : session' = [session EXCEPT ![s] = r]
    BY <1>6 DEF StartMilestone
  <2>2. session[s].milestone \in Id
    BY <1>0, <1>6, RequestFields DEF StartMilestone
  <2>3. r \in Request /\ Supported(r)
    BY <2>2, IdleSupported DEF Request, Supported, MilestoneStatus
  <2>4. UNCHANGED <<project, overtaken>>
    BY <1>6 DEF StartMilestone, project
  <2> QED  BY <1>0, <2>1, <2>3, <2>4, AskStep
<1>7. CASE CommitMove(s)
  <2>1. session[s].op = "move" /\ session[s].milestone \in DOMAIN milestones
        /\ milestones' = Moved(session[s].milestone, session[s].to)
    BY <1>7 DEF CommitMove, Finish, Live
  <2>2. session' = [session EXCEPT ![s] = Idle] /\ UNCHANGED <<locked, progress, overtaken>>
    BY <1>7 DEF CommitMove, Finish
  <2>3. Kept(milestones')
    BY <1>0, <2>1, KeptMoved
  <2> QED  BY <1>0, <2>2, <2>3, IdleSupported, KeptProgress, WorkStep DEF IInv, TypeOK
<1>8. CASE CommitReview(s)
  <2> DEFINE r == session[s]
             earned == Earned(r.milestone, r.to, r.weight)
  <2>1. /\ r.op = "review" /\ session' = [session EXCEPT ![s] = Idle]
        /\ r.milestone \in DOMAIN milestones /\ UNCHANGED <<locked, overtaken>>
        /\ milestones' = IF r.moves THEN Moved(r.milestone, r.to) ELSE milestones
        /\ progress' \in {progress, earned}
    BY <1>8 DEF CommitReview, Finish, Live
  <2>2. Kept(milestones')
    BY <1>0, <2>1, KeptMoved, KeptRows
  <2>3. r.to \in {"APPROVED", "REVISION_REQUESTED"} /\ Supported(r) /\ r.weight \in Int
    BY <1>0, <2>1, RequestFields DEF IInv, RequestsSupported, Supported
  <2>4. earned \in Int /\ earned <= Full
        /\ (earned # 0 => r.to \in Earning \/ \E j \in DOMAIN milestones : milestones[j].approved)
    BY <2>3, EarnedProgress
  <2>5. ASSUME r.to \in Earning
        PROVE  r.milestone \in DOMAIN milestones' /\ milestones'[r.milestone].approved
    <3>1. CASE ~r.moves
      BY <2>1, <2>3, <2>5, <3>1 DEF Supported
    <3>2. CASE r.moves
      <4>1. milestones[r.milestone] \in Row /\ milestones \in Seq(Row)
        BY <2>1 DEF IInv, TypeOK
      <4>2. r.to = "APPROVED" /\ r.to \in MilestoneStatus
        BY <2>3, <2>5 DEF Earning, MilestoneStatus
      <4>3. milestones'[r.milestone]
              = [milestones[r.milestone] EXCEPT !.status = r.to,
                                                !.approved = @ \/ r.to = "APPROVED"]
        BY <2>1, <3>2, <4>1 DEF Moved
      <4>4. r.milestone \in DOMAIN milestones'
        BY <2>1, <2>2 DEF Kept
      <4>5. [milestones[r.milestone] EXCEPT !.status = r.to,
                                            !.approved = @ \/ r.to = "APPROVED"].approved
              = (milestones[r.milestone].approved \/ r.to = "APPROVED")
        BY <4>1, <4>2, MovedRow
      <4> QED  BY <4>2, <4>3, <4>4, <4>5
    <3> QED  BY <3>1, <3>2
  <2>6. earned # 0 => \E j \in DOMAIN milestones' : milestones'[j].approved
    BY <2>2, <2>4, <2>5 DEF Kept
  <2> HIDE DEF earned
  <2>7. progress' \in Int /\ ProgressOfApproved'
    <3>1. CASE progress' = progress
      BY <2>2, <3>1, KeptProgress
    <3>2. CASE progress' = earned
      BY <2>4, <2>6, <3>2 DEF ProgressOfApproved
    <3> QED  BY <2>1, <3>1, <3>2
  <2> QED  BY <1>0, <2>1, <2>2, <2>7, IdleSupported, WorkStep DEF IInv, TypeOK
<1> QED  BY <1>1, <1>2, <1>3, <1>4, <1>5, <1>6, <1>7, <1>8 DEF Work

LEMMA NextIInv == IInv /\ [Next]_vars => IInv'
<1> SUFFICES ASSUME IInv, [Next]_vars PROVE IInv'
  OBVIOUS
<1>1. CASE \E s \in Planners : Edit(s)
  BY <1>1, EditIInv
<1>2. CASE \E s \in Workers : Work(s)
  BY <1>2, WorkIInv
<1>3. CASE \E s \in Sessions : RollBack(s) /\ UNCHANGED <<project, overtaken>>
  BY <1>3, AskStep, IdleSupported DEF RollBack
<1>4. CASE UNCHANGED vars
  BY <1>4 DEF vars, project, IInv, TypeOK, RequestsSupported, Supported, SubmittedHasEvidence,
              EarningApproved, ProgressOfApproved
<1> QED  BY <1>1, <1>2, <1>3, <1>4 DEF Next

(* The rows, the lock, the progress and the requests keep their types      *)
(* (models.py, workflow_service.py). *)
THEOREM TypeCorrectness == Spec => []TypeOK
<1>1. IInv => TypeOK
  BY DEF IInv
<1> QED  BY <1>1, InitIInv, NextIInv, PTL DEF Spec

(* A submitted milestone has evidence, however uploads, submissions and     *)
(* reviews overlap (submit_milestone, workflow_service.py). *)
THEOREM SubmittedProved == Spec => []SubmittedHasEvidence
<1>1. IInv => SubmittedHasEvidence
  BY DEF IInv
<1> QED  BY <1>1, InitIInv, NextIInv, PTL DEF Spec

(* Progress is of approved milestones and never beyond 100%, for any        *)
(* weights, a negative one too (recalculate_project_progress,               *)
(* workflow_service.py). *)
THEOREM ProgressIsOfApproved == Spec => []ProgressOfApproved
<1>1. IInv => ProgressOfApproved
  BY DEF IInv
<1> QED  BY <1>1, InitIInv, NextIInv, PTL DEF Spec

-----------------------------------------------------------------------------
(* The plan, until an edition is overtaken *)

(* What remains of the budget when no milestone that was deleted had a     *)
(* negative weight. *)
SpentBudget ==
    (\A i \in DOMAIN milestones : ~Live(i) => milestones[i].weight >= 0)
        => Total(milestones, Plan) <= Full + EditTolerance

LockComplete == locked => Complete

PlanOps == {"add", "weigh", "delete", "finalize"}

(* What a request that edits the plan may count on when it commits. *)
Fits(r) ==
    /\ r.op \in PlanOps \ {"finalize"} => ~locked
    /\ r.op = "add" => Total(milestones, Plan) + r.weight <= Full + EditTolerance
    /\ r.op = "weigh" =>
           Total(milestones, Plan \ {r.milestone}) + r.weight <= Full + EditTolerance
    /\ r.op = "finalize" => Complete

EditionsFit ==
    \A s \in Sessions : session[s].op \in PlanOps => s \in Planners /\ Fits(session[s])

PlanInv == IInv /\ SpentBudget /\ LockComplete /\ EditionsFit

(* It holds until the commit of an edition leaves another one behind. *)
UnlessOvertaken == IInv /\ (~overtaken => PlanInv)

LEMMA WeightsInt == Weights \subseteq Int
<1>1. \A weight \in Weights : weight \in 1 .. Full
  BY PlanAssumption
<1> QED  BY <1>1, FullNumber

(* The rows keep what the plan depends on. *)
SamePlan(rows) ==
    /\ rows \in Seq(Row) /\ Len(rows) = Len(milestones)
    /\ \A i \in 1 .. Len(milestones) :
           /\ rows[i].weight = milestones[i].weight
           /\ rows[i].status = Deleted <=> milestones[i].status = Deleted

LEMMA SameTotals ==
  ASSUME IInv, SamePlan(milestones')
  PROVE  /\ Plan' = Plan /\ DOMAIN milestones' = DOMAIN milestones
         /\ \A i \in DOMAIN milestones : Live(i)' = Live(i)
         /\ \A ids : Total(milestones', ids) = Total(milestones, ids)
<1>1. milestones \in Seq(Row) /\ milestones' \in Seq(Row) /\ Len(milestones') = Len(milestones)
  BY DEF IInv, TypeOK, SamePlan
<1>2. DOMAIN milestones = 1 .. Len(milestones) /\ DOMAIN milestones' = 1 .. Len(milestones)
  BY <1>1
<1>3. \A i \in DOMAIN milestones : Live(i)' = Live(i)
  BY <1>2 DEF SamePlan, Live
<1>4. Plan' = Plan
  BY <1>2, <1>3 DEF Plan
<1>5. \A ids : WeightsOf(milestones', ids) = WeightsOf(milestones, ids)
  BY <1>2 DEF WeightsOf, SamePlan
<1> QED  BY <1>2, <1>3, <1>4, <1>5 DEF Total

LEMMA SameFits ==
  ASSUME IInv, SamePlan(milestones'), locked' = locked, NEW r, Fits(r)
  PROVE  Fits(r)'
<1>1. Plan' = Plan /\ \A ids : Total(milestones', ids) = Total(milestones, ids)
  BY SameTotals
<1>2. Total(milestones, Plan)' = Total(milestones, Plan)
  BY <1>1
<1>3. Total(milestones', Plan' \ {r.milestone}) = Total(milestones, Plan \ {r.milestone})
  BY <1>1
<1> QED  BY <1>2, <1>3 DEF Fits, Complete

(* A request begins, works on the milestones, or ends without editing. *)
LEMMA PlanStep ==
  ASSUME PlanInv, IInv', SamePlan(milestones'), locked' = locked,
         NEW s \in Sessions, NEW request, session' = [session EXCEPT ![s] = request],
         request.op \in PlanOps => s \in Planners /\ Fits(request)
  PROVE  PlanInv'
<1>1. IInv
  BY DEF PlanInv
<1>2. SpentBudget' /\ LockComplete'
  <2>1. \A i \in DOMAIN milestones : milestones'[i].weight = milestones[i].weight
    BY <1>1 DEF SamePlan, IInv, TypeOK
  <2>2. Total(milestones, Plan)' = Total(milestones, Plan)
    BY <1>1, SameTotals
  <2> QED  BY <1>1, <2>1, <2>2, SameTotals DEF PlanInv, SpentBudget, LockComplete, Complete
<1>3. ASSUME NEW t \in Sessions, session'[t].op \in PlanOps
      PROVE  t \in Planners /\ Fits(session[t])'
  <2>1. PICK r : r = session'[t]
    OBVIOUS
  <2>2. session'[t] = IF t = s THEN request ELSE session[t]
    BY <1>1 DEF IInv, TypeOK
  <2>3. t \in Planners /\ Fits(r)
    BY <1>3, <2>1, <2>2 DEF PlanInv, EditionsFit
  <2>4. Fits(r)'
    BY <1>1, <2>3, SameFits
  <2> QED  BY <2>1, <2>3, <2>4 DEF Fits, Complete
<1> QED  BY <1>2, <1>3 DEF PlanInv, EditionsFit

(* When the only edition under way ends, none is. *)
LEMMA EditionEnds ==
  ASSUME PlanInv, NEW s \in Planners, session' = [session EXCEPT ![s] = Idle],
         \A other \in Planners \ {s} : session[other] = Idle
  PROVE  EditionsFit'
<1>1. \A t \in Sessions : session'[t] = IF t = s THEN Idle ELSE session[t]
  BY DEF PlanInv, IInv, TypeOK
<1>2. \A t \in Sessions : session'[t].op \notin PlanOps
  BY <1>1 DEF PlanInv, EditionsFit, PlanOps, Idle
<1> QED  BY <1>2 DEF EditionsFit

(* Two sets hold the same rows but for one. *)
EqualButRow(old, new, i) == \A n \in DOMAIN milestones : n # i => (n \in old <=> n \in new)

(* One row is written. *)
RowWritten(rows, i, row) ==
    /\ rows \in Seq(Row) /\ Len(rows) = Len(milestones) /\ rows[i] = row
    /\ \A n \in DOMAIN milestones : n # i => rows[n] = milestones[n]

LEMMA Written ==
  ASSUME IInv, NEW i \in DOMAIN milestones, NEW row \in Row
  PROVE  RowWritten([milestones EXCEPT ![i] = row], i, row)
  BY DEF IInv, TypeOK, RowWritten

Share(ids, i, row) == IF i \in ids THEN row.weight ELSE 0

(* The total changes by what the row adds to it. *)
LEMMA TotalUpdate ==
  ASSUME IInv, NEW i \in DOMAIN milestones, NEW row, NEW old, NEW new, NEW rows,
         EqualButRow(old, new, i), RowWritten(rows, i, row)
  PROVE  Total(rows, new)
            = Total(milestones, old) + (Share(new, i, row) - Share(old, i, milestones[i]))
<1> DEFINE u == WeightsOf(rows, new)
           v == WeightsOf(milestones, old)
<1>1. milestones \in Seq(Row) /\ DOMAIN milestones = 1 .. Len(milestones)
  BY DEF IInv, TypeOK
<1>2. /\ rows \in Seq(Row) /\ Len(rows) = Len(milestones) /\ rows[i] = row
      /\ \A n \in DOMAIN milestones : n # i => rows[n] = milestones[n]
  BY DEF RowWritten
<1>3. /\ u \in Seq(Int) /\ Len(u) = Len(milestones)
      /\ \A n \in 1 .. Len(milestones) : u[n] = IF n \in new THEN rows[n].weight ELSE 0
  BY <1>2, RowWeights
<1>4. /\ v \in Seq(Int) /\ Len(v) = Len(milestones)
      /\ \A n \in 1 .. Len(milestones) : v[n] = IF n \in old THEN milestones[n].weight ELSE 0
  BY <1>1, RowWeights
<1> HIDE DEF u, v
<1>5. ASSUME NEW n \in 1 .. Len(v), n # i
      PROVE  u[n] = v[n]
  <2>1. n \in DOMAIN milestones /\ n \in 1 .. Len(milestones) /\ rows[n] = milestones[n]
    BY <1>1, <1>2, <1>4, <1>5
  <2>2. n \in old <=> n \in new
    BY <1>5, <2>1 DEF EqualButRow
  <2>3. /\ u[n] = IF n \in new THEN rows[n].weight ELSE 0
        /\ v[n] = IF n \in old THEN milestones[n].weight ELSE 0
    BY <1>3, <1>4, <2>1
  <2> QED  BY <2>1, <2>2, <2>3
<1>6. SumOf(u) = SumOf(v) + (u[i] - v[i])
  BY <1>1, <1>3, <1>4, <1>5, SumUpdate
<1>7. u[i] = Share(new, i, row) /\ v[i] = Share(old, i, milestones[i])
  BY <1>1, <1>2, <1>3, <1>4 DEF Share
<1> QED  BY <1>6, <1>7 DEF Total, u, v

LEMMA TotalAppend ==
  ASSUME IInv, NEW row \in Row, NEW old, NEW new,
         \A n \in DOMAIN milestones : n \in old <=> n \in new, Len(milestones) + 1 \in new
  PROVE  Total(Append(milestones, row), new) = Total(milestones, old) + row.weight
<1> DEFINE rows == Append(milestones, row)
           l == Len(milestones)
           u == WeightsOf(rows, new)
           v == WeightsOf(milestones, old)
<1>1. milestones \in Seq(Row) /\ l \in Nat /\ DOMAIN milestones = 1 .. l
  BY DEF IInv, TypeOK
<1>2. /\ rows \in Seq(Row) /\ Len(rows) = l + 1 /\ rows[l + 1] = row
      /\ \A n \in 1 .. l : rows[n] = milestones[n]
  BY <1>1
<1> HIDE DEF rows
<1>3. /\ u \in Seq(Int) /\ Len(u) = l + 1
      /\ \A n \in 1 .. (l + 1) : u[n] = IF n \in new THEN rows[n].weight ELSE 0
  BY <1>2, RowWeights
<1>4. /\ v \in Seq(Int) /\ Len(v) = l
      /\ \A n \in 1 .. l : v[n] = IF n \in old THEN milestones[n].weight ELSE 0
  BY <1>1, RowWeights
<1> HIDE DEF u, v
<1>5. ASSUME NEW n \in 1 .. l
      PROVE  u[n] = v[n]
  <2>1. n \in DOMAIN milestones /\ n \in 1 .. (l + 1) /\ rows[n] = milestones[n]
    BY <1>1, <1>2
  <2>2. n \in old <=> n \in new
    BY <2>1
  <2>3. /\ u[n] = IF n \in new THEN rows[n].weight ELSE 0
        /\ v[n] = IF n \in old THEN milestones[n].weight ELSE 0
    BY <1>3, <1>4, <2>1
  <2> QED  BY <2>1, <2>2, <2>3
<1>6. SumOf(u) = SumOf(v) + u[l + 1]
  <2>1. Len(u) = Len(v) + 1 /\ \A n \in 1 .. Len(v) : u[n] = v[n]
    BY <1>3, <1>4, <1>5
  <2>2. SumOf(u) = SumOf(v) + u[Len(u)]
    BY <1>3, <1>4, <2>1, SumAppend
  <2> QED  BY <1>3, <2>2
<1>7. u[l + 1] = row.weight
  <2>1. l + 1 \in 1 .. (l + 1)
    BY <1>1
  <2> QED  BY <1>2, <1>3, <2>1
<1> QED  BY <1>6, <1>7 DEF Total, u, v, rows

(* An edition of the plan that overtakes no other. *)
LEMMA EditPlanInv ==
  ASSUME PlanInv, NEW s \in Planners, Edit(s), ~overtaken'
  PROVE  PlanInv'
<1>0. /\ IInv /\ IInv' /\ s \in Sessions /\ session[s] \in Request
      /\ milestones \in Seq(Row) /\ SamePlan(milestones)
      /\ DOMAIN milestones = 1 .. Len(milestones)
  BY EditIInv, PlanAssumption DEF PlanInv, IInv, TypeOK, SamePlan
<1>1. session[s].op \in PlanOps => Fits(session[s])
  BY <1>0 DEF PlanInv, EditionsFit
<1>a. ASSUME NEW op, FinishEdition(s, op)
      PROVE  /\ session[s].op = op /\ session' = [session EXCEPT ![s] = Idle]
             /\ \A other \in Planners \ {s} : session[other] = Idle
  BY <1>a DEF FinishEdition, Finish
<1>2. ASSUME NEW request, Fits(request), UNCHANGED project,
             session' = [session EXCEPT ![s] = request]
      PROVE  PlanInv'
  <2>1. SamePlan(milestones') /\ locked' = locked
    BY <1>0, <1>2 DEF project, SamePlan
  <2> QED  BY <1>0, <1>2, <2>1, PlanStep
<1>3. ASSUME NEW weight \in Weights, AddMilestone(s, weight)
      PROVE  PlanInv'
  <2>1. Fits([op |-> "add", weight |-> weight])
    BY <1>3 DEF AddMilestone, Fits
  <2> QED  BY <1>2, <1>3, <2>1 DEF AddMilestone, Ask, Receive
<1>4. CASE FinalizeMilestones(s)
  <2>1. Fits([op |-> "finalize"])
    BY <1>4 DEF FinalizeMilestones, Fits, PlanOps
  <2> QED  BY <1>2, <1>4, <2>1 DEF FinalizeMilestones, Ask, Receive
<1>5. ASSUME NEW i \in DOMAIN milestones, DeleteMilestone(s, i)
      PROVE  PlanInv'
  <2>1. Fits([op |-> "delete", milestone |-> i])
    BY <1>5 DEF DeleteMilestone, Fits
  <2> QED  BY <1>2, <1>5, <2>1 DEF DeleteMilestone, Ask, Receive
<1>6. ASSUME NEW i \in DOMAIN milestones, NEW weight \in NewWeights, UpdateMilestone(s, i, weight)
      PROVE  PlanInv'
  <2>1. Fits([op |-> "weigh", milestone |-> i, weight |-> weight])
    BY <1>6 DEF UpdateMilestone, Fits
  <2> QED  BY <1>2, <1>6, <2>1 DEF UpdateMilestone, Ask, Receive
<1>7. ASSUME session' = [session EXCEPT ![s] = Idle], ~locked',
             \A other \in Planners \ {s} : session[other] = Idle,
             Total(milestones', Plan') <= Full + EditTolerance
      PROVE  PlanInv'
  <2>1. EditionsFit'
    BY <1>7, EditionEnds
  <2>2. SpentBudget' /\ LockComplete'
    BY <1>7 DEF SpentBudget, LockComplete
  <2> QED  BY <1>0, <2>1, <2>2 DEF PlanInv
<1>8. CASE CommitAdd(s)
  <2> DEFINE row == NewRow(session[s].weight)
             l == Len(milestones)
  <2>1. /\ session[s].op = "add" /\ session' = [session EXCEPT ![s] = Idle] /\ locked' = locked
        /\ milestones' = Append(milestones, row)
        /\ \A other \in Planners \ {s} : session[other] = Idle
    BY <1>8, <1>a DEF CommitAdd
  <2>2. session[s].weight \in Weights /\ Weights \subseteq Int
    BY <1>0, <2>1, RequestFields, WeightsInt
  <2>3. row \in Row /\ row.weight = session[s].weight /\ row.status = "NOT_STARTED"
    BY <2>2 DEF NewRow, Row, MilestoneStatus
  <2> HIDE DEF row
  <2>4. /\ DOMAIN milestones' = 1 .. (l + 1) /\ milestones'[l + 1] = row /\ l \in Nat
        /\ \A n \in 1 .. l : milestones'[n] = milestones[n]
    BY <1>0, <2>1, <2>3
  <2>5. \A n \in DOMAIN milestones : n \in Plan <=> n \in Plan'
    BY <1>0, <2>4 DEF Plan, Live
  <2>6. l + 1 \in Plan'
    BY <2>3, <2>4 DEF Plan, Live, Deleted
  <2>7. Total(Append(milestones, row), Plan') = Total(milestones, Plan) + row.weight
    <3> DEFINE new == Plan'
    <3>1. (\A n \in DOMAIN milestones : n \in Plan <=> n \in new) /\ l + 1 \in new
      BY <2>5, <2>6
    <3> HIDE DEF new
    <3>2. Total(Append(milestones, row), new) = Total(milestones, Plan) + row.weight
      BY <1>0, <2>3, <3>1, TotalAppend
    <3> QED  BY <3>2 DEF new
  <2>8. ~locked /\ Total(milestones, Plan) + session[s].weight <= Full + EditTolerance
    BY <1>1, <2>1 DEF Fits, PlanOps
  <2> QED  BY <1>7, <2>1, <2>3, <2>7, <2>8
<1>9. CASE CommitWeight(s)
  <2>0. PICK i : i = session[s].milestone
    OBVIOUS
  <2> DEFINE row == [milestones[i] EXCEPT !.weight = session[s].weight]
  <2>1. /\ session[s].op = "weigh" /\ session' = [session EXCEPT ![s] = Idle]
        /\ locked' = locked /\ Live(i) /\ milestones' = [milestones EXCEPT ![i] = row]
        /\ \A other \in Planners \ {s} : session[other] = Idle
    BY <1>9, <2>0, <1>a DEF CommitWeight
  <2>2. i \in DOMAIN milestones /\ milestones[i] \in Row /\ session[s].weight \in Int
    BY <1>0, <2>0, <2>1, RequestFields, PlanAssumption DEF Live
  <2>3. row \in Row /\ row.weight = session[s].weight /\ row.status = milestones[i].status
    BY <2>2 DEF Row
  <2> HIDE DEF row
  <2>4. /\ DOMAIN milestones' = DOMAIN milestones
        /\ \A n \in DOMAIN milestones : milestones'[n].status = milestones[n].status
    BY <2>1, <2>2, <2>3
  <2>5. Plan' = Plan /\ i \in Plan
    BY <2>1, <2>2, <2>4 DEF Plan, Live
  <2>6. Total(milestones', Plan) = Total(milestones, Plan \ {i}) + (row.weight - 0)
    <3> DEFINE old == Plan \ {i}
               new == Plan
    <3>1. EqualButRow(old, new, i) /\ i \in new /\ i \notin old
      BY <2>5 DEF EqualButRow
    <3> HIDE DEF old, new
    <3>2. RowWritten(milestones', i, row)
      BY <1>0, <2>1, <2>2, <2>3, Written
    <3>3. Total(milestones', new)
            = Total(milestones, old) + (Share(new, i, row) - Share(old, i, milestones[i]))
      BY <1>0, <2>2, <3>1, <3>2, TotalUpdate
    <3>4. Share(new, i, row) = row.weight /\ Share(old, i, milestones[i]) = 0
      BY <3>1 DEF Share
    <3> QED  BY <3>3, <3>4 DEF old, new
  <2>7. ~locked /\ Total(milestones, Plan \ {i}) + session[s].weight <= Full + EditTolerance
    BY <1>1, <2>0, <2>1 DEF Fits, PlanOps
  <2>8. Total(milestones', Plan') = Total(milestones, Plan \ {i}) + session[s].weight
    BY <2>2, <2>3, <2>5, <2>6
  <2> QED  BY <1>7, <2>1, <2>7, <2>8
<1>10. CASE CommitDelete(s)
  <2>0. PICK i : i = session[s].milestone
    OBVIOUS
  <2> DEFINE row == [milestones[i] EXCEPT !.status = Deleted]
  <2>1. /\ session[s].op = "delete" /\ session' = [session EXCEPT ![s] = Idle]
        /\ locked' = locked /\ Live(i) /\ milestones' = [milestones EXCEPT ![i] = row]
        /\ \A other \in Planners \ {s} : session[other] = Idle
    BY <1>10, <2>0, <1>a DEF CommitDelete
  <2>2. i \in DOMAIN milestones /\ milestones[i] \in Row
    BY <1>0, <2>1 DEF Live
  <2>3. row \in Row /\ row.weight = milestones[i].weight /\ row.status = Deleted
    BY <2>2 DEF Row
  <2> HIDE DEF row
  <2>4. /\ DOMAIN milestones' = DOMAIN milestones /\ milestones'[i] = row
        /\ \A n \in DOMAIN milestones : n # i => milestones'[n] = milestones[n]
    BY <2>1, <2>2
  <2>5. Plan' = Plan \ {i} /\ i \in Plan /\ ~Live(i)'
    BY <2>1, <2>2, <2>3, <2>4 DEF Plan, Live
  <2>6. Total(milestones', Plan \ {i}) = Total(milestones, Plan) + (0 - milestones[i].weight)
    <3> DEFINE old == Plan
               new == Plan \ {i}
    <3>1. EqualButRow(old, new, i) /\ i \in old /\ i \notin new
      BY <2>5 DEF EqualButRow
    <3> HIDE DEF old, new
    <3>2. RowWritten(milestones', i, row)
      BY <1>0, <2>1, <2>2, <2>3, Written
    <3>3. Total(milestones', new)
            = Total(milestones, old) + (Share(new, i, row) - Share(old, i, milestones[i]))
      BY <1>0, <2>2, <3>1, <3>2, TotalUpdate
    <3>4. Share(new, i, row) = 0 /\ Share(old, i, milestones[i]) = milestones[i].weight
      BY <3>1 DEF Share
    <3> QED  BY <3>3, <3>4 DEF old, new
  <2>7. ~locked
    BY <1>1, <2>1 DEF Fits, PlanOps
  <2>8. SpentBudget'
    <3> SUFFICES ASSUME \A n \in DOMAIN milestones' : ~Live(n)' => milestones'[n].weight >= 0
                 PROVE  Total(milestones', Plan') <= Full + EditTolerance
      BY DEF SpentBudget
    <3>1. milestones[i].weight >= 0
      BY <2>2, <2>3, <2>4, <2>5
    <3>2. \A n \in DOMAIN milestones : ~Live(n) => milestones[n].weight >= 0
      BY <2>1, <2>4 DEF Live
    <3>3. Total(milestones, Plan) <= Full + EditTolerance
      BY <3>2 DEF PlanInv, SpentBudget
    <3>4. Total(milestones, Plan) \in Int /\ milestones[i].weight \in Int
      BY <1>0, <2>2, TotalInt DEF Row
    <3>5. Full + EditTolerance \in Int
      BY FullNumber DEF EditTolerance
    <3> QED  BY <2>5, <2>6, <3>1, <3>3, <3>4, <3>5
  <2>9. EditionsFit'
    BY <2>1, EditionEnds
  <2> QED  BY <1>0, <2>1, <2>7, <2>8, <2>9 DEF PlanInv, LockComplete
<1>11. CASE CommitLock(s)
  <2>1. /\ session[s].op = "finalize" /\ session' = [session EXCEPT ![s] = Idle]
        /\ UNCHANGED milestones
        /\ \A other \in Planners \ {s} : session[other] = Idle
    BY <1>11, <1>a DEF CommitLock
  <2>2. Complete
    BY <1>1, <2>1 DEF Fits, PlanOps
  <2>3. SamePlan(milestones')
    BY <1>0, <2>1
  <2>4. /\ Total(milestones, Plan)' = Total(milestones, Plan)
        /\ \A i \in DOMAIN milestones : Live(i)' = Live(i)
    BY <1>0, <2>3, SameTotals
  <2>5. SpentBudget' /\ LockComplete'
    BY <2>1, <2>2, <2>4 DEF PlanInv, SpentBudget, LockComplete, Complete
  <2>6. EditionsFit'
    BY <2>1, EditionEnds
  <2> QED  BY <1>0, <2>5, <2>6 DEF PlanInv
<1> QED  BY <1>3, <1>4, <1>5, <1>6, <1>8, <1>9, <1>10, <1>11 DEF Edit

LEMMA InitPlanInv == Init => PlanInv
<1> SUFFICES ASSUME Init PROVE PlanInv
  OBVIOUS
<1>1. /\ milestones \in Seq(Row) /\ DOMAIN milestones = DOMAIN InitialPlan
      /\ \A i \in DOMAIN milestones : milestones[i] = NewRow(InitialPlan[i])
      /\ InitialPlan \in Seq(Int)
  BY ScaffoldRows
<1>2. Plan = DOMAIN milestones
  <2>1. \A i \in DOMAIN milestones : milestones[i].status = "NOT_STARTED"
    BY <1>1 DEF NewRow
  <2>2. \A i \in DOMAIN milestones : Live(i)
    BY <2>1 DEF Live, Deleted
  <2> QED  BY <2>2 DEF Plan
<1>3. WeightsOf(milestones, Plan) = InitialPlan
  <2>1. WeightsOf(milestones, Plan) = [i \in DOMAIN InitialPlan |-> InitialPlan[i]]
    BY <1>1, <1>2 DEF WeightsOf, NewRow
  <2> QED  BY <1>1, <2>1
<1>4. Total(milestones, Plan) <= Full + EditTolerance
  <2>1. SumOf(InitialPlan) \in Int /\ SumOf(InitialPlan) <= Full
    BY <1>1, PlanAssumption, SumInt
  <2> QED  BY <1>3, <2>1, FullNumber DEF Total, EditTolerance
<1>5. ~locked /\ \A s \in Sessions : session[s].op \notin PlanOps
  BY IdleSupported DEF Init, NoRequests, PlanOps
<1> QED  BY <1>4, <1>5, InitIInv DEF PlanInv, SpentBudget, LockComplete, EditionsFit

(* The work on the milestones leaves the plan alone. *)
LEMMA WorkPlanInv ==
  ASSUME PlanInv, NEW s \in Workers, Work(s)
  PROVE  PlanInv'
<1>0. /\ IInv /\ IInv' /\ s \in Sessions /\ session[s] \in Request
      /\ milestones \in Seq(Row) /\ DOMAIN milestones = 1 .. Len(milestones)
      /\ SamePlan(milestones)
  BY WorkIInv, PlanAssumption DEF PlanInv, IInv, TypeOK, SamePlan
<1>1. ASSUME NEW request, request.op \notin PlanOps, SamePlan(milestones'), locked' = locked,
             session' = [session EXCEPT ![s] = request]
      PROVE  PlanInv'
  BY <1>0, <1>1, PlanStep
<1>2. ASSUME UNCHANGED project
      PROVE  SamePlan(milestones') /\ locked' = locked
  BY <1>0, <1>2 DEF project, SamePlan
<1>3. ASSUME NEW i \in DOMAIN milestones, NEW row \in Row,
             row.weight = milestones[i].weight,
             row.status = Deleted <=> milestones[i].status = Deleted
      PROVE  SamePlan([milestones EXCEPT ![i] = row])
  BY <1>0, <1>3 DEF SamePlan
<1>4. ASSUME NEW i \in DOMAIN milestones, NEW to \in MilestoneStatus, milestones[i].status # Deleted
      PROVE  SamePlan(Moved(i, to))
  <2> DEFINE row == [milestones[i] EXCEPT !.status = to, !.approved = @ \/ to = "APPROVED"]
  <2>1. milestones[i] \in Row
    BY <1>0
  <2>2. row \in Row /\ row.weight = milestones[i].weight /\ row.status = to
    BY <2>1, MovedRow
  <2>3. Moved(i, to) = [milestones EXCEPT ![i] = row]
    BY <1>0 DEF Moved
  <2>4. to # Deleted
    BY DEF MilestoneStatus, Deleted
  <2> HIDE DEF row
  <2> QED  BY <1>3, <1>4, <2>2, <2>3, <2>4
<1>5. ASSUME NEW i \in DOMAIN milestones, NEW role, UploadMilestoneEvidence(s, role, i)
      PROVE  PlanInv'
  <2> DEFINE row == [milestones[i] EXCEPT !.evidence = TRUE]
             request == [op |-> "start", milestone |-> i,
                         may |-> MayMove(role, "NOT_STARTED", "IN_PROGRESS")]
  <2>1. milestones[i] \in Row
    BY <1>0
  <2>2. row \in Row /\ row.weight = milestones[i].weight /\ row.status = milestones[i].status
    BY <2>1 DEF Row
  <2>3. milestones' = [milestones EXCEPT ![i] = row] /\ session' = [session EXCEPT ![s] = request]
        /\ locked' = locked
    BY <1>5 DEF UploadMilestoneEvidence, Evidenced
  <2>4. request.op \notin PlanOps
    BY DEF PlanOps
  <2> HIDE DEF row, request
  <2>5. SamePlan(milestones')
    BY <1>3, <2>2, <2>3
  <2> QED  BY <1>1, <2>3, <2>4, <2>5
<1>6. ASSUME NEW i \in DOMAIN milestones, NEW role, SubmitMilestone(s, role, i)
      PROVE  PlanInv'
  <2>1. [op |-> "move", milestone |-> i, to |-> "SUBMITTED"].op \notin PlanOps
    BY DEF PlanOps
  <2> QED  BY <1>1, <1>2, <1>6, <2>1 DEF SubmitMilestone, Ask, Receive
<1>7. ASSUME NEW i \in DOMAIN milestones, NEW role, VerifyMilestone(s, role, i)
      PROVE  PlanInv'
  <2>1. [op |-> "move", milestone |-> i, to |-> "APPROVED"].op \notin PlanOps
    BY DEF PlanOps
  <2> QED  BY <1>1, <1>2, <1>7, <2>1 DEF VerifyMilestone, Ask, Receive
<1>8. ASSUME NEW i \in DOMAIN milestones, NEW role, NEW to, ReviewMilestone(s, role, i, to)
      PROVE  PlanInv'
  <2> DEFINE request == [op |-> "review", milestone |-> i, to |-> to,
                         moves |-> milestones[i].status # to,
                         weight |-> milestones[i].weight, progress |-> progress]
  <2>1. request.op \notin PlanOps
    BY DEF PlanOps
  <2>2. session' = [session EXCEPT ![s] = request] /\ UNCHANGED project
    BY <1>8 DEF ReviewMilestone, Ask, Receive
  <2> HIDE DEF request
  <2> QED  BY <1>1, <1>2, <2>1, <2>2
<1>9. CASE StartMilestone(s)
  <2> DEFINE request == [op |-> "move", milestone |-> session[s].milestone, to |-> "IN_PROGRESS"]
  <2>1. PICK r \in {request, Idle} : session' = [session EXCEPT ![s] = r]
    BY <1>9 DEF StartMilestone
  <2>2. r.op \notin PlanOps
    BY DEF PlanOps, Idle
  <2>3. UNCHANGED project
    BY <1>9 DEF StartMilestone, project
  <2> QED  BY <1>1, <1>2, <2>1, <2>2, <2>3
<1>10. CASE CommitMove(s)
  <2>1. /\ session[s].milestone \in DOMAIN milestones /\ session[s].op = "move"
        /\ milestones[session[s].milestone].status # Deleted
        /\ milestones' = Moved(session[s].milestone, session[s].to)
        /\ session' = [session EXCEPT ![s] = Idle] /\ locked' = locked
    BY <1>10 DEF CommitMove, Finish, Live
  <2>2. session[s].to \in MilestoneStatus
    BY <1>0, <2>1, RequestFields
  <2>3. SamePlan(milestones')
    BY <1>4, <2>1, <2>2
  <2> QED  BY <1>1, <2>1, <2>3, IdleSupported DEF PlanOps
<1>11. CASE CommitReview(s)
  <2>1. /\ session[s].milestone \in DOMAIN milestones /\ session[s].op = "review"
        /\ milestones[session[s].milestone].status # Deleted
        /\ milestones' \in {milestones, Moved(session[s].milestone, session[s].to)}
        /\ session' = [session EXCEPT ![s] = Idle] /\ locked' = locked
    BY <1>11 DEF CommitReview, Finish, Live
  <2>2. session[s].to \in MilestoneStatus
    BY <1>0, <2>1, RequestFields
  <2>3. SamePlan(milestones')
    BY <1>0, <1>4, <2>1, <2>2
  <2> QED  BY <1>1, <2>1, <2>3, IdleSupported DEF PlanOps
<1>12. ASSUME NEW i \in DOMAIN milestones, NEW role, ApproveMilestone(s, role, i)
       PROVE  PlanInv'
  BY <1>8, <1>12 DEF ApproveMilestone
<1> QED  BY <1>5, <1>6, <1>7, <1>8, <1>9, <1>10, <1>11, <1>12 DEF Work

LEMMA NextPlanInv == UnlessOvertaken /\ [Next]_vars => UnlessOvertaken'
<1> SUFFICES ASSUME UnlessOvertaken, [Next]_vars PROVE UnlessOvertaken'
  OBVIOUS
<1>0. IInv /\ IInv'
  BY NextIInv DEF UnlessOvertaken
<1>1. overtaken \in BOOLEAN /\ overtaken' \in BOOLEAN
  BY <1>0 DEF IInv, TypeOK
<1>2. ASSUME NEW s \in Planners, Edit(s), overtaken
      PROVE  overtaken'
  BY <1>2 DEF Edit, AddMilestone, FinalizeMilestones, DeleteMilestone, UpdateMilestone, Ask,
      CommitAdd, CommitWeight, CommitDelete, CommitLock, FinishEdition
<1>3. ASSUME NEW s \in Workers, Work(s)
      PROVE  overtaken' = overtaken
  BY <1>3 DEF Work, UploadMilestoneEvidence, SubmitMilestone, VerifyMilestone, ReviewMilestone,
      ApproveMilestone, StartMilestone, CommitMove, CommitReview, Ask
<1>4. overtaken => overtaken'
  BY <1>2, <1>3 DEF Next, vars
<1>5. ASSUME ~overtaken'
      PROVE  PlanInv'
  <2>1. PlanInv
    BY <1>4, <1>5 DEF UnlessOvertaken
  <2>2. SamePlan(milestones)
    BY <1>0 DEF IInv, TypeOK, SamePlan
  <2>3. CASE \E s \in Planners : Edit(s)
    BY <1>5, <2>1, <2>3, EditPlanInv
  <2>4. CASE \E s \in Workers : Work(s)
    BY <2>1, <2>4, WorkPlanInv
  <2>5. CASE \E s \in Sessions : RollBack(s) /\ UNCHANGED <<project, overtaken>>
    <3>1. PICK s \in Sessions : session' = [session EXCEPT ![s] = Idle] /\ UNCHANGED project
      BY <2>5 DEF RollBack
    <3>2. SamePlan(milestones') /\ locked' = locked
      BY <2>2, <3>1 DEF project, SamePlan
    <3> QED  BY <1>0, <2>1, <3>1, <3>2, PlanStep, IdleSupported DEF PlanOps
  <2>6. CASE UNCHANGED vars
    <3>1. UNCHANGED <<milestones, locked, progress, session>>
      BY <2>6 DEF vars, project
    <3> QED  BY <1>0, <2>1, <3>1 DEF PlanInv, SpentBudget, LockComplete, Complete, EditionsFit,
                                    Fits, Live, Plan
  <2> QED  BY <2>3, <2>4, <2>5, <2>6 DEF Next
<1> QED  BY <1>0, <1>5 DEF UnlessOvertaken

LEMMA PlanInvariance == Spec => []UnlessOvertaken
<1>1. Init => UnlessOvertaken
  BY InitPlanInv DEF UnlessOvertaken, PlanInv
<1> QED  BY <1>1, NextPlanInv, PTL DEF Spec

(* However many people edit the plan, its weights never exceed 100%, as    *)
(* long as none is negative and no edition is committed between the check  *)
(* and the commit of another, whatever the work on the milestones writes    *)
(* meanwhile (add_milestone, update_milestone, projects.py). *)
THEOREM PlanFits == Spec => []PlanWithinTotal
<1>1. UnlessOvertaken => PlanWithinTotal
  BY DEF UnlessOvertaken, PlanInv, SpentBudget, PlanWithinTotal
<1> QED  BY <1>1, PlanInvariance, PTL

(* A locked plan is of 100%, within the tolerance of the lock, as long as  *)
(* no edition was overtaken (finalize_milestones, projects.py). *)
THEOREM LockedPlansAreComplete == Spec => []LockedPlanComplete
<1>1. UnlessOvertaken => LockedPlanComplete
  BY DEF UnlessOvertaken, PlanInv, LockComplete, LockedPlanComplete
<1> QED  BY <1>1, PlanInvariance, PTL

-----------------------------------------------------------------------------
(* The team *)

(* The rows that a request names are there: rows are never deleted. *)
Named(r) ==
    /\ r.op = "answer" => r.invitation \in DOMAIN invitations
    /\ r.op = "remove" => r.member \in DOMAIN members
    /\ r.op = "grade" => r.task \in DOMAIN tasks

RequestsNamed == \A s \in Sessions : Named(session[s])

TeamInv == TeamTypeOK /\ LeaversRecorded /\ RequestsNamed

TeamRows ==
    /\ invitations \in Seq(Invitation) /\ Len(invitations) <= MaxInvitations
    /\ members \in Seq(Member) /\ Len(members) <= MaxMembers
    /\ mentor \in Faculty \cup {Nobody}
    /\ history \subseteq Entry
    /\ tasks \in Seq(Task) /\ Len(tasks) <= MaxTasks
    /\ contested \subseteq 1 .. MaxInvitations

LEMMA TeamTypes == TeamTypeOK <=> TeamRows /\ session \in [Sessions -> TeamRequest]
  BY DEF TeamTypeOK, TeamRows

(* No row is deleted. *)
Grown ==
    /\ DOMAIN invitations \subseteq DOMAIN invitations'
    /\ DOMAIN members \subseteq DOMAIN members'
    /\ DOMAIN tasks \subseteq DOMAIN tasks'

LEMMA NamedGrows ==
  ASSUME Grown, NEW r, Named(r)
  PROVE  Named(r)'
  BY DEF Grown, Named

(* A request that begins or ends disturbs no other. *)
LEMMA TeamStep ==
  ASSUME TeamInv, NEW s \in Sessions, NEW request \in TeamRequest, Named(request),
         session' = [session EXCEPT ![s] = request], TeamRows', Grown, LeaversRecorded'
  PROVE  TeamInv'
<1>1. \A t \in Sessions : session'[t] = IF t = s THEN request ELSE session[t]
  BY TeamTypes DEF TeamInv
<1>2. session' \in [Sessions -> TeamRequest]
  BY <1>1, TeamTypes DEF TeamInv
<1>3. TeamTypeOK'
  BY <1>2 DEF TeamTypeOK, TeamRows
<1>4. ASSUME NEW t \in Sessions
      PROVE  Named(session[t])'
  <2>1. PICK r : r = session'[t]
    OBVIOUS
  <2>2. Named(r)
    BY <1>1, <2>1 DEF TeamInv, RequestsNamed
  <2>3. Named(r)'
    BY <2>2, NamedGrows
  <2> QED  BY <2>1, <2>3 DEF Named
<1> QED  BY <1>3, <1>4 DEF TeamInv, RequestsNamed

(* Whoever left stays on record. *)
LEMMA LeaversKept ==
  ASSUME TeamInv, history \subseteq history',
         \A m \in DOMAIN members' : ~members'[m].active =>
             /\ m \in DOMAIN members /\ ~members[m].active
             /\ members'[m].student = members[m].student
  PROVE  LeaversRecorded'
  BY DEF TeamInv, LeaversRecorded

(* A request that asks, or one that writes nothing. *)
LEMMA AskTeamStep ==
  ASSUME TeamInv, NEW s \in Sessions, NEW request \in TeamRequest, Named(request),
         session' = [session EXCEPT ![s] = request], UNCHANGED team
  PROVE  TeamInv'
<1>1. UNCHANGED <<invitations, members, mentor, history, tasks, contested>>
  BY DEF team
<1>2. TeamRows' /\ Grown
  BY <1>1, TeamTypes DEF TeamInv, TeamRows, Grown
<1>3. LeaversRecorded'
  BY <1>1 DEF TeamInv, LeaversRecorded
<1> QED  BY <1>2, <1>3, TeamStep

LEMMA IdleNamed == Idle \in TeamRequest /\ Named(Idle) /\ Idle.op # "answer"
  BY DEF Idle, TeamRequest, Named

LEMMA TeamRequestFields ==
  ASSUME NEW r \in TeamRequest
  PROVE  /\ r.op = "invite" => r.to \in People
         /\ r.op = "answer" => r.invitation \in 1 .. MaxInvitations /\ r.accept \in BOOLEAN
         /\ r.op = "remove" => r.member \in 1 .. MaxMembers /\ r.by \in Students \cup {Nobody}
         /\ r.op = "assign" => r.to \in Students \cup {Nobody}
         /\ r.op = "grade" => /\ r.task \in 1 .. MaxTasks /\ r.approve \in BOOLEAN
                              /\ r.writes \in SUBSET {"status", "completed"}
  BY DEF TeamRequest

LEMMA InitTeamInv == TeamInit => TeamInv
<1> SUFFICES ASSUME TeamInit PROVE TeamInv
  OBVIOUS
<1>1. Invited \in Seq(People) /\ Len(Invited) <= MaxInvitations
  BY TeamAssumption
<1>2. \A i \in 1 .. Len(Invited) : Pending(Invited[i]) \in Invitation
  BY <1>1 DEF Pending, Invitation
<1>3. invitations = [i \in 1 .. Len(Invited) |-> Pending(Invited[i])] /\ Len(Invited) \in Nat
  BY <1>1 DEF TeamInit
<1>4. invitations \in Seq(Invitation) /\ Len(invitations) = Len(Invited)
  BY <1>2, <1>3
<1>5. TeamRows
  BY <1>1, <1>4, TeamAssumption DEF TeamInit, TeamRows
<1>6. session \in [Sessions -> TeamRequest] /\ RequestsNamed
  BY IdleNamed DEF TeamInit, NoRequests, RequestsNamed
<1>7. LeaversRecorded
  BY DEF TeamInit, LeaversRecorded
<1> QED  BY <1>5, <1>6, <1>7, TeamTypes DEF TeamInv

(* A request that runs the team, or its commit. *)
LEMMA ManageTeamInv ==
  ASSUME TeamInv, NEW s \in Managers, Manage(s)
  PROVE  TeamInv'
<1>0. /\ TeamRows /\ s \in Sessions /\ session[s] \in TeamRequest /\ Named(session[s])
      /\ DOMAIN members \subseteq 1 .. MaxMembers /\ DOMAIN tasks \subseteq 1 .. MaxTasks
  <2>1. TeamRows /\ s \in Sessions /\ session[s] \in TeamRequest /\ Named(session[s])
    BY TeamTypes, TeamAssumption DEF TeamInv, RequestsNamed
  <2>2. MaxMembers \in Nat /\ MaxTasks \in Nat
    BY TeamAssumption
  <2> QED  BY <2>1, <2>2 DEF TeamRows
<1>1. ASSUME NEW request \in TeamRequest, Named(request), AskTeam(s, request)
      PROVE  TeamInv'
  BY <1>0, <1>1, AskTeamStep DEF AskTeam, Receive
<1>2. ASSUME NEW person \in People, InviteTeamMember(s, person)
      PROVE  TeamInv'
  <2>1. [op |-> "invite", to |-> person] \in TeamRequest /\ Named([op |-> "invite", to |-> person])
    BY DEF TeamRequest, Named
  <2> QED  BY <1>1, <1>2, <2>1 DEF InviteTeamMember
<1>3. ASSUME NEW m \in DOMAIN members, NEW by \in Students \cup {Nobody},
             RemoveProjectMember(s, m, by)
      PROVE  TeamInv'
  <2> DEFINE request == [op |-> "remove", member |-> m, by |-> by]
  <2>1. request \in TeamRequest /\ Named(request)
    BY <1>0 DEF TeamRequest, Named
  <2>2. AskTeam(s, request)
    BY <1>3 DEF RemoveProjectMember
  <2> HIDE DEF request
  <2> QED  BY <1>1, <2>1, <2>2
<1>4. ASSUME NEW student \in Students \cup {Nobody}, AddTask(s, student)
      PROVE  TeamInv'
  <2>1. /\ [op |-> "assign", to |-> student] \in TeamRequest
        /\ Named([op |-> "assign", to |-> student])
    BY DEF TeamRequest, Named
  <2> QED  BY <1>1, <1>4, <2>1 DEF AddTask
<1>5. ASSUME NEW t \in DOMAIN tasks, NEW approve \in BOOLEAN, ReviewTask(s, t, approve)
      PROVE  TeamInv'
  <2>1. PICK writes \in SUBSET {"status", "completed"} :
            AskTeam(s, [op |-> "grade", task |-> t, approve |-> approve, writes |-> writes])
    BY <1>5 DEF ReviewTask
  <2> DEFINE request == [op |-> "grade", task |-> t, approve |-> approve, writes |-> writes]
  <2>2. request \in TeamRequest /\ Named(request)
    BY <1>0 DEF TeamRequest, Named
  <2>3. AskTeam(s, request)
    BY <2>1
  <2> HIDE DEF request
  <2> QED  BY <1>1, <2>2, <2>3
<1>6. ASSUME session' = [session EXCEPT ![s] = Idle], TeamRows', Grown, LeaversRecorded'
      PROVE  TeamInv'
  BY <1>0, <1>6, TeamStep, IdleNamed
<1>7. CASE CommitInvitation(s)
  <2>1. /\ session' = [session EXCEPT ![s] = Idle] /\ Len(invitations) < MaxInvitations
        /\ invitations' = Append(invitations, Pending(session[s].to))
        /\ UNCHANGED <<members, mentor, history, tasks, contested>> /\ session[s].op = "invite"
    BY <1>7 DEF CommitInvitation, Finish
  <2>2. Pending(session[s].to) \in Invitation
    BY <1>0, <2>1, TeamRequestFields DEF Pending, Invitation
  <2>3. invitations \in Seq(Invitation) /\ MaxInvitations \in Nat
    BY <1>0, TeamAssumption DEF TeamRows
  <2>4. invitations' \in Seq(Invitation) /\ Len(invitations') = Len(invitations) + 1
    BY <2>1, <2>2, <2>3
  <2>5. Len(invitations') <= MaxInvitations /\ DOMAIN invitations \subseteq DOMAIN invitations'
    BY <2>1, <2>3, <2>4
  <2>6. TeamRows' /\ Grown
    BY <1>0, <2>1, <2>4, <2>5 DEF TeamRows, Grown
  <2>7. LeaversRecorded'
    BY <2>1 DEF TeamInv, LeaversRecorded
  <2> QED  BY <1>6, <2>1, <2>6, <2>7
<1>8. CASE CommitRemoval(s)
  <2>0. PICK m, by : m = session[s].member /\ by = session[s].by
    OBVIOUS
  <2> DEFINE left == [members EXCEPT ![m].active = FALSE]
             person == members[m].student
  <2>1. /\ session[s].op = "remove" /\ session' = [session EXCEPT ![s] = Idle]
        /\ \/ members' = left /\ Recorded("REMOVED", person)
           \/ /\ by # Nobody /\ Len(members) < MaxMembers
              /\ members' = Append(left, NewMember(by, NoInvitation))
              /\ Recorded("REPLACED", person)
        /\ UNCHANGED <<invitations, mentor, tasks, contested>>
    BY <1>8, <2>0 DEF CommitRemoval, Finish
  <2>2. m \in DOMAIN members /\ by \in Students \cup {Nobody} /\ members \in Seq(Member)
        /\ MaxMembers \in Nat /\ MaxInvitations \in Nat /\ Len(members) <= MaxMembers
    BY <1>0, <2>0, <2>1, TeamRequestFields, TeamAssumption DEF Named, TeamRows
  <2>3. members[m] \in Member /\ person \in People
    <3>1. members[m] \in Member
      BY <2>2
    <3> QED  BY <3>1 DEF Member, People
  <2>4. PICK gone \in Member : gone.student = person /\ left = [members EXCEPT ![m] = gone]
    <3>1. [members[m] EXCEPT !.active = FALSE] \in Member
          /\ [members[m] EXCEPT !.active = FALSE].student = person
      BY <2>3 DEF Member
    <3> QED  BY <2>2, <3>1
  <2> HIDE DEF left
  <2>5. /\ left \in Seq(Member) /\ Len(left) = Len(members) /\ left[m].student = person
        /\ \A n \in 1 .. Len(members) : n # m => left[n] = members[n]
    BY <2>2, <2>4
  <2>6. PICK action \in {"REMOVED", "REPLACED"} : Recorded(action, person)
    BY <2>1
  <2>7. history' = history \cup {[action |-> action, person |-> person]}
        /\ [action |-> action, person |-> person] \in Entry
    BY <2>3, <2>6 DEF Recorded, Entry
  <2>8. /\ members' \in Seq(Member) /\ Len(members') <= MaxMembers
        /\ Len(members') \in {Len(left), Len(left) + 1}
        /\ \A n \in 1 .. Len(left) : members'[n] = left[n]
        /\ \A n \in DOMAIN members' : n \notin DOMAIN left => members'[n].active
    <3>1. CASE members' = left
      BY <2>2, <2>5, <3>1
    <3>2. CASE by # Nobody /\ Len(members) < MaxMembers
               /\ members' = Append(left, NewMember(by, NoInvitation))
      <4>1. NewMember(by, NoInvitation) \in Member /\ NewMember(by, NoInvitation).active
        BY <2>2, <3>2 DEF NewMember, NoInvitation, Member
      <4> HIDE DEF NewMember
      <4>2. /\ members' \in Seq(Member) /\ Len(members') = Len(left) + 1
            /\ members'[Len(left) + 1] = NewMember(by, NoInvitation)
            /\ \A n \in 1 .. Len(left) : members'[n] = left[n]
        BY <2>5, <3>2, <4>1
      <4> QED  BY <2>2, <2>5, <3>2, <4>1, <4>2
    <3> QED  BY <2>1, <3>1, <3>2
  <2>9. TeamRows' /\ Grown
    BY <1>0, <2>1, <2>2, <2>5, <2>7, <2>8 DEF TeamRows, Grown
  <2>10. ASSUME NEW n \in DOMAIN members', ~members'[n].active
         PROVE  \E entry \in history' : entry.person = members'[n].student /\ entry.action # "ADDED"
    <3>1. n \in 1 .. Len(members) /\ n \in DOMAIN members /\ members'[n] = left[n]
      BY <2>2, <2>5, <2>8, <2>10
    <3>2. CASE n = m
      BY <2>5, <2>7, <3>1, <3>2
    <3>3. CASE n # m
      <4>1. members'[n] = members[n]
        BY <2>5, <3>1, <3>3
      <4>2. \E entry \in history : entry.person = members[n].student /\ entry.action # "ADDED"
        BY <2>10, <3>1, <4>1 DEF TeamInv, LeaversRecorded
      <4> QED  BY <2>7, <4>1, <4>2
    <3> QED  BY <3>2, <3>3
  <2>11. LeaversRecorded'
    BY <2>10 DEF LeaversRecorded
  <2> QED  BY <1>6, <2>1, <2>9, <2>11
<1>9. CASE CommitTask(s)
  <2> DEFINE task == [assignee |-> session[s].to, status |-> "PENDING",
                      completed |-> FALSE, evidence |-> FALSE]
  <2>1. /\ session' = [session EXCEPT ![s] = Idle] /\ Len(tasks) < MaxTasks
        /\ tasks' = Append(tasks, task) /\ session[s].op = "assign"
        /\ UNCHANGED <<invitations, members, mentor, history, contested>>
    BY <1>9 DEF CommitTask, Finish
  <2>2. task \in Task /\ tasks \in Seq(Task) /\ MaxTasks \in Nat
    BY <1>0, <2>1, TeamRequestFields, TeamAssumption DEF Task, TeamRows
  <2> HIDE DEF task
  <2>3. tasks' \in Seq(Task) /\ Len(tasks') = Len(tasks) + 1
    BY <2>1, <2>2
  <2>4. Len(tasks') <= MaxTasks /\ DOMAIN tasks \subseteq DOMAIN tasks'
    BY <2>1, <2>2, <2>3
  <2>5. TeamRows' /\ Grown
    BY <1>0, <2>1, <2>3, <2>4 DEF TeamRows, Grown
  <2>6. LeaversRecorded'
    BY <2>1 DEF TeamInv, LeaversRecorded
  <2> QED  BY <1>6, <2>1, <2>5, <2>6
<1>10. CASE CommitGrade(s)
  <2>1. /\ session' = [session EXCEPT ![s] = Idle] /\ session[s].op = "grade"
        /\ UNCHANGED <<invitations, members, mentor, history, contested>>
    BY <1>10 DEF CommitGrade, Finish
  <2>2. PICK r : r = session[s]
    OBVIOUS
  <2>3. tasks' = [tasks EXCEPT
               ![r.task].status = IF "status" \in r.writes THEN Grade(r.approve) ELSE @,
               ![r.task].completed = IF "completed" \in r.writes THEN r.approve ELSE @]
    BY <1>10, <2>2 DEF CommitGrade
  <2>4. r.task \in DOMAIN tasks /\ tasks \in Seq(Task) /\ r.approve \in BOOLEAN
    BY <1>0, <2>1, <2>2, TeamRequestFields DEF Named, TeamRows
  <2>5. PICK status, completed :
            /\ status = IF "status" \in r.writes THEN Grade(r.approve) ELSE tasks[r.task].status
            /\ completed = IF "completed" \in r.writes THEN r.approve ELSE tasks[r.task].completed
    OBVIOUS
  <2>6. tasks[r.task] \in Task
    BY <2>4
  <2>7. [tasks[r.task] EXCEPT !.status = status, !.completed = completed] \in Task
    <3>1. status \in {"PENDING", "SUBMITTED", "APPROVED", "REVISION_REQUESTED"}
      BY <2>5, <2>6 DEF Grade, Task
    <3>2. completed \in BOOLEAN
      BY <2>4, <2>5, <2>6 DEF Task
    <3> QED  BY <2>6, <3>1, <3>2 DEF Task
  <2>8. tasks' = [tasks EXCEPT ![r.task] =
                     [tasks[r.task] EXCEPT !.status = status, !.completed = completed]]
    BY <2>3, <2>4, <2>5, <2>6 DEF Task
  <2>9. tasks' \in Seq(Task) /\ Len(tasks') = Len(tasks)
    BY <2>4, <2>7, <2>8
  <2>10. TeamRows' /\ Grown
    BY <1>0, <2>1, <2>9 DEF TeamRows, Grown
  <2>11. LeaversRecorded'
    BY <2>1 DEF TeamInv, LeaversRecorded
  <2> QED  BY <1>6, <2>1, <2>10, <2>11
<1> QED  BY <1>2, <1>3, <1>4, <1>5, <1>7, <1>8, <1>9, <1>10 DEF Manage

LEMMA AcceptanceFields ==
  ASSUME TeamInv, NEW s \in Sessions, session[s].op = "answer"
  PROVE  /\ session[s].invitation \in DOMAIN invitations
         /\ session[s].invitation \in 1 .. MaxInvitations
         /\ invitations \in Seq(Invitation)
         /\ invitations[session[s].invitation] \in Invitation
<1>1. session[s] \in TeamRequest /\ Named(session[s]) /\ invitations \in Seq(Invitation)
  BY TeamTypes DEF TeamInv, RequestsNamed, TeamRows
<1>2. session[s].invitation \in DOMAIN invitations /\ session[s].invitation \in 1 .. MaxInvitations
  BY <1>1, TeamRequestFields DEF Named
<1> QED  BY <1>1, <1>2

(* The answers to an invitation that overlap with the one committed are     *)
(* contested from now on. *)
LEMMA ContestedGrows ==
  ASSUME TeamInv, NEW s \in Sessions, session[s].op = "answer", Contested(s)
  PROVE  /\ contested \subseteq contested' /\ contested' \subseteq 1 .. MaxInvitations
         /\ \A t \in Sessions \ {s} :
                session[t].op = "answer" /\ session[t].invitation = session[s].invitation
                   => session[s].invitation \in contested'
<1>1. session[s].invitation \in 1 .. MaxInvitations /\ contested \subseteq 1 .. MaxInvitations
  BY AcceptanceFields, TeamTypes DEF TeamInv, TeamRows
<1> QED  BY <1>1 DEF Contested

(* An answered invitation. *)
LEMMA AnsweredRow ==
  ASSUME NEW i \in DOMAIN invitations, invitations \in Seq(Invitation),
         NEW status \in {"ACCEPTED", "DECLINED"}, Answered(i, status)
  PROVE  /\ invitations' \in Seq(Invitation) /\ Len(invitations') = Len(invitations)
         /\ DOMAIN invitations' = DOMAIN invitations
         /\ invitations'[i] = [to |-> invitations[i].to, status |-> status]
         /\ \A n \in DOMAIN invitations : n # i => invitations'[n] = invitations[n]
<1>1. invitations[i] \in Invitation
  OBVIOUS
<1> DEFINE row == [to |-> invitations[i].to, status |-> status]
<1>2. row \in Invitation
  BY <1>1 DEF Invitation
<1>3. [invitations[i] EXCEPT !.status = status] = row
  BY <1>1 DEF Invitation
<1>4. invitations' = [invitations EXCEPT ![i] = row]
  BY <1>3 DEF Answered
<1> HIDE DEF row
<1>5. /\ invitations' \in Seq(Invitation) /\ Len(invitations') = Len(invitations)
      /\ DOMAIN invitations' = DOMAIN invitations /\ invitations'[i] = row
      /\ \A n \in DOMAIN invitations : n # i => invitations'[n] = invitations[n]
  BY <1>2, <1>4
<1> QED  BY <1>5 DEF row

(* An answer, or its commit. *)
LEMMA AnswerTeamInv ==
  ASSUME TeamInv, NEW s \in Invitees, Answer(s)
  PROVE  TeamInv'
<1>0. /\ TeamRows /\ s \in Sessions
      /\ DOMAIN invitations \subseteq 1 .. MaxInvitations /\ MaxInvitations \in Nat
  <2>1. TeamRows /\ s \in Sessions /\ MaxInvitations \in Nat
    BY TeamTypes, TeamAssumption DEF TeamInv
  <2> QED  BY <2>1 DEF TeamRows
<1>1. ASSUME NEW i \in DOMAIN invitations, NEW accept \in BOOLEAN, RespondToInvitation(s, i, accept)
      PROVE  TeamInv'
  <2> DEFINE request == [op |-> "answer", invitation |-> i, accept |-> accept]
  <2>1. request \in TeamRequest /\ Named(request)
    BY <1>0 DEF TeamRequest, Named
  <2>2. session' = [session EXCEPT ![s] = request] /\ UNCHANGED team
    BY <1>1 DEF RespondToInvitation, AskTeam, Receive
  <2> HIDE DEF request
  <2> QED  BY <1>0, <2>1, <2>2, AskTeamStep
<1>2. CASE CommitDecline(s)
  <2>1. /\ session[s].op = "answer" /\ session' = [session EXCEPT ![s] = Idle]
        /\ Answered(session[s].invitation, "DECLINED") /\ Contested(s)
        /\ UNCHANGED <<members, mentor, history, tasks>>
    BY <1>2 DEF CommitDecline, Finish
  <2>2. invitations' \in Seq(Invitation) /\ Len(invitations') = Len(invitations)
        /\ DOMAIN invitations' = DOMAIN invitations
    BY <1>0, <2>1, AcceptanceFields, AnsweredRow
  <2>3. contested' \subseteq 1 .. MaxInvitations
    BY <1>0, <2>1, ContestedGrows
  <2>4. TeamRows' /\ Grown
    BY <1>0, <2>1, <2>2, <2>3 DEF TeamRows, Grown
  <2>5. LeaversRecorded'
    BY <2>1 DEF TeamInv, LeaversRecorded
  <2> QED  BY <1>0, <2>1, <2>4, <2>5, TeamStep, IdleNamed
<1>3. CASE CommitAcceptance(s)
  <2>0. PICK i, person : i = session[s].invitation /\ person = invitations[i].to
    OBVIOUS
  <2>1. /\ session[s].op = "answer" /\ session' = [session EXCEPT ![s] = Idle]
        /\ Answered(i, "ACCEPTED") /\ Recorded("ADDED", person) /\ Joins(person, i)
        /\ Contested(s) /\ UNCHANGED tasks
    BY <1>3, <2>0 DEF CommitAcceptance, Finish
  <2>2. i \in DOMAIN invitations /\ invitations[i] \in Invitation /\ i \in 1 .. MaxInvitations
    BY <1>0, <2>0, <2>1, AcceptanceFields
  <2>3. person \in People
    BY <2>0, <2>2 DEF Invitation
  <2>4. invitations' \in Seq(Invitation) /\ Len(invitations') = Len(invitations)
        /\ DOMAIN invitations' = DOMAIN invitations
    BY <1>0, <2>1, <2>2, AnsweredRow DEF TeamRows
  <2>5. history' \subseteq Entry /\ history \subseteq history'
    BY <1>0, <2>1, <2>3 DEF Recorded, Entry, TeamRows
  <2>6. members \in Seq(Member) /\ MaxMembers \in Nat /\ Len(members) <= MaxMembers
    BY <1>0, TeamAssumption DEF TeamRows
  <2>7. /\ members' \in Seq(Member) /\ Len(members') <= MaxMembers
        /\ DOMAIN members \subseteq DOMAIN members' /\ mentor' \in Faculty \cup {Nobody}
        /\ \A m \in DOMAIN members' : ~members'[m].active =>
               m \in DOMAIN members /\ members'[m] = members[m]
    <3>1. CASE /\ person \in Students /\ Len(members) < MaxMembers
               /\ members' = Append(members, NewMember(person, i)) /\ UNCHANGED mentor
      <4>1. NewMember(person, i) \in Member /\ NewMember(person, i).active
        BY <1>0, <2>2, <3>1 DEF NewMember, Member
      <4> HIDE DEF NewMember
      <4>2. members' \in Seq(Member) /\ Len(members') = Len(members) + 1
            /\ members'[Len(members) + 1] = NewMember(person, i)
            /\ \A m \in 1 .. Len(members) : members'[m] = members[m]
        BY <2>6, <3>1, <4>1
      <4>3. mentor' \in Faculty \cup {Nobody}
        BY <1>0, <3>1 DEF TeamRows
      <4> QED  BY <2>6, <3>1, <4>1, <4>2, <4>3
    <3>2. CASE person \in Faculty /\ mentor' = person /\ UNCHANGED members
      BY <2>6, <3>2
    <3> QED  BY <2>1, <3>1, <3>2 DEF Joins
  <2>8. contested' \subseteq 1 .. MaxInvitations
    BY <1>0, <2>1, ContestedGrows
  <2>9. TeamRows' /\ Grown
    BY <1>0, <2>1, <2>4, <2>5, <2>7, <2>8 DEF TeamRows, Grown
  <2>10. LeaversRecorded'
    BY <2>5, <2>7, LeaversKept
  <2> QED  BY <1>0, <2>1, <2>9, <2>10, TeamStep, IdleNamed
<1> QED  BY <1>1, <1>2, <1>3 DEF Answer

(* The work on a task. *)
LEMMA TaskTeamInv ==
  ASSUME TeamInv, NEW t \in DOMAIN tasks, UploadTaskEvidence(t) \/ SubmitTaskWork(t)
  PROVE  TeamInv'
<1>1. TeamRows /\ tasks \in Seq(Task)
  BY TeamTypes DEF TeamInv, TeamRows
<1>2. tasks[t] \in Task
  BY <1>1
<1>3. /\ [tasks[t] EXCEPT !.evidence = TRUE] \in Task
      /\ [tasks[t] EXCEPT !.status = "SUBMITTED"] \in Task
  BY <1>2 DEF Task
<1>4. PICK task \in Task : tasks' = [tasks EXCEPT ![t] = task]
  <2>1. CASE UploadTaskEvidence(t)
    BY <1>3, <2>1 DEF UploadTaskEvidence
  <2>2. CASE SubmitTaskWork(t)
    BY <1>3, <2>2 DEF SubmitTaskWork
  <2> QED  BY <2>1, <2>2
<1>5. tasks' \in Seq(Task) /\ Len(tasks') = Len(tasks) /\ DOMAIN tasks' = DOMAIN tasks
  BY <1>1, <1>4
<1>6. UNCHANGED <<invitations, members, mentor, history, contested, session>>
  BY DEF UploadTaskEvidence, SubmitTaskWork
<1>7. TeamRows'
  BY <1>1, <1>5, <1>6 DEF TeamRows
<1>8. TeamTypeOK'
  BY <1>6, <1>7, TeamTypes DEF TeamInv, TeamTypeOK, TeamRows
<1>9. RequestsNamed' /\ LeaversRecorded'
  BY <1>5, <1>6 DEF TeamInv, RequestsNamed, Named, LeaversRecorded
<1> QED  BY <1>8, <1>9 DEF TeamInv

LEMMA NextTeamInv == TeamInv /\ [TeamNext]_teamVars => TeamInv'
<1> SUFFICES ASSUME TeamInv, [TeamNext]_teamVars PROVE TeamInv'
  OBVIOUS
<1>1. CASE \E s \in Managers : Manage(s)
  BY <1>1, ManageTeamInv
<1>2. CASE \E s \in Invitees : Answer(s)
  BY <1>2, AnswerTeamInv
<1>3. CASE \E t \in DOMAIN tasks : UploadTaskEvidence(t) \/ SubmitTaskWork(t)
  BY <1>3, TaskTeamInv
<1>4. CASE \E s \in Sessions : RollBack(s) /\ UNCHANGED team
  BY <1>4, AskTeamStep, IdleNamed DEF RollBack
<1>5. CASE UNCHANGED teamVars
  BY <1>5 DEF teamVars, team, TeamInv, TeamTypeOK, RequestsNamed, Named, LeaversRecorded
<1> QED  BY <1>1, <1>2, <1>3, <1>4, <1>5 DEF TeamNext

(* The rows of the team and its requests keep their types (models.py). *)
THEOREM TeamTypeCorrectness == TeamSpec => []TeamTypeOK
<1>1. TeamInv => TeamTypeOK
  BY DEF TeamInv
<1> QED  BY <1>1, InitTeamInv, NextTeamInv, PTL DEF TeamSpec

(* Who left the team is on record, for any number of requests that remove  *)
(* or replace the same member (remove_project_member, projects.py). *)
THEOREM LeaversAreRecorded == TeamSpec => []LeaversRecorded
<1>1. TeamInv => LeaversRecorded
  BY DEF TeamInv
<1> QED  BY <1>1, InitTeamInv, NextTeamInv, PTL DEF TeamSpec

-----------------------------------------------------------------------------
(* The consent of the team *)

(* An answer under way finds its invitation open, or contested. *)
Open(i) == i \in DOMAIN invitations /\ (invitations[i].status = "PENDING" \/ i \in contested)

AnswersOpen == \A s \in Sessions : session[s].op = "answer" => Open(session[s].invitation)

Accepted(i, person) == i \in DOMAIN invitations /\ Consented(i, person)

MembersAccepted ==
    /\ \A m \in DOMAIN members :
           members[m].invitation # NoInvitation
              => Accepted(members[m].invitation, members[m].student)
    /\ mentor # Nobody => \E i \in DOMAIN invitations : Accepted(i, mentor)

ConsentInv == TeamInv /\ AnswersOpen /\ MembersAccepted /\ OneMemberPerInvitation

(* Rows of members that an invitation made stay as they are, and a row that *)
(* is new was made by none. *)
SameMembers ==
    \A m \in DOMAIN members' :
        \/ members'[m].invitation = NoInvitation
        \/ /\ m \in DOMAIN members
           /\ members'[m].invitation = members[m].invitation
           /\ members'[m].student = members[m].student

SameInvitation(i) == i \in DOMAIN invitations' /\ invitations'[i] = invitations[i]

(* Steps that make no member and take no consent back. *)
LEMMA AcceptedKept ==
  ASSUME ConsentInv, SameMembers, mentor' = mentor, contested \subseteq contested',
         \A i, person : Accepted(i, person) => Accepted(i, person)'
  PROVE  MembersAccepted' /\ OneMemberPerInvitation'
<1>1. ASSUME NEW m \in DOMAIN members', members'[m].invitation # NoInvitation
      PROVE  Accepted(members[m].invitation, members[m].student)'
  <2>1. PICK i, person : i = members'[m].invitation /\ person = members'[m].student
    OBVIOUS
  <2>2. m \in DOMAIN members /\ members[m].invitation = i /\ members[m].student = person
    BY <1>1, <2>1 DEF SameMembers
  <2>3. Accepted(i, person)
    BY <1>1, <2>1, <2>2 DEF ConsentInv, MembersAccepted
  <2>4. Accepted(i, person)'
    BY <2>3
  <2> QED  BY <2>1, <2>4 DEF Accepted, Consented
<1>2. ASSUME mentor' # Nobody
      PROVE  \E i \in DOMAIN invitations' : Accepted(i, mentor)'
  <2>1. PICK person : person = mentor
    OBVIOUS
  <2>2. PICK i \in DOMAIN invitations : Accepted(i, person)
    BY <1>2, <2>1 DEF ConsentInv, MembersAccepted
  <2>3. Accepted(i, person)'
    BY <2>2
  <2> QED  BY <2>1, <2>3 DEF Accepted, Consented
<1>3. OneMemberPerInvitation'
  BY DEF ConsentInv, OneMemberPerInvitation, SameMembers
<1> QED  BY <1>1, <1>2, <1>3 DEF MembersAccepted

(* A request begins or ends: every other answer stays open. *)
LEMMA OpenStep ==
  ASSUME ConsentInv, NEW s \in Sessions, NEW request, session' = [session EXCEPT ![s] = request],
         request.op = "answer" => Open(request.invitation)',
         \A t \in Sessions \ {s} : \A i :
             session[t].op = "answer" /\ session[t].invitation = i /\ Open(i) => Open(i)'
  PROVE  AnswersOpen'
<1>1. ASSUME NEW t \in Sessions, session'[t].op = "answer"
      PROVE  Open(session[t].invitation)'
  <2>0. PICK i : i = session'[t].invitation
    OBVIOUS
  <2>1. session'[t] = IF t = s THEN request ELSE session[t]
    BY DEF ConsentInv, TeamInv, TeamTypeOK
  <2>2. Open(i)'
    <3>1. CASE t = s
      BY <1>1, <2>0, <2>1, <3>1
    <3>2. CASE t # s
      <4>1. session[t].op = "answer" /\ session[t].invitation = i /\ Open(i)
        BY <1>1, <2>0, <2>1, <3>2 DEF ConsentInv, AnswersOpen
      <4> QED  BY <3>2, <4>1
    <3> QED  BY <3>1, <3>2
  <2> QED  BY <2>0, <2>2 DEF Open
<1> QED  BY <1>1 DEF AnswersOpen

(* A request begins or ends without answering. *)
LEMMA ConsentStep ==
  ASSUME ConsentInv, TeamInv', SameMembers, mentor' = mentor, contested' = contested,
         \A i \in DOMAIN invitations : SameInvitation(i),
         NEW s \in Sessions, NEW request, session' = [session EXCEPT ![s] = request],
         request.op = "answer" => Open(request.invitation)
  PROVE  ConsentInv'
<1>1. ASSUME NEW i, NEW person, Accepted(i, person)
      PROVE  Accepted(i, person)'
  BY <1>1 DEF Accepted, Consented, SameInvitation
<1>2. ASSUME NEW i, Open(i)
      PROVE  Open(i)'
  BY <1>2 DEF Open, SameInvitation
<1>3. MembersAccepted' /\ OneMemberPerInvitation'
  BY <1>1, AcceptedKept
<1>4. AnswersOpen'
  BY <1>2, OpenStep
<1> QED  BY <1>3, <1>4 DEF ConsentInv

LEMMA InitConsentInv == TeamInit => ConsentInv
<1> SUFFICES ASSUME TeamInit PROVE ConsentInv
  OBVIOUS
<1>1. AnswersOpen
  BY IdleNamed DEF TeamInit, NoRequests, AnswersOpen
<1> QED  BY <1>1, InitTeamInv DEF TeamInit, ConsentInv, MembersAccepted, OneMemberPerInvitation

(* A request that runs the team makes no member by invitation. *)
LEMMA ManageConsentInv ==
  ASSUME ConsentInv, NEW s \in Managers, Manage(s)
  PROVE  ConsentInv'
<1>0. /\ TeamInv /\ TeamInv' /\ s \in Sessions /\ members \in Seq(Member)
      /\ invitations \in Seq(Invitation)
  BY ManageTeamInv, TeamAssumption DEF ConsentInv, TeamInv, TeamTypeOK
<1>1. ASSUME NEW request, request.op # "answer", SameMembers, mentor' = mentor,
             contested' = contested, \A i \in DOMAIN invitations : SameInvitation(i),
             session' = [session EXCEPT ![s] = request]
      PROVE  ConsentInv'
  BY <1>0, <1>1, ConsentStep
<1>2. UNCHANGED members => SameMembers
  BY DEF SameMembers
<1>3. UNCHANGED invitations => \A i \in DOMAIN invitations : SameInvitation(i)
  BY DEF SameInvitation
<1>4. ASSUME NEW request, request.op # "answer", AskTeam(s, request)
      PROVE  ConsentInv'
  BY <1>1, <1>2, <1>3, <1>4 DEF AskTeam, Receive, team
<1>5. ASSUME NEW person, InviteTeamMember(s, person)
      PROVE  ConsentInv'
  BY <1>4, <1>5 DEF InviteTeamMember
<1>6. ASSUME NEW m, NEW by, RemoveProjectMember(s, m, by)
      PROVE  ConsentInv'
  BY <1>4, <1>6 DEF RemoveProjectMember
<1>7. ASSUME NEW student, AddTask(s, student)
      PROVE  ConsentInv'
  BY <1>4, <1>7 DEF AddTask
<1>8. ASSUME NEW t, NEW approve, ReviewTask(s, t, approve)
      PROVE  ConsentInv'
  <2>1. PICK request : request.op = "grade" /\ AskTeam(s, request)
    BY <1>8 DEF ReviewTask
  <2> QED  BY <1>4, <2>1
<1>9. CASE CommitInvitation(s)
  <2>1. /\ session' = [session EXCEPT ![s] = Idle] /\ UNCHANGED <<members, mentor, contested>>
        /\ invitations' = Append(invitations, Pending(session[s].to))
    BY <1>9 DEF CommitInvitation, Finish
  <2>2. \A i \in 1 .. Len(invitations) :
           i \in DOMAIN invitations' /\ invitations'[i] = invitations[i]
    BY <1>0, <2>1
  <2>3. \A i \in DOMAIN invitations : SameInvitation(i)
    BY <1>0, <2>2 DEF SameInvitation
  <2> QED  BY <1>1, <1>2, <2>1, <2>3, IdleNamed
<1>10. CASE CommitRemoval(s)
  <2>0. PICK m, by : m = session[s].member /\ by = session[s].by
    OBVIOUS
  <2> DEFINE left == [members EXCEPT ![m].active = FALSE]
  <2>1. /\ session' = [session EXCEPT ![s] = Idle] /\ UNCHANGED <<invitations, mentor, contested>>
        /\ members' = left \/ members' = Append(left, NewMember(by, NoInvitation))
        /\ session[s].op = "remove"
    BY <1>10, <2>0 DEF CommitRemoval, Finish
  <2>2. m \in DOMAIN members
    BY <1>0, <2>0, <2>1 DEF TeamInv, RequestsNamed, Named
  <2>3. members[m] \in Member
    BY <1>0, <2>2
  <2>4. PICK gone \in Member : /\ gone.student = members[m].student
                               /\ gone.invitation = members[m].invitation
                               /\ left = [members EXCEPT ![m] = gone]
    <3>1. [members[m] EXCEPT !.active = FALSE] \in Member
          /\ [members[m] EXCEPT !.active = FALSE].student = members[m].student
          /\ [members[m] EXCEPT !.active = FALSE].invitation = members[m].invitation
      BY <2>3 DEF Member
    <3> QED  BY <2>2, <3>1
  <2> HIDE DEF left
  <2>5. /\ left \in Seq(Member) /\ DOMAIN left = DOMAIN members /\ DOMAIN left = 1 .. Len(left)
        /\ \A n \in DOMAIN members : left[n].student = members[n].student
                                     /\ left[n].invitation = members[n].invitation
    BY <1>0, <2>2, <2>4
  <2>6. SameMembers
    <3>1. CASE members' = left
      BY <2>5, <3>1 DEF SameMembers
    <3>2. CASE members' = Append(left, NewMember(by, NoInvitation))
      <4>1. NewMember(by, NoInvitation).invitation = NoInvitation
        BY DEF NewMember
      <4> HIDE DEF NewMember
      <4>2. /\ DOMAIN members' = 1 .. (Len(left) + 1)
            /\ members'[Len(left) + 1].invitation = NoInvitation
            /\ \A n \in 1 .. Len(left) : members'[n] = left[n]
        BY <2>5, <3>2, <4>1
      <4>3. \A n \in DOMAIN members' : n = Len(left) + 1 \/ n \in 1 .. Len(left)
        BY <2>5, <4>2
      <4> QED  BY <2>5, <4>2, <4>3 DEF SameMembers
    <3> QED  BY <2>1, <3>1, <3>2
  <2> QED  BY <1>1, <1>3, <2>1, <2>6, IdleNamed
<1>11. CASE CommitTask(s)
  BY <1>1, <1>2, <1>3, <1>11, IdleNamed DEF CommitTask, Finish
<1>12. CASE CommitGrade(s)
  BY <1>1, <1>2, <1>3, <1>12, IdleNamed DEF CommitGrade, Finish
<1> QED  BY <1>5, <1>6, <1>7, <1>8, <1>9, <1>10, <1>11, <1>12 DEF Manage

(* An answer leaves what others consented to, and the other answers open.   *)
LEMMA AnswerKeeps ==
  ASSUME ConsentInv, NEW s \in Sessions, session[s].op = "answer",
         NEW i, i = session[s].invitation, NEW status \in {"ACCEPTED", "DECLINED"},
         Answered(i, status), Contested(s), session' = [session EXCEPT ![s] = Idle]
  PROVE  /\ \A n, person : Accepted(n, person) => Accepted(n, person)'
         /\ AnswersOpen'
<1>1. /\ i \in DOMAIN invitations /\ invitations \in Seq(Invitation) /\ Open(i)
  BY AcceptanceFields DEF ConsentInv, AnswersOpen
<1>2. /\ DOMAIN invitations' = DOMAIN invitations
      /\ invitations'[i].to = invitations[i].to /\ invitations'[i].status = status
      /\ \A n \in DOMAIN invitations : n # i => invitations'[n] = invitations[n]
  <2>1. i \in DOMAIN invitations /\ invitations \in Seq(Invitation)
    BY <1>1
  <2>2. /\ DOMAIN invitations' = DOMAIN invitations
        /\ invitations'[i] = [to |-> invitations[i].to, status |-> status]
        /\ \A n \in DOMAIN invitations : n # i => invitations'[n] = invitations[n]
    BY <2>1, AnsweredRow
  <2> QED  BY <2>2
<1>3. /\ contested \subseteq contested'
      /\ \A t \in Sessions \ {s} :
             session[t].op = "answer" /\ session[t].invitation = i => i \in contested'
  BY ContestedGrows DEF ConsentInv
<1>4. ASSUME NEW n, NEW person, Accepted(n, person)
      PROVE  Accepted(n, person)'
  <2>1. CASE n = i
    <3>1. i \in contested /\ invitations[i].to = person
      BY <1>1, <1>4, <2>1 DEF Accepted, Consented, Open
    <3> QED  BY <1>1, <1>2, <1>3, <2>1, <3>1 DEF Accepted, Consented
  <2>2. CASE n # i
    BY <1>2, <1>3, <1>4, <2>2 DEF Accepted, Consented
  <2> QED  BY <2>1, <2>2
<1>5. ASSUME NEW t \in Sessions \ {s}, NEW n,
             session[t].op = "answer" /\ session[t].invitation = n /\ Open(n)
      PROVE  Open(n)'
  BY <1>1, <1>2, <1>3, <1>5 DEF Open
<1>6. AnswersOpen'
  BY <1>5, OpenStep, IdleNamed
<1> QED  BY <1>4, <1>6

(* An acceptance makes one member, of the invitation it closes. *)
LEMMA AnswerConsentInv ==
  ASSUME ConsentInv, NEW s \in Invitees, Answer(s)
  PROVE  ConsentInv'
<1>0. TeamInv /\ TeamInv' /\ s \in Sessions /\ TeamRows
  <2>1. TeamInv /\ s \in Sessions
    BY TeamAssumption DEF ConsentInv
  <2> QED  BY <2>1, AnswerTeamInv, TeamTypes DEF TeamInv
<1>1. ASSUME NEW i \in DOMAIN invitations, NEW accept, RespondToInvitation(s, i, accept)
      PROVE  ConsentInv'
  <2> DEFINE request == [op |-> "answer", invitation |-> i, accept |-> accept]
  <2>1. /\ request.invitation = i /\ Open(i)
        /\ session' = [session EXCEPT ![s] = request]
        /\ UNCHANGED <<invitations, members, mentor, contested>>
    BY <1>1 DEF RespondToInvitation, AskTeam, Receive, team, Open
  <2>2. SameMembers /\ \A n \in DOMAIN invitations : SameInvitation(n)
    BY <2>1 DEF SameMembers, SameInvitation
  <2> HIDE DEF request
  <2> QED  BY <1>0, <2>1, <2>2, ConsentStep
<1>2. CASE CommitDecline(s)
  <2>0. PICK i : i = session[s].invitation
    OBVIOUS
  <2>1. /\ session[s].op = "answer" /\ session' = [session EXCEPT ![s] = Idle]
        /\ Answered(i, "DECLINED") /\ Contested(s) /\ UNCHANGED <<members, mentor>>
    BY <1>2, <2>0 DEF CommitDecline, Finish
  <2>2. SameMembers /\ contested \subseteq contested'
    BY <1>0, <2>1, ContestedGrows DEF SameMembers
  <2>3. AnswersOpen' /\ \A n, person : Accepted(n, person) => Accepted(n, person)'
    BY <1>0, <2>0, <2>1, AnswerKeeps
  <2>4. MembersAccepted' /\ OneMemberPerInvitation'
    BY <2>1, <2>2, <2>3, AcceptedKept
  <2> QED  BY <1>0, <2>3, <2>4 DEF ConsentInv
<1>3. CASE CommitAcceptance(s)
  <2>0. PICK i, person : i = session[s].invitation /\ person = invitations[i].to
    OBVIOUS
  <2>1. /\ session[s].op = "answer" /\ session' = [session EXCEPT ![s] = Idle]
        /\ Answered(i, "ACCEPTED") /\ Joins(person, i) /\ Contested(s)
    BY <1>3, <2>0 DEF CommitAcceptance, Finish
  <2>2. /\ i \in DOMAIN invitations /\ invitations \in Seq(Invitation) /\ Open(i)
        /\ i # NoInvitation
    <3>1. /\ i \in DOMAIN invitations /\ invitations \in Seq(Invitation) /\ Open(i)
          /\ i \in 1 .. MaxInvitations
      BY <1>0, <2>0, <2>1, AcceptanceFields DEF ConsentInv, AnswersOpen
    <3> QED  BY <3>1, TeamAssumption DEF NoInvitation
  <2>3. contested \subseteq contested'
    BY <1>0, <2>1, ContestedGrows
  <2>4. AnswersOpen' /\ \A n, other : Accepted(n, other) => Accepted(n, other)'
    BY <1>0, <2>0, <2>1, AnswerKeeps
  <2>5. Accepted(i, person)'
    <3>1. i \in DOMAIN invitations' /\ invitations'[i] = [to |-> person, status |-> "ACCEPTED"]
      BY <2>0, <2>1, <2>2, AnsweredRow
    <3> QED  BY <3>1 DEF Accepted, Consented
  <2>6. \A m \in DOMAIN members : members[m].invitation = i => i \in contested'
    <3> SUFFICES ASSUME NEW m \in DOMAIN members, members[m].invitation = i, i \notin contested
                 PROVE  FALSE
      BY <2>3
    <3>1. Accepted(i, members[m].student)
      BY <2>2 DEF ConsentInv, MembersAccepted
    <3> QED  BY <2>2, <3>1 DEF Accepted, Consented, Open
  <2>7. ASSUME NEW m \in DOMAIN members, members[m].invitation # NoInvitation,
               m \in DOMAIN members', members'[m] = members[m]
        PROVE  Accepted(members[m].invitation, members[m].student)'
    <3>1. PICK n, other : n = members[m].invitation /\ other = members[m].student
      OBVIOUS
    <3>2. Accepted(n, other)
      BY <2>7, <3>1 DEF ConsentInv, MembersAccepted
    <3>3. Accepted(n, other)'
      BY <2>4, <3>2
    <3> QED  BY <2>7, <3>1, <3>3 DEF Accepted, Consented
  <2>8. ASSUME mentor # Nobody, mentor' = mentor
        PROVE  \E n \in DOMAIN invitations' : Accepted(n, mentor)'
    <3>1. PICK other : other = mentor
      OBVIOUS
    <3>2. PICK n \in DOMAIN invitations : Accepted(n, other)
      BY <2>8, <3>1 DEF ConsentInv, MembersAccepted
    <3>3. Accepted(n, other)' /\ n \in DOMAIN invitations'
      BY <2>4, <3>2 DEF Accepted
    <3> QED  BY <2>8, <3>1, <3>3 DEF Accepted, Consented
  <2>9. CASE /\ members' = Append(members, NewMember(person, i)) /\ UNCHANGED mentor
    <3>1. /\ NewMember(person, i).invitation = i /\ NewMember(person, i).student = person
      BY DEF NewMember
    <3>2. PICK l : l = Len(members)
      OBVIOUS
    <3> HIDE DEF NewMember
    <3>3. /\ l \in Nat /\ DOMAIN members = 1 .. l /\ DOMAIN members' = 1 .. (l + 1)
          /\ members'[l + 1] = NewMember(person, i)
          /\ \A m \in 1 .. l : members'[m] = members[m]
      BY <1>0, <2>9, <3>2 DEF TeamRows
    <3>4. \A m \in DOMAIN members' : m = l + 1 \/ (m \in DOMAIN members /\ members'[m] = members[m])
      BY <3>3
    <3>5. ASSUME NEW m \in DOMAIN members', members'[m].invitation # NoInvitation
          PROVE  Accepted(members[m].invitation, members[m].student)'
      <4>1. CASE m = l + 1
        BY <2>5, <3>1, <3>3, <4>1 DEF Accepted, Consented
      <4>2. CASE m \in DOMAIN members /\ members'[m] = members[m]
        BY <2>7, <3>5, <4>2
      <4> QED  BY <3>4, <4>1, <4>2
    <3>6. ASSUME NEW m \in DOMAIN members', NEW n \in DOMAIN members',
                 members'[m].invitation = members'[n].invitation
          PROVE  m = n \/ members'[m].invitation \in contested' \cup {NoInvitation}
      <4>1. CASE m = l + 1 /\ n = l + 1
        BY <4>1
      <4>2. CASE m = l + 1 /\ n \in DOMAIN members /\ members'[n] = members[n]
        BY <2>6, <3>1, <3>3, <3>6, <4>2
      <4>3. CASE n = l + 1 /\ m \in DOMAIN members /\ members'[m] = members[m]
        BY <2>6, <3>1, <3>3, <3>6, <4>3
      <4>4. CASE /\ m \in DOMAIN members /\ members'[m] = members[m]
                 /\ n \in DOMAIN members /\ members'[n] = members[n]
        BY <2>3, <3>6, <4>4 DEF ConsentInv, OneMemberPerInvitation
      <4> QED  BY <3>4, <4>1, <4>2, <4>3, <4>4
    <3>7. MembersAccepted' /\ OneMemberPerInvitation'
      BY <2>8, <2>9, <3>5, <3>6 DEF MembersAccepted, OneMemberPerInvitation
    <3> QED  BY <1>0, <2>4, <3>7 DEF ConsentInv
  <2>10. CASE mentor' = person /\ UNCHANGED members
    <3>1. ASSUME NEW m \in DOMAIN members', members'[m].invitation # NoInvitation
          PROVE  Accepted(members[m].invitation, members[m].student)'
      BY <2>7, <2>10, <3>1
    <3>2. i \in DOMAIN invitations' /\ Accepted(i, mentor)'
      BY <2>5, <2>10 DEF Accepted, Consented
    <3>3. MembersAccepted'
      BY <3>1, <3>2 DEF MembersAccepted
    <3>4. OneMemberPerInvitation'
      BY <2>3, <2>10 DEF ConsentInv, OneMemberPerInvitation
    <3> QED  BY <1>0, <2>4, <3>3, <3>4 DEF ConsentInv
  <2> QED  BY <2>1, <2>9, <2>10 DEF Joins
<1> QED  BY <1>1, <1>2, <1>3 DEF Answer

LEMMA NextConsentInv == ConsentInv /\ [TeamNext]_teamVars => ConsentInv'
<1> SUFFICES ASSUME ConsentInv, [TeamNext]_teamVars PROVE ConsentInv'
  OBVIOUS
<1>0. TeamInv /\ TeamInv'
  BY NextTeamInv DEF ConsentInv
<1>1. UNCHANGED <<invitations, members, mentor>>
        => /\ SameMembers /\ mentor' = mentor
           /\ \A i \in DOMAIN invitations : SameInvitation(i)
  BY DEF SameMembers, SameInvitation
<1>2. CASE \E s \in Managers : Manage(s)
  BY <1>2, ManageConsentInv
<1>3. CASE \E s \in Invitees : Answer(s)
  BY <1>3, AnswerConsentInv
<1>4. CASE \E s \in Sessions : RollBack(s) /\ UNCHANGED team
  <2>1. PICK s \in Sessions : session' = [session EXCEPT ![s] = Idle] /\ UNCHANGED team
    BY <1>4 DEF RollBack
  <2> QED  BY <1>0, <1>1, <2>1, ConsentStep, IdleNamed DEF team
<1>5. CASE UNCHANGED <<invitations, members, mentor, contested, session>>
  BY <1>0, <1>5 DEF ConsentInv, AnswersOpen, Open, MembersAccepted, Accepted, Consented,
                    OneMemberPerInvitation
<1>6. CASE \E t \in DOMAIN tasks : UploadTaskEvidence(t) \/ SubmitTaskWork(t)
  BY <1>5, <1>6 DEF UploadTaskEvidence, SubmitTaskWork
<1>7. CASE UNCHANGED teamVars
  BY <1>5, <1>7 DEF teamVars, team
<1> QED  BY <1>2, <1>3, <1>4, <1>6, <1>7 DEF TeamNext

(* Whoever became a member by invitation accepted it, and the mentor did,   *)
(* for any number of answers, invitations, removals and replacements that   *)
(* overlap; only of two answers that overlap may the last one decline       *)
(* (respond_to_invitation, projects.py). *)
THEOREM MembersHaveConsented == TeamSpec => []MembersConsented
<1>1. ConsentInv => MembersConsented
  BY DEF ConsentInv, MembersAccepted, MembersConsented, Accepted
<1> QED  BY <1>1, InitConsentInv, NextConsentInv, PTL DEF TeamSpec

(* An invitation makes one member, unless two answers to it overlapped      *)
(* (respond_to_invitation, projects.py). *)
THEOREM InvitationsMakeOneMember == TeamSpec => []OneMemberPerInvitation
<1>1. ConsentInv => OneMemberPerInvitation
  BY DEF ConsentInv
<1> QED  BY <1>1, InitConsentInv, NextConsentInv, PTL DEF TeamSpec
=============================================================================
