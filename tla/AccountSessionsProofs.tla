----------------------- MODULE AccountSessionsProofs -----------------------
(***************************************************************************)
(* Proofs about AccountSessions, for any number of devices and of requests *)
(* that reset the password.  That a login has one live session is not      *)
(* inductive: a rotation that has read a live session may commit when it   *)
(* is over.  What holds at every step is that a login has one session      *)
(* whose token is not yet in revoked_tokens (OneUnspent), that the session *)
(* of a token in there is over (TokensOver), and that a new session has a  *)
(* number no login has (LoginsOpened).                                     *)
(*                                                                         *)
(* That changes spend codes is not inductive either: what a reset that is  *)
(* half done will pay with is in no code's row.  PayInv keeps the pairs of *)
(* a code and a reset the changes so far were paid with, and adds that a   *)
(* reset on its way is not among them (CanPay) and that nobody else counts *)
(* on its code once it is used, unless it is shared (Exclusive).           *)
(***************************************************************************)
EXTENDS AccountSessions, TLAPS

(* What a request was told exists still does. *)
Known(request) ==
    /\ request.op = "rotate" => request.of \in DOMAIN userSessions
    /\ request.op \in {"verify", "change"} => request.code \in DOMAIN codes

(* The same after a step. *)
KnownNext(request) ==
    /\ request.op = "rotate" => request.of \in DOMAIN userSessions'
    /\ request.op \in {"verify", "change"} => request.code \in DOMAIN codes'

RequestsKnown == \A s \in Sessions : Known(session[s])

TokensOver == \A i \in revokedTokens : i \in DOMAIN userSessions /\ ~Live(i)

LoginsOpened == \A i \in DOMAIN userSessions : userSessions[i].login <= i

OneUnspent ==
    \A i, j \in DOMAIN userSessions :
        /\ i \notin revokedTokens /\ j \notin revokedTokens
        /\ userSessions[i].login = userSessions[j].login
        => i = j

SessionsInv == TokensOver /\ LoginsOpened /\ OneUnspent

IInv == TypeOK /\ RequestsKnown /\ SessionsInv

(* Sessions and codes stay. *)
Kept ==
    /\ \A i \in DOMAIN userSessions : i \in (DOMAIN userSessions)'
    /\ \A c \in DOMAIN codes : c \in (DOMAIN codes)'

LEMMA IdleRequest == Idle \in Request /\ Known(Idle)
BY DEF Idle, Request, Known

(* A step that keeps what the requests know. *)
LEMMA KeepStep ==
  ASSUME IInv, TypeOK', Kept, SessionsInv',
         \A t \in Sessions : session'[t] = session[t] \/ Known(session[t])'
  PROVE  IInv'
<1>1. RequestsKnown'
  <2> SUFFICES ASSUME NEW t \in Sessions, session'[t] = session[t]
               PROVE  Known(session[t])'
    BY DEF RequestsKnown
  <2>1. Known(session[t])
    BY DEF IInv, RequestsKnown
  <2> QED  BY <2>1 DEF Known, Kept
<1> QED  BY <1>1 DEF IInv

(* A request moves on and the account stays as it is. *)
LEMMA RequestStep ==
  ASSUME IInv, NEW s \in Sessions, NEW request \in Request, Known(request),
         session' = [session EXCEPT ![s] = request], UNCHANGED accountVars
  PROVE  IInv'
<1>1. TypeOK'
  BY DEF IInv, TypeOK, accountVars
<1>2. Kept
  BY DEF Kept, accountVars, Live
<1>3. SessionsInv'
  BY DEF IInv, SessionsInv, TokensOver, LoginsOpened, OneUnspent, accountVars, Live
<1>4. session'[s] = request /\ \A t \in Sessions : t # s => session'[t] = session[t]
  BY DEF IInv, TypeOK
<1>5. Known(session[s])'
  BY <1>4 DEF Known, accountVars, Live
<1> QED  BY <1>1, <1>2, <1>3, <1>4, <1>5, KeepStep

LEMMA FunctionSeq ==
  ASSUME NEW n \in Nat, NEW S, NEW f, f = [i \in 1 .. n |-> f[i]], \A i \in 1 .. n : f[i] \in S
  PROVE  f \in Seq(S) /\ Len(f) = n /\ DOMAIN f = 1 .. n
OBVIOUS

(* Rows of which some are revoked. *)
RevokedBy(S) ==
    [i \in DOMAIN userSessions |->
        IF i \in S THEN [userSessions[i] EXCEPT !.revoked = TRUE] ELSE userSessions[i]]

LEMMA RevokedRows ==
  ASSUME TypeOK, NEW S
  PROVE  /\ RevokedBy(S) \in Seq(UserSession)
         /\ Len(RevokedBy(S)) = Len(userSessions)
         /\ DOMAIN RevokedBy(S) = DOMAIN userSessions
         /\ \A i \in DOMAIN userSessions :
               /\ RevokedBy(S)[i].login = userSessions[i].login
               /\ RevokedBy(S)[i].revoked = (userSessions[i].revoked \/ i \in S)
<1> DEFINE rows == RevokedBy(S)
<1>1. \A i \in DOMAIN userSessions : userSessions[i] \in UserSession
  BY DEF TypeOK
<1>2. \A i \in DOMAIN userSessions :
         /\ rows[i] \in UserSession
         /\ rows[i].login = userSessions[i].login
         /\ rows[i].revoked = (userSessions[i].revoked \/ i \in S)
  BY <1>1 DEF UserSession, RevokedBy
<1>3. Len(userSessions) \in Nat /\ DOMAIN userSessions = 1 .. Len(userSessions)
  BY DEF TypeOK
<1>4. rows = [i \in 1 .. Len(userSessions) |-> rows[i]]
  BY <1>3 DEF RevokedBy
<1> HIDE DEF rows
<1>5. rows \in Seq(UserSession) /\ Len(rows) = Len(userSessions) /\ DOMAIN rows = DOMAIN userSessions
  BY <1>2, <1>3, <1>4, FunctionSeq
<1> QED  BY <1>2, <1>5 DEF rows

(* Sessions are revoked, and no token is. *)
LEMMA RevokeStep ==
  ASSUME IInv, NEW S,
         userSessions' = RevokedBy(S),
         UNCHANGED <<account, revokedTokens, password, codes, shared>>,
         session' \in [Sessions -> Request],
         \A t \in Sessions : session'[t] = session[t] \/ Known(session[t])'
  PROVE  IInv'
<1>1. TypeOK
  BY DEF IInv
<1>2. /\ userSessions' \in Seq(UserSession) /\ Len(userSessions') = Len(userSessions)
      /\ \A i \in DOMAIN userSessions :
            /\ userSessions'[i].login = userSessions[i].login
            /\ userSessions'[i].revoked = (userSessions[i].revoked \/ i \in S)
  BY <1>1, RevokedRows
<1>3. DOMAIN userSessions' = DOMAIN userSessions
  BY <1>1, RevokedRows
<1>4. TypeOK'
  BY <1>1, <1>2 DEF TypeOK
<1>5. Kept
  BY <1>2, <1>3 DEF Kept, Live
<1>6. SessionsInv'
  <2>1. TokensOver'
    BY <1>2, <1>3 DEF IInv, SessionsInv, TokensOver, Live
  <2>2. LoginsOpened'
    BY <1>2, <1>3 DEF IInv, SessionsInv, LoginsOpened
  <2>3. OneUnspent'
    BY <1>2, <1>3 DEF IInv, SessionsInv, OneUnspent
  <2> QED  BY <2>1, <2>2, <2>3 DEF SessionsInv
<1> QED  BY <1>4, <1>5, <1>6, KeepStep

LEMMA InitIInv == Init => IInv
BY AccountAssumption, IdleRequest
   DEF Init, NoRequests, IInv, TypeOK, RequestsKnown, Known, SessionsInv, TokensOver,
       LoginsOpened, OneUnspent, Idle, Request

(* What concerns neither sessions nor tokens. *)
LEMMA CodeStep ==
  ASSUME IInv, UNCHANGED <<userSessions, revokedTokens>>,
         account' \in {"ABSENT", "BARE", "COMPLETE", "ERASED"}, password' \in 0 .. MaxChanges,
         codes' \in Seq(Code), Len(codes') <= MaxCodes, Len(codes') >= Len(codes),
         shared' \subseteq 1 .. MaxCodes,
         session' \in [Sessions -> Request],
         \A t \in Sessions : session'[t] = session[t] \/ Known(session[t])'
  PROVE  IInv'
<1>1. TypeOK'
  BY DEF IInv, TypeOK
<1>2. Kept
  BY DEF Kept, Live, IInv, TypeOK
<1>3. SessionsInv'
  BY DEF IInv, SessionsInv, TokensOver, LoginsOpened, OneUnspent, Live
<1> QED  BY <1>1, <1>2, <1>3, KeepStep

(* One request moves on to another. *)
LEMMA OneMoves ==
  ASSUME IInv, NEW s \in Sessions, NEW request \in Request,
         session' = [session EXCEPT ![s] = request], KnownNext(request)
  PROVE  /\ session' \in [Sessions -> Request]
         /\ \A t \in Sessions : session'[t] = session[t] \/ Known(session[t])'
<1>1. session' \in [Sessions -> Request]
  BY DEF IInv, TypeOK
<1>2. session'[s] = request /\ \A t \in Sessions : t # s => session'[t] = session[t]
  BY DEF IInv, TypeOK
<1>3. Known(session[s])'
  BY <1>2 DEF Known, KnownNext, Live
<1> QED  BY <1>1, <1>2, <1>3

LEMMA RowAt ==
  ASSUME TypeOK, NEW i \in DOMAIN userSessions
  PROVE  /\ userSessions[i] \in UserSession
         /\ i \in 1 .. MaxSessions /\ i \in 1 .. Len(userSessions)
BY AccountAssumption DEF TypeOK

LEMMA OneRevoked ==
  ASSUME TypeOK, NEW i \in DOMAIN userSessions
  PROVE  [userSessions EXCEPT ![i].revoked = TRUE] = RevokedBy({i})
BY DEF RevokedBy, TypeOK

-----------------------------------------------------------------------------
(* Requests that have only read so far *)

LEMMA LoginIInv ==
  ASSUME IInv, NEW s \in Sessions, Login(s)
  PROVE  IInv'
<1> DEFINE request == [op |-> "login", issued |-> password]
<1>1. request \in Request /\ Known(request)
  BY DEF IInv, TypeOK, Request, Known
<1>2. session' = [session EXCEPT ![s] = request] /\ UNCHANGED accountVars
  BY DEF Login, Load, Receive
<1> HIDE DEF request
<1> QED  BY <1>1, <1>2, RequestStep

LEMMA RevokeAllIsRequest ==
  [op |-> "revoke_all"] \in Request /\ Known([op |-> "revoke_all"])
BY DEF Request, Known

LEMMA EraseIInv ==
  ASSUME IInv, NEW s \in Sessions, Erase(s)
  PROVE  IInv'
<1>1. [op |-> "erase"] \in Request /\ Known([op |-> "erase"])
  BY DEF Request, Known
<1> QED  BY <1>1, RequestStep DEF Erase, Load, Receive

LEMMA ReadSessionIInv ==
  ASSUME IInv, NEW s \in Sessions, NEW i \in DOMAIN userSessions,
         RotateSession(s, i) \/ DetectReuse(s, i)
  PROVE  IInv'
<1>0. i \in 1 .. MaxSessions
  BY RowAt DEF IInv
<1>1. CASE RotateSession(s, i)
  <2> DEFINE request == [op |-> "rotate", of |-> i, issued |-> password]
  <2>1. request \in Request /\ Known(request)
    BY <1>0 DEF IInv, TypeOK, Request, Known
  <2>2. session' = [session EXCEPT ![s] = request] /\ UNCHANGED accountVars
    BY <1>1 DEF RotateSession, Load, Receive
  <2> HIDE DEF request
  <2> QED  BY <2>1, <2>2, RequestStep
<1>2. CASE DetectReuse(s, i)
  BY <1>2, RequestStep, RevokeAllIsRequest DEF DetectReuse, Load, Receive
<1> QED  BY <1>1, <1>2

LEMMA VerifyIInv ==
  ASSUME IInv, NEW s \in Sessions, NEW right \in BOOLEAN, NEW resets \in BOOLEAN,
         VerifyOtp(s, right, resets)
  PROVE  IInv'
<1> DEFINE attempts == codes[Newest].attempts + 1
           request == [op |-> "verify", code |-> Newest, attempts |-> attempts,
                       spends |-> Spends(right, attempts), changes |-> right /\ resets]
<1>1. Newest \in DOMAIN codes /\ Newest \in 1 .. MaxCodes /\ codes[Newest] \in Code
  BY AccountAssumption DEF VerifyOtp, Newest, IInv, TypeOK
<1>2. attempts \in 0 .. MaxAttempts
  BY <1>1 DEF VerifyOtp, Code
<1>3. Spends(right, attempts) \in BOOLEAN /\ (right /\ resets) \in BOOLEAN
  BY <1>2, AccountAssumption DEF Spends
<1>4. session' = [session EXCEPT ![s] = request] /\ UNCHANGED accountVars
  BY DEF VerifyOtp, Load, Receive
<1> HIDE DEF attempts
<1>5. request \in Request /\ Known(request)
  BY <1>1, <1>2, <1>3 DEF Request, Known
<1> HIDE DEF request
<1> QED  BY <1>4, <1>5, RequestStep

LEMMA BeginIInv ==
  ASSUME IInv, NEW s \in Sessions, Begin(s), ~Register(s)
  PROVE  IInv'
BY LoginIInv, EraseIInv, ReadSessionIInv, RequestStep, RevokeAllIsRequest
   DEF Begin, LogoutAll, Load, Receive

LEMMA RollBackIInv ==
  ASSUME IInv, NEW s \in Sessions, RollBack(s), UNCHANGED accountVars
  PROVE  IInv'
BY IdleRequest, RequestStep DEF RollBack

-----------------------------------------------------------------------------
(* Registration, codes and the password *)

LEMMA RegisterIInv ==
  ASSUME IInv, NEW s \in Sessions, Register(s) \/ CommitProfile(s)
  PROVE  IInv'
<1>1. CASE Register(s)
  <2> DEFINE request == [op |-> "profile"]
  <2>1. request \in Request /\ KnownNext(request)
    BY DEF Request, KnownNext
  <2>2. session' = [session EXCEPT ![s] = request]
    BY <1>1 DEF Register, Receive
  <2> HIDE DEF request
  <2>3. /\ session' \in [Sessions -> Request]
        /\ \A t \in Sessions : session'[t] = session[t] \/ Known(session[t])'
    BY <2>1, <2>2, OneMoves
  <2> QED  BY <1>1, <2>3, CodeStep DEF Register, IInv, TypeOK
<1>2. CASE CommitProfile(s)
  <2> DEFINE request == [op |-> "login", issued |-> password]
  <2>1. request \in Request /\ KnownNext(request)
    BY DEF IInv, TypeOK, Request, KnownNext
  <2>2. session' = [session EXCEPT ![s] = request]
    BY <1>2 DEF CommitProfile, GoOn
  <2> HIDE DEF request
  <2>3. /\ session' \in [Sessions -> Request]
        /\ \A t \in Sessions : session'[t] = session[t] \/ Known(session[t])'
    BY <2>1, <2>2, OneMoves
  <2> QED  BY <1>2, <2>3, CodeStep DEF CommitProfile, IInv, TypeOK
<1> QED  BY <1>1, <1>2

LEMMA ErasureIInv ==
  ASSUME IInv, NEW s \in Sessions, CommitErasure(s)
  PROVE  IInv'
<1>1. KnownNext(Idle)
  BY DEF KnownNext, Idle
<1>2. /\ session' \in [Sessions -> Request]
      /\ \A t \in Sessions : session'[t] = session[t] \/ Known(session[t])'
  BY <1>1, IdleRequest, OneMoves DEF CommitErasure, Finish
<1> QED  BY <1>2, CodeStep DEF CommitErasure, IInv, TypeOK

LEMMA CodesIInv ==
  ASSUME IInv, GenerateOtp \/ ExpireCode
  PROVE  IInv'
<1>0. /\ \A c \in DOMAIN codes : codes[c] \in Code
      /\ Len(codes) \in Nat /\ DOMAIN codes = 1 .. Len(codes)
  BY DEF IInv, TypeOK
<1>1. CASE GenerateOtp
  <2> DEFINE old == [c \in DOMAIN codes |-> [codes[c] EXCEPT !.used = TRUE]]
  <2>1. \A c \in DOMAIN codes : old[c] \in Code
    BY <1>0 DEF Code
  <2>2. old = [c \in 1 .. Len(codes) |-> old[c]]
    BY <1>0
  <2>3. codes' = Append(old, NewCode) /\ Len(codes) < MaxCodes
    BY <1>1 DEF GenerateOtp
  <2> HIDE DEF old
  <2>4. old \in Seq(Code) /\ Len(old) = Len(codes)
    BY <1>0, <2>1, <2>2, FunctionSeq
  <2>5. NewCode \in Code
    BY AccountAssumption DEF NewCode, Code
  <2>6. codes' \in Seq(Code) /\ Len(codes') = Len(codes) + 1
    BY <2>3, <2>4, <2>5
  <2> QED  BY <1>0, <1>1, <2>3, <2>6, CodeStep, AccountAssumption DEF GenerateOtp, IInv, TypeOK
<1>2. CASE ExpireCode
  <2>1. Newest \in 1 .. Len(codes)
    BY <1>0, <1>2 DEF ExpireCode, Newest, IInv, TypeOK
  <2>2. codes' = [c \in 1 .. Len(codes) |-> codes'[c]]
        /\ \A c \in 1 .. Len(codes) : codes'[c] \in Code
    BY <1>0, <1>2, <2>1 DEF ExpireCode, Code
  <2>3. codes' \in Seq(Code) /\ Len(codes') = Len(codes)
    BY <1>0, <2>2, FunctionSeq
  <2> QED  BY <1>0, <1>2, <2>3, CodeStep, AccountAssumption DEF ExpireCode, IInv, TypeOK
<1> QED  BY <1>1, <1>2

LEMMA CommitVerifyIInv ==
  ASSUME IInv, NEW s \in Sessions, CommitVerify(s)
  PROVE  IInv'
<1> DEFINE r == session[s]
           next == IF r.changes THEN [op |-> "change", code |-> r.code] ELSE Idle
<1>0. /\ \A c \in DOMAIN codes : codes[c] \in Code
      /\ Len(codes) \in Nat /\ DOMAIN codes = 1 .. Len(codes)
  BY DEF IInv, TypeOK
<1>1. r.op = "verify" /\ r \in Request /\ Known(r)
  BY DEF CommitVerify, GoOn, IInv, TypeOK, RequestsKnown
<1>2. r.code \in DOMAIN codes /\ r.attempts \in 0 .. MaxAttempts /\ r.spends \in BOOLEAN
      /\ r.code \in 1 .. MaxCodes
  BY <1>1 DEF Request, Known, Idle
<1>3. codes' = [codes EXCEPT ![r.code].attempts = r.attempts, ![r.code].used = @ \/ r.spends]
  BY DEF CommitVerify
<1>4. codes' = [c \in 1 .. Len(codes) |-> codes'[c]]
  BY <1>0, <1>3
<1>5. ASSUME NEW c \in 1 .. Len(codes)
      PROVE  codes'[c] \in Code
  BY <1>0, <1>2, <1>3 DEF Code
<1>6. codes' \in Seq(Code) /\ Len(codes') = Len(codes)
  BY <1>0, <1>4, <1>5, FunctionSeq
<1>7. next \in Request /\ KnownNext(next) /\ session' = [session EXCEPT ![s] = next]
  BY <1>0, <1>2, <1>6 DEF CommitVerify, GoOn, Request, KnownNext, Idle
<1> HIDE DEF next
<1>8. /\ session' \in [Sessions -> Request]
      /\ \A t \in Sessions : session'[t] = session[t] \/ Known(session[t])'
  BY <1>7, OneMoves
<1> QED  BY <1>0, <1>6, <1>8, CodeStep, AccountAssumption DEF CommitVerify, IInv, TypeOK

LEMMA CommitChangeIInv ==
  ASSUME IInv, NEW s \in Sessions, CommitChange(s)
  PROVE  IInv'
<1> DEFINE request == [op |-> "revoke_all"]
<1>1. request \in Request /\ KnownNext(request)
  BY DEF Request, KnownNext
<1>2. session' = [session EXCEPT ![s] = request]
  BY DEF CommitChange, GoOn
<1> HIDE DEF request
<1>3. /\ session' \in [Sessions -> Request]
      /\ \A t \in Sessions : session'[t] = session[t] \/ Known(session[t])'
  BY <1>1, <1>2, OneMoves
<1> QED  BY <1>3, CodeStep, AccountAssumption DEF CommitChange, IInv, TypeOK

-----------------------------------------------------------------------------
(* Sessions and tokens *)

LEMMA ExpireIInv ==
  ASSUME IInv, NEW i \in DOMAIN userSessions, ExpireSession(i)
  PROVE  IInv'
BY OneRevoked, RevokeStep DEF ExpireSession, IInv, TypeOK

LEMMA RevokeAllIInv ==
  ASSUME IInv, NEW s \in Sessions, RevokeAllUserSessions(s)
  PROVE  IInv'
<1>1. userSessions' = RevokedBy(DOMAIN userSessions)
  BY DEF RevokeAllUserSessions, RevokedBy
<1>2. KnownNext(Idle)
  BY DEF KnownNext, Idle
<1>3. /\ session' \in [Sessions -> Request]
      /\ \A t \in Sessions : session'[t] = session[t] \/ Known(session[t])'
  BY <1>2, IdleRequest, OneMoves DEF RevokeAllUserSessions, Finish
<1> QED  BY <1>1, <1>3, RevokeStep DEF RevokeAllUserSessions

(* Rows of which one more is appended. *)
LEMMA AppendedRow ==
  ASSUME NEW rows \in Seq(UserSession), NEW row \in UserSession
  PROVE  /\ Append(rows, row) \in Seq(UserSession)
         /\ Len(Append(rows, row)) = Len(rows) + 1
         /\ DOMAIN rows = 1 .. Len(rows) /\ Len(rows) \in Nat
         /\ DOMAIN Append(rows, row) = 1 .. (Len(rows) + 1)
         /\ \A i \in 1 .. Len(rows) : Append(rows, row)[i] = rows[i]
         /\ Append(rows, row)[Len(rows) + 1] = row
OBVIOUS

LEMMA IdleMoves ==
  ASSUME IInv, NEW s \in Sessions, session' = [session EXCEPT ![s] = Idle]
  PROVE  /\ session' \in [Sessions -> Request]
         /\ \A t \in Sessions : session'[t] = session[t] \/ Known(session[t])'
<1>1. KnownNext(Idle)
  BY DEF KnownNext, Idle
<1> QED  BY <1>1, IdleRequest, OneMoves

LEMMA StampAt ==
  ASSUME TypeOK, NEW s \in Sessions, session[s].op \in {"login", "rotate"},
         NEW issued \in Stamps(s)
  PROVE  issued \in 0 .. MaxChanges
<1>1. session[s] \in Request
  BY DEF TypeOK
<1>2. session[s].issued \in 0 .. MaxChanges
  BY <1>1 DEF Request
<1> QED  BY <1>2, AccountAssumption DEF Stamps, TypeOK

LEMMA CreateIInv ==
  ASSUME IInv, NEW s \in Sessions, CreateSession(s)
  PROVE  IInv'
<1>0. PICK issued \in Stamps(s) :
         userSessions' = Append(userSessions, Opened(Len(userSessions) + 1, NoParent, issued))
  BY DEF CreateSession
<1> DEFINE n == Len(userSessions) + 1
           row == Opened(n, NoParent, issued)
<1>1. /\ session[s].op = "login" /\ session' = [session EXCEPT ![s] = Idle]
      /\ n <= MaxSessions /\ userSessions' = Append(userSessions, row)
      /\ UNCHANGED <<account, revokedTokens, password, codes, shared>>
  BY <1>0 DEF CreateSession, Finish
<1>2. issued \in 0 .. MaxChanges
  BY <1>1, StampAt DEF IInv
<1>3. userSessions \in Seq(UserSession) /\ Len(userSessions) \in Nat
  BY DEF IInv, TypeOK
<1>4. row \in UserSession /\ row.login = n
  BY <1>1, <1>2, <1>3, AccountAssumption DEF Opened, NoParent, UserSession
<1> HIDE DEF row
<1>5. /\ userSessions' \in Seq(UserSession) /\ Len(userSessions') = n
      /\ DOMAIN userSessions = 1 .. Len(userSessions)
      /\ DOMAIN userSessions' = 1 .. n
      /\ \A i \in 1 .. Len(userSessions) : userSessions'[i] = userSessions[i]
      /\ userSessions'[n].login = n
  BY <1>1, <1>3, <1>4, AppendedRow
<1>6. TypeOK'
  BY <1>1, <1>5, IdleMoves DEF IInv, TypeOK
<1>7. Kept
  BY <1>1, <1>3, <1>5 DEF Kept, Live
<1>8. TokensOver'
  BY <1>1, <1>3, <1>5 DEF IInv, SessionsInv, TokensOver, Live
<1>9. LoginsOpened'
  BY <1>3, <1>5 DEF IInv, SessionsInv, LoginsOpened
<1>10. OneUnspent'
  <2> SUFFICES ASSUME NEW i \in 1 .. n, NEW j \in 1 .. n,
                      i \notin revokedTokens, j \notin revokedTokens,
                      userSessions'[i].login = userSessions'[j].login
               PROVE  i = j
    BY <1>1, <1>5 DEF OneUnspent
  <2>1. \A k \in 1 .. Len(userSessions) :
           userSessions[k].login \in 1 .. MaxSessions /\ userSessions[k].login <= k
    <3>1. \A k \in 1 .. Len(userSessions) : userSessions[k] \in UserSession
      BY <1>3
    <3> QED  BY <1>5, <3>1 DEF IInv, SessionsInv, LoginsOpened, UserSession
  <2>2. CASE i # n /\ j # n
    BY <1>3, <1>5, <2>2 DEF IInv, SessionsInv, OneUnspent
  <2>3. CASE i = n \/ j = n
    BY <1>3, <1>5, <2>1, <2>3
  <2> QED  BY <2>2, <2>3
<1> QED  BY <1>1, <1>6, <1>7, <1>8, <1>9, <1>10, IdleMoves, KeepStep DEF SessionsInv

LEMMA RotationIInv ==
  ASSUME IInv, NEW s \in Sessions, CommitRotation(s)
  PROVE  IInv'
<1>0. PICK issued \in Stamps(s) :
         userSessions' = Append([userSessions EXCEPT ![session[s].of].revoked = TRUE],
                                Opened(userSessions[session[s].of].login, session[s].of, issued))
  BY DEF CommitRotation
<1> DEFINE k == session[s].of
           old == userSessions[k]
           n == Len(userSessions) + 1
           rows == RevokedBy({k})
           row == Opened(old.login, k, issued)
<1>1. session[s].op = "rotate" /\ session[s] \in Request /\ Known(session[s])
  BY DEF CommitRotation, Finish, IInv, TypeOK, RequestsKnown
<1>2. k \in DOMAIN userSessions /\ k \in 1 .. MaxSessions /\ k \in 1 .. Len(userSessions)
      /\ old \in UserSession /\ issued \in 0 .. MaxChanges
  BY <1>1, RowAt, StampAt DEF Known, IInv
<1>3. /\ session' = [session EXCEPT ![s] = Idle] /\ k \notin revokedTokens
      /\ Len(userSessions) < MaxSessions
      /\ revokedTokens' = revokedTokens \cup {k}
      /\ userSessions' = Append([userSessions EXCEPT ![k].revoked = TRUE], row)
      /\ UNCHANGED <<account, password, codes, shared>>
  BY <1>0 DEF CommitRotation, Finish, Unspent
<1>4. row \in UserSession /\ row.login = old.login
  BY <1>2, AccountAssumption DEF Opened, UserSession
<1>5. userSessions \in Seq(UserSession) /\ Len(userSessions) \in Nat
      /\ DOMAIN userSessions = 1 .. Len(userSessions)
  BY DEF IInv, TypeOK
<1>6. userSessions' = Append(rows, row)
  BY <1>2, <1>3, OneRevoked DEF IInv
<1>7. /\ rows \in Seq(UserSession) /\ Len(rows) = Len(userSessions)
      /\ \A i \in DOMAIN userSessions :
            /\ rows[i].login = userSessions[i].login
            /\ rows[i].revoked = (userSessions[i].revoked \/ i \in {k})
  <2>1. TypeOK
    BY DEF IInv
  <2> QED  BY <2>1, RevokedRows
<1> HIDE DEF rows, row
<1>8. /\ userSessions' \in Seq(UserSession) /\ Len(userSessions') = n
      /\ DOMAIN userSessions' = 1 .. n
      /\ \A i \in 1 .. Len(userSessions) :
            /\ userSessions'[i].login = userSessions[i].login
            /\ userSessions'[i].revoked = (userSessions[i].revoked \/ i = k)
      /\ userSessions'[n].login = userSessions[k].login
  BY <1>4, <1>5, <1>6, <1>7, AppendedRow
<1> HIDE DEF old, k
<1>9. TypeOK'
  <2>1. Len(userSessions') <= MaxSessions
    BY <1>3, <1>5, <1>8, AccountAssumption
  <2>2. revokedTokens' \subseteq 1 .. MaxSessions
    BY <1>2, <1>3 DEF IInv, TypeOK
  <2> QED  BY <1>3, <1>8, <2>1, <2>2, IdleMoves DEF IInv, TypeOK
<1>10. Kept
  BY <1>3, <1>5, <1>8 DEF Kept, Live
<1>11. TokensOver'
  <2> SUFFICES ASSUME NEW i \in revokedTokens'
               PROVE  i \in DOMAIN userSessions' /\ userSessions'[i].revoked
    BY DEF TokensOver, Live
  <2>1. i = k \/ (i \in DOMAIN userSessions /\ userSessions[i].revoked)
    BY <1>3 DEF IInv, SessionsInv, TokensOver, Live
  <2>2. k \in 1 .. Len(userSessions)
    BY <1>2 DEF k
  <2>3. i \in 1 .. Len(userSessions) /\ (userSessions[i].revoked \/ i = k)
    BY <1>5, <2>1, <2>2
  <2>4. i \in DOMAIN userSessions'
    BY <1>5, <1>8, <2>3
  <2> QED  BY <1>8, <2>3, <2>4
<1>12. LoginsOpened'
  <2>1. userSessions[k].login <= k
    BY <1>2 DEF IInv, SessionsInv, LoginsOpened
  <2>2. userSessions[k].login \in 1 .. MaxSessions
    BY <1>2 DEF old, UserSession
  <2>3. userSessions[k].login <= n
    BY <1>2, <1>5, <2>1, <2>2, AccountAssumption
  <2> QED  BY <1>5, <1>8, <2>3 DEF IInv, SessionsInv, LoginsOpened
<1>13. OneUnspent'
  <2> SUFFICES ASSUME NEW i \in 1 .. n, NEW j \in 1 .. n,
                      i \notin revokedTokens', j \notin revokedTokens',
                      userSessions'[i].login = userSessions'[j].login
               PROVE  i = j
    BY <1>8 DEF OneUnspent
  <2>1. i # k /\ j # k /\ i \notin revokedTokens /\ j \notin revokedTokens
    BY <1>3
  <2>2. \A h \in 1 .. Len(userSessions) :
           h \notin revokedTokens /\ userSessions[h].login = userSessions[k].login => h = k
    BY <1>2, <1>3, <1>5 DEF IInv, SessionsInv, OneUnspent
  <2>3. CASE i # n /\ j # n
    BY <1>5, <1>8, <2>1, <2>3 DEF IInv, SessionsInv, OneUnspent
  <2>4. CASE i = n \/ j = n
    BY <1>5, <1>8, <2>1, <2>2, <2>4
  <2> QED  BY <2>3, <2>4
<1> QED  BY <1>3, <1>9, <1>10, <1>11, <1>12, <1>13, IdleMoves, KeepStep DEF SessionsInv

-----------------------------------------------------------------------------
LEMMA NextIInv == IInv /\ [Next]_vars => IInv'
<1> SUFFICES ASSUME IInv, [Next]_vars
             PROVE  IInv'
  OBVIOUS
<1>0. Devices \subseteq Sessions /\ Resetters \subseteq Sessions
  BY AccountAssumption
<1>1. ASSUME NEW s \in Devices, Begin(s)
      PROVE  IInv'
  BY <1>0, <1>1, BeginIInv, RegisterIInv
<1>2. ASSUME NEW s \in Devices, Commit(s)
      PROVE  IInv'
  BY <1>0, <1>2, RegisterIInv, CreateIInv, RotationIInv, ErasureIInv DEF Commit
<1>3. ASSUME NEW s \in Resetters, Reset(s)
      PROVE  IInv'
  BY <1>0, <1>3, VerifyIInv, CommitVerifyIInv, CommitChangeIInv DEF Reset
<1>4. ASSUME NEW s \in Sessions, RevokeAllUserSessions(s)
      PROVE  IInv'
  BY <1>4, RevokeAllIInv
<1>5. ASSUME NEW i \in DOMAIN userSessions, ExpireSession(i)
      PROVE  IInv'
  BY <1>5, ExpireIInv
<1>6. CASE GenerateOtp \/ ExpireCode
  BY <1>6, CodesIInv
<1>7. ASSUME NEW s \in Sessions, RollBack(s), UNCHANGED accountVars
      PROVE  IInv'
  BY <1>7, RollBackIInv
<1>8. CASE UNCHANGED vars
  <2>1. TypeOK' /\ Kept /\ SessionsInv' /\ UNCHANGED session
    BY <1>8 DEF IInv, TypeOK, Kept, SessionsInv, TokensOver, LoginsOpened, OneUnspent, Live,
                vars, accountVars
  <2> QED  BY <2>1, KeepStep
<1> QED  BY <1>1, <1>2, <1>3, <1>4, <1>5, <1>6, <1>7, <1>8 DEF Next

LEMMA Invariance == Spec => []IInv
BY InitIInv, NextIInv, PTL DEF Spec

(* Whatever requests overlap and wherever they stop, the account, its       *)
(* sessions, tokens and codes, and what each request is about to commit,    *)
(* stay of their types: no code is tried more often than it allows. *)
THEOREM TypeCorrectness == Spec => []TypeOK
<1>1. IInv => TypeOK
  BY DEF IInv
<1> QED  BY <1>1, Invariance, PTL

(* Rotations of one token, logins and resets may overlap in any number:     *)
(* a login keeps at most one live session, because the number of a revoked  *)
(* token is unique and every session but the last of a login is in there. *)
THEOREM OneLiveSession == Spec => []OneLivePerLogin
<1>1. IInv => OneLivePerLogin
  BY DEF IInv, SessionsInv, TokensOver, OneUnspent, OneLivePerLogin, Live
<1> QED  BY <1>1, Invariance, PTL
-----------------------------------------------------------------------------
(* Codes and changes of the password *)

(* A reset that has used a code up and has still to change the password. *)
Owing(t, c) == session[t].op = "change" /\ session[t].code = c

(* Every change so far was paid with a code, by a reset. *)
Paid(spent) ==
    \E f \in [1 .. password -> spent] : \A m, n \in 1 .. password : f[m] = f[n] => m = n

(* A code that is not shared has paid once. *)
Single(spent) ==
    \A c \in 1 .. MaxCodes, s, t \in Resetters :
        <<c, s>> \in spent /\ <<c, t>> \in spent => s = t \/ c \in shared

(* A reset that will change the password has not been paid with its code;   *)
(* no other one has, unless the code is shared. *)
CanPay(t, spent) ==
    \A c \in 1 .. MaxCodes : Paying(t, c) \/ Owing(t, c) =>
        /\ <<c, t>> \notin spent
        /\ c \notin shared => \A s \in Resetters : <<c, s>> \notin spent

Ledger(spent) ==
    Paid(spent) /\ Single(spent) /\ \A t \in Sessions : CanPay(t, spent)

(* Once a reset has used up a code that is not shared, no other one counts  *)
(* on it. *)
Exclusive ==
    \A c \in 1 .. MaxCodes, s, t \in Resetters : Owing(s, c) /\ c \notin shared =>
        ~Paying(t, c) /\ (Owing(t, c) => s = t)

Resetting(request) == request.op \in {"verify", "change"}

(* What a request of a reset was told of its code. *)
ResetKnown(t) ==
    /\ Resetting(session[t]) => t \in Resetters
    /\ session[t].op = "verify" /\ session[t].changes => session[t].spends
    /\ session[t].op = "change" => session[t].code \in UsedCodes

PayInv ==
    /\ \A t \in Sessions : ResetKnown(t)
    /\ Exclusive
    /\ \E spent \in SUBSET (UsedCodes \X Resetters) : Ledger(spent)

(* A step that changes no password and moves no reset: used codes stay so. *)
LEMMA NoResetStep ==
  ASSUME PayInv, UsedCodes \subseteq UsedCodes', password' = password, shared' = shared,
         \A t \in Sessions : session'[t] = session[t] \/ ~Resetting(session'[t])
  PROVE  PayInv'
<1>0. Resetters \subseteq Sessions
  BY AccountAssumption
<1>1. PICK spent \in SUBSET (UsedCodes \X Resetters) : Ledger(spent)
  BY DEF PayInv
<1>2. spent \in SUBSET (UsedCodes \X Resetters)'
  BY <1>1
<1>3. \A t \in Sessions : \A c :
         (Paying(t, c)' => Paying(t, c)) /\ (Owing(t, c)' => Owing(t, c))
  BY DEF Paying, Owing, Resetting
<1>4. Paid(spent)' /\ Single(spent)'
  BY <1>1 DEF Ledger, Paid, Single
<1>5. ASSUME NEW t \in Sessions
      PROVE  CanPay(t, spent)'
  BY <1>1, <1>3 DEF Ledger, CanPay
<1>6. Exclusive'
  BY <1>0, <1>3 DEF PayInv, Exclusive
<1>7. ASSUME NEW t \in Sessions
      PROVE  ResetKnown(t)'
  BY DEF PayInv, ResetKnown, Resetting
<1> QED  BY <1>2, <1>4, <1>5, <1>6, <1>7 DEF PayInv, Ledger

(* One request moves on to what is no reset. *)
LEMMA NoResetMove ==
  ASSUME TypeOK, PayInv, NEW s \in Sessions, NEW request,
         session' = [session EXCEPT ![s] = request], ~Resetting(request),
         UNCHANGED <<codes, password, shared>>
  PROVE  PayInv'
<1>1. \A t \in Sessions : session'[t] = session[t] \/ ~Resetting(session'[t])
  BY DEF TypeOK
<1>2. UsedCodes \subseteq UsedCodes'
  BY DEF UsedCodes
<1> QED  BY <1>1, <1>2, NoResetStep

LEMMA DevicePays ==
  ASSUME TypeOK, PayInv, NEW s \in Sessions,
         Begin(s) \/ Commit(s) \/ RevokeAllUserSessions(s) \/ (RollBack(s) /\ UNCHANGED accountVars)
  PROVE  PayInv'
<1>1. UNCHANGED <<password, codes, shared>>
  BY DEF Begin, Commit, Register, Login, LogoutAll, Erase, RotateSession, DetectReuse,
         CommitProfile, CreateSession, CommitRotation, CommitErasure, RevokeAllUserSessions,
         Load, accountVars
<1>2. PICK request : session' = [session EXCEPT ![s] = request] /\ ~Resetting(request)
  <2>1. ~Resetting(Idle)
    BY DEF Resetting, Idle
  <2>2. ASSUME NEW request, Receive(s, request), ~Resetting(request)
        PROVE  session' = [session EXCEPT ![s] = request] /\ ~Resetting(request)
    BY <2>2 DEF Receive
  <2>3. CASE Register(s) \/ Login(s) \/ LogoutAll(s) \/ Erase(s)
    <3>1. ~Resetting([op |-> "profile"]) /\ ~Resetting([op |-> "login", issued |-> password])
          /\ ~Resetting([op |-> "revoke_all"]) /\ ~Resetting([op |-> "erase"])
      BY DEF Resetting
    <3> QED  BY <2>2, <2>3, <3>1 DEF Register, Login, LogoutAll, Erase, Load
  <2>4. ASSUME NEW i \in DOMAIN userSessions,
               RotateSession(s, i) \/ DetectReuse(s, i)
        PROVE  \E request : session' = [session EXCEPT ![s] = request] /\ ~Resetting(request)
    <3>1. /\ ~Resetting([op |-> "rotate", of |-> i, issued |-> password])
          /\ ~Resetting([op |-> "revoke_all"])
      BY DEF Resetting
    <3> QED  BY <2>2, <2>4, <3>1 DEF RotateSession, DetectReuse, Load
  <2>5. CASE Commit(s)
    BY <2>1, <2>5 DEF Commit, CommitProfile, CreateSession, CommitRotation, CommitErasure,
       GoOn, Finish, Resetting
  <2>6. CASE RevokeAllUserSessions(s) \/ RollBack(s)
    BY <2>1, <2>6 DEF RevokeAllUserSessions, RollBack, Finish
  <2> QED  BY <2>3, <2>4, <2>5, <2>6 DEF Begin
<1> QED  BY <1>1, <1>2, NoResetMove

(* Codes that are generated, and one that expires: used codes stay used. *)
LEMMA CodesPay ==
  ASSUME TypeOK, PayInv, GenerateOtp \/ ExpireCode
  PROVE  PayInv'
<1>1. /\ \A c \in DOMAIN codes : codes[c] \in Code
      /\ Len(codes) \in Nat /\ DOMAIN codes = 1 .. Len(codes)
  BY DEF TypeOK
<1>2. UsedCodes \subseteq UsedCodes'
  <2>1. CASE GenerateOtp
    <3> DEFINE old == [c \in DOMAIN codes |-> [codes[c] EXCEPT !.used = TRUE]]
    <3>1. \A c \in DOMAIN codes : old[c] \in Code /\ old[c].used
      BY <1>1 DEF Code
    <3>2. old = [c \in 1 .. Len(codes) |-> old[c]]
      BY <1>1
    <3>3. codes' = Append(old, NewCode)
      BY <2>1 DEF GenerateOtp
    <3> HIDE DEF old
    <3>4. old \in Seq(Code) /\ Len(old) = Len(codes)
      BY <1>1, <3>1, <3>2, FunctionSeq
    <3>5. \A c \in DOMAIN codes : c \in DOMAIN codes' /\ codes'[c] = old[c]
      BY <1>1, <3>3, <3>4
    <3> QED  BY <3>1, <3>5 DEF UsedCodes
  <2>2. CASE ExpireCode
    BY <1>1, <2>2 DEF ExpireCode, UsedCodes, Code
  <2> QED  BY <2>1, <2>2
<1>3. password' = password /\ shared' = shared /\ session' = session
  BY DEF GenerateOtp, ExpireCode
<1> QED  BY <1>2, <1>3, NoResetStep

(* One request moves, and the others count on what they did. *)
LEMMA OthersStay ==
  ASSUME TypeOK, NEW s \in Sessions, NEW request, session' = [session EXCEPT ![s] = request]
  PROVE  /\ session'[s] = request
         /\ \A t \in Sessions : t # s =>
               /\ session'[t] = session[t]
               /\ \A c : Paying(t, c)' = Paying(t, c) /\ Owing(t, c)' = Owing(t, c)
<1>1. /\ session'[s] = request
      /\ \A t \in Sessions : t # s => session'[t] = session[t]
  BY DEF TypeOK
<1> QED  BY <1>1 DEF Paying, Owing

(* A reset loads the newest code, which is unused, so that nothing was paid *)
(* with it and nobody owes it. *)
LEMMA VerifyPays ==
  ASSUME TypeOK, PayInv, NEW s \in Sessions, s \in Resetters,
         NEW right \in BOOLEAN, NEW resets \in BOOLEAN, VerifyOtp(s, right, resets)
  PROVE  PayInv'
<1> DEFINE attempts == codes[Newest].attempts + 1
           request == [op |-> "verify", code |-> Newest, attempts |-> attempts,
                       spends |-> Spends(right, attempts), changes |-> right /\ resets]
<1>1. /\ session' = [session EXCEPT ![s] = request] /\ UNCHANGED <<password, codes, shared>>
      /\ ~codes[Newest].used
  BY DEF VerifyOtp, Load, Receive, accountVars
<1>2. request.op = "verify" /\ request.code = Newest /\ (request.changes => request.spends)
  BY DEF Spends
<1> HIDE DEF request
<1>3. PICK spent \in SUBSET (UsedCodes \X Resetters) : Ledger(spent)
  BY DEF PayInv
<1>4. UsedCodes' = UsedCodes /\ Paid(spent)' /\ Single(spent)' /\ Newest \notin UsedCodes
  BY <1>1, <1>3 DEF UsedCodes, Paid, Ledger, Single
<1>5. session'[s] = request
      /\ \A t \in Sessions : t # s =>
            /\ session'[t] = session[t]
            /\ \A c : Paying(t, c)' = Paying(t, c) /\ Owing(t, c)' = Owing(t, c)
  BY <1>1, OthersStay
<1>6. \A c : ~Owing(s, c)' /\ (Paying(s, c)' => c = Newest)
  BY <1>2, <1>5 DEF Owing, Paying
<1>7. \A t \in Sessions : ~Owing(t, Newest)
  BY <1>4 DEF PayInv, ResetKnown, Owing
<1>8. ASSUME NEW t \in Sessions
      PROVE  CanPay(t, spent)'
  <2>1. CASE t = s
    <3>1. \A u : <<Newest, u>> \notin spent
      BY <1>3, <1>4
    <3> QED  BY <1>6, <2>1, <3>1 DEF CanPay
  <2>2. CASE t # s
    BY <1>1, <1>3, <1>5, <2>2 DEF CanPay, Ledger
  <2> QED  BY <2>1, <2>2
<1>9. ASSUME NEW t \in Sessions
      PROVE  ResetKnown(t)'
  <2>1. CASE t = s
    BY <1>2, <1>5, <2>1 DEF ResetKnown, Resetting
  <2>2. CASE t # s
    BY <1>4, <1>5, <2>2 DEF ResetKnown, PayInv
  <2> QED  BY <2>1, <2>2
<1>10. Exclusive'
  <2> SUFFICES ASSUME NEW c \in 1 .. MaxCodes, NEW u \in Resetters, NEW t \in Resetters,
                      Owing(u, c)', c \notin shared
               PROVE  ~Paying(t, c)' /\ (Owing(t, c)' => u = t)
    BY <1>1 DEF Exclusive
  <2>1. u \in Sessions /\ t \in Sessions
    BY AccountAssumption
  <2>2. u # s /\ Owing(u, c)
    BY <1>5, <1>6, <2>1
  <2>3. c # Newest
    BY <1>7, <2>1, <2>2
  <2>4. CASE t = s
    BY <1>6, <2>3, <2>4
  <2>5. CASE t # s
    BY <1>5, <2>1, <2>2, <2>5 DEF PayInv, Exclusive
  <2> QED  BY <2>4, <2>5
<1> QED  BY <1>1, <1>3, <1>4, <1>8, <1>9, <1>10 DEF PayInv, Ledger

(* What it commits is used from then on, and shared if another reset counts *)
(* on it. *)
LEMMA CommitVerifyPays ==
  ASSUME IInv, PayInv, NEW s \in Sessions, s \in Resetters, CommitVerify(s)
  PROVE  PayInv'
<1> DEFINE r == session[s]
           next == IF r.changes THEN [op |-> "change", code |-> r.code] ELSE Idle
<1>1. /\ r.op = "verify" /\ session' = [session EXCEPT ![s] = next]
      /\ codes' = [codes EXCEPT ![r.code].attempts = r.attempts, ![r.code].used = @ \/ r.spends]
      /\ password' = password
      /\ shared' = shared \cup
            {c \in {r.code} : r.changes /\ \E t \in Resetters \ {s} : Paying(t, c)}
  BY DEF CommitVerify, GoOn
<1>2. /\ r.code \in DOMAIN codes /\ TypeOK /\ Resetters \subseteq Sessions
      /\ \A c \in DOMAIN codes : codes[c] \in Code
  BY <1>1, AccountAssumption DEF IInv, RequestsKnown, Known, TypeOK
<1>3. PICK spent \in SUBSET (UsedCodes \X Resetters) : Ledger(spent)
  BY DEF PayInv
<1>4. UsedCodes \subseteq UsedCodes' /\ (r.spends => r.code \in UsedCodes')
  BY <1>1, <1>2 DEF UsedCodes, Code
<1>5. shared \subseteq shared' /\ (r.changes => r.spends /\ Paying(s, r.code))
  BY <1>1 DEF PayInv, ResetKnown, Paying
<1>6. session'[s] = next
      /\ \A t \in Sessions : t # s =>
            /\ session'[t] = session[t]
            /\ \A c : Paying(t, c)' = Paying(t, c) /\ Owing(t, c)' = Owing(t, c)
  BY <1>1, <1>2, OthersStay
<1>7. \A c : ~Paying(s, c)' /\ (Owing(s, c)' => r.changes /\ c = r.code)
  BY <1>6 DEF Paying, Owing, Idle
<1>8. Paid(spent)' /\ spent \in SUBSET (UsedCodes \X Resetters)'
  BY <1>1, <1>3, <1>4 DEF Paid, Ledger
<1>9. Single(spent)'
  BY <1>3, <1>5 DEF Single, Ledger
<1> HIDE DEF next
<1>10. ASSUME NEW t \in Sessions
       PROVE  CanPay(t, spent)'
  <2>1. CanPay(t, spent)
    BY <1>3 DEF Ledger
  <2>2. \A c : Paying(t, c)' \/ Owing(t, c)' => Paying(t, c) \/ Owing(t, c)
    BY <1>5, <1>6, <1>7
  <2> QED  BY <1>5, <2>1, <2>2 DEF CanPay
<1>11. ASSUME NEW t \in Sessions
       PROVE  ResetKnown(t)'
  <2>1. CASE t = s
    BY <1>4, <1>5, <1>6, <2>1 DEF ResetKnown, Resetting, Idle, next
  <2>2. CASE t # s
    BY <1>4, <1>6, <2>2 DEF ResetKnown, PayInv
  <2> QED  BY <2>1, <2>2
<1>12. Exclusive'
  <2> SUFFICES ASSUME NEW c \in 1 .. MaxCodes, NEW u \in Resetters, NEW t \in Resetters,
                      Owing(u, c)', c \notin shared'
               PROVE  ~Paying(t, c)' /\ (Owing(t, c)' => u = t)
    BY DEF Exclusive
  <2>1. u \in Sessions /\ t \in Sessions /\ c \notin shared
    BY <1>2, <1>5
  <2>2. CASE u = s
    <3>1. r.changes /\ c = r.code /\ Paying(s, c)
      BY <1>5, <1>7, <2>2
    <3>2. \A v \in Resetters : v # s => ~Paying(v, c)
      BY <1>1, <3>1
    <3>3. \A v \in Resetters : ~Owing(v, c)
      BY <2>1, <3>1 DEF PayInv, Exclusive
    <3> QED  BY <1>6, <1>7, <2>1, <2>2, <3>2, <3>3
  <2>3. CASE u # s
    <3>1. Owing(u, c)
      BY <1>6, <2>1, <2>3
    <3>2. \A v \in Resetters : ~Paying(v, c) /\ (Owing(v, c) => u = v)
      BY <2>1, <3>1 DEF PayInv, Exclusive
    <3>3. t = s => ~Owing(t, c)'
      BY <1>5, <1>7, <3>2
    <3> QED  BY <1>6, <1>7, <2>1, <3>2, <3>3
  <2> QED  BY <2>2, <2>3
<1> QED  BY <1>8, <1>9, <1>10, <1>11, <1>12 DEF PayInv, Ledger

(* An injection from 1 .. n goes on to n + 1 by a value it does not take. *)
LEMMA OneMorePaid ==
  ASSUME NEW n \in Nat, NEW S, NEW c, c \notin S, NEW f \in [1 .. n -> S],
         \A k, m \in 1 .. n : f[k] = f[m] => k = m
  PROVE  \E g \in [1 .. n + 1 -> S \cup {c}] : \A k, m \in 1 .. n + 1 : g[k] = g[m] => k = m
<1> DEFINE g == [k \in 1 .. n + 1 |-> IF k = n + 1 THEN c ELSE f[k]]
<1>1. \A k \in 1 .. n + 1 : k = n + 1 \/ k \in 1 .. n
  OBVIOUS
<1>2. \A k \in 1 .. n : f[k] \in S /\ k # n + 1 /\ k \in 1 .. n + 1
  OBVIOUS
<1>3. g \in [1 .. n + 1 -> S \cup {c}]
  BY <1>1, <1>2
<1>4. ASSUME NEW k \in 1 .. n + 1, NEW m \in 1 .. n + 1, g[k] = g[m]
      PROVE  k = m
  BY <1>1, <1>2, <1>4
<1> HIDE DEF g
<1> QED  BY <1>3, <1>4

(* The change is paid with its code, by its reset. *)
LEMMA CommitChangePays ==
  ASSUME TypeOK, PayInv, NEW s \in Sessions, s \in Resetters, CommitChange(s)
  PROVE  PayInv'
<1>1. /\ session[s].op = "change" /\ session' = [session EXCEPT ![s] = [op |-> "revoke_all"]]
      /\ password' = password + 1 /\ UNCHANGED <<codes, shared>>
  BY DEF CommitChange, GoOn
<1>2. PICK spent \in SUBSET (UsedCodes \X Resetters) : Ledger(spent)
  BY DEF PayInv
<1>3. PICK c \in 1 .. MaxCodes : Owing(s, c) /\ c \in UsedCodes
  <2>1. session[s].code \in UsedCodes
    BY <1>1 DEF PayInv, ResetKnown
  <2> QED  BY <1>1, <2>1, AccountAssumption DEF Owing, UsedCodes, TypeOK
<1>4. /\ <<c, s>> \notin spent
      /\ c \notin shared => \A t \in Resetters : <<c, t>> \notin spent
  BY <1>2, <1>3 DEF Ledger, CanPay
<1>5. PICK f \in [1 .. password -> spent] : \A k, m \in 1 .. password : f[k] = f[m] => k = m
  BY <1>2 DEF Ledger, Paid
<1>6. password \in Nat
  BY AccountAssumption DEF TypeOK
<1>7. \E g \in [1 .. password + 1 -> spent \cup {<<c, s>>}] :
         \A k, m \in 1 .. password + 1 : g[k] = g[m] => k = m
  <2> DEFINE pair == <<c, s>>
  <2>1. pair \notin spent
    BY <1>4
  <2> HIDE DEF pair
  <2>2. \E g \in [1 .. password + 1 -> spent \cup {pair}] :
           \A k, m \in 1 .. password + 1 : g[k] = g[m] => k = m
    BY <1>5, <1>6, <2>1, OneMorePaid, SMTT(30)
  <2> QED  BY <2>2 DEF pair
<1>8. Paid(spent \cup {<<c, s>>})'
  BY <1>1, <1>7 DEF Paid
<1>9. /\ spent \cup {<<c, s>>} \in SUBSET (UsedCodes \X Resetters)
      /\ UsedCodes' = UsedCodes
  BY <1>1, <1>2, <1>3 DEF UsedCodes
<1>10. Single(spent \cup {<<c, s>>})'
  <2> SUFFICES ASSUME NEW d \in 1 .. MaxCodes, NEW u \in Resetters, NEW t \in Resetters,
                      <<d, u>> \in spent \cup {<<c, s>>}, <<d, t>> \in spent \cup {<<c, s>>},
                      d \notin shared
               PROVE  u = t
    BY <1>1 DEF Single
  <2>1. CASE d = c
    BY <1>4, <2>1
  <2>2. CASE d # c
    BY <1>2, <2>2 DEF Ledger, Single
  <2> QED  BY <2>1, <2>2
<1>11. session'[s] = [op |-> "revoke_all"]
       /\ \A t \in Sessions : t # s =>
             /\ session'[t] = session[t]
             /\ \A d : Paying(t, d)' = Paying(t, d) /\ Owing(t, d)' = Owing(t, d)
  BY <1>1, OthersStay
<1>12. \A d : ~Paying(s, d)' /\ ~Owing(s, d)'
  BY <1>11 DEF Paying, Owing
<1>13. ASSUME NEW t \in Sessions
       PROVE  CanPay(t, spent \cup {<<c, s>>})'
  <2> SUFFICES ASSUME NEW d \in 1 .. MaxCodes, Paying(t, d)' \/ Owing(t, d)'
               PROVE  /\ <<d, t>> \notin spent \cup {<<c, s>>}
                      /\ d \notin shared =>
                            \A u \in Resetters : <<d, u>> \notin spent \cup {<<c, s>>}
    BY <1>1 DEF CanPay
  <2>1. t # s /\ (Paying(t, d) \/ Owing(t, d))
    BY <1>11, <1>12
  <2>2. /\ <<d, t>> \notin spent
        /\ d \notin shared => \A u \in Resetters : <<d, u>> \notin spent
    BY <1>2, <2>1 DEF Ledger, CanPay
  <2>3. t \in Resetters
    BY <2>1 DEF PayInv, ResetKnown, Resetting, Paying, Owing
  <2>4. d \notin shared => d # c
    BY <1>3, <2>1, <2>3 DEF PayInv, Exclusive
  <2> QED  BY <2>1, <2>2, <2>4
<1>14. ASSUME NEW t \in Sessions
       PROVE  ResetKnown(t)'
  <2>1. CASE t = s
    BY <1>11, <2>1 DEF ResetKnown, Resetting
  <2>2. CASE t # s
    BY <1>9, <1>11, <2>2 DEF ResetKnown, PayInv
  <2> QED  BY <2>1, <2>2
<1>15. Exclusive'
  <2>1. Resetters \subseteq Sessions
    BY AccountAssumption
  <2> QED  BY <1>1, <1>11, <1>12, <2>1 DEF PayInv, Exclusive
<1> QED  BY <1>8, <1>9, <1>10, <1>13, <1>14, <1>15 DEF PayInv, Ledger

LEMMA NextPayInv ==
  ASSUME IInv, PayInv, [Next]_vars
  PROVE  PayInv'
<1>0. TypeOK /\ Devices \subseteq Sessions /\ Resetters \subseteq Sessions
  BY AccountAssumption DEF IInv
<1>1. ASSUME NEW s \in Devices, Begin(s) \/ Commit(s)
      PROVE  PayInv'
  BY <1>0, <1>1, DevicePays
<1>2. ASSUME NEW s \in Resetters, Reset(s)
      PROVE  PayInv'
  BY <1>0, <1>2, VerifyPays, CommitVerifyPays, CommitChangePays DEF Reset
<1>3. ASSUME NEW s \in Sessions,
             RevokeAllUserSessions(s) \/ (RollBack(s) /\ UNCHANGED accountVars)
      PROVE  PayInv'
  BY <1>0, <1>3, DevicePays
<1>4. CASE GenerateOtp \/ ExpireCode
  BY <1>0, <1>4, CodesPay
<1>5. CASE (\E i \in DOMAIN userSessions : ExpireSession(i)) \/ UNCHANGED vars
  <2>1. UNCHANGED <<password, codes, shared, session>>
    BY <1>5 DEF ExpireSession, vars, accountVars
  <2> QED  BY <2>1, NoResetStep DEF UsedCodes
<1> QED  BY <1>1, <1>2, <1>3, <1>4, <1>5 DEF Next

LEMMA InitPayInv == Init => PayInv
<1> SUFFICES ASSUME Init
             PROVE  PayInv
  OBVIOUS
<1>0. Resetters \subseteq Sessions
  BY AccountAssumption
<1>1. \A t \in Sessions : session[t].op = "none"
  BY DEF Init, NoRequests, Idle
<1>2. \A t \in Sessions : ResetKnown(t) /\ CanPay(t, {})
  BY <1>1 DEF Resetting, ResetKnown, CanPay, Paying, Owing
<1>3. Exclusive
  BY <1>0, <1>1 DEF Exclusive, Owing
<1>4. password = 0
  BY DEF Init
<1>5. [k \in 1 .. 0 |-> k] \in [1 .. 0 -> {}] /\ \A k \in 1 .. 0 : FALSE
  OBVIOUS
<1>6. Paid({}) /\ Single({})
  BY <1>4, <1>5 DEF Paid, Single
<1> QED  BY <1>2, <1>3, <1>6 DEF PayInv, Ledger

(* Every change of the password has used up a code (verify_otp_detailed and *)
(* reset_password commit apart), and two only where both resets had found   *)
(* it unused, whatever resets overlap, whatever codes are generated, tried  *)
(* or expire meanwhile and wherever a reset stops, for any number of codes, *)
(* resets and devices. *)
THEOREM ChangesArePaid == Spec => []ChangesSpendCodes
<1>1. IInv /\ PayInv => ChangesSpendCodes
  <2> SUFFICES ASSUME IInv, PayInv
               PROVE  ChangesSpendCodes
    OBVIOUS
  <2>1. PICK spent \in SUBSET (UsedCodes \X Resetters) : Ledger(spent)
    BY DEF PayInv
  <2>2. PICK f \in [1 .. password -> spent] : \A m, n \in 1 .. password : f[m] = f[n] => m = n
    BY <2>1 DEF Ledger, Paid
  <2>3. UsedCodes \subseteq 1 .. MaxCodes
    BY AccountAssumption DEF IInv, TypeOK, UsedCodes
  <2>4. f \in [1 .. password -> UsedCodes \X Resetters]
    BY <2>1, <2>2
  <2>5. ASSUME NEW m \in 1 .. password, NEW n \in 1 .. password, m # n, f[m][1] = f[n][1]
        PROVE  f[m][1] \in shared /\ f[m][2] # f[n][2]
    <3>1. PICK c \in UsedCodes, s \in Resetters : f[m] = <<c, s>>
      BY <2>4
    <3>2. PICK t \in Resetters : f[n] = <<c, t>>
      BY <2>4, <2>5, <3>1
    <3>3. f[m] \in spent /\ f[n] \in spent /\ s # t
      BY <2>2, <2>5, <3>1, <3>2
    <3>4. c \in shared
      BY <2>1, <2>3, <3>1, <3>2, <3>3 DEF Ledger, Single
    <3> QED  BY <3>1, <3>2, <3>3, <3>4
  <2> QED  BY <2>4, <2>5 DEF ChangesSpendCodes
<1>2. IInv /\ PayInv /\ [Next]_vars => PayInv'
  BY NextPayInv
<1> QED  BY <1>1, <1>2, InitPayInv, Invariance, PTL DEF Spec
=============================================================================
