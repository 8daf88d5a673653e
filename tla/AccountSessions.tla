-------------------------- MODULE AccountSessions --------------------------
(***************************************************************************)
(* One account: its registration and its erasure, its sessions and the     *)
(* rotation of their refresh tokens, logging out of all of them, and the   *)
(* reset of the password by a code.  A session and its refresh token have  *)
(* the same number.  To log out of one session commits nothing: the token  *)
(* goes to a set of the process first, for which it is not decoded any     *)
(* more.  That set, and the limits of requests per minute, are left out:   *)
(* what they refuse is no step.                                            *)
(***************************************************************************)
EXTENDS Requests, Naturals, Sequences

CONSTANTS
    Devices,       \* sessions of requests that register, log in, rotate, log out
    Resetters,     \* those that verify codes and reset the password
    MaxAttempts,   \* OTPChallenge.max_attempts
    MaxSessions, MaxCodes, MaxChanges   \* bounds of the model

ASSUME AccountAssumption ==
    /\ Sessions = Devices \cup Resetters /\ Devices \cap Resetters = {}
    /\ MaxAttempts \in Nat \ {0}
    /\ MaxSessions \in Nat /\ MaxCodes \in Nat /\ MaxChanges \in Nat

VARIABLES
    account,        \* ABSENT; BARE when only the user is committed; COMPLETE;
                    \* ERASED when it was deactivated and its e-mail scrubbed
    userSessions,   \* user_sessions, oldest first
    revokedTokens,  \* revoked_tokens: unique numbers of refresh tokens
    password,       \* how often the password was changed
    codes,          \* otp_challenges, oldest first
    shared          \* history: the codes that a reset spent while another
                    \* one had found them unused

accountVars == <<account, userSessions, revokedTokens, password, codes, shared>>
vars == <<accountVars, session>>

(* The session of the login a session descends from, the one whose token it *)
(* was rotated from, and the password its token was issued under. *)
NoParent == 0
UserSession == [login : 1 .. MaxSessions, parent : 0 .. MaxSessions, revoked : BOOLEAN,
                issued : 0 .. MaxChanges]
Code == [attempts : 0 .. MaxAttempts, used : BOOLEAN]

Request ==
    [op : {"none", "profile", "erase", "revoke_all"}]
        \cup [op : {"login"}, issued : 0 .. MaxChanges]
        \cup [op : {"rotate"}, of : 1 .. MaxSessions, issued : 0 .. MaxChanges]
        \cup [op : {"verify"}, code : 1 .. MaxCodes, attempts : 0 .. MaxAttempts,
              spends : BOOLEAN, changes : BOOLEAN]
        \cup [op : {"change"}, code : 1 .. MaxCodes]

TypeOK ==
    /\ account \in {"ABSENT", "BARE", "COMPLETE", "ERASED"}
    /\ userSessions \in Seq(UserSession) /\ Len(userSessions) <= MaxSessions
    /\ revokedTokens \subseteq 1 .. MaxSessions
    /\ password \in 0 .. MaxChanges
    /\ codes \in Seq(Code) /\ Len(codes) <= MaxCodes
    /\ shared \subseteq 1 .. MaxCodes
    /\ session \in [Sessions -> Request]

Init ==
    /\ account = "ABSENT"
    /\ userSessions = << >> /\ revokedTokens = {}
    /\ password = 0 /\ codes = << >> /\ shared = {}
    /\ NoRequests

Load(s, request) == Receive(s, request) /\ UNCHANGED accountVars

(* A commit after which the request goes on with another. *)
GoOn(s, op, request) ==
    /\ session[s].op = op
    /\ session' = [session EXCEPT ![s] = request]

Live(i) == ~userSessions[i].revoked

(* is_active *)
Active == account \in {"BARE", "COMPLETE"}

(* A token is stamped between the load of its request and the commit; a     *)
(* change of the password counts from its commit. *)
Stamps(s) == session[s].issued .. password

Opened(login, parent, issued) ==
    [login |-> login, parent |-> parent, revoked |-> FALSE, issued |-> issued]

-----------------------------------------------------------------------------
(* Registration: the user, the profile and the first session are committed  *)
(* one after the other; what is refused after the user leaves it bare. *)

Register(s) ==
    /\ account = "ABSENT"
    /\ Receive(s, [op |-> "profile"])
    /\ account' = "BARE"
    /\ UNCHANGED <<userSessions, revokedTokens, password, codes, shared>>

CommitProfile(s) ==
    /\ GoOn(s, "profile", [op |-> "login", issued |-> password])
    /\ account' = IF account = "BARE" THEN "COMPLETE" ELSE account
    /\ UNCHANGED <<userSessions, revokedTokens, password, codes, shared>>

(* A bare account logs in as well. *)
Login(s) ==
    /\ Active
    /\ Load(s, [op |-> "login", issued |-> password])

CreateSession(s) ==
    LET n == Len(userSessions) + 1
    IN  /\ Finish(s, "login")
        /\ n <= MaxSessions
        /\ \E issued \in Stamps(s) :
               userSessions' = Append(userSessions, Opened(n, NoParent, issued))
        /\ UNCHANGED <<account, revokedTokens, password, codes, shared>>

-----------------------------------------------------------------------------
(* Rotation *)

(* Issued before the password was changed; moments of one second count in   *)
(* their order. *)
Outdated(i) == userSessions[i].issued < password

RotateSession(s, i) ==
    /\ Active /\ ~Outdated(i) /\ Live(i)
    /\ Load(s, [op |-> "rotate", of |-> i, issued |-> password])

(* A token that was rotated or revoked ends every session of the user. *)
DetectReuse(s, i) ==
    /\ Active /\ ~Outdated(i) /\ ~Live(i)
    /\ Load(s, [op |-> "revoke_all"])

ExpireSession(i) ==
    /\ Active /\ ~Outdated(i) /\ Live(i)
    /\ userSessions' = [userSessions EXCEPT ![i].revoked = TRUE]
    /\ UNCHANGED <<account, revokedTokens, password, codes, shared, session>>

(* Mutant: the number of a revoked token is not unique. *)
Insertable(i) == TRUE

(* The unique number of a revoked token. *)
Unspent(i) == i \notin revokedTokens

CommitRotation(s) ==
    LET r == session[s]
        old == userSessions[r.of]
    IN  /\ Finish(s, "rotate")
        /\ Unspent(r.of)
        /\ Len(userSessions) < MaxSessions
        /\ revokedTokens' = revokedTokens \cup {r.of}
        /\ \E issued \in Stamps(s) :
               userSessions' = Append([userSessions EXCEPT ![r.of].revoked = TRUE],
                                      Opened(old.login, r.of, issued))
        /\ UNCHANGED <<account, password, codes, shared>>

-----------------------------------------------------------------------------
(* Logging out of every session *)

(* get_current_user, of the access token of session i. *)
Authenticated(i) == Active /\ Live(i) /\ ~Outdated(i)

LogoutAll(s) ==
    /\ \E i \in DOMAIN userSessions : Authenticated(i)
    /\ Load(s, [op |-> "revoke_all"])

(* One UPDATE of the sessions that are committed when it runs. *)
RevokeAllUserSessions(s) ==
    /\ Finish(s, "revoke_all")
    /\ userSessions' = [i \in DOMAIN userSessions |->
                            [userSessions[i] EXCEPT !.revoked = TRUE]]
    /\ UNCHANGED <<account, revokedTokens, password, codes, shared>>

-----------------------------------------------------------------------------
(* Erasure, which leaves the sessions as they are. *)

Erase(s) ==
    /\ \E i \in DOMAIN userSessions : Authenticated(i)
    /\ Load(s, [op |-> "erase"])

CommitErasure(s) ==
    /\ Finish(s, "erase")
    /\ account' = "ERASED"
    /\ UNCHANGED <<userSessions, revokedTokens, password, codes, shared>>

-----------------------------------------------------------------------------
(* Reset of the password *)

(* Mutant: a code starts with one attempt too many. *)
NewCodeTried == [attempts |-> MaxAttempts + 1, used |-> FALSE]

NewCode == [attempts |-> 0, used |-> FALSE]

(* Also for an address that has no account. *)
GenerateOtp ==
    /\ Len(codes) < MaxCodes
    /\ codes' = Append([c \in DOMAIN codes |-> [codes[c] EXCEPT !.used = TRUE]], NewCode)
    /\ UNCHANGED <<account, userSessions, revokedTokens, password, shared, session>>

Newest == Len(codes)

(* A code that has run out of time or of attempts. *)
ExpireCode ==
    /\ codes # << >> /\ ~codes[Newest].used
    /\ codes' = [codes EXCEPT ![Newest].used = TRUE]
    /\ UNCHANGED <<account, userSessions, revokedTokens, password, shared, session>>

(* Mutant: a code that was right can be entered again. *)
SpendsWrong(right, attempts) == ~right /\ attempts >= MaxAttempts

Spends(right, attempts) == right \/ attempts >= MaxAttempts

(* verify_otp_detailed, for /verify-otp and, where it changes the password, *)
(* for /reset-password. *)
VerifyOtp(s, right, resets) ==
    LET attempts == codes[Newest].attempts + 1
    IN  /\ resets => Active
        /\ codes # << >> /\ ~codes[Newest].used
        /\ attempts <= MaxAttempts
        /\ Load(s, [op |-> "verify", code |-> Newest, attempts |-> attempts,
                    spends |-> Spends(right, attempts), changes |-> right /\ resets])

(* A reset that has found a code unused, and right. *)
Paying(t, c) == session[t].op = "verify" /\ session[t].changes /\ session[t].code = c

CommitVerify(s) ==
    LET r == session[s]
    IN  /\ GoOn(s, "verify", IF r.changes THEN [op |-> "change", code |-> r.code] ELSE Idle)
        /\ codes' = [codes EXCEPT ![r.code].attempts = r.attempts,
                                  ![r.code].used = @ \/ r.spends]
        /\ shared' = shared \cup
               {c \in {r.code} : r.changes /\ \E t \in Resetters \ {s} : Paying(t, c)}
        /\ UNCHANGED <<account, userSessions, revokedTokens, password>>

CommitChange(s) ==
    /\ GoOn(s, "change", [op |-> "revoke_all"])
    /\ password < MaxChanges
    /\ password' = password + 1
    /\ UNCHANGED <<account, userSessions, revokedTokens, codes, shared>>

-----------------------------------------------------------------------------
Begin(s) ==
    \/ Register(s) \/ Login(s) \/ LogoutAll(s) \/ Erase(s)
    \/ \E i \in DOMAIN userSessions :
           RotateSession(s, i) \/ DetectReuse(s, i)

Commit(s) ==
    \/ CommitProfile(s) \/ CreateSession(s) \/ CommitRotation(s) \/ CommitErasure(s)

Reset(s) ==
    \/ /\ session[s] = Idle
       /\ \E right \in BOOLEAN, resets \in BOOLEAN : VerifyOtp(s, right, resets)
    \/ CommitVerify(s) \/ CommitChange(s)

Next ==
    \/ \E s \in Devices : (session[s] = Idle /\ Begin(s)) \/ Commit(s)
    \/ \E s \in Resetters : Reset(s)
    \/ \E s \in Sessions : RevokeAllUserSessions(s)
    \/ \E i \in DOMAIN userSessions : ExpireSession(i)
    \/ GenerateOtp \/ ExpireCode
    \/ \E s \in Sessions : RollBack(s) /\ UNCHANGED accountVars

Spec == Init /\ [][Next]_vars

-----------------------------------------------------------------------------
(* Properties *)

(* However rotations of one token, logins, expiries and revocations of all  *)
(* sessions overlap and stop midway, a login has at most one live session:  *)
(* a token has one successor, and a session that has a successor is over. *)
OneLivePerLogin ==
    \A i, j \in DOMAIN userSessions :
        Live(i) /\ Live(j) /\ userSessions[i].login = userSessions[j].login => i = j

(* Every change of the password is of a request that used a code up; a code *)
(* pays for two only where both resets had found it unused, and for each of *)
(* them once, whatever codes are generated, tried or expire meanwhile and   *)
(* wherever a reset stops. *)
UsedCodes == {c \in DOMAIN codes : codes[c].used}

ChangesSpendCodes ==
    \E f \in [1 .. password -> UsedCodes \X Resetters] :
        \A m, n \in 1 .. password : m # n /\ f[m][1] = f[n][1]
            => f[m][1] \in shared /\ f[m][2] # f[n][2]
=============================================================================
