------------------------------ MODULE Sessions ------------------------------
(***************************************************************************)
(* Sign-in of src/backend/src/auth: AuthService with the guards in front   *)
(* of it.  A user has one session key in Redis, whatever the number of     *)
(* devices, and one row of refresh_tokens per token pair that was issued.  *)
(*                                                                         *)
(* A step of a call is the code between two awaits.  A token is named by   *)
(* the call that issued it, and so is the salt argon2 draws for a hash.    *)
(* A unit of time is a quarter of an access token's life at most, so that  *)
(* no refresh token (seven days) expires within MaxTime.                   *)
(***************************************************************************)
EXTENDS Naturals, FiniteSets

CONSTANTS
    Users,
    Logins, Refreshes, Logouts,  \* calls of the three endpoints
    Requests,                    \* calls of any endpoint behind JwtAuthGuard
    Suspensions,                 \* an administrator's changes of a user's status
    Secrets,     \* may the two secrets of the configuration be one: \subseteq BOOLEAN
    Ttl,         \* life of an access token and of a session key
    MaxTime,     \* bound on the clock
    MaxInFlight, \* bound on the calls that are handled at a time
    None

Issuers  == Logins \cup Refreshes
Revokers == Logouts \cup Refreshes
Calls    == Issuers \cup Logouts \cup Requests \cup Suspensions

ASSUME KindAssumption ==
    /\ Logins \cap (Refreshes \cup Logouts \cup Requests \cup Suspensions) = {}
    /\ Refreshes \cap (Logouts \cup Requests \cup Suspensions) = {}
    /\ Logouts \cap (Requests \cup Suspensions) = {}
    /\ Requests \cap Suspensions = {}

ASSUME ConfigAssumption ==
    /\ Secrets \subseteq BOOLEAN
    /\ Ttl \in Nat \ {0}
    /\ MaxTime \in Nat
    /\ MaxInFlight \in Nat \ {0}
    /\ None \notin Users \cup Calls

VARIABLES
    shared,     \* the refresh secret of this deployment is its access secret
    clock,
    status,     \* user -> users.status
    session,    \* user -> instant at which session:{user} expires, 0 if deleted
    row,        \* issuer -> its row of refresh_tokens
    exp,        \* issuer -> instant at which its access token expires
    user,       \* call -> the user it is for
    bearer,     \* call -> the access token of its Authorization header
    presented,  \* call -> the refresh token of its body
    pc,         \* call -> where it stands, or how it was answered
    before      \* call -> the calls that were answered when it began (history)

vars == <<shared, clock, status, session, row, exp, user, bearer, presented, pc,
          before>>

\* Everything that neither the beginning nor the end of a call changes.
stored == <<shared, clock, status, session, row, exp>>

\* What a call carries.
carried == <<user, bearer, presented, before>>

Running == {"password", "roles", "store", "cache",
            "find", "rotate", "revoke", "revokeAll", "drop",
            "session", "status"}
Answers == {"ok", "forbidden", "unauthorized", "reused", "noSession", "inactive",
            "granted", "failed"}

Answered(c) == pc[c] \in Answers

Init ==
    /\ shared \in Secrets
    /\ clock = 0
    /\ status = [u \in Users |-> "ACTIVE"]
    /\ session = [u \in Users |-> 0]
    /\ row = [i \in Issuers |-> "none"]
    /\ exp = [i \in Issuers |-> 0]
    /\ user = [c \in Calls |-> None]
    /\ bearer = [c \in Calls |-> None]
    /\ presented = [c \in Calls |-> None]
    /\ pc = [c \in Calls |-> "idle"]
    /\ before = [c \in Calls |-> {}]

Goto(c, place) == pc' = [pc EXCEPT ![c] = place]

\* The calls whose end before the beginning of c the properties ask for.
Earlier(c) == (IF c \in Requests THEN Suspensions ELSE {})
              \cup (IF c \in Logins \cup Requests THEN {} ELSE Issuers)
              \cup Revokers

\* Call c begins, for user u, with access token b and refresh token t.
Begin(c, u, b, t, place) ==
    /\ pc[c] = "idle"
    /\ Cardinality({d \in Calls : pc[d] \in Running}) < MaxInFlight
    /\ Goto(c, place)
    /\ user' = [user EXCEPT ![c] = u]
    /\ bearer' = [bearer EXCEPT ![c] = b]
    /\ presented' = [presented EXCEPT ![c] = t]
    /\ before' = [before EXCEPT ![c] = {d \in Earlier(c) : Answered(d)}]
    /\ UNCHANGED stored

\* Call c goes on from one place to another and changes nothing.
Pass(c, from, to) ==
    /\ pc[c] = from
    /\ Goto(c, to)
    /\ UNCHANGED <<stored, carried>>

\* The token pairs a client may hold.
Held == {i \in Issuers : pc[i] = "ok"}
-----------------------------------------------------------------------------
(* login, after LocalAuthGuard: validateUser *)

ValidateUser(c, u) ==
    Begin(c, u, None, None,
          IF status[u] = "SUSPENDED" THEN "forbidden" ELSE "password")

VerifyPassword(c) == \E to \in {"roles", "unauthorized"} : Pass(c, "password", to)

\* Mutant of SignToken: the life of the token is added twice.
SignTokenTwice(c) ==
    /\ pc[c] = "roles"
    /\ Goto(c, "store")
    /\ exp' = [exp EXCEPT ![c] = clock + Ttl + Ttl]
    /\ UNCHANGED <<shared, clock, status, session, row, carried>>

\* The roles are read, and the access token is signed with the time of now.
SignToken(c) ==
    /\ pc[c] = "roles"
    /\ Goto(c, "store")
    /\ exp' = [exp EXCEPT ![c] = clock + Ttl]
    /\ UNCHANGED <<shared, clock, status, session, row, carried>>

\* issueRefreshToken: the row holds the token's hash.
IssueRefreshToken(c) ==
    /\ pc[c] = "store"
    /\ Goto(c, "cache")
    /\ row' = [row EXCEPT ![c] = "live"]
    /\ UNCHANGED <<shared, clock, status, session, exp, carried>>

\* Mutant of CacheSession: SET NX, so a session in force is not prolonged.
CacheSessionOnce(c) ==
    /\ pc[c] = "cache"
    /\ \E a \in {"ok", "failed"} : Goto(c, a)
    /\ session' = [session EXCEPT ![user[c]] = IF clock < @ THEN @ ELSE clock + Ttl]
    /\ UNCHANGED <<shared, clock, status, row, exp, carried>>

\* lastLoginAt, which nothing reads, is stamped before the SETEX.
CacheSession(c) ==
    /\ pc[c] = "cache"
    /\ \E a \in {"ok", "failed"} : Goto(c, a)
    /\ session' = [session EXCEPT ![user[c]] = clock + Ttl]
    /\ UNCHANGED <<shared, clock, status, row, exp, carried>>
-----------------------------------------------------------------------------
(* refreshTokens and logout, after JwtRefreshGuard *)

Valid(b) == clock < exp[b]

\* The guard verifies the access token with the refresh secret.
Guarded(b, place) == IF shared /\ Valid(b) THEN place ELSE "unauthorized"

BeginRefresh(c, b, t) == Begin(c, user[b], b, t, Guarded(b, "find"))

BeginLogout(c, b, t) == Begin(c, user[b], b, t, Guarded(b, "revoke"))

\* argon2.hash draws a fresh salt whenever it is called.
HashOf(token, salt) == <<token, salt>>

\* The rows of the caller that hold the hash call c computes of its token.
Matching(c) ==
    {i \in Issuers : /\ row[i] # "none"
                     /\ user[i] = user[c]
                     /\ HashOf(i, i) = HashOf(presented[c], c)}

FindToken(c) ==
    Pass(c, "find", IF \E i \in Matching(c) : row[i] = "live"
                    THEN "rotate" ELSE "revokeAll")

\* Mutant of ToRevoke: a reuse revokes the presented token only.
ToRevokeOne(c) == Matching(c)

\* The rows that the update of call c sets revokedAt of.
ToRevoke(c) ==
    IF pc[c] = "revokeAll"
    THEN {i \in Issuers : row[i] = "live" /\ user[i] = user[c]}
    ELSE Matching(c)

\* A rotation goes on as a login.
RevokeRows(c) ==
    /\ pc[c] \in {"rotate", "revoke", "revokeAll"}
    /\ Goto(c, IF pc[c] = "rotate" THEN "roles" ELSE "drop")
    /\ row' = [i \in Issuers |-> IF i \in ToRevoke(c) THEN "revoked" ELSE row[i]]
    /\ UNCHANGED <<shared, clock, status, session, exp, carried>>

\* Mutant of DropSession: the row is revoked and the session left to expire.
DropNothing(c) ==
    /\ pc[c] = "drop"
    /\ \E a \in {IF c \in Logouts THEN "ok" ELSE "reused", "failed"} : Goto(c, a)
    /\ UNCHANGED <<stored, carried>>

DropSession(c) ==
    /\ pc[c] = "drop"
    /\ \E a \in {IF c \in Logouts THEN "ok" ELSE "reused", "failed"} : Goto(c, a)
    /\ session' = [session EXCEPT ![user[c]] = 0]
    /\ UNCHANGED <<shared, clock, status, row, exp, carried>>
-----------------------------------------------------------------------------
(* A request behind JwtAuthGuard: JwtAccessStrategy *)

VerifyToken(c, b) ==
    Begin(c, user[b], b, None, IF Valid(b) THEN "session" ELSE "unauthorized")

ReadSession(c) ==
    Pass(c, "session", IF clock < session[user[c]] THEN "status" ELSE "noSession")

ReadStatus(c) ==
    Pass(c, "status", IF status[user[c]] = "ACTIVE" THEN "granted" ELSE "inactive")
-----------------------------------------------------------------------------
(* The surroundings *)

\* A command fails and has no effect, or an effect nothing tells from none.
Fail(c) == \E from \in Running : Pass(c, from, "failed")

\* An administrator takes a user's ACTIVE status away, outside this program.
Suspend(c, u, s) ==
    /\ pc[c] = "idle"
    /\ Goto(c, "ok")
    /\ status' = [status EXCEPT ![u] = s]
    /\ user' = [user EXCEPT ![c] = u]
    /\ UNCHANGED <<shared, clock, session, row, exp, bearer, presented, before>>

Tick ==
    /\ clock < MaxTime
    /\ clock' = clock + 1
    /\ UNCHANGED <<shared, status, session, row, exp, carried, pc>>

\* Every call was answered, and the time of the model is over.
Quiet ==
    /\ \A c \in Calls : pc[c] = "idle" \/ Answered(c)
    /\ clock = MaxTime
    /\ UNCHANGED vars

LoginStep(c) ==
    \/ \E u \in Users : ValidateUser(c, u)
    \/ VerifyPassword(c)

IssueStep(c) ==
    \/ SignToken(c)
    \/ IssueRefreshToken(c)
    \/ CacheSession(c)

RevokeStep(c) ==
    \/ FindToken(c)
    \/ RevokeRows(c)
    \/ DropSession(c)

RequestStep(c) ==
    \/ \E b \in Held : VerifyToken(c, b)
    \/ ReadSession(c)
    \/ ReadStatus(c)

Next ==
    \/ \E c \in Logins : LoginStep(c)
    \/ \E c \in Issuers : IssueStep(c)
    \/ \E c \in Refreshes, b \in Held : \E t \in {b, None} : BeginRefresh(c, b, t)
    \/ \E c \in Logouts, b \in Held : \E t \in {b, None} : BeginLogout(c, b, t)
    \/ \E c \in Revokers : RevokeStep(c)
    \/ \E c \in Requests : RequestStep(c)
    \/ \E c \in Issuers \cup Logouts : Fail(c)
    \/ \E c \in Suspensions, u \in Users, s \in {"INACTIVE", "SUSPENDED"} :
           Suspend(c, u, s)
    \/ Tick
    \/ Quiet

Spec == Init /\ [][Next]_vars
-----------------------------------------------------------------------------
(* Properties *)

TypeOK ==
    /\ shared \in BOOLEAN
    /\ clock \in 0..MaxTime
    /\ status \in [Users -> {"ACTIVE", "INACTIVE", "SUSPENDED"}]
    /\ session \in [Users -> 0..(MaxTime + Ttl)]
    /\ row \in [Issuers -> {"none", "live", "revoked"}]
    /\ exp \in [Issuers -> 0..(MaxTime + Ttl)]
    /\ user \in [Calls -> Users \cup {None}]
    /\ bearer \in [Calls -> Issuers \cup {None}]
    /\ presented \in [Calls -> Issuers \cup {None}]
    /\ pc \in [Calls -> {"idle"} \cup Running \cup Answers]
    /\ before \in [Calls -> SUBSET Calls]

SameUser(c, d) == user[c] = user[d]

\* A logout or a refused refresh that told its caller that the session is gone.
Revoked(v) ==
    \/ v \in Logouts /\ pc[v] = "ok"
    \/ v \in Refreshes /\ pc[v] = "reused"

\* Revocation is instant: a request that begins after a logout, or after a
\* refresh that was told "All sessions revoked", is granted only if somebody has
\* signed in as that user since, or was signing in meanwhile.  After a
\* suspension it is not granted at all, whatever sessions are created.
OutMeansOut ==
    \A r \in Requests : pc[r] = "granted" =>
        \A v \in before[r] : SameUser(v, r) =>
            /\ v \notin Suspensions
            /\ Revoked(v) => \E i \in Issuers : /\ SameUser(i, r)
                                                /\ i \notin before[v]
                                                /\ row[i] # "none"

\* Nobody is signed out without a cause: a request whose access token is still
\* valid meets no missing session, unless a logout or a refresh of its user
\* passed the guard and was not over when the token's login began.
RefusedForCause ==
    \A r \in Requests : pc[r] = "noSession" /\ Valid(bearer[r]) =>
        \E v \in Revokers : /\ SameUser(v, r)
                            /\ v \notin before[bearer[r]]
                            /\ pc[v] \notin {"idle", "unauthorized"}

\* "All sessions revoked" is true of the refresh tokens: every one whose login
\* was over when the refused refresh began is revoked, and stays so.
ReusedRevokesAll ==
    \A v \in Refreshes : pc[v] = "reused" =>
        \A i \in Issuers : i \in before[v] /\ SameUser(i, v) => row[i] # "live"

\* What auth.controller.ts says of a refresh, "Rotates the refresh token and
\* issues a new token pair": a client that presents the pair of its login while
\* the access token is valid, and nobody else ends the session, is not refused.
RefreshRotates ==
    \A c \in Refreshes :
        /\ pc[c] \in {"unauthorized", "reused"}
        /\ presented[c] = bearer[c]
        /\ Valid(bearer[c])
        => \E v \in Revokers \ {c} : pc[v] # "idle"
=============================================================================
