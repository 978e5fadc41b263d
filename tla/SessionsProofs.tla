--------------------------- MODULE SessionsProofs ---------------------------
(***************************************************************************)
(* Proofs about Sessions.  The inductive invariant Sound ties the places   *)
(* of the calls to the rows, the sessions and the order in which the calls *)
(* were answered; each property is one of its parts, or follows from one.  *)
(***************************************************************************)
EXTENDS Sessions, TLAPS

\* Where a call may stand, by its kind.  No refresh is ever rotating: the row
\* it looks for would have to hold a hash salted by the refresh itself.
Places ==
    /\ \A c \in Logins :
           pc[c] \in {"idle", "password", "roles", "store", "cache", "ok",
                     "forbidden", "unauthorized", "failed"}
    /\ \A c \in Refreshes :
           /\ pc[c] \in {"idle", "find", "revokeAll", "drop", "reused",
                        "unauthorized", "failed"}
           /\ row[c] = "none"
    /\ \A c \in Logouts :
           pc[c] \in {"idle", "revoke", "drop", "ok", "unauthorized", "failed"}
    /\ \A c \in Requests :
           pc[c] \in {"idle", "session", "status", "granted", "noSession",
                     "inactive", "unauthorized"}
    /\ \A c \in Suspensions : pc[c] \in {"idle", "ok"}

\* Whom a call that has begun is for, and what was over when it began.
Carried ==
    /\ \A c \in Calls : pc[c] # "idle" => user[c] \in Users
    /\ \A c \in Calls : \A d \in before[c] : Answered(d)
    /\ \A r \in Requests : pc[r] # "idle" =>
           bearer[r] \in Issuers /\ pc[bearer[r]] = "ok" /\ SameUser(bearer[r], r)

\* What an issuer has done so far.
Issued ==
    \A i \in Issuers :
        /\ pc[i] \in {"idle", "password", "roles", "store"} => row[i] = "none"
        /\ pc[i] \in {"cache", "ok"} => row[i] # "none"
        /\ exp[i] <= clock + Ttl

\* A session there is after a revocation was written by a login that was not
\* over when the revocation began.
Since(v) == \E i \in Issuers : /\ SameUser(i, v)
                               /\ i \notin before[v]
                               /\ row[i] # "none"

Revived ==
    \A v \in Revokers : Revoked(v) /\ session[user[v]] # 0 => Since(v)

\* A session lasts as long as every token of the user that was handed out, or
\* somebody has revoked it.
Cause(i) == \E v \in Revokers : /\ SameUser(v, i)
                                /\ v \notin before[i]
                                /\ pc[v] \notin {"idle", "unauthorized"}

Lasting ==
    \A i \in Issuers : pc[i] = "ok" => exp[i] <= session[user[i]] \/ Cause(i)

\* What the two reads of a request have established.
Checked ==
    \A r \in Requests :
        /\ pc[r] \in {"status", "granted"} =>
              \A v \in before[r] : SameUser(v, r) /\ Revoked(v) => Since(v)
        /\ pc[r] = "granted" =>
              \A v \in before[r] : SameUser(v, r) => v \notin Suspensions
        /\ pc[r] = "noSession" /\ Valid(bearer[r]) => Cause(bearer[r])

\* A suspended user stays suspended.
Gone == \A v \in Suspensions : pc[v] = "ok" => status[user[v]] # "ACTIVE"

\* A refused refresh has revoked what was issued before it.
Wiped ==
    \A v \in Refreshes : pc[v] \in {"drop", "reused"} =>
        \A i \in Issuers : i \in before[v] /\ SameUser(i, v) => row[i] # "live"

Sound == /\ TypeOK
         /\ Places /\ Carried /\ Issued
         /\ Revived /\ Lasting /\ Checked /\ Gone /\ Wiped
-----------------------------------------------------------------------------
\* Nothing matches: the hashes of rows were salted by the logins that wrote them.
LEMMA NoMatch == ASSUME Places, NEW c \in Revokers PROVE Matching(c) = {}
BY KindAssumption DEF Places, Matching, HashOf, Issuers, Revokers

LEMMA Step == Sound /\ [Next]_vars => Sound'
<1> SUFFICES ASSUME Sound, [Next]_vars PROVE Sound'
  OBVIOUS
<1> USE KindAssumption, ConfigAssumption
    DEF Goto, Answered, Answers, Running, SameUser, Revoked, Issuers, Revokers, Calls
<1>1. ASSUME NEW c \in Logins, NEW u \in Users, ValidateUser(c, u)
      PROVE  Sound'
  <2>1. TypeOK' /\ Places' /\ Carried' /\ Issued'
    BY <1>1 DEF Sound, TypeOK, Places, Carried, Issued, ValidateUser, Begin,
       stored, Earlier
  <2>2. Revived' /\ Lasting'
    BY <1>1 DEF Sound, TypeOK, Places, Carried, Issued, Revived, Since,
       Lasting, Cause, ValidateUser, Begin, stored, Earlier
  <2>3. Checked'
    BY <1>1 DEF Sound, TypeOK, Places, Carried, Issued, Checked, Since, Cause,
       Valid, ValidateUser, Begin, stored, Earlier
  <2>4. Gone' /\ Wiped'
    BY <1>1 DEF Sound, TypeOK, Places, Carried, Issued, Gone, Wiped,
       ValidateUser, Begin, stored, Earlier
  <2> QED BY <2>1, <2>2, <2>3, <2>4 DEF Sound
<1>2. ASSUME NEW c \in Logins, VerifyPassword(c)
      PROVE  Sound'
  <2>1. TypeOK' /\ Places' /\ Carried' /\ Issued'
    BY <1>2 DEF Sound, TypeOK, Places, Carried, Issued, VerifyPassword, Pass,
       stored, carried
  <2>2. Revived' /\ Lasting'
    BY <1>2 DEF Sound, TypeOK, Places, Carried, Issued, Revived, Since,
       Lasting, Cause, VerifyPassword, Pass, stored, carried
  <2>3. Checked'
    BY <1>2 DEF Sound, TypeOK, Places, Carried, Issued, Checked, Since, Cause,
       Valid, VerifyPassword, Pass, stored, carried
  <2>4. Gone' /\ Wiped'
    BY <1>2 DEF Sound, TypeOK, Places, Carried, Issued, Gone, Wiped,
       VerifyPassword, Pass, stored, carried
  <2> QED BY <2>1, <2>2, <2>3, <2>4 DEF Sound
<1>3. ASSUME NEW c \in Issuers, SignToken(c)
      PROVE  Sound'
  <2>1. TypeOK' /\ Places' /\ Carried' /\ Issued'
    BY <1>3 DEF Sound, TypeOK, Places, Carried, Issued, SignToken, carried
  <2>2. Revived' /\ Lasting'
    BY <1>3 DEF Sound, TypeOK, Places, Carried, Issued, Revived, Since,
       Lasting, Cause, SignToken, carried
  <2>3. Checked'
    BY <1>3 DEF Sound, TypeOK, Places, Carried, Issued, Checked, Since, Cause,
       Valid, SignToken, carried
  <2>4. Gone' /\ Wiped'
    BY <1>3 DEF Sound, TypeOK, Places, Carried, Issued, Gone, Wiped,
       SignToken, carried
  <2> QED BY <2>1, <2>2, <2>3, <2>4 DEF Sound
<1>4. ASSUME NEW c \in Issuers, IssueRefreshToken(c)
      PROVE  Sound'
  <2>1. TypeOK' /\ Places' /\ Carried' /\ Issued'
    BY <1>4 DEF Sound, TypeOK, Places, Carried, Issued, IssueRefreshToken,
       carried
  <2>2. Revived' /\ Lasting'
    BY <1>4 DEF Sound, TypeOK, Places, Carried, Issued, Revived, Since,
       Lasting, Cause, IssueRefreshToken, carried
  <2>3. Checked'
    BY <1>4 DEF Sound, TypeOK, Places, Carried, Issued, Checked, Since, Cause,
       Valid, IssueRefreshToken, carried
  <2>4. Gone' /\ Wiped'
    BY <1>4 DEF Sound, TypeOK, Places, Carried, Issued, Gone, Wiped,
       IssueRefreshToken, carried
  <2> QED BY <2>1, <2>2, <2>3, <2>4 DEF Sound
<1>5. ASSUME NEW c \in Issuers, CacheSession(c)
      PROVE  Sound'
  <2>1. TypeOK' /\ Places' /\ Carried' /\ Issued'
    BY <1>5 DEF Sound, TypeOK, Places, Carried, Issued, CacheSession, carried
  <2>2. Revived'
    BY <1>5 DEF Sound, TypeOK, Places, Carried, Issued, Revived, Since,
       CacheSession, carried
  <2>3. Lasting'
    BY <1>5 DEF Sound, TypeOK, Places, Carried, Issued, Lasting, Cause,
       CacheSession, carried
  <2>4. Checked'
    BY <1>5 DEF Sound, TypeOK, Places, Carried, Issued, Checked, Since, Cause,
       Valid, CacheSession, carried
  <2>5. Gone' /\ Wiped'
    BY <1>5 DEF Sound, TypeOK, Places, Carried, Issued, Gone, Wiped,
       CacheSession, carried
  <2> QED BY <2>1, <2>2, <2>3, <2>4, <2>5 DEF Sound
<1>6. ASSUME NEW c \in Refreshes, NEW b \in Held, NEW t \in {b, None},
             BeginRefresh(c, b, t)
      PROVE  Sound'
  <2>1. TypeOK' /\ Places' /\ Carried' /\ Issued'
    BY <1>6 DEF Sound, Carried, TypeOK, Places, Issued, BeginRefresh, Guarded,
       Held, Begin, stored, Earlier
  <2>2. Revived' /\ Lasting'
    BY <1>6 DEF Sound, TypeOK, Places, Carried, Issued, Revived, Since,
       Lasting, Cause, BeginRefresh, Guarded, Held, Begin, stored, Earlier
  <2>3. Checked'
    BY <1>6 DEF Sound, TypeOK, Places, Carried, Issued, Checked, Since, Cause,
       Valid, BeginRefresh, Guarded, Held, Begin, stored, Earlier
  <2>4. Gone' /\ Wiped'
    BY <1>6 DEF Sound, TypeOK, Places, Carried, Issued, Gone, Wiped,
       BeginRefresh, Guarded, Held, Begin, stored, Earlier
  <2> QED BY <2>1, <2>2, <2>3, <2>4 DEF Sound
<1>7. ASSUME NEW c \in Logouts, NEW b \in Held, NEW t \in {b, None},
             BeginLogout(c, b, t)
      PROVE  Sound'
  <2>1. TypeOK' /\ Places' /\ Carried' /\ Issued'
    BY <1>7 DEF Sound, Carried, TypeOK, Places, Issued, BeginLogout, Guarded,
       Held, Begin, stored, Earlier
  <2>2. Revived' /\ Lasting'
    BY <1>7 DEF Sound, TypeOK, Places, Carried, Issued, Revived, Since,
       Lasting, Cause, BeginLogout, Guarded, Held, Begin, stored, Earlier
  <2>3. Checked'
    BY <1>7 DEF Sound, TypeOK, Places, Carried, Issued, Checked, Since, Cause,
       Valid, BeginLogout, Guarded, Held, Begin, stored, Earlier
  <2>4. Gone' /\ Wiped'
    BY <1>7 DEF Sound, TypeOK, Places, Carried, Issued, Gone, Wiped,
       BeginLogout, Guarded, Held, Begin, stored, Earlier
  <2> QED BY <2>1, <2>2, <2>3, <2>4 DEF Sound
<1>8. ASSUME NEW c \in Revokers, FindToken(c)
      PROVE  Sound'
  <2>1. TypeOK' /\ Places' /\ Carried' /\ Issued'
    BY <1>8, NoMatch DEF Sound, TypeOK, Places, Carried, Issued, FindToken,
       Pass, stored, carried
  <2>2. Revived' /\ Lasting'
    BY <1>8, NoMatch DEF Sound, TypeOK, Places, Carried, Issued, Revived,
       Since, Lasting, Cause, FindToken, Pass, stored, carried
  <2>3. Checked'
    BY <1>8, NoMatch DEF Sound, TypeOK, Places, Carried, Issued, Checked,
       Since, Cause, Valid, FindToken, Pass, stored, carried
  <2>4. Gone' /\ Wiped'
    BY <1>8, NoMatch DEF Sound, TypeOK, Places, Carried, Issued, Gone, Wiped,
       FindToken, Pass, stored, carried
  <2> QED BY <2>1, <2>2, <2>3, <2>4 DEF Sound
<1>9. ASSUME NEW c \in Revokers, RevokeRows(c)
      PROVE  Sound'
  <2>1. TypeOK' /\ Places' /\ Carried' /\ Issued'
    BY <1>9, NoMatch DEF Sound, TypeOK, Places, Carried, Issued, RevokeRows,
       ToRevoke, carried
  <2>2. Revived' /\ Lasting'
    BY <1>9, NoMatch DEF Sound, TypeOK, Places, Carried, Issued, Revived,
       Since, Lasting, Cause, RevokeRows, ToRevoke, carried
  <2>3. Checked'
    BY <1>9, NoMatch DEF Sound, TypeOK, Places, Carried, Issued, Checked,
       Since, Cause, Valid, RevokeRows, ToRevoke, carried
  <2>4. Gone'
    BY <1>9, NoMatch DEF Sound, TypeOK, Places, Carried, Gone, RevokeRows,
       ToRevoke, carried
  <2>5. Wiped'
    BY <1>9, NoMatch DEF Sound, TypeOK, Places, Carried, Issued, Wiped,
       RevokeRows, ToRevoke, carried
  <2> QED BY <2>1, <2>2, <2>3, <2>4, <2>5 DEF Sound
<1>10. ASSUME NEW c \in Revokers, DropSession(c)
      PROVE  Sound'
  <2>1. TypeOK' /\ Places' /\ Carried' /\ Issued'
    BY <1>10 DEF Sound, TypeOK, Places, Carried, Issued, DropSession, carried
  <2>2. Revived'
    BY <1>10 DEF Sound, TypeOK, Places, Carried, Issued, Revived, Since,
       DropSession, carried
  <2>3. Lasting'
    BY <1>10 DEF Sound, TypeOK, Places, Carried, Issued, Lasting, Cause,
       DropSession, carried
  <2>4. Checked'
    BY <1>10 DEF Sound, TypeOK, Places, Carried, Issued, Checked, Since,
       Cause, Valid, DropSession, carried
  <2>5. Gone' /\ Wiped'
    BY <1>10 DEF Sound, TypeOK, Places, Carried, Issued, Gone, Wiped,
       DropSession, carried
  <2> QED BY <2>1, <2>2, <2>3, <2>4, <2>5 DEF Sound
<1>11. ASSUME NEW c \in Requests, NEW b \in Held, VerifyToken(c, b)
      PROVE  Sound'
  <2>1. TypeOK' /\ Places' /\ Carried' /\ Issued'
    BY <1>11 DEF Sound, Carried, TypeOK, Places, Issued, VerifyToken, Held,
       Begin, stored, Earlier
  <2>2. Revived' /\ Lasting'
    BY <1>11 DEF Sound, TypeOK, Places, Carried, Issued, Revived, Since,
       Lasting, Cause, VerifyToken, Held, Begin, stored, Earlier
  <2>3. Checked'
    BY <1>11 DEF Sound, TypeOK, Places, Carried, Issued, Checked, Since,
       Cause, Valid, VerifyToken, Held, Begin, stored, Earlier
  <2>4. Gone' /\ Wiped'
    BY <1>11 DEF Sound, TypeOK, Places, Carried, Issued, Gone, Wiped,
       VerifyToken, Held, Begin, stored, Earlier
  <2> QED BY <2>1, <2>2, <2>3, <2>4 DEF Sound
<1>12. ASSUME NEW c \in Requests, ReadSession(c)
      PROVE  Sound'
  <2>1. TypeOK' /\ Places' /\ Carried' /\ Issued'
    BY <1>12 DEF Sound, TypeOK, Places, Carried, Issued, ReadSession, Pass,
       stored, carried
  <2>2. Revived' /\ Lasting'
    BY <1>12 DEF Sound, TypeOK, Places, Carried, Issued, Revived, Since,
       Lasting, Cause, ReadSession, Pass, stored, carried
  <2>3. Checked'
    BY <1>12 DEF Sound, TypeOK, Places, Carried, Issued, Revived, Since,
       Lasting, Cause, Checked, Valid, ReadSession, Pass, stored, carried
  <2>4. Gone' /\ Wiped'
    BY <1>12 DEF Sound, TypeOK, Places, Carried, Issued, Gone, Wiped,
       ReadSession, Pass, stored, carried
  <2> QED BY <2>1, <2>2, <2>3, <2>4 DEF Sound
<1>13. ASSUME NEW c \in Requests, ReadStatus(c)
      PROVE  Sound'
  <2>1. TypeOK' /\ Places' /\ Carried' /\ Issued'
    BY <1>13 DEF Sound, TypeOK, Places, Carried, Issued, ReadStatus, Pass,
       stored, carried
  <2>2. Revived' /\ Lasting'
    BY <1>13 DEF Sound, TypeOK, Places, Carried, Issued, Revived, Since,
       Lasting, Cause, ReadStatus, Pass, stored, carried
  <2>3. Checked'
    BY <1>13 DEF Sound, TypeOK, Places, Carried, Issued, Gone, Checked, Since,
       Cause, Valid, ReadStatus, Pass, stored, carried
  <2>4. Gone' /\ Wiped'
    BY <1>13 DEF Sound, TypeOK, Places, Carried, Issued, Gone, Wiped,
       ReadStatus, Pass, stored, carried
  <2> QED BY <2>1, <2>2, <2>3, <2>4 DEF Sound
<1>14. ASSUME NEW c \in Issuers \cup Logouts, Fail(c)
      PROVE  Sound'
  <2>1. TypeOK' /\ Places' /\ Carried' /\ Issued'
    BY <1>14 DEF Sound, TypeOK, Places, Carried, Issued, Fail, Pass, stored,
       carried
  <2>2. Revived' /\ Lasting'
    BY <1>14 DEF Sound, TypeOK, Places, Carried, Issued, Revived, Since,
       Lasting, Cause, Fail, Pass, stored, carried
  <2>3. Checked'
    BY <1>14 DEF Sound, TypeOK, Places, Carried, Issued, Checked, Since,
       Cause, Valid, Fail, Pass, stored, carried
  <2>4. Gone' /\ Wiped'
    BY <1>14 DEF Sound, TypeOK, Places, Carried, Issued, Gone, Wiped, Fail,
       Pass, stored, carried
  <2> QED BY <2>1, <2>2, <2>3, <2>4 DEF Sound
<1>15. ASSUME NEW c \in Suspensions, NEW u \in Users,
             NEW s \in {"INACTIVE", "SUSPENDED"}, Suspend(c, u, s)
      PROVE  Sound'
  <2>1. TypeOK' /\ Places' /\ Carried' /\ Issued'
    BY <1>15 DEF Sound, TypeOK, Places, Carried, Issued, Suspend
  <2>2. Revived' /\ Lasting'
    BY <1>15 DEF Sound, TypeOK, Places, Carried, Issued, Revived, Since,
       Lasting, Cause, Suspend
  <2>3. Checked'
    BY <1>15 DEF Sound, TypeOK, Places, Carried, Issued, Checked, Since,
       Cause, Valid, Suspend
  <2>4. Gone'
    BY <1>15 DEF Sound, TypeOK, Places, Carried, Gone, Suspend
  <2>5. Wiped'
    BY <1>15 DEF Sound, TypeOK, Places, Carried, Issued, Wiped, Suspend
  <2> QED BY <2>1, <2>2, <2>3, <2>4, <2>5 DEF Sound
<1>16. ASSUME Tick
      PROVE  Sound'
  BY <1>16 DEF Sound, TypeOK, Places, Carried, Issued, Revived, Since,
     Lasting, Cause, Checked, Valid, Gone, Wiped, Tick, carried
<1>17. CASE UNCHANGED vars
  BY <1>17 DEF Sound, TypeOK, Places, Carried, Issued, Revived, Since,
     Lasting, Cause, Checked, Valid, Gone, Wiped, vars
<1> QED
  BY <1>1, <1>2, <1>3, <1>4, <1>5, <1>6, <1>7, <1>8, <1>9, <1>10, <1>11, <1>12, <1>13, <1>14, <1>15, <1>16, <1>17
  DEF Next, LoginStep, IssueStep, RevokeStep, RequestStep, Quiet

LEMMA Start == Init => Sound
BY KindAssumption, ConfigAssumption
DEF Init, Sound, TypeOK, Places, Carried, Issued, Revived, Revoked, Lasting, Checked,
    Gone, Wiped, Issuers, Revokers, Calls

THEOREM AlwaysSound == Spec => []Sound
BY Start, Step, PTL DEF Spec

\* Types are kept.
THEOREM TypeCorrect == Spec => []TypeOK
<1>1. Sound => TypeOK
  BY DEF Sound
<1> QED BY <1>1, AlwaysSound, PTL

\* A request that begins after a revocation of its user was answered is refused
\* unless a login that was not over then has stored its token; after a
\* suspension it is refused in any case.
THEOREM SignedOutStaysOut == Spec => []OutMeansOut
<1>1. Sound => OutMeansOut
  <2> SUFFICES ASSUME Sound, NEW r \in Requests, pc[r] = "granted",
                      NEW v \in before[r], SameUser(v, r)
               PROVE  /\ v \notin Suspensions
                      /\ Revoked(v) => \E i \in Issuers :
                             SameUser(i, r) /\ i \notin before[v] /\ row[i] # "none"
    BY DEF OutMeansOut
  <2>1. v \notin Suspensions /\ (Revoked(v) => Since(v))
    BY DEF Sound, Checked
  <2> QED BY <2>1 DEF Since, SameUser
<1> QED BY <1>1, AlwaysSound, PTL

\* A request with a token that is still valid finds its session, unless somebody
\* has revoked it.
THEOREM NobodyIsThrownOut == Spec => []RefusedForCause
<1>1. Sound => RefusedForCause
  <2> SUFFICES ASSUME Sound, NEW r \in Requests, pc[r] = "noSession", Valid(bearer[r])
               PROVE  \E v \in Revokers : /\ SameUser(v, r)
                                          /\ v \notin before[bearer[r]]
                                          /\ pc[v] \notin {"idle", "unauthorized"}
    BY DEF RefusedForCause
  <2>1. Cause(bearer[r])
    BY DEF Sound, Checked
  <2>2. SameUser(bearer[r], r)
    BY DEF Sound, Carried, Calls
  <2> QED BY <2>1, <2>2 DEF Cause, SameUser
<1> QED BY <1>1, AlwaysSound, PTL

\* Every refresh token that was out when a refused refresh began is revoked.
THEOREM ReuseRevokesEverything == Spec => []ReusedRevokesAll
<1>1. Sound => ReusedRevokesAll
  BY DEF Sound, Wiped, ReusedRevokesAll
<1> QED BY <1>1, AlwaysSound, PTL

\* No deployment ever answers a refresh with a pair of tokens: RefreshRotates
\* fails whatever the secrets, the calls and their order.
THEOREM NoRefreshSucceeds ==
    Spec => [](\A c \in Refreshes : pc[c] \notin {"rotate", "ok"} /\ row[c] = "none")
<1>1. Sound => \A c \in Refreshes : pc[c] \notin {"rotate", "ok"} /\ row[c] = "none"
  BY DEF Sound, Places
<1> QED BY <1>1, AlwaysSound, PTL
=============================================================================
