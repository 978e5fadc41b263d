# Verification of the SafyEdu backend

TLA+ models of the services of `src/backend/src`, TLC runs that check them on small instances, and TLAPS
proofs of the theorems that matter most for every value of the constants.

Contents: [the system](#1-the-system) · [the modules and the code](#2-the-modules-and-the-code) ·
[the runs](#3-the-runs) · [what the code does otherwise than it says](#4-what-the-code-does-otherwise-than-it-says) ·
[the proofs](#5-the-proofs) · [what is not modelled](#6-what-is-not-modelled) · [the plan](#7-the-plan) ·
[how to run it](#8-how-to-run-it)

## 1. The system

SafyEdu is the backend of a school platform: one NestJS process over Fastify, PostgreSQL (through Prisma),
MongoDB (GPS telemetry) and Redis (sessions, the live map, publish/subscribe). Every HTTP request, gateway
callback and socket message is handled by an `async` handler. Handlers run on one event loop: **the code
between two awaits is atomic, and everything else interleaves**. Nothing serialises the handlers of one
wallet, one slot or one timetable but the database.

| Component | State it keeps | Operations that change it | Interacts with |
|---|---|---|---|
| `WalletService` | `wallets`, `wallet_transactions` | top-up, gateway callback, dietary edit, canteen tap, first-use creation | payment gateway (external), Redis publish |
| `PtmService` | conference cycles, slots, meetings | create cycle, create slot, book | PostgreSQL row lock and unique `slotId` |
| `SubstitutionService` | `substitutions` | report an absence: one upsert per slot of the teacher | Redis publish |
| `BoardingService` | `boarding_logs` | tap | `AbsenceService` (same table), `FleetService` (reads it), Redis publish |
| `AbsenceService` | skip list in Redis, `boarding_logs` | report an absence | Redis, PostgreSQL, the tracking gateway's broadcast |
| `FleetService` | none | none: the head count is a fold over `boarding_logs` | `BoardingService`, Redis cache of positions |
| `BusTrackingGateway` | sessions of drivers (memory), rooms, `bus:{id}:location` and `bus:{id}:trip` (Redis) | connect, disconnect, update_location, subscribe, unsubscribe | Redis, `BusTelemetryService` |
| `BusTelemetryService` | `bus_telemetry` (MongoDB) | insert a point, which nobody awaits | gateway |
| `GradeService` | `grades` | record a grade; term and year are computed | none |
| `AuthService` and its guards | `refresh_tokens` (a row per token pair), `session:{user}` in Redis (one key per user, whatever the devices) | login, refresh, logout; every guarded request reads the key and `users.status` | Redis, PostgreSQL, the guards of every controller |
| `RolesGuard` | none | none | every controller |
| `TenantService` | schools | create, update, archive | none |

**Which behaviours are hard.** (1) Read-then-write across awaits at READ COMMITTED (wallet, substitutions,
boarding, absences). (2) A check outside the transaction that acts on it (callback, cap, restrictions, slot).
(3) Several writes without a transaction, any of which may fail (substitution loop, Redis then PostgreSQL).
(4) Repetition: a gateway that calls back again, a client that retries after an error, possibly after a
commit whose acknowledgement was lost. (5) An answer that fails after the effect (the publish at the end of a
tap). (6) Writes nobody awaits, and a queue of Redis commands that outlives the handler that issued them.
(7) A table two services write with different meanings (`ABSENT` rows among taps). (8) Rounding and scales
written down more than once. (9) A session key that several devices share and that logins and revocations write in
whatever order they get to it. (10) A pipeline whose errors are returned in a result nobody reads. `PROJECT.json` lists the hazards one by one, at their lines, with the properties
that would catch each.

**What makes each component correct**

- *Wallet*: never overdrawn; the balance is what the ledger says; no movement lost; a top-up credited once; the
  cap and the restrictions hold at the moment of the charge; answers are true.
- *Conferences*: a slot is booked once; the row of the slot and the booking agree; "already booked" is true;
  nobody waits for ever.
- *Substitutions*: nobody is sent to two classrooms in one period; an answered report has left no class
  without a row; "nobody is free" is true.
- *Boarding and absence*: a retried report adds no row; the driver's list knows every absence; the head
  count is the number of children aboard.
- *Live map*: a subscription misses no position; a driver that has left leaves nothing online; a position is
  never overwritten by an older one.
- *Sign-in*: who signed out, or was told that all sessions are revoked, or is suspended, gets no further; nobody is
  thrown out while the token is valid and nobody revoked it; a refused refresh revokes every token issued before.
- *Grades*: a term is a mean of its assessments; the letter stored with a mark is the letter reported; the
  year does not depend on the term it was asked for; a National answer is coherent.

## 2. The modules and the code

| Module | Models | Lines |
|---|---|---|
| `Wallet` | `finance/services/wallet.service.ts` with its controllers and the gateway | 551 |
| `Account` | what a wallet promises (abstract; `Wallet` implements it) | 113 |
| `Ptm` | `academic/services/ptm.service.ts` | 261 |
| `SlotGrants` | what a conference promises (abstract; `Ptm` implements it) | 53 |
| `Substitution` | `academic/services/substitution.service.ts` | 227 |
| `Boarding` | `logistics/services/{boarding,absence,fleet}.service.ts`, composed over the table they share | 308 |
| `Tracking` | `logistics/gateways/bus-tracking.gateway.ts`, `bus-telemetry.service.ts`, its part of Redis | 338 |
| `Sessions` | `auth/auth.service.ts`, `auth.controller.ts`, the access and refresh strategies | 334 |
| `Grades` | `academic/services/grade.service.ts` | 262 |
| `MC*` | the instance of each that TLC checks | |
| `*Proofs` | theorems about `Wallet`, `Ptm`, `Substitution`, `Boarding`, `Tracking`, `Sessions`, `Grades` | |
| `FoldTheorems` | induction on finite sets, recursive functions on their subsets, facts about sums | |

The shape is the same everywhere. A request is an element of a CONSTANT set and what it carries a CONSTANT
function (`PurchaseOf`, `RequestOf`, `TapOf`…). `pc[h]` says at which await handler `h` stands; one action is the
code from one await to the next; `Fail(h)` is an error, a timeout or the end of the process at any await. Requests that
fail validation never reach a handler and are not enumerated. Next to an action stands, where there is one, the
*mutant* of it: an operator with the same parameters that makes a plausible mistake. `PROJECT.json` pairs
each property with a mutant that breaks it; no specification uses them.

### Wallet and Account

`wallet` is the row of `wallets` (`exists` is false before the first use), `row` the ledger by identifier (a tap
is its own row, a top-up's `gatewayRef` is unique), `intents` what the gateway has handed out, `snap[h]` what a
handler read before its transaction, `read[h]` what its transaction read. `posted` is a history variable: the
order in which movements were posted. `day` is the calendar day of the daily cap.

A `$transaction` of Prisma runs at READ COMMITTED. It reads, computes in JavaScript and writes an absolute
value. So it is two steps, `…Read` and `…Commit`; other handlers run in between, no one sees half of it. Money is in
piastres, so `Decimal(12,2)` is exact. The gateway confirms the amount of the intent; that the code credits the
amount of the callback, whatever was asked and without reading `success`, is noted as a hazard without a
property, as the payload is not in the repository.

`MaxInFlight` bounds the handlers that run on one wallet at once. It is a load, not a lock: 1 is a child with one card
and a parent who is patient, 2 is everything else. Properties that hold only at 1 say so.

`Account` says what a wallet promises and nothing about how: a charge is *one* step that tests the rules, the cap of the day
and the balance as they are and takes the money; a credit is given once; only an authorised edit changes rules; an answer is true.
`IsAnAccount` is the refinement. It reads balances and rules off `wallet` (those of a wallet that does not exist yet are the ones it opens
with), the spending off the completed debits of `day`, what is settled off `row`, and answers off `pc`. The six steps of a tap map to
stutters up to the commit, which is the `Charge`; the commit of a callback is the `Credit`, the intent of a top-up the `Ask`. An edit that finds
no wallet sets the cap in one step (`SetLimit`) and all rules in another, and may fail in between.

### Ptm and SlotGrants

`status[s]` and `bookings` are the two tables, `lock[s]` the row lock the conditional `UPDATE` takes and keeps until
its transaction ends. `Update` waits while another request holds the lock and then re-evaluates its `WHERE`. `Insert`
can meet the unique constraint (`P2002`). With the `WHERE` of the `UPDATE` in place that branch cannot be reached (a step
of the proof shows it); without it the constraint alone would still keep a slot from being booked twice. `Commit` may succeed and lose its acknowledgement.

`SlotGrants` says what a conference promises and nothing about how: a slot goes to at most one eligible request and
stays there, "won" and "taken" are true. Its refinement mapping reads the offers off `status`, the holder off
`bookings` and the answer off `pc`.

### Substitution

`subs[x]` is the row of slot `x` on the one date of the model. A report loops over the slots of the absent
teacher (`todo`), and for each over the candidates (`tried`, in any order, as the query has no `orderBy`), asks
whether each is free, upserts, and at the end notifies. There is no transaction. The conditions on a candidate that do
not change (department, subject, role) are the constant set `Candidates(x)`. The statuses ACCEPTED and DECLINED exist
in the schema and are never written.

### Boarding

`logs` is `boarding_logs` in the order of insertion, which is also the order the fleet's unordered
`findMany` is taken to return. `skip` is the driver's skip list per date, which expires 24 hours after the last
report. `day` and `clock` are read once per handler: at a tap's start, and after the pipeline of a report. `ABSENT` rows of `AbsenceService` and
taps of `BoardingService` live in the same table; `HeadCount` is the count of
`FleetService.getActiveFleet`, a fold of `CountedOn` over the rows (`Count`). `heard` says whether Redis takes
the pipeline of a report: `exec()` resolves in either case and the handler goes on (`SkipRefused`). The commands of a
pipeline are all taken or all refused. `before` is a history variable:
the handlers of the same kind and child that had been answered when a handler began, so that `Overlap(g, h)` says that two ran at the same time. Left out: directions,
texts, and the occupancy a GPS unit may report instead of the count. Taps with an explicit status are modelled; the runs use the
automatic toggle.

### Tracking

`session` is the gateway's in-memory map, `joined` the rooms, `queue` the commands the Redis client has sent and
Redis has not executed, `store` the keys. The client sends in order and Redis executes in order; a handler that
awaits its `DEL` or `GET` resumes some time after it is executed. `update_location` has no await: it registers
the socket, starts the insert and up to two `SETEX` and broadcasts, in one step. Since nobody awaits or catches the `SETEX`,
a rejection ends the process: that is `Crash`, which executes some prefix of the queue. One process: the multi-pod adapter of
`main.ts:69` looks for `httpServer.io`, which Fastify's server does not have. Keys expire at any moment, as the
model has no clock. A socket connects once; a reconnection is another socket. `sent` dates the positions.

### Sessions

`row[i]` is the row that issuer `i` (a login, or a refresh that rotates) writes into `refresh_tokens`, `session[u]` the instant at
which the key of user `u` expires (0 when deleted), `exp[i]` when the access token expires, `bearer[c]` and
`presented[c]` the two tokens a call carries. A login is five steps: the user is read, the password verified, the roles read and
the token signed, the row inserted, the key set. A refresh looks for its row, revokes, and rotates or deletes the key.
Logout revokes and deletes. A guarded request verifies its token, reads the key, then the status. `before` is history
again: which calls had been answered when a call began.

Two facts of the code decide what can happen, and both are in the model as the code has them. `HashOf(token, salt)`: argon2 draws a
fresh salt for each hash, so equality of hashes is equality of token and salt. `shared`: the guard of refresh and logout verifies
the access token with the refresh secret, so it lets a call pass only in a deployment whose two secrets are the same; the configuration
does not exclude that, so the runs have both kinds.

Time is in units of which an access token lives `Ttl`. Refresh tokens (seven days) do not expire within the model. Tokens are named by the call
that issued them, and a client presents the pair of one login or an unknown token. A session that is set during a login outlives the token because
the key is set after the token is signed, and `setex` rounds its life up. Left out: the throttler, reactivation of a suspended user, and PENDING
users, whom the guard treats as it treats INACTIVE ones. A socket's `handleConnection` verifies the token and
reads no session; it is not a request in this sense.

### Grades

`marks` and `letter` are the rows, `answer` the last report. Marks and totals are in hundredths, and a percentage is an exact
rational rounded half up to two decimals where the code rounds (`Math.round`), instead of a float. `WeightedSum` and
`TotalWeight` are sums over the assessments that weigh, `SumPercentages` the sum of the fall-back. The scales are translated
three times because the code has three. A report is read in two steps (`Ask`, `Answer`), and a mark may be
recorded in between.

## 3. The runs

| Run | Instance | Distinct states | Shows |
|---|---|---|---|
| `wallet_serial` | one newly enrolled student, 2 taps, 1 top-up, 2 callbacks, 2 edits, a midnight, one handler at a time | 408 774 | the ledger explains the balance; posted once; completed rows are final; cap, restrictions, and who may set the cap; `Account` is implemented |
| `wallet_concurrent` | an open wallet, 3 taps, 1 top-up, 2 callbacks, 1 forged edit, two handlers at a time | 1 302 386 | what survives every interleaving: never overdrawn, balance = last `balanceAfter`, true answers |
| `ptm_booking` | 2 slots, 2 cycles (one closed), 5 requests, one a retry, one not entitled | 84 264 | booked once, true 409, everyone is answered, `SlotGrants` is implemented |
| `subst_serial` | 4 teachers, 5 slots, 3 reports, one a repetition, one at a time | 8 703 | one place, complete answers, first PENDING justified |
| `boarding` | 2 children, 3 taps, an absence reported twice (Redis refuses one), 2 days, two at a time, two failures | 6 452 129 | no row from a retry, skip list, head count |
| `sessions` | 1 user, 2 devices, a refresh, a logout, a request, a suspension, two at a time, one secret and two | 6 562 530 | out means out, nobody is thrown out, a reuse revokes all |
| `tracking` | 2 drivers' sockets, 2 watchers (one refused), 2 identifiers, 2 positions, 1 crash | 3 186 260 | nothing missed, gone is offline, never backwards |
| `grades` | 4 assessments over 2 semesters, 3 tracks, marks on and just below rungs | 15 236 | mean, letters, year, National answer |
| `wallet_double_credit`, `subst_retry`, `boarding_absence`, `sessions_refresh` | | stop at the violation, below 2 000 | the counterexamples of section 4 |

**The bounds and why they are enough.** Wallets, slots, substitution dates and routes do not share state with one
another, so one of each (two where they compete) has every behaviour. Races here are between two handlers and a third
party: two taps and a callback, three bookings, two absences. `MaxInFlight = 2` gives every pairwise overlap of handlers of wallets, buses and
sessions. A session belongs to one user and no step reads another's, so one user is enough; two devices are the fewest
that share its key. `Ttl = 2` and `MaxTime = 2` let a token expire before, between and after the steps of another call.
`MaxFailures = 2` in the bus lets a report and its repetition both fail; the other models do not bound failures. `MaxDay = 1` gives one midnight, which every handler may run across; the code compares days only with "today", so a
second midnight repeats the first. The opening balance
(8), cap (10), prices (4, 6) and top-up (11) are chosen so that one tap fits and two do not, in the
balance or in the cap. Two positions are the fewest that can be cached or broadcast in the wrong order, two identifiers the
fewest that let a driver change bus. Marks are the rung edges (and a hundredth below) because between two edges
nothing changes. Symmetry is used for the two
taps of one card and the two devices, which differ in nothing; model values that differ in role are not symmetric.

**Fairness.** Only `Answered` (Ptm) is a liveness property. It assumes WF on the steps of each request that
has arrived: the event loop resumes every settled promise, and PostgreSQL grants a row lock that is free (or reports an error).
Arrivals and failures are not fair. All other specifications are safety only. Each has a `Quiet`
step for the state in which everything has been done (`Grades` needs none: a mark can always be recorded again), so that
TLC's deadlock check is on in every run.

**Properties with a restricted scope**, and why: `LedgerChain`, `PostedOnce`, `CompletedRowsAreFinal`,
`CapHolds`, `RestrictionsHold`, `CapSetByEdits`, `IsAnAccount` (one handler per wallet at a time: section 4 shows `PostedOnce` fail otherwise
and says how to see it of `LedgerChain` and `IsAnAccount`); `InOnePlace` and `FirstPendingIsTrue` (one report at a time); `FirstPendingIsTrue` (a slot handled
for the first time); `HeadCountIsAboard` (days of automatic taps without a reported absence on which no card is tapped twice at once);
`OneAbsenceRow` (two rows come only from reports that overlap); `SkipListKnows` (absences reported on the day itself, whose pipeline Redis took);
`OutMeansOut` (a login that overlaps the revocation may survive it, as its key is set last); `GoneIsOffline` (drivers of one bus that leave in an
orderly way); `YearAgrees` (both semesters have an assessment that weighs).

## 4. What the code does otherwise than it says

Each is a run whose property quotes a comment or a message of the code and is violated.

- `wallet_double_credit`: two overlapping deliveries of one callback both find the row PENDING and both credit.
  `wallet.service.ts:195` promises "Don't process twice".
- `subst_retry`: an absence reported again finds its substitute busy with the very class it was assigned to, turns
  the covered class to PENDING and answers that nobody is free.
- `boarding_absence`: the row a parent's report writes is taken for the child's last tap, so the tap-out that follows is
  logged BOARDED and the fleet counts the child twice.
- `sessions_refresh`: a client that presents the pair it has just been given is refused. With two secrets the guard rejects the
  only kind of token there is; with one, the fresh salt keeps the row from being found and all sessions are revoked. That it
  *never* succeeds is the theorem `NoRefreshSucceeds`. For the same reason logout (`auth.controller.ts:72`, "Revokes the provided
  refresh token") is refused with two secrets and, with one, deletes the session but revokes no row.

Met while modelling, and seen by changing a bound or reading a property's exception rather than by a run of its own:

- With `MaxInFlight = 2` in `MCWallet_serial.cfg`, `LedgerChain` fails (and, checked alone, `IsAnAccount`): two overlapping taps both read the old balance and the second commit
  erases the first debit. `wallet.service.ts:487` announces a "row lock" that a plain `findUniqueOrThrow` does not take.
- With `MaxInFlight = 2` in `MCSubstitution_serial.cfg`, `InOnePlace` fails: two reports both find one teacher free and both assign it.
- When Redis refuses the pipeline of an absence (`absence.service.ts:118`), the parent is told "Driver navigation updated to skip stop"
  all the same. It is the exception in `SkipListKnows`.
- A login on one device after a logout on another re-admits every access token of the user that has not expired, as the key is the user's and not the
  token's. It is what `OutMeansOut` allows.

What survives the overlaps is proved: see below.

## 5. The proofs

All proofs hold for every value of the constants under the modules' named assumptions (`RequestAssumption`,
`BoundAssumption`, …), which say that requests are typed and finitely many, that the kinds of request have distinct identifiers,
that prices are natural numbers, that opening balances are not negative and that bounds are natural numbers. TLC evaluates them in every run.

| Theorem | Property | Argument |
|---|---|---|
| `WalletProofs!TypeCorrect` | `TypeOK` | one lemma per handler |
| `WalletProofs!NeverOverdrawn` | `NonNegativeBalance` | what a committing tap has read covers its cost (`ReadsCover`), and a commit writes from that value, so even a stale read cannot overdraw |
| `WalletProofs!AnswersTheTruth` | `AnswersAreTrue` | rows match the program counters of the handlers that write them (`RowsMatch`) |
| `WalletProofs!BalanceIsLastPosted` | `LedgerHead` | every step is a commit of one row or keeps the wallet's ledger (`StepKinds`) |
| `WalletProofs!NoMovementLost`, `CreditedOnce`, `RowsAreFinal` | `LedgerChain`, `PostedOnce`, `CompletedRowsAreFinal` | with `MaxInFlight = 1` a handler is alone (`Alone`), so what it has read is still the balance (`Fresh`) |
| `WalletProofs!NothingBlockedIsCharged`, `OnlyEditsSetTheCap` | `RestrictionsHold`, `CapSetByEdits` | with `MaxInFlight = 1`, what a tap tested on its snapshot is still true of the wallet when it commits, and a handler that found no wallet finds none when it creates one (`Tested`) |
| `WalletProofs!SpendingStaysWithinTheCap` | `CapHolds` | with `MaxInFlight = 1`, a tap that passed the cap fits in what is left of it until it commits, and no row is dated after today, so a midnight only empties the day (`Capped`) |
| `WalletProofs!WalletIsAnAccount` | `IsAnAccount` | refinement, with `MaxInFlight = 1`: the invariants above together (`Atomic`) say that everything a tap has tested on its way still holds at its commit, so each step is an operation of `Account` or a stutter (`PurchaseRefines`, `TopUpRefines`, `HookRefines`, `EditRefines`, `EndRefines`) |
| `PtmProofs!TypeCorrect`, `SlotBookedOnce`, `ConflictsAreTrue` | `TypeOK`, `BookedOnce`, `ConflictIsTrue` | `IInv`: a request inside its transaction holds the lock of an AVAILABLE slot (`LockHeld`), every booking belongs to a request that was answered (`BookedByAnswered`), and each place of the handler knows what was checked (`ChecksPassed`) |
| `PtmProofs!KeepsItsPromise` | `KeepsPromise` | refinement: each step is an `Offer`, `Grant`, `Deny`, `Dismiss` or a stutter |
| `SubstitutionProofs!TypeCorrect`, `AnsweredIsHandled` | `TypeOK`, `OkMeansHandled` | the slots already handled by a report have rows, and rows are never removed (`LoopInv`) |
| `SubstitutionProofs!NobodyInTwoPlaces`, `FirstPendingIsJustified` | `InOnePlace`, `FirstPendingIsTrue` | with `MaxInFlight = 1` a pick is still free when it is upserted, and every rejected candidate still busy (`FoundInv`) |
| `BoardingProofs!TypeCorrect` | `TypeOK` | one step per action; `ClockFacts`, `InsertFacts` |
| `BoardingProofs!RetriesAddNoRow` | `OneAbsenceRow` | a report about to create its row has met no row of a report that was over when it began (`Found`), and no report that is not over is in anybody's `before` (`Places`) |
| `BoardingProofs!DriverKnows` | `SkipListKnows` | what a report did to Redis carries the date of the day, so it cannot expire before midnight (`Skipped`); its row, or the one it found, is of the day (`Known`, `Written`) |
| `BoardingProofs!CountsThoseAboard` | `HeadCountIsAboard` | a tap is later than the rows of the taps that were over when it began (`Timed`) and has resolved its status from all rows of its card (`Resolves`), so the row it adds puts its child on the bus or takes it off, and the count is never cut off at 0 when somebody leaves (`Heads`); `CountExists` and `CountAppend` give the fold row by row |
| `SessionsProofs!TypeCorrect` | `TypeOK` | one step per action |
| `SessionsProofs!SignedOutStaysOut` | `OutMeansOut` | a session there is after a revocation was written by a login that was not over when the revocation began (`Revived`), and a request carries that from its read of the key to its answer (`Checked`) |
| `SessionsProofs!NobodyIsThrownOut` | `RefusedForCause` | the key outlives every token handed out unless somebody revoked it (`Lasting`) |
| `SessionsProofs!ReuseRevokesEverything` | `ReusedRevokesAll` | rows written before a refused refresh are not live after its update, and are never made live again (`Wiped`) |
| `SessionsProofs!NoRefreshSucceeds` | | the hash a refresh computes equals no stored one (`NoMatch`), so no refresh is ever rotating (`Places`) |
| `TrackingProofs!TypeCorrect` | `TypeOK` | one step per action |
| `TrackingProofs!NoStepBack` | `NeverBackwards` | positions in flight are in the order in which they were reported and none is older than what is cached (`InOrder`) |
| `TrackingProofs!OfflineWhenGone` | `GoneIsOffline` | for each of a driver's keys, no position of its is cached or in flight, or a DEL comes after the last of them (`Tidy`); a DEL that was answered is no longer in flight |
| `TrackingProofs!NoneMissed` | `NothingMissed` | each position cached or in flight for a parent's route was broadcast to it, or its GET comes after, or its GET has found it (`Heard`) |
| `GradesProofs!TypeCorrect` | `TypeOK` | every percentage reaches a rung (`RungFacts`), no divisor is 0 (`WeightFacts`) |
| `GradesProofs!PercentIsAMean` | `MeanIsBetween` | a weighted sum lies between the least and the greatest share times the total weight (`SumMonotone`, `SumScaled`, `ExtremesExist`), and rounding is monotone (`RoundMonotone`); it holds of every state of the right type |
| `GradesProofs!StoredLettersAgree` | `StoredLetterIsTermLetter` | a row holds the letter of its marks (`Stored`), and rounding changes a rung at its edge only (`RoundedRung`) |
| `GradesProofs!SemestersAgree` | `YearAgrees` | the two computations of a semester coincide once something weighs: it holds of every state, by their definitions |
| `GradesProofs!NationalAnswersAreCoherent` | `NationalIsCoherent` | the rounded mean of two numbers lies between them (`MeanOfTwo`), 50 is both the pass mark and a rung (`PassedIsRated`), only the other tracks skip the second read (`Tracked`) |

Why strengthening is needed: none of these properties but the type invariants is inductive. A balance that is not negative
says nothing of a transaction that has read and not yet written; a slot booked once says nothing of a transaction between
its `UPDATE` and its `INSERT`; a cache that is in order says nothing of the commands that are still to be executed.

**Folds.** The cap, the head count and the grades are computed with folds over sets and sequences, and what those return for every
input needs induction. `FoldTheorems` does it in first-order form. `SubsetInduction`: a family of subsets of a finite set
that contains a set as soon as it contains the set less any of its elements contains them all, as strict inclusion of finite sets is
well-founded. `FoldExists`: a function that is defined by recursion on the subsets exists, since the least relation closed under
the recursion is total and functional; the functions that the folds of the libraries CHOOSE are of this form. From them follow the facts
about sums the proofs use: any element may be added last (`SumFacts`, which is also why every listed cart has a natural cost, `CostType`), monotonicity, scaling, the sum of a constant, a least and a greatest term.

**Only model-checked**: `Answered` of `Ptm` (liveness under fairness, out of the prover's reach with ENABLED), and the counterexamples of
section 4. Every invariant and action property of a passing run is a theorem. Seven of the theorems about
`Wallet` and two about `Substitution` assume `MaxInFlight = 1`; it is the load of the run that checks the property, and the
overlaps that break it are in section 4.

## 6. What is not modelled

- **RolesGuard**: a pure predicate on the request; its verdict is a field of the requests (`allowed`, `authorised`).
- **TenantService**: one-row create, update and archive; nothing else reads `isActive` or `archivedAt`.
- **Bootstrap and configuration**: wiring without behaviour; what it fixes (one process, validation first) is
  said where a model relies on it.
- **Tables without services** (store, tickets, announcements, health, library…): no code touches them yet.
- Within modelled parts: texts, directions, catalogue contents, GPS occupancy, several dates of one absence, unknown
  identifiers (they change nothing), floating point (exact rationals), and clients.

## 7. The plan

Order: first the services that move money, then those that give something scarce to one of many, then those
in which several writers share a table or a cache, then computations. Done: `Wallet`, `Ptm` + `SlotGrants`, `Substitution`,
`Boarding` (composes three services), `Tracking`, `Grades`, `Sessions`, with the runs and a theorem for each safety property of a passing run. What is left:

1. `Tracking` under a reconnecting driver: who owns a key of the live map, and how long a bus can be shown offline while
   a newer socket reports it (an abstract map of buses to their last reporters, and liveness of the snapshot).
2. What `Account` becomes when handlers of one wallet overlap: the weakest abstract account that the code as it is implements.
3. `Sessions` with reactivation of users, and a rotation that works once the code compares hashes by `argon2.verify`: then a refresh token is used once.
4. `TenantService`, if its rows acquire readers.

## 8. How to run it

```
tlc -workers 2 -config MCWallet_serial.cfg MCWallet.tla     # and likewise for each .cfg
tlapm WalletProofs.tla                                       # and PtmProofs, SubstitutionProofs, BoardingProofs, TrackingProofs, SessionsProofs, GradesProofs, FoldTheorems
```

The longest run (`sessions`) takes two minutes on two workers; a run named in section 4 ends with its
counterexample, on purpose.
