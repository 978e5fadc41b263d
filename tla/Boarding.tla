------------------------------ MODULE Boarding ------------------------------
(***************************************************************************)
(* One school bus: the NFC taps of BoardingService, the absences of        *)
(* AbsenceService and the head count of FleetService, which meet in the    *)
(* table boarding_logs (src/backend/src/logistics/services).               *)
(*                                                                         *)
(* A step is the code between two awaits; nothing here is a transaction.   *)
(* A child has one bus, so rows of other routes are left out.  The logs    *)
(* are kept in the order of insertion, which is the order in which the     *)
(* head count receives them: its query asks for no order and the table is  *)
(* only ever appended to.                                                  *)
(***************************************************************************)
EXTENDS Naturals, Sequences, FiniteSets, SequencesExt

CONSTANTS
    Students,
    Taps,         \* NFC taps
    TapOf,        \* tap -> [student, status, allowed]
    Absences,     \* absence reports
    AbsenceOf,    \* report -> [student, date, allowed, heard]
    MaxInFlight,  \* bound: handlers in flight
    MaxFailures,  \* bound: handlers that fail
    MaxDay        \* bound: last calendar day of the model

Statuses == {"BOARDED", "ALIGHTED", "ABSENT", "PARENT_PICKUP"}
AutoDetect == "AUTO"   \* the tap does not say its status

Handlers == Taps \cup Absences
Days     == 0..MaxDay

\* `allowed' is the verdict on rows that do not change here: for a tap a known
\* card, an active student and its own bus, for a report a parent of the
\* student or an administrator, and a bus route.  `heard' is whether Redis takes
\* the pipeline of a report.
ASSUME RequestAssumption ==
    /\ TapOf \in [Taps -> [student: Students, status: Statuses \cup {AutoDetect},
                           allowed: BOOLEAN]]
    /\ AbsenceOf \in [Absences -> [student: Students, date: Days,
                                   allowed: BOOLEAN, heard: BOOLEAN]]
    /\ Taps \cap Absences = {}

ASSUME BoundAssumption ==
    /\ MaxInFlight \in Nat /\ MaxFailures \in Nat /\ MaxDay \in Nat
    /\ IsFiniteSet(Handlers)

VARIABLES
    logs,    \* rows of boarding_logs in the order of insertion
    skip,    \* date -> the Redis set of absent students, {} once it expired
    setOn,   \* date -> the day its 24-hour expiry was last set
    day,     \* the calendar day
    clock,   \* counts the reads of `new Date()'
    pc,      \* handler -> where it stands, or how it was answered
    now,     \* handler -> its `now': [day, time]
    status,  \* tap -> the status it has resolved
    before   \* handler -> its kin that were answered when it began (history)

vars == <<logs, skip, setOn, day, clock, pc, now, status, before>>

Active == {"last", "log", "redis", "find", "create", "publish"}
Ended  == {"ok", "refused", "failed"}

Rows == [by: Handlers, student: Students, status: Statuses, day: Days, time: Nat]

StudentOf(h) == IF h \in Taps THEN TapOf[h].student ELSE AbsenceOf[h].student

Init ==
    /\ logs = <<>>
    /\ skip = [d \in Days |-> {}]
    /\ setOn = [d \in Days |-> 0]
    /\ day = 0
    /\ clock = 0
    /\ pc = [h \in Handlers |-> "idle"]
    /\ now = [h \in Handlers |-> [day |-> 0, time |-> 0]]
    /\ status = [t \in Taps |-> "BOARDED"]
    /\ before = [h \in Handlers |-> {}]

Goto(h, place) == pc' = [pc EXCEPT ![h] = place]

\* The handlers of the kind of h that are for the same student.
Kin(h) == {g \in IF h \in Taps THEN Taps ELSE Absences : StudentOf(g) = StudentOf(h)}

Arrives(h) ==
    /\ pc[h] = "idle"
    /\ Cardinality({g \in Handlers : pc[g] \in Active}) < MaxInFlight
    /\ before' = [before EXCEPT ![h] = {g \in Kin(h) : pc[g] \in Ended}]

ReadClock(h) == /\ now' = [now EXCEPT ![h] = [day |-> day, time |-> clock]]
                /\ clock' = clock + 1

Insert(h, s) == logs' = Append(logs, [by |-> h, student |-> StudentOf(h),
                                      status |-> s, day |-> now[h].day,
                                      time |-> now[h].time])

\* scannedAt >= todayStart, where today is the day the handler read.
Today(h) == {r \in ToSet(logs) : r.student = StudentOf(h) /\ r.day >= now[h].day}

\* The awaited publishes on Redis that follow the rows.
Publish(h) ==
    /\ pc[h] = "publish"
    /\ Goto(h, "ok")
    /\ UNCHANGED <<logs, skip, setOn, day, clock, now, status, before>>

\* A query, Redis or the process fails: what was written stays written.
Fail(h) ==
    /\ pc[h] \in Active
    /\ Cardinality({g \in Handlers : pc[g] = "failed"}) < MaxFailures
    /\ Goto(h, "failed")
    /\ UNCHANGED <<logs, skip, setOn, day, clock, now, status, before>>
-----------------------------------------------------------------------------
(* processTap *)

TapStart(t) ==
    /\ Arrives(t)
    /\ IF TapOf[t].allowed
       THEN ReadClock(t) /\ Goto(t, "last")
       ELSE Goto(t, "refused") /\ UNCHANGED <<clock, now>>
    /\ UNCHANGED <<logs, skip, setOn, day, status>>

\* Mutant of Resolved: nothing is resolved when there is no earlier tap.
ResolvedLast(t, rows) ==
    IF TapOf[t].status # AutoDetect \/ rows = {} THEN TapOf[t].status
    ELSE IF \E r \in rows : /\ r.status = "BOARDED"
                            /\ \A q \in rows : q.time <= r.time
         THEN "ALIGHTED" ELSE "BOARDED"

\* The row of the latest scannedAt toggles, whatever wrote it.
Resolved(t, rows) ==
    IF TapOf[t].status # AutoDetect THEN TapOf[t].status
    ELSE IF \E r \in rows : /\ r.status = "BOARDED"
                            /\ \A q \in rows : q.time <= r.time
         THEN "ALIGHTED" ELSE "BOARDED"

\* Mutant of TapLast: the latest tap is looked for on all days.
TapLastEver(t) ==
    /\ pc[t] = "last"
    /\ status' = [status EXCEPT ![t] =
          Resolved(t, {r \in ToSet(logs) : r.student = StudentOf(t)})]
    /\ Goto(t, "log")
    /\ UNCHANGED <<logs, skip, setOn, day, clock, now, before>>

TapLast(t) ==
    /\ pc[t] = "last"
    /\ status' = [status EXCEPT ![t] = Resolved(t, Today(t))]
    /\ Goto(t, "log")
    /\ UNCHANGED <<logs, skip, setOn, day, clock, now, before>>

TapLog(t) ==
    /\ pc[t] = "log"
    /\ Insert(t, status[t])
    /\ Goto(t, "publish")
    /\ UNCHANGED <<skip, setOn, day, clock, now, status, before>>
-----------------------------------------------------------------------------
(* recordAbsence *)

AbsenceStart(a) ==
    /\ Arrives(a)
    /\ Goto(a, IF AbsenceOf[a].allowed THEN "redis" ELSE "refused")
    /\ UNCHANGED <<logs, skip, setOn, day, clock, now, status>>

\* Mutant of AbsenceSkip: the date is shifted by the time zone.
AbsenceSkipShifted(a) ==
    LET d == IF AbsenceOf[a].date < MaxDay THEN AbsenceOf[a].date + 1 ELSE 0
    IN  /\ pc[a] = "redis" /\ AbsenceOf[a].heard
        /\ skip' = [skip EXCEPT ![d] = @ \cup {StudentOf(a)}]
        /\ setOn' = [setOn EXCEPT ![d] = day]
        /\ ReadClock(a)
        /\ Goto(a, "find")
        /\ UNCHANGED <<logs, day, status, before>>

\* The pipeline adds to the skip list of the date and renews its expiry; then
\* the handler reads the clock for the row.
AbsenceSkip(a) ==
    LET d == AbsenceOf[a].date
    IN  /\ pc[a] = "redis" /\ AbsenceOf[a].heard
        /\ skip' = [skip EXCEPT ![d] = @ \cup {StudentOf(a)}]
        /\ setOn' = [setOn EXCEPT ![d] = day]
        /\ ReadClock(a)
        /\ Goto(a, "find")
        /\ UNCHANGED <<logs, day, status, before>>

\* exec() resolves also when Redis refuses the commands, and nobody looks at
\* what it resolves with: the handler goes on.
SkipRefused(a) ==
    /\ pc[a] = "redis" /\ ~ AbsenceOf[a].heard
    /\ ReadClock(a)
    /\ Goto(a, "find")
    /\ UNCHANGED <<logs, skip, setOn, day, status, before>>

\* Mutant of AbsenceFind: the query looks for what the parent opted out of
\* by a tap, not for what this handler writes.
AbsenceFindPickup(a) ==
    /\ pc[a] = "find"
    /\ Goto(a, IF \E r \in Today(a) : r.status = "PARENT_PICKUP"
               THEN "publish" ELSE "create")
    /\ UNCHANGED <<logs, skip, setOn, day, clock, now, status, before>>

AbsenceFind(a) ==
    /\ pc[a] = "find"
    /\ Goto(a, IF \E r \in Today(a) : r.status \in {"ABSENT", "PARENT_PICKUP"}
               THEN "publish" ELSE "create")
    /\ UNCHANGED <<logs, skip, setOn, day, clock, now, status, before>>

\* The row is of today, also when the absence is of another date.
AbsenceCreate(a) ==
    /\ pc[a] = "create"
    /\ Insert(a, "ABSENT")
    /\ Goto(a, "publish")
    /\ UNCHANGED <<skip, setOn, day, clock, now, status, before>>
-----------------------------------------------------------------------------
(* The environment: midnight, and Redis expiring keys after 24 hours *)

Expire(d) ==
    /\ skip[d] # {}
    /\ setOn[d] < day
    /\ skip' = [skip EXCEPT ![d] = {}]
    /\ UNCHANGED <<logs, setOn, day, clock, pc, now, status, before>>

\* A key set on one day is gone before the day after the next begins.
NextDay ==
    /\ day < MaxDay
    /\ \A d \in Days : skip[d] # {} => setOn[d] = day
    /\ day' = day + 1
    /\ UNCHANGED <<logs, skip, setOn, clock, pc, now, status, before>>

\* The last day is over and every request is answered.
Quiet == /\ day = MaxDay
         /\ \A h \in Handlers : pc[h] \in Ended
         /\ UNCHANGED vars

Next == \/ \E t \in Taps : TapStart(t) \/ TapLast(t) \/ TapLog(t)
        \/ \E a \in Absences : \/ AbsenceStart(a) \/ AbsenceSkip(a) \/ SkipRefused(a)
                               \/ AbsenceFind(a) \/ AbsenceCreate(a)
        \/ \E h \in Handlers : Publish(h) \/ Fail(h)
        \/ \E d \in Days : Expire(d)
        \/ NextDay \/ Quiet

Spec == Init /\ [][Next]_vars
-----------------------------------------------------------------------------
(* getActiveFleet: the passenger count when the GPS reports no occupancy *)

Counted(n, r) == IF r.status = "BOARDED" THEN n + 1
                 ELSE IF r.status = "ALIGHTED" /\ n > 0 THEN n - 1 ELSE n

CountedOn(d, n, r) == IF r.day = d THEN Counted(n, r) ELSE n

Count(d, rows) == FoldLeft(LAMBDA n, r : CountedOn(d, n, r), 0, rows)

HeadCount(d) == Count(d, logs)
-----------------------------------------------------------------------------
(* Properties *)

\* The rows of boarding_logs, the skip lists and the locals keep their types.
TypeOK ==
    /\ logs \in Seq(Rows)
    /\ skip \in [Days -> SUBSET Students]
    /\ setOn \in [Days -> Days]
    /\ day \in Days /\ clock \in Nat
    /\ pc \in [Handlers -> {"idle"} \cup Active \cup Ended]
    /\ now \in [Handlers -> [day: Days, time: Nat]]
    /\ status \in [Taps -> Statuses]

\* Two handlers of a kind, for one student, ran at the same time.
Overlap(g, h) == g # h /\ g \notin before[h] /\ h \notin before[g]

\* Repeated and retried reports of an absence leave at most one absence row
\* per student and day, unless they overlap.
OneAbsenceRow ==
    \A i, j \in DOMAIN logs :
        /\ logs[i].by \in Absences /\ logs[j].by \in Absences
        /\ logs[i].student = logs[j].student /\ logs[i].day = logs[j].day
        => i = j \/ Overlap(logs[i].by, logs[j].by)

\* "Driver navigation updated to skip stop": an absence of the day that was
\* answered on that day is on the driver's skip list until midnight, unless
\* Redis refused it, and the log of the day knows it, however reports overlap.
SkipListKnows ==
    \A a \in Absences :
        LET s == StudentOf(a)
            d == AbsenceOf[a].date
        IN  pc[a] = "ok" /\ now[a].day = d /\ day = d =>
              /\ AbsenceOf[a].heard => s \in skip[d]
              /\ \E r \in ToSet(logs) :
                    /\ r.day = d /\ r.student = s
                    /\ r.status \in {"ABSENT", "PARENT_PICKUP"}

RowsOf(d) == {r \in ToSet(logs) : r.day = d}

\* The children on the bus: those whose latest tap of the day is BOARDED.
Aboard(d) ==
    {s \in Students : \E r \in RowsOf(d) :
        /\ r.student = s /\ r.status = "BOARDED"
        /\ \A q \in RowsOf(d) :
              q.student = s /\ q.by \in Taps => q.time <= r.time}

\* The current on-board passenger count is the number of children on the bus,
\* on a day of toggling taps without a reported absence.  Taps of different
\* children may overlap, two taps of one card may not.
HeadCountIsAboard ==
    /\ \A r \in RowsOf(day) : r.by \in Taps /\ TapOf[r.by].status = AutoDetect
    /\ \A q, r \in RowsOf(day) :
          q.student = r.student => ~ Overlap(q.by, r.by)
    => HeadCount(day) = Cardinality(Aboard(day))

\* The same, absences of the day included.
HeadCountDespiteAbsence ==
    (\A r \in RowsOf(day) : r.by \in Taps => TapOf[r.by].status = AutoDetect)
    => HeadCount(day) = Cardinality(Aboard(day))
=============================================================================
