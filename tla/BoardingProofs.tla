--------------------------- MODULE BoardingProofs ---------------------------
(***************************************************************************)
(* Proofs about Boarding, for every number of handlers in flight, any      *)
(* students, taps, reports and days.  A row is tied to the handler that    *)
(* wrote it; a report about to create its row has seen no row of a report  *)
(* that was over when it began; and what a report did to Redis and to the  *)
(* log on its own day lasts as long as the day.  The head count is a fold  *)
(* over the log: it is followed row by row, beside the set of children it  *)
(* should count.                                                           *)
(***************************************************************************)
EXTENDS Boarding, FoldTheorems, TLAPS

\* Where a handler may stand, and the clocks it has read.
Places ==
    /\ \A t \in Taps : pc[t] \in {"idle", "last", "log", "publish"} \cup Ended
    /\ \A a \in Absences :
          pc[a] \in {"idle", "redis", "find", "create", "publish"} \cup Ended
    /\ \A h \in Handlers : now[h].day <= day
    /\ \A d \in Days : setOn[d] <= day
    /\ \A h \in Handlers : before[h] \subseteq {g \in Handlers : pc[g] \in Ended}

\* A row is of its handler, which has passed its insert, and is its only one.
Written ==
    /\ \A i \in DOMAIN logs :
          /\ logs[i].student = StudentOf(logs[i].by)
          /\ logs[i].day = now[logs[i].by].day
          /\ pc[logs[i].by] \in {"publish", "ok", "failed"}
          /\ logs[i].by \in Absences => logs[i].status = "ABSENT"
    /\ \A i, j \in DOMAIN logs : logs[i].by = logs[j].by => i = j

\* A report that has found no row is not preceded by the reports with one.
Found ==
    \A a \in Absences : pc[a] = "create" =>
        \A i \in DOMAIN logs :
            /\ logs[i].by \in Absences
            /\ logs[i].student = StudentOf(a)
            /\ logs[i].day = now[a].day
            => logs[i].by \notin before[a]

\* What a report has done for its own day is there until the day is over.
Skipped ==
    \A a \in Absences :
        LET d == AbsenceOf[a].date
        IN  /\ pc[a] \in {"find", "create", "publish", "ok"}
            /\ now[a].day = d /\ day = d
            /\ AbsenceOf[a].heard
            => StudentOf(a) \in skip[d] /\ setOn[d] = day

Known ==
    \A a \in Absences : pc[a] \in {"publish", "ok"} =>
        \E i \in DOMAIN logs :
            /\ logs[i].day >= now[a].day /\ logs[i].student = StudentOf(a)
            /\ logs[i].status \in {"ABSENT", "PARENT_PICKUP"}

Sound == /\ TypeOK /\ Places /\ Written /\ Found /\ Skipped /\ Known
         /\ OneAbsenceRow
-----------------------------------------------------------------------------
LEMMA KindFacts ==
    /\ \A h \in Handlers : StudentOf(h) \in Students
    /\ \A a \in Absences : AbsenceOf[a].date \in Days
    /\ \A t \in Taps : TapOf[t].status \in Statuses \cup {AutoDetect}
    /\ Taps \cap Absences = {}
    /\ \A d \in Days : d \in Nat
    /\ MaxDay \in Nat /\ 0 \in Days
BY RequestAssumption, BoundAssumption DEF StudentOf, Handlers, Days

LEMMA InsertFacts ==
    ASSUME TypeOK, NEW h \in Handlers, NEW s \in Statuses, Insert(h, s)
    PROVE  /\ logs' \in Seq(Rows)
           /\ DOMAIN logs' = DOMAIN logs \cup {Len(logs) + 1}
           /\ Len(logs) + 1 \notin DOMAIN logs
           /\ \A i \in DOMAIN logs : logs'[i] = logs[i]
           /\ logs'[Len(logs) + 1].by = h
           /\ logs'[Len(logs) + 1].student = StudentOf(h)
           /\ logs'[Len(logs) + 1].status = s
           /\ logs'[Len(logs) + 1].day = now[h].day
<1> DEFINE e == [by |-> h, student |-> StudentOf(h), status |-> s,
                 day |-> now[h].day, time |-> now[h].time]
<1>1. now[h].day \in Days /\ now[h].time \in Nat
  BY DEF TypeOK
<1>2. e \in Rows
  BY <1>1, KindFacts DEF Rows
<1>3. logs \in Seq(Rows) /\ logs' = Append(logs, e)
  BY DEF TypeOK, Insert
<1> HIDE DEF e
<1>4. /\ logs' \in Seq(Rows) /\ Len(logs) \in Nat
      /\ DOMAIN logs = 1..Len(logs) /\ DOMAIN logs' = 1..(Len(logs) + 1)
      /\ \A i \in 1..Len(logs) : logs'[i] = logs[i]
      /\ logs'[Len(logs) + 1] = e
  BY <1>2, <1>3
<1> QED
  BY <1>4 DEF e

\* The fields of the rows there are.
LEMMA RowFacts ==
    ASSUME TypeOK
    PROVE  \A i \in DOMAIN logs :
              /\ logs[i] \in Rows /\ logs[i].by \in Handlers
              /\ logs[i].student \in Students
              /\ logs[i].status \in Statuses /\ logs[i].day \in Days
<1>1. \A i \in DOMAIN logs : logs[i] \in Rows
  BY DEF TypeOK
<1> QED BY <1>1 DEF Rows

LEMMA Start == Init => Sound
<1> SUFFICES ASSUME Init PROVE Sound
  OBVIOUS
<1>1. logs \in Seq(Rows) /\ DOMAIN logs = {}
  BY DEF Init
<1>2. TypeOK
  BY <1>1, KindFacts DEF Init, TypeOK, Statuses
<1>3. Places
  BY KindFacts DEF Init, Places, Handlers
<1>4. Written /\ Found /\ OneAbsenceRow
  BY <1>1 DEF Written, Found, OneAbsenceRow
<1>5. Skipped /\ Known
  BY DEF Init, Skipped, Known, Handlers
<1> QED BY <1>2, <1>3, <1>4, <1>5 DEF Sound

\* What a step of h leaves alone.
Others(h) ==
    /\ day' = day
    /\ \A g \in Handlers : g # h => /\ pc'[g] = pc[g] /\ now'[g] = now[g]
                                    /\ before'[g] = before[g]

\* Where a step of h may lead.
Lands(h) ==
    /\ h \in Taps => pc'[h] \in {"idle", "last", "log", "publish"} \cup Ended
    /\ h \in Absences =>
          pc'[h] \in {"idle", "redis", "find", "create", "publish"} \cup Ended
    /\ now'[h].day <= day
    /\ before'[h] \subseteq {g \in Handlers : pc[g] \in Ended}
    /\ \A d \in Days : setOn'[d] <= day

LEMMA PlacesKept ==
    ASSUME Sound, NEW h \in Handlers, pc[h] \notin Ended, Others(h), Lands(h)
    PROVE  Places'
<1>1. \A g \in Handlers : pc[g] \in Ended => pc'[g] \in Ended
  BY DEF Others
<1>2. \A g \in Handlers : before'[g] \subseteq {k \in Handlers : pc[k] \in Ended}
  BY DEF Sound, Places, Others, Lands
<1>3. \A g \in Handlers : before'[g] \subseteq {k \in Handlers : pc'[k] \in Ended}
  BY <1>1, <1>2
<1>4. \A g \in Handlers : now'[g].day <= day'
  BY DEF Sound, Places, Others, Lands
<1>5. \A d \in Days : setOn'[d] <= day'
  BY DEF Others, Lands
<1>6. \A t \in Taps : pc'[t] \in {"idle", "last", "log", "publish"} \cup Ended
  BY DEF Sound, Places, Others, Lands, Handlers
<1>7. \A a \in Absences :
         pc'[a] \in {"idle", "redis", "find", "create", "publish"} \cup Ended
  BY DEF Sound, Places, Others, Lands, Handlers
<1> QED BY <1>3, <1>4, <1>5, <1>6, <1>7 DEF Places

\* A step of h that inserts no row: if h has a row it goes on to its answer,
\* and if it is about to create one it has seen none of its student and day.
LEMMA RowsKept ==
    ASSUME Sound, NEW h \in Handlers, Others(h), logs' = logs,
           pc[h] \notin {"ok", "failed"},
           pc[h] = "publish" => /\ pc'[h] \in {"ok", "failed"}
                                /\ now'[h] = now[h] /\ before'[h] = before[h],
           h \in Absences /\ pc'[h] = "create" =>
              \A i \in DOMAIN logs :
                 ~ /\ logs[i].by \in Absences
                   /\ logs[i].student = StudentOf(h) /\ logs[i].day = now'[h].day
    PROVE  Written' /\ Found' /\ OneAbsenceRow'
<1>1. \A i \in DOMAIN logs : logs[i].by \in Handlers
  BY RowFacts DEF Sound
<1>2. \A i \in DOMAIN logs : /\ now'[logs[i].by] = now[logs[i].by]
                             /\ before'[logs[i].by] = before[logs[i].by]
                             /\ pc'[logs[i].by] \in {"publish", "ok", "failed"}
  BY <1>1 DEF Sound, Written, Others
<1>3. Written'
  BY <1>2 DEF Sound, Written
<1>4. Found'
  BY DEF Sound, Found, Others, Handlers
<1>5. OneAbsenceRow'
  BY <1>2 DEF Sound, OneAbsenceRow, Overlap
<1> QED BY <1>3, <1>4, <1>5

\* The insert of h: it had no row, and every report that has one of its student
\* and day and is not h is either unfinished or unknown to it.
LEMMA RowAdded ==
    ASSUME Sound, NEW h \in Handlers, NEW s \in Statuses, Insert(h, s), Others(h),
           now' = now, before' = before, pc'[h] = "publish",
           \/ h \in Taps /\ pc[h] = "log"
           \/ h \in Absences /\ pc[h] = "create" /\ s = "ABSENT"
    PROVE  /\ Written' /\ Found' /\ OneAbsenceRow'
           /\ \A i \in DOMAIN logs : i \in DOMAIN logs' /\ logs'[i] = logs[i]
           /\ \E i \in DOMAIN logs' : /\ logs'[i].student = StudentOf(h)
                                      /\ logs'[i].status = s
                                      /\ logs'[i].day = now[h].day
<1> DEFINE n == Len(logs) + 1
<1>0. /\ DOMAIN logs' = DOMAIN logs \cup {n} /\ n \notin DOMAIN logs
      /\ \A i \in DOMAIN logs : logs'[i] = logs[i]
      /\ logs'[n].by = h /\ logs'[n].student = StudentOf(h)
      /\ logs'[n].status = s /\ logs'[n].day = now[h].day
  BY InsertFacts DEF Sound
<1> HIDE DEF n
<1>1. \A i \in DOMAIN logs : logs[i].by \in Handlers /\ logs[i].by # h
  BY RowFacts DEF Sound, Written
<1>2. Written'
  <2>1. \A i \in DOMAIN logs :
           pc'[logs[i].by] \in {"publish", "ok", "failed"}
    BY <1>1 DEF Sound, Written, Others
  <2>2. h \in Absences => s = "ABSENT"
    BY KindFacts
  <2> QED BY <1>0, <1>1, <2>1, <2>2 DEF Sound, Written
<1>3. \A g \in Handlers : h \notin before[g]
  BY DEF Sound, Places, Ended
<1>4. Found'
  BY <1>0, <1>3 DEF Sound, Found, Others, Handlers
<1>5. OneAbsenceRow'
  <2> SUFFICES ASSUME NEW i \in DOMAIN logs', NEW j \in DOMAIN logs',
                      logs'[i].by \in Absences, logs'[j].by \in Absences,
                      logs'[i].student = logs'[j].student,
                      logs'[i].day = logs'[j].day, i # j
               PROVE  /\ logs'[i].by # logs'[j].by
                      /\ logs'[i].by \notin before[logs'[j].by]
                      /\ logs'[j].by \notin before[logs'[i].by]
    BY DEF OneAbsenceRow, Overlap
  <2>1. CASE i \in DOMAIN logs /\ j \in DOMAIN logs
    BY <1>0, <2>1 DEF Sound, OneAbsenceRow, Overlap
  <2>2. CASE i = n /\ j \in DOMAIN logs
    <3>1. h \in Absences /\ pc[h] = "create"
      BY <1>0, <2>2, KindFacts
    <3>2. logs[j].by \notin before[h]
      BY <1>0, <2>2, <3>1 DEF Sound, Found
    <3> QED BY <1>0, <1>1, <1>3, <2>2, <3>2
  <2>3. CASE j = n /\ i \in DOMAIN logs
    <3>1. h \in Absences /\ pc[h] = "create"
      BY <1>0, <2>3, KindFacts
    <3>2. logs[i].by \notin before[h]
      BY <1>0, <2>3, <3>1 DEF Sound, Found
    <3> QED BY <1>0, <1>1, <1>3, <2>3, <3>2
  <2> QED BY <1>0, <2>1, <2>2, <2>3
<1> QED BY <1>0, <1>2, <1>4, <1>5

LEMMA ClockFacts ==
    ASSUME TypeOK, NEW h \in Handlers, ReadClock(h)
    PROVE  /\ now' \in [Handlers -> [day: Days, time: Nat]]
           /\ now'[h].day = day /\ clock' \in Nat
           /\ \A g \in Handlers : g # h => now'[g] = now[g]
<1> DEFINE r == [day |-> day, time |-> clock]
<1>1. r \in [day: Days, time: Nat] /\ r.day = day
  BY DEF TypeOK
<1>2. now' = [now EXCEPT ![h] = r] /\ clock' = clock + 1
  BY DEF ReadClock
<1> HIDE DEF r
<1> QED BY <1>1, <1>2 DEF TypeOK

LEMMA Step == Sound /\ [Next]_vars => Sound'
<1> SUFFICES ASSUME Sound, [Next]_vars PROVE Sound'
  OBVIOUS
<1> USE KindFacts DEF Goto, Active, Ended
<1>1. ASSUME NEW t \in Taps, TapStart(t)
      PROVE  Sound'
  <2>1. t \in Handlers /\ pc[t] \notin Ended /\ Others(t) /\ Lands(t)
    BY <1>1 DEF Sound, TypeOK, Places, Others, Lands, Handlers, TapStart,
       Arrives, ReadClock, Kin
  <2>2. TypeOK'
    <3>1. TypeOK /\ (ReadClock(t) \/ UNCHANGED <<clock, now>>)
      BY <1>1 DEF Sound, TapStart
    <3>2. now' \in [Handlers -> [day: Days, time: Nat]] /\ clock' \in Nat
      BY <2>1, <3>1, ClockFacts DEF TypeOK
    <3> QED
      BY <1>1, <2>1, <3>2 DEF Sound, TypeOK, Handlers, TapStart
  <2>3. Written' /\ Found' /\ OneAbsenceRow'
    BY <1>1, <2>1, RowsKept DEF Sound, TypeOK, Places, Handlers, TapStart,
       Arrives, ReadClock, Kin
  <2>4. Skipped'
    BY <1>1, <2>1 DEF Sound, TypeOK, Skipped, Others, Handlers, TapStart,
       Arrives, ReadClock, Kin
  <2>5. Known'
    BY <1>1, <2>1 DEF Sound, TypeOK, Known, Others, Handlers, TapStart,
       Arrives, ReadClock, Kin
  <2>6. Places'
    BY <2>1, PlacesKept
  <2> QED BY <2>2, <2>3, <2>4, <2>5, <2>6 DEF Sound
<1>2. ASSUME NEW t \in Taps, TapLast(t)
      PROVE  Sound'
  <2>1. t \in Handlers /\ pc[t] \notin Ended /\ Others(t) /\ Lands(t)
    BY <1>2 DEF Sound, TypeOK, Places, Others, Lands, Handlers, TapLast
  <2>2. TypeOK'
    BY <1>2, <2>1 DEF Sound, TypeOK, Others, Handlers, TapLast, Resolved,
       Statuses, AutoDetect
  <2>3. Written' /\ Found' /\ OneAbsenceRow'
    BY <1>2, <2>1, RowsKept DEF Sound, TypeOK, Places, Handlers, TapLast
  <2>4. Skipped'
    BY <1>2, <2>1 DEF Sound, TypeOK, Skipped, Others, Handlers, TapLast
  <2>5. Known'
    BY <1>2, <2>1 DEF Sound, TypeOK, Known, Others, Handlers, TapLast
  <2>6. Places'
    BY <2>1, PlacesKept
  <2> QED BY <2>2, <2>3, <2>4, <2>5, <2>6 DEF Sound
<1>3. ASSUME NEW t \in Taps, TapLog(t)
      PROVE  Sound'
  <2>1. t \in Handlers /\ pc[t] \notin Ended /\ Others(t) /\ Lands(t)
    BY <1>3 DEF Sound, TypeOK, Places, Others, Lands, Handlers, TapLog
  <2>0. status[t] \in Statuses /\ Insert(t, status[t])
    BY <1>3 DEF Sound, TypeOK, Statuses, TapLog
  <2>2. TypeOK'
    <3>1. logs' \in Seq(Rows)
      BY <2>0, <2>1, InsertFacts DEF Sound
    <3> QED BY <1>3, <2>1, <3>1 DEF Sound, TypeOK, Handlers, TapLog
  <2>3. /\ Written' /\ Found' /\ OneAbsenceRow'
        /\ \A i \in DOMAIN logs : i \in DOMAIN logs' /\ logs'[i] = logs[i]
        /\ \E i \in DOMAIN logs' : /\ logs'[i].student = StudentOf(t)
                                   /\ logs'[i].status = status[t]
                                   /\ logs'[i].day = now[t].day
    <3>1. pc'[t] = "publish" /\ now' = now /\ before' = before
      BY <1>3, <2>1 DEF Sound, TypeOK, TapLog
    <3>2. pc[t] = "log"
      BY <1>3 DEF TapLog
    <3> QED BY <2>0, <2>1, <3>1, <3>2, RowAdded
  <2>4. Skipped'
    BY <1>3, <2>1 DEF Sound, TypeOK, Skipped, Others, Handlers, TapLog
  <2>5. Known'
    <3>1. now' = now /\ now[t].day \in Nat
      BY <1>3, <2>1 DEF Sound, TypeOK, TapLog
    <3> QED
      BY <1>3, <2>1, <2>3, <3>1 DEF Sound, Known, Others, Handlers
  <2>6. Places'
    BY <2>1, PlacesKept
  <2> QED BY <2>2, <2>3, <2>4, <2>5, <2>6 DEF Sound
<1>4. ASSUME NEW a \in Absences, AbsenceStart(a)
      PROVE  Sound'
  <2>1. a \in Handlers /\ pc[a] \notin Ended /\ Others(a) /\ Lands(a)
    BY <1>4 DEF Sound, TypeOK, Places, Others, Lands, Handlers, AbsenceStart,
       Arrives, Kin
  <2>2. TypeOK'
    BY <1>4, <2>1 DEF Sound, TypeOK, Others, Handlers, AbsenceStart, Arrives,
       Kin
  <2>3. Written' /\ Found' /\ OneAbsenceRow'
    BY <1>4, <2>1, RowsKept DEF Sound, TypeOK, Places, Handlers, AbsenceStart,
       Arrives, Kin
  <2>4. Skipped'
    BY <1>4, <2>1 DEF Sound, TypeOK, Skipped, Others, Handlers, AbsenceStart,
       Arrives, Kin
  <2>5. Known'
    BY <1>4, <2>1 DEF Sound, TypeOK, Known, Others, Handlers, AbsenceStart,
       Arrives, Kin
  <2>6. Places'
    BY <2>1, PlacesKept
  <2> QED BY <2>2, <2>3, <2>4, <2>5, <2>6 DEF Sound
<1>5. ASSUME NEW a \in Absences, AbsenceSkip(a)
      PROVE  Sound'
  <2>1. a \in Handlers /\ pc[a] \notin Ended /\ Others(a) /\ Lands(a)
    <3>1. /\ a \in Handlers /\ now'[a].day = day
          /\ \A g \in Handlers : g # a => now'[g] = now[g]
      BY <1>5, ClockFacts DEF Sound, AbsenceSkip, Handlers
    <3>2. \A d \in Days : setOn'[d] <= day
      BY <1>5 DEF Sound, TypeOK, Places, AbsenceSkip
    <3>3. pc[a] = "redis" /\ pc' = [pc EXCEPT ![a] = "find"]
      BY <1>5 DEF AbsenceSkip
    <3>4. day' = day /\ before' = before
      BY <1>5 DEF AbsenceSkip
    <3> QED
      BY <3>1, <3>2, <3>3, <3>4 DEF Sound, TypeOK, Places, Others, Lands
  <2>2. TypeOK'
    BY <1>5, <2>1 DEF Sound, TypeOK, Others, Handlers, AbsenceSkip, ReadClock
  <2>3. Written' /\ Found' /\ OneAbsenceRow'
    BY <1>5, <2>1, RowsKept DEF Sound, TypeOK, Places, Handlers, AbsenceSkip,
       ReadClock
  <2>4. Skipped'
    BY <1>5, <2>1 DEF Sound, TypeOK, Skipped, Others, Handlers, AbsenceSkip,
       ReadClock
  <2>5. Known'
    BY <1>5, <2>1 DEF Sound, TypeOK, Known, Others, Handlers, AbsenceSkip,
       ReadClock
  <2>6. Places'
    BY <2>1, PlacesKept
  <2> QED BY <2>2, <2>3, <2>4, <2>5, <2>6 DEF Sound
<1>6. ASSUME NEW a \in Absences, SkipRefused(a)
      PROVE  Sound'
  <2>1. a \in Handlers /\ pc[a] \notin Ended /\ Others(a) /\ Lands(a)
    <3>1. /\ a \in Handlers /\ now'[a].day = day
          /\ \A g \in Handlers : g # a => now'[g] = now[g]
      BY <1>6, ClockFacts DEF Sound, SkipRefused, Handlers
    <3> QED
      BY <1>6, <3>1 DEF Sound, TypeOK, Places, Others, Lands, SkipRefused
  <2>2. TypeOK'
    BY <1>6, <2>1 DEF Sound, TypeOK, Others, Handlers, SkipRefused, ReadClock
  <2>3. Written' /\ Found' /\ OneAbsenceRow'
    BY <1>6, <2>1, RowsKept DEF Sound, TypeOK, Places, Handlers, SkipRefused,
       ReadClock
  <2>4. Skipped'
    BY <1>6, <2>1 DEF Sound, TypeOK, Skipped, Others, Handlers, SkipRefused,
       ReadClock
  <2>5. Known'
    BY <1>6, <2>1 DEF Sound, TypeOK, Known, Others, Handlers, SkipRefused,
       ReadClock
  <2>6. Places'
    BY <2>1, PlacesKept
  <2> QED BY <2>2, <2>3, <2>4, <2>5, <2>6 DEF Sound
<1>7. ASSUME NEW a \in Absences, AbsenceFind(a)
      PROVE  Sound'
  <2>1. a \in Handlers /\ pc[a] \notin Ended /\ Others(a) /\ Lands(a)
    BY <1>7 DEF Sound, TypeOK, Places, Others, Lands, Handlers, AbsenceFind
  <2>2. TypeOK'
    BY <1>7, <2>1 DEF Sound, TypeOK, Others, Handlers, AbsenceFind
  <2>3. Written' /\ Found' /\ OneAbsenceRow'
    <3>1. pc'[a] = "create" =>
             \A i \in DOMAIN logs :
                ~ /\ logs[i].by \in Absences
                  /\ logs[i].student = StudentOf(a)
                  /\ logs[i].day = now'[a].day
      <4>1. pc'[a] = "create" =>
               \A r \in Today(a) : r.status \notin {"ABSENT", "PARENT_PICKUP"}
        BY <1>7 DEF Sound, TypeOK, AbsenceFind, Handlers
      <4>2. \A i \in DOMAIN logs :
               /\ logs[i].student = StudentOf(a) /\ logs[i].day = now[a].day
               => logs[i] \in Today(a)
        BY <2>1 DEF Sound, TypeOK, Today, ToSet
      <4>3. \A i \in DOMAIN logs :
               logs[i].by \in Absences => logs[i].status = "ABSENT"
        BY DEF Sound, Written
      <4> QED BY <1>7, <4>1, <4>2, <4>3 DEF AbsenceFind
    <3> QED BY <1>7, <2>1, <3>1, RowsKept DEF AbsenceFind
  <2>4. Skipped'
    BY <1>7, <2>1 DEF Sound, TypeOK, Skipped, Others, Handlers, AbsenceFind
  <2>5. Known'
    BY <1>7, <2>1, RowFacts DEF Sound, TypeOK, Known, Others, Handlers,
       AbsenceFind, Today, ToSet
  <2>6. Places'
    BY <2>1, PlacesKept
  <2> QED BY <2>2, <2>3, <2>4, <2>5, <2>6 DEF Sound
<1>8. ASSUME NEW a \in Absences, AbsenceCreate(a)
      PROVE  Sound'
  <2>1. a \in Handlers /\ pc[a] \notin Ended /\ Others(a) /\ Lands(a)
    BY <1>8 DEF Sound, TypeOK, Places, Others, Lands, Handlers, AbsenceCreate
  <2>0. "ABSENT" \in Statuses /\ Insert(a, "ABSENT")
    BY <1>8 DEF Sound, TypeOK, Statuses, AbsenceCreate
  <2>2. TypeOK'
    <3>1. logs' \in Seq(Rows)
      BY <2>0, <2>1, InsertFacts DEF Sound
    <3> QED BY <1>8, <2>1, <3>1 DEF Sound, TypeOK, Handlers, AbsenceCreate
  <2>3. /\ Written' /\ Found' /\ OneAbsenceRow'
        /\ \A i \in DOMAIN logs : i \in DOMAIN logs' /\ logs'[i] = logs[i]
        /\ \E i \in DOMAIN logs' : /\ logs'[i].student = StudentOf(a)
                                   /\ logs'[i].status = "ABSENT"
                                   /\ logs'[i].day = now[a].day
    <3>1. pc'[a] = "publish" /\ now' = now /\ before' = before
      BY <1>8, <2>1 DEF Sound, TypeOK, AbsenceCreate
    <3>2. pc[a] = "create"
      BY <1>8 DEF AbsenceCreate
    <3> QED BY <2>0, <2>1, <3>1, <3>2, RowAdded
  <2>4. Skipped'
    BY <1>8, <2>1 DEF Sound, TypeOK, Skipped, Others, Handlers, AbsenceCreate
  <2>5. Known'
    <3>1. now' = now /\ now[a].day \in Nat
      BY <1>8, <2>1 DEF Sound, TypeOK, AbsenceCreate
    <3> QED
      BY <1>8, <2>1, <2>3, <3>1 DEF Sound, Known, Others, Handlers
  <2>6. Places'
    BY <2>1, PlacesKept
  <2> QED BY <2>2, <2>3, <2>4, <2>5, <2>6 DEF Sound
<1>9. ASSUME NEW h \in Handlers, Publish(h)
      PROVE  Sound'
  <2>1. h \in Handlers /\ pc[h] \notin Ended /\ Others(h) /\ Lands(h)
    BY <1>9 DEF Sound, TypeOK, Places, Others, Lands, Handlers, Publish
  <2>2. TypeOK'
    BY <1>9, <2>1 DEF Sound, TypeOK, Others, Handlers, Publish
  <2>3. Written' /\ Found' /\ OneAbsenceRow'
    BY <1>9, <2>1, RowsKept DEF Sound, TypeOK, Places, Handlers, Publish
  <2>4. Skipped'
    BY <1>9, <2>1 DEF Sound, TypeOK, Skipped, Others, Handlers, Publish
  <2>5. Known'
    BY <1>9, <2>1 DEF Sound, TypeOK, Known, Others, Handlers, Publish
  <2>6. Places'
    BY <2>1, PlacesKept
  <2> QED BY <2>2, <2>3, <2>4, <2>5, <2>6 DEF Sound
<1>10. ASSUME NEW h \in Handlers, Fail(h)
      PROVE  Sound'
  <2>1. h \in Handlers /\ pc[h] \notin Ended /\ Others(h) /\ Lands(h)
    BY <1>10 DEF Sound, TypeOK, Places, Others, Lands, Handlers, Fail
  <2>2. TypeOK'
    BY <1>10, <2>1 DEF Sound, TypeOK, Others, Handlers, Fail
  <2>3. Written' /\ Found' /\ OneAbsenceRow'
    BY <1>10, <2>1, RowsKept DEF Sound, TypeOK, Places, Handlers, Fail
  <2>4. Skipped'
    BY <1>10, <2>1 DEF Sound, TypeOK, Skipped, Others, Handlers, Fail
  <2>5. Known'
    BY <1>10, <2>1 DEF Sound, TypeOK, Known, Others, Handlers, Fail
  <2>6. Places'
    BY <2>1, PlacesKept
  <2> QED BY <2>2, <2>3, <2>4, <2>5, <2>6 DEF Sound
<1>11. ASSUME NEW d \in Days, Expire(d)
       PROVE  Sound'
  <2>1. TypeOK' /\ Places'
    BY <1>11 DEF Sound, TypeOK, Places, Expire
  <2>2. Written' /\ Found' /\ OneAbsenceRow' /\ Known'
    BY <1>11 DEF Sound, Written, Found, OneAbsenceRow, Overlap, Known, Expire
  <2>3. Skipped'
    BY <1>11 DEF Sound, TypeOK, Skipped, Expire
  <2> QED BY <2>1, <2>2, <2>3 DEF Sound
<1>12. CASE NextDay
  <2>1. day' \in Days /\ day' = day + 1 /\ day \in Nat
    BY <1>12 DEF Sound, TypeOK, NextDay, Days
  <2>2. \A h \in Handlers : now[h].day \in Nat /\ now[h].day <= day
    BY DEF Sound, TypeOK, Places
  <2>3. \A d \in Days : setOn[d] \in Nat /\ setOn[d] <= day
    BY DEF Sound, TypeOK, Places
  <2>4. TypeOK'
    BY <1>12, <2>1 DEF Sound, TypeOK, NextDay
  <2>5. Places'
    BY <1>12, <2>1, <2>2, <2>3 DEF Sound, Places, NextDay
  <2>6. Written' /\ Found' /\ OneAbsenceRow' /\ Known'
    BY <1>12 DEF Sound, Written, Found, OneAbsenceRow, Overlap, Known, NextDay
  <2>7. Skipped'
    <3>1. \A a \in Absences : now'[a].day # day'
      BY <1>12, <2>1, <2>2 DEF NextDay, Handlers
    <3> QED BY <3>1 DEF Skipped
  <2> QED BY <2>4, <2>5, <2>6, <2>7 DEF Sound
<1>13. CASE UNCHANGED vars
  <2>1. TypeOK' /\ Places' /\ Written'
    BY <1>13 DEF Sound, vars, TypeOK, Places, Written
  <2>2. Found' /\ Skipped' /\ Known' /\ OneAbsenceRow'
    BY <1>13 DEF Sound, vars, Found, Skipped, Known, OneAbsenceRow, Overlap
  <2> QED BY <2>1, <2>2 DEF Sound
<1> QED BY <1>1, <1>2, <1>3, <1>4, <1>5, <1>6, <1>7, <1>8, <1>9, <1>10, <1>11,
  <1>12, <1>13 DEF Next, Quiet
-----------------------------------------------------------------------------
\* In every reachable state the inductive invariant holds: what the handlers
\* of BoardingService and AbsenceService have read and written is what the
\* parts above say, however many of them run at once.
THEOREM AlwaysSound == Spec => []Sound
<1>1. Init => Sound
  BY Start
<1>2. Sound /\ [Next]_vars => Sound'
  BY Step
<1> QED BY <1>1, <1>2, PTL DEF Spec

\* The rows, the skip lists and the locals of the handlers keep their types.
THEOREM TypeCorrect == Spec => []TypeOK
<1>1. Sound => TypeOK
  BY DEF Sound
<1> QED BY <1>1, AlwaysSound, PTL

\* Two absence rows of one student and day come from reports that overlapped:
\* a report repeated or retried after an answer adds none.
THEOREM RetriesAddNoRow == Spec => []OneAbsenceRow
<1>1. Sound => OneAbsenceRow
  BY DEF Sound
<1> QED BY <1>1, AlwaysSound, PTL

\* A report answered on the day it is for stays on the driver's skip list and
\* in the log until midnight, whatever overlaps, fails or expires.
THEOREM DriverKnows == Spec => []SkipListKnows
<1>1. Sound => SkipListKnows
  <2> SUFFICES ASSUME Sound, NEW a \in Absences, pc[a] = "ok",
                      now[a].day = AbsenceOf[a].date, day = AbsenceOf[a].date
               PROVE  /\ AbsenceOf[a].heard => StudentOf(a) \in skip[AbsenceOf[a].date]
                      /\ \E r \in ToSet(logs) :
                            /\ r.day = AbsenceOf[a].date
                            /\ r.student = StudentOf(a)
                            /\ r.status \in {"ABSENT", "PARENT_PICKUP"}
    BY DEF SkipListKnows
  <2>1. AbsenceOf[a].heard => StudentOf(a) \in skip[AbsenceOf[a].date]
    BY DEF Sound, Skipped
  <2>2. PICK i \in DOMAIN logs :
            /\ logs[i].day >= now[a].day /\ logs[i].student = StudentOf(a)
            /\ logs[i].status \in {"ABSENT", "PARENT_PICKUP"}
    BY DEF Sound, Known
  <2>3. logs[i].by \in Handlers /\ logs[i].day \in Days
    BY <2>2, RowFacts DEF Sound
  <2>4. logs[i].day <= day
    BY <2>2, <2>3 DEF Sound, Written, Places
  <2>5. logs[i].day = AbsenceOf[a].date
    BY <2>2, <2>3, <2>4, KindFacts DEF Days
  <2>6. logs[i] \in ToSet(logs)
    BY <2>2 DEF ToSet
  <2> QED BY <2>1, <2>2, <2>5, <2>6
<1> QED BY <1>1, AlwaysSound, PTL
-----------------------------------------------------------------------------
(* The head count of a log, one row at a time *)

LEMMA CountedType ==
    ASSUME NEW n \in Nat, NEW r, NEW d
    PROVE  CountedOn(d, n, r) \in Nat
BY DEF CountedOn, Counted

\* The last of the positions X, which FoldLeft takes first.
LEMMA MaxFacts ==
    ASSUME NEW n \in Nat, NEW X \in SUBSET (1..n), X # {}
    PROVE  Max(X) \in X /\ \A y \in X : Max(X) >= y
BY LastExists DEF Max

\* g gives the head counts of the positions of s.
CountsOf(g, d, s) ==
    /\ \A X \in SUBSET DOMAIN s :
          g[X] = IF X = {} THEN 0 ELSE CountedOn(d, g[X \ {Max(X)}], s[Max(X)])
    /\ Count(d, s) = g[DOMAIN s]

LEMMA CountExists ==
    ASSUME NEW s \in Seq(Rows), NEW d
    PROVE  \E g \in [SUBSET DOMAIN s -> Nat] : CountsOf(g, d, s)
<1> DEFINE D == DOMAIN s
           ch == [X \in SUBSET D |-> Max(X)]
           st == [p \in D \X Nat |-> CountedOn(d, p[2], s[p[1]])]
<1>0. Len(s) \in Nat /\ D = 1..Len(s) /\ IsFiniteSet(D)
  BY FS_Interval
<1>1. \A X \in SUBSET D : X # {} => Max(X) \in X
  BY <1>0, MaxFacts
<1> HIDE DEF D
<1>2. \A x \in D, v \in Nat :
         st[<<x, v>>] \in Nat /\ st[<<x, v>>] = CountedOn(d, v, s[x])
  BY CountedType
<1>3. \A X \in SUBSET D : ch[X] = Max(X) /\ (X # {} => ch[X] \in X)
  BY <1>1
<1> HIDE DEF ch, st
<1>4. PICK g \in [SUBSET D -> Nat] : FoldOf(g, D, 0, st, ch)
  <2>1. 0 \in Nat /\ \A x \in D, v \in Nat : st[<<x, v>>] \in Nat
    BY <1>2
  <2>2. \A X \in SUBSET D : X # {} => ch[X] \in X
    BY <1>3
  <2> QED BY <1>0, <2>1, <2>2, FoldExists
<1>5. ASSUME NEW X \in SUBSET D
      PROVE  g[X] = IF X = {} THEN 0 ELSE CountedOn(d, g[X \ {Max(X)}], s[Max(X)])
  <2> DEFINE c == Max(X)
  <2>1. ch[X] = c /\ (X # {} => c \in D /\ g[X \ {c}] \in Nat)
    BY <1>1, <1>3
  <2> HIDE DEF c
  <2>2. g[X] = IF X = {} THEN 0 ELSE st[<<c, g[X \ {c}]>>]
    BY <1>4, <2>1 DEF FoldOf
  <2>3. g[X] = IF X = {} THEN 0 ELSE CountedOn(d, g[X \ {c}], s[c])
    BY <1>2, <2>1, <2>2
  <2> QED BY <2>3 DEF c
<1>6. Count(d, s) = g[D]
  <2> DEFINE Once(h) == [Y \in SUBSET D |->
                           IF Y = {} THEN 0
                           ELSE CountedOn(d, h[Y \ {Max(Y)}], s[Max(Y)])]
             it == CHOOSE h : h = Once(h)
  <2>1. Count(d, s) = it[D]
    BY DEF Count, FoldLeft, MapThenFoldSet, D
  <2>2. g = Once(g)
    <3>1. g = [Y \in SUBSET D |-> g[Y]]
      OBVIOUS
    <3> QED BY <1>5, <3>1
  <2>3. it = Once(it)
    <3> HIDE DEF Once
    <3> QED BY <2>2
  <2>4. ASSUME NEW Y \in SUBSET D
        PROVE  it[Y] = IF Y = {} THEN 0
                       ELSE CountedOn(d, it[Y \ {Max(Y)}], s[Max(Y)])
    <3> HIDE DEF it
    <3> QED BY <2>3
  <2> HIDE DEF it, Once
  <2> DEFINE G == {Y \in SUBSET D : it[Y] = g[Y]}
  <2>5. ASSUME NEW Y \in SUBSET D, \A x \in Y : Y \ {x} \in G
        PROVE  Y \in G
    BY <1>1, <1>5, <2>4, <2>5
  <2>6. D \in G
    <3> HIDE DEF G
    <3>1. \A Y \in SUBSET D : (\A x \in Y : Y \ {x} \in G) => Y \in G
      BY <2>5
    <3> QED BY <1>0, <3>1, SetInduction
  <2> QED BY <2>1, <2>6
<1> QED BY <1>5, <1>6 DEF CountsOf, D

\* A row appended to the log is counted last.
LEMMA CountAppend ==
    ASSUME NEW s \in Seq(Rows), NEW r \in Rows, NEW d
    PROVE  Count(d, Append(s, r)) = CountedOn(d, Count(d, s), r)
<1> DEFINE n == Len(s)
           z == Append(s, r)
<1>0. n \in Nat /\ DOMAIN s = 1..n
  OBVIOUS
<1>1. /\ z \in Seq(Rows) /\ DOMAIN z = 1..(n + 1) /\ z[n + 1] = r
      /\ \A i \in 1..n : z[i] = s[i]
  OBVIOUS
<1> HIDE DEF n, z
<1>2. PICK g \in [SUBSET DOMAIN s -> Nat] : CountsOf(g, d, s)
  BY CountExists
<1>3. PICK h \in [SUBSET DOMAIN z -> Nat] : CountsOf(h, d, z)
  BY <1>1, CountExists
<1> DEFINE G == {X \in SUBSET (1..n) : h[X] = g[X]}
<1>4. ASSUME NEW X \in SUBSET (1..n), \A x \in X : X \ {x} \in G
      PROVE  X \in G
  <2>1. X \in SUBSET DOMAIN s /\ X \in SUBSET DOMAIN z
    BY <1>0, <1>1
  <2>2. CASE X = {}
    BY <1>2, <1>3, <2>1, <2>2 DEF CountsOf
  <2>3. CASE X # {}
    <3>1. Max(X) \in X
      BY <1>0, <2>3, MaxFacts
    <3>2. h[X \ {Max(X)}] = g[X \ {Max(X)}] /\ z[Max(X)] = s[Max(X)]
      BY <1>1, <1>4, <3>1
    <3>3. g[X] = CountedOn(d, g[X \ {Max(X)}], s[Max(X)])
      BY <1>2, <2>1, <2>3 DEF CountsOf
    <3>4. h[X] = CountedOn(d, h[X \ {Max(X)}], z[Max(X)])
      BY <1>3, <2>1, <2>3 DEF CountsOf
    <3> QED BY <3>2, <3>3, <3>4
  <2> QED BY <2>2, <2>3
<1>5. 1..n \in G
  <2> HIDE DEF G
  <2>1. \A X \in SUBSET (1..n) : (\A x \in X : X \ {x} \in G) => X \in G
    BY <1>4
  <2>2. IsFiniteSet(1..n)
    BY <1>0, FS_Interval
  <2> QED BY <2>1, <2>2, SetInduction
<1>6. Max(1..(n + 1)) = n + 1
  <2>1. n + 1 \in Nat /\ n + 1 \in 1..(n + 1)
    BY <1>0, SMT
  <2>2. Max(1..(n + 1)) \in 1..(n + 1) /\ Max(1..(n + 1)) >= n + 1
    <3>1. 1..(n + 1) # {} /\ 1..(n + 1) \in SUBSET (1..(n + 1))
      BY <2>1
    <3> HIDE DEF n
    <3> QED BY <2>1, <3>1, MaxFacts
  <2> QED BY <1>0, <2>2
<1>7. (1..(n + 1)) \ {n + 1} = 1..n /\ 1..(n + 1) # {}
  <2>1. n + 1 \in 1..(n + 1)
    BY <1>0, SMT
  <2>2. \A i : i \in 1..(n + 1) /\ i # n + 1 <=> i \in 1..n
    BY <1>0, SMT
  <2> QED BY <2>1, <2>2
<1>8. h[1..(n + 1)] = CountedOn(d, h[1..n], r)
  <2>1. h[1..(n + 1)] = CountedOn(d, h[(1..(n + 1)) \ {n + 1}], z[n + 1])
    BY <1>1, <1>3, <1>6, <1>7 DEF CountsOf
  <2>2. h[(1..(n + 1)) \ {n + 1}] = h[1..n]
    BY ONLY <1>7, Zenon
  <2> QED BY <1>1, <2>1, <2>2
<1>9. Count(d, s) = g[1..n] /\ Count(d, z) = h[1..(n + 1)]
  BY <1>0, <1>1, <1>2, <1>3 DEF CountsOf
<1> QED BY <1>5, <1>8, <1>9 DEF z

\* Nobody is counted on a day without a row.
LEMMA CountNone ==
    ASSUME NEW s \in Seq(Rows), NEW d, \A i \in DOMAIN s : s[i].day # d
    PROVE  Count(d, s) = 0
<1> DEFINE n == Len(s)
<1>0. n \in Nat /\ DOMAIN s = 1..n /\ IsFiniteSet(1..n)
  BY FS_Interval
<1> HIDE DEF n
<1>1. PICK g \in [SUBSET DOMAIN s -> Nat] : CountsOf(g, d, s)
  BY CountExists
<1> DEFINE Z == {X \in SUBSET (1..n) : g[X] = 0}
<1>2. ASSUME NEW X \in SUBSET (1..n), \A x \in X : X \ {x} \in Z
      PROVE  X \in Z
  <2>1. X \in SUBSET DOMAIN s
    BY <1>0
  <2>2. CASE X = {}
    BY <1>1, <2>1, <2>2 DEF CountsOf
  <2>3. CASE X # {}
    <3>1. Max(X) \in X
      BY <1>0, <2>3, MaxFacts
    <3>2. g[X \ {Max(X)}] = 0 /\ s[Max(X)].day # d
      BY <1>0, <1>2, <3>1
    <3>3. g[X] = CountedOn(d, g[X \ {Max(X)}], s[Max(X)])
      BY <1>1, <2>1, <2>3 DEF CountsOf
    <3> QED BY <3>2, <3>3 DEF CountedOn
  <2> QED BY <2>2, <2>3
<1>3. 1..n \in Z
  <2> HIDE DEF Z
  <2>1. \A X \in SUBSET (1..n) : (\A x \in X : X \ {x} \in Z) => X \in Z
    BY <1>2
  <2> QED BY <1>0, <2>1, SetInduction
<1> QED BY <1>0, <1>1, <1>3 DEF CountsOf
-----------------------------------------------------------------------------
(* The head count of a day of toggling taps *)

\* A handler reads its clock before anyone reads a later one, so a tap is later
\* than the rows of the taps that were over when it began.
Timed ==
    /\ \A h \in Handlers :
          pc[h] \in {"last", "log", "find", "create"} => now[h].time < clock
    /\ \A i \in DOMAIN logs : logs[i].time < clock
    /\ \A t \in Taps : pc[t] \in {"last", "log"} =>
          \A i \in DOMAIN logs :
             logs[i].by \in before[t] => logs[i].time < now[t].time

\* A tap about to log has resolved its status from the rows there are, unless
\* one of them is of a handler that was not over when it began.
Resolves ==
    \A t \in Taps : pc[t] = "log" /\ (\A r \in Today(t) : r.by \in before[t])
                    => status[t] = Resolved(t, Today(t))

\* Nobody reported an absence, and no card was tapped twice at once.
OneByOne ==
    /\ \A r \in RowsOf(day) : r.by \in Taps /\ TapOf[r.by].status = AutoDetect
    /\ \A q, r \in RowsOf(day) :
          q.student = r.student => ~ Overlap(q.by, r.by)

Heads == OneByOne => /\ IsFiniteSet(Aboard(day))
                     /\ HeadCount(day) = Cardinality(Aboard(day))

Toggled == Timed /\ Resolves /\ Heads

LEMMA RowTimes ==
    ASSUME TypeOK
    PROVE  /\ \A i \in DOMAIN logs : logs[i].time \in Nat /\ logs[i].day \in Nat
           /\ \A h \in Handlers : now[h].time \in Nat /\ now[h].day \in Nat
           /\ clock \in Nat /\ day \in Nat
<1>1. \A i \in DOMAIN logs : logs[i] \in Rows
  BY DEF TypeOK
<1>2. \A i \in DOMAIN logs : logs[i].time \in Nat /\ logs[i].day \in Nat
  BY <1>1, KindFacts DEF Rows
<1>3. \A h \in Handlers : now[h].time \in Nat /\ now[h].day \in Nat
  BY KindFacts DEF TypeOK
<1>4. clock \in Nat /\ day \in Nat
  BY KindFacts DEF TypeOK
<1> QED BY <1>2, <1>3, <1>4

\* What is inserted.
LEMMA NewRow ==
    ASSUME TypeOK, NEW h \in Handlers, NEW s \in Statuses, Insert(h, s)
    PROVE  \E e \in Rows :
             /\ logs' = Append(logs, e)
             /\ e.by = h /\ e.student = StudentOf(h) /\ e.status = s
             /\ e.day = now[h].day /\ e.time = now[h].time
             /\ DOMAIN logs' = DOMAIN logs \cup {Len(logs) + 1}
             /\ Len(logs) + 1 \notin DOMAIN logs
             /\ \A i \in DOMAIN logs : logs'[i] = logs[i]
             /\ logs'[Len(logs) + 1] = e
<1> DEFINE e == [by |-> h, student |-> StudentOf(h), status |-> s,
                 day |-> now[h].day, time |-> now[h].time]
<1>1. now[h].day \in Days /\ now[h].time \in Nat
  BY DEF TypeOK
<1>2. e \in Rows
  BY <1>1, KindFacts DEF Rows
<1>3. logs \in Seq(Rows) /\ logs' = Append(logs, e)
  BY DEF TypeOK, Insert
<1>4. /\ e.by = h /\ e.student = StudentOf(h) /\ e.status = s
      /\ e.day = now[h].day /\ e.time = now[h].time
  OBVIOUS
<1> HIDE DEF e
<1>5. /\ Len(logs) \in Nat
      /\ DOMAIN logs = 1..Len(logs) /\ DOMAIN logs' = 1..(Len(logs) + 1)
      /\ \A i \in 1..Len(logs) : logs'[i] = logs[i]
      /\ logs'[Len(logs) + 1] = e
  BY <1>2, <1>3
<1>6. /\ DOMAIN logs' = DOMAIN logs \cup {Len(logs) + 1}
      /\ Len(logs) + 1 \notin DOMAIN logs
  BY <1>5
<1> QED BY <1>2, <1>3, <1>4, <1>5, <1>6

\* Without a new row the head count and those aboard stay the same.
LEMMA HeadsKept ==
    ASSUME Heads, logs' = logs, day' = day,
           \A i \in DOMAIN logs : before'[logs[i].by] = before[logs[i].by]
    PROVE  Heads'
<1>1. RowsOf(day)' = RowsOf(day) /\ HeadCount(day)' = HeadCount(day)
  BY DEF RowsOf, HeadCount
<1>2. Aboard(day)' = Aboard(day)
  BY <1>1 DEF Aboard
<1>3. \A r \in RowsOf(day) : before'[r.by] = before[r.by]
  BY DEF RowsOf, ToSet
<1>4. OneByOne' => OneByOne
  BY <1>1, <1>3 DEF OneByOne, Overlap
<1> QED BY <1>1, <1>2, <1>4 DEF Heads

\* A new row is counted, and takes its child aboard or off the bus.
LEMMA HeadsAdded ==
    ASSUME Sound, Toggled, NEW h \in Handlers, NEW s \in Statuses, Insert(h, s),
           day' = day, before' = before,
           \/ h \in Taps /\ pc[h] = "log" /\ s = status[h]
           \/ h \in Absences /\ pc[h] = "create"
    PROVE  Heads'
<1>0. PICK e \in Rows :
             /\ logs' = Append(logs, e)
             /\ e.by = h /\ e.student = StudentOf(h) /\ e.status = s
             /\ e.day = now[h].day /\ e.time = now[h].time
             /\ DOMAIN logs' = DOMAIN logs \cup {Len(logs) + 1}
             /\ Len(logs) + 1 \notin DOMAIN logs
             /\ \A i \in DOMAIN logs : logs'[i] = logs[i]
             /\ logs'[Len(logs) + 1] = e
  BY NewRow DEF Sound
<1>1. HeadCount(day)' = CountedOn(day, HeadCount(day), e)
  <2>1. logs \in Seq(Rows)
    BY DEF Sound, TypeOK
  <2>2. Count(day, logs') = CountedOn(day, Count(day, logs), e)
    BY <1>0, <2>1, CountAppend
  <2> QED BY <2>2 DEF HeadCount
<1>2. ToSet(logs') = ToSet(logs) \cup {e}
  BY <1>0 DEF ToSet
<1>3. CASE now[h].day # day
  <2>1. RowsOf(day)' = RowsOf(day)
    BY <1>0, <1>2, <1>3 DEF RowsOf
  <2>2. HeadCount(day)' = HeadCount(day)
    BY <1>0, <1>1, <1>3 DEF CountedOn
  <2>3. Aboard(day)' = Aboard(day)
    BY <2>1 DEF Aboard
  <2>4. OneByOne' => OneByOne
    BY <2>1 DEF OneByOne, Overlap
  <2> QED BY <2>2, <2>3, <2>4 DEF Toggled, Heads
<1>4. CASE now[h].day = day
  <2> SUFFICES ASSUME OneByOne'
               PROVE  /\ IsFiniteSet(Aboard(day)')
                      /\ HeadCount(day)' = Cardinality(Aboard(day)')
    BY DEF Heads
  <2> DEFINE c == StudentOf(h)
             W == {q \in RowsOf(day) : q.student = c}
  <2>1. RowsOf(day)' = RowsOf(day) \cup {e}
    BY <1>0, <1>2, <1>4 DEF RowsOf
  <2>2. h \in Taps /\ pc[h] = "log" /\ s = status[h]
        /\ TapOf[h].status = AutoDetect
    BY <1>0, <2>1, KindFacts DEF OneByOne
  <2>3. OneByOne
    BY <2>1 DEF OneByOne, Overlap
  <2>4. \A q \in RowsOf(day) :
           /\ q.by \in Taps /\ q.by # h /\ h \notin before[q.by]
           /\ q.student \in Students /\ q.time \in Nat /\ q.day = day
    <3>1. \A q \in RowsOf(day) : \E i \in DOMAIN logs : logs[i] = q
      BY DEF RowsOf, ToSet
    <3>2. \A i \in DOMAIN logs : logs[i].by # h
      BY <2>2 DEF Sound, Written
    <3>3. \A g \in Handlers : h \notin before[g]
      BY <2>2 DEF Sound, Places, Ended
    <3>4. \A q \in RowsOf(day) : q.by \in Taps /\ q.day = day
      BY <2>3 DEF OneByOne, RowsOf
    <3> QED BY <3>1, <3>2, <3>3, <3>4, RowFacts, RowTimes DEF Sound, Handlers
  <2>5. Today(h) = W
    <3>1. \A i \in DOMAIN logs : logs[i].day <= day
      BY RowFacts DEF Sound, Written, Places
    <3>2. \A r \in ToSet(logs) : r.day >= day <=> r.day = day
      BY <3>1, RowTimes DEF Sound, ToSet
    <3> QED BY <1>4, <3>2 DEF Today, RowsOf
  <2>6. \A q \in W : q.by \in before[h]
    <3>1. \A q \in W : ~ Overlap(q.by, h)
      BY <1>0, <2>1 DEF OneByOne, Overlap
    <3> QED BY <2>4, <3>1 DEF Overlap
  <2>7. \A q \in W : q.time < e.time
    <3>1. \A i \in DOMAIN logs : logs[i].by \in before[h] => logs[i].time < now[h].time
      BY <2>2 DEF Toggled, Timed
    <3> QED BY <1>0, <2>6, <3>1 DEF RowsOf, ToSet
  <2>8. s = IF c \in Aboard(day) THEN "ALIGHTED" ELSE "BOARDED"
    <3>1. s = Resolved(h, W)
      BY <2>2, <2>5, <2>6 DEF Toggled, Resolves
    <3>2. c \in Students
      BY KindFacts
    <3>3. c \in Aboard(day) <=> \E r \in W : /\ r.status = "BOARDED"
                                            /\ \A q \in W : q.time <= r.time
      BY <2>4, <3>2 DEF Aboard
    <3> HIDE DEF W
    <3> QED BY <2>2, <3>1, <3>3 DEF Resolved
  <2>9. \A x \in Students : x # c => (x \in Aboard(day)' <=> x \in Aboard(day))
    BY <1>0, <2>1 DEF Aboard
  <2>10. c \in Aboard(day)' <=> s = "BOARDED"
    <3>1. c \in Students /\ e.time \in Nat /\ h \in Taps
      BY <1>0, <2>2, KindFacts, RowTimes DEF Sound
    <3>2. c \in Aboard(day)' <=>
             \E r \in W \cup {e} : /\ r.status = "BOARDED"
                                   /\ \A q \in W \cup {e} : q.time <= r.time
      BY <1>0, <2>1, <2>4, <3>1 DEF Aboard
    <3>3. \A q \in W : q.time \in Nat
      BY <2>4
    <3> HIDE DEF W
    <3>4. \A r \in W : ~ (e.time <= r.time)
      BY <2>7, <3>1, <3>3
    <3>5. \A q \in W \cup {e} : q.time <= e.time
      BY <2>7, <3>1, <3>3
    <3> QED BY <1>0, <3>2, <3>4, <3>5
  <2>11. Aboard(day) \subseteq Students /\ Aboard(day)' \subseteq Students
         /\ c \in Students
    BY KindFacts DEF Aboard
  <2>12. IsFiniteSet(Aboard(day)) /\ HeadCount(day) = Cardinality(Aboard(day))
    BY <2>3 DEF Toggled, Heads
  <2>13. HeadCount(day)' = Counted(HeadCount(day), e)
    BY <1>0, <1>1, <1>4 DEF CountedOn
  <2> DEFINE A == Aboard(day)
             B == Aboard(day)'
  <2> HIDE DEF A, B, c, W
  <2>14. CASE c \in A
    <3>1. s = "ALIGHTED"
      BY <2>8, <2>14 DEF A
    <3>2. B = A \ {c}
      BY <2>9, <2>10, <2>11, <3>1 DEF A, B
    <3>3. IsFiniteSet(A) /\ Cardinality(A) \in Nat /\ Cardinality(A) > 0
      <4>1. IsFiniteSet(A)
        BY <2>12 DEF A
      <4> QED BY <2>14, <4>1, FS_CardinalityType, FS_EmptySet
    <3>4. IsFiniteSet(B) /\ Cardinality(B) = Cardinality(A) - 1
      BY <2>14, <3>2, <3>3, FS_RemoveElement
    <3>5. HeadCount(day)' = Cardinality(A) - 1
      BY <1>0, <2>12, <2>13, <3>1, <3>3 DEF Counted, A
    <3> QED BY <3>4, <3>5 DEF B
  <2>15. CASE c \notin A
    <3>1. s = "BOARDED"
      BY <2>8, <2>15 DEF A
    <3>2. B = A \cup {c}
      BY <2>9, <2>10, <2>11, <3>1 DEF A, B
    <3>3. IsFiniteSet(A)
      BY <2>12 DEF A
    <3>4. IsFiniteSet(B) /\ Cardinality(B) = Cardinality(A) + 1
      BY <2>15, <3>2, <3>3, FS_AddElement
    <3>5. HeadCount(day)' = Cardinality(A) + 1
      BY <1>0, <2>12, <2>13, <3>1 DEF Counted, A
    <3> QED BY <3>4, <3>5 DEF B
  <2> QED BY <2>14, <2>15
<1> QED BY <1>3, <1>4

\* A step of h that inserts no row.
LEMMA NoRowToggled ==
    ASSUME Sound, Toggled, NEW h \in Handlers, Others(h), logs' = logs,
           clock' \in Nat, clock <= clock',
           \A i \in DOMAIN logs : before'[logs[i].by] = before[logs[i].by],
           \A t \in Taps : t # h => status'[t] = status[t],
           pc'[h] \in {"last", "log", "find", "create"} => now'[h].time < clock',
           h \in Taps /\ pc'[h] \in {"last", "log"} =>
              \A i \in DOMAIN logs :
                 logs[i].by \in before'[h] => logs[i].time < now'[h].time,
           h \in Taps /\ pc'[h] = "log" /\ (\A r \in Today(h)' : r.by \in before'[h])
              => status'[h] = Resolved(h, Today(h)')
    PROVE  Toggled'
<1>1. Heads'
  BY HeadsKept DEF Toggled, Others
<1>2. Timed'
  <2>1. \A g \in Handlers :
           pc'[g] \in {"last", "log", "find", "create"} => now'[g].time < clock'
    BY RowTimes DEF Sound, Toggled, Timed, Others
  <2>2. \A i \in DOMAIN logs : logs[i].time < clock'
    BY RowTimes DEF Sound, Toggled, Timed
  <2>3. \A t \in Taps : pc'[t] \in {"last", "log"} =>
          \A i \in DOMAIN logs :
             logs[i].by \in before'[t] => logs[i].time < now'[t].time
    BY DEF Toggled, Timed, Others, Handlers
  <2> QED BY <2>1, <2>2, <2>3 DEF Timed
<1>3. Resolves'
  <2> SUFFICES ASSUME NEW t \in Taps, pc'[t] = "log",
                      \A r \in Today(t)' : r.by \in before'[t]
               PROVE  status'[t] = Resolved(t, Today(t)')
    BY DEF Resolves
  <2>1. CASE t = h
    BY <2>1
  <2>2. CASE t # h
    <3>1. /\ pc[t] = "log" /\ status'[t] = status[t] /\ before'[t] = before[t]
          /\ now'[t] = now[t]
      BY <2>2 DEF Others, Handlers
    <3>2. Today(t)' = Today(t)
      BY <3>1 DEF Today
    <3> QED BY <3>1, <3>2 DEF Toggled, Resolves
  <2> QED BY <2>1, <2>2
<1> QED BY <1>1, <1>2, <1>3 DEF Toggled

\* The step of h that inserts its row.
LEMMA RowToggled ==
    ASSUME Sound, Toggled, NEW h \in Handlers, NEW s \in Statuses, Insert(h, s),
           Others(h), clock' = clock, now' = now, before' = before,
           status' = status, pc'[h] = "publish",
           \/ h \in Taps /\ pc[h] = "log" /\ s = status[h]
           \/ h \in Absences /\ pc[h] = "create"
    PROVE  Toggled'
<1>0. PICK e \in Rows :
             /\ logs' = Append(logs, e)
             /\ e.by = h /\ e.student = StudentOf(h) /\ e.status = s
             /\ e.day = now[h].day /\ e.time = now[h].time
             /\ DOMAIN logs' = DOMAIN logs \cup {Len(logs) + 1}
             /\ Len(logs) + 1 \notin DOMAIN logs
             /\ \A i \in DOMAIN logs : logs'[i] = logs[i]
             /\ logs'[Len(logs) + 1] = e
  BY NewRow DEF Sound
<1>1. Heads'
  BY HeadsAdded DEF Others
<1>2. \A g \in Handlers : h \notin before[g]
  BY DEF Sound, Places, Ended
<1>3. Timed'
  <2>1. e.time < clock
    BY <1>0 DEF Toggled, Timed
  <2>2. \A i \in DOMAIN logs' : logs'[i].time < clock
    BY <1>0, <2>1 DEF Toggled, Timed
  <2>3. \A g \in Handlers :
           pc'[g] \in {"last", "log", "find", "create"} => now[g].time < clock
    BY DEF Toggled, Timed, Others
  <2>4. \A t \in Taps : pc'[t] \in {"last", "log"} =>
          \A i \in DOMAIN logs' :
             logs'[i].by \in before[t] => logs'[i].time < now[t].time
    BY <1>0, <1>2 DEF Toggled, Timed, Others, Handlers
  <2> QED BY <2>2, <2>3, <2>4 DEF Timed
<1>4. Resolves'
  <2> SUFFICES ASSUME NEW t \in Taps, pc'[t] = "log",
                      \A r \in Today(t)' : r.by \in before[t]
               PROVE  status[t] = Resolved(t, Today(t)')
    BY DEF Resolves
  <2>1. t \in Handlers /\ t # h /\ pc[t] = "log"
    BY DEF Others, Handlers
  <2>2. e \notin Today(t)'
    BY <1>0, <1>2, <2>1
  <2>3. ToSet(logs') = ToSet(logs) \cup {e}
    BY <1>0 DEF ToSet
  <2>4. Today(t)' = Today(t)
    BY <2>2, <2>3 DEF Today
  <2> QED BY <2>1, <2>4 DEF Toggled, Resolves
<1> QED BY <1>1, <1>3, <1>4 DEF Toggled

LEMMA ToggledStart == Init => Toggled
<1> SUFFICES ASSUME Init PROVE Toggled
  OBVIOUS
<1>1. logs = <<>> /\ logs \in Seq(Rows) /\ DOMAIN logs = {} /\ ToSet(logs) = {}
  BY DEF Init, ToSet
<1>2. Timed /\ Resolves
  BY <1>1 DEF Init, Timed, Resolves, Handlers
<1>3. HeadCount(day) = 0
  BY <1>1, CountNone DEF HeadCount
<1>4. Aboard(day) = {}
  BY <1>1 DEF Aboard, RowsOf
<1>5. Heads
  BY <1>3, <1>4, FS_EmptySet DEF Heads
<1> QED BY <1>2, <1>5 DEF Toggled

\* Who has a row began before and is past its insert.
LEMMA Authors ==
    ASSUME Sound
    PROVE  \A i \in DOMAIN logs : /\ logs[i].by \in Handlers
                                  /\ pc[logs[i].by] \in {"publish", "ok", "failed"}
BY RowFacts DEF Sound, Written

LEMMA ToggledStep == Sound /\ Toggled /\ [Next]_vars => Toggled'
<1> SUFFICES ASSUME Sound, Toggled, [Next]_vars PROVE Toggled'
  OBVIOUS
<1> USE KindFacts DEF Goto
<1>0. clock \in Nat /\ clock <= clock /\ TypeOK
  BY RowTimes DEF Sound
<1>1. ASSUME NEW t \in Taps, TapStart(t)
      PROVE  Toggled'
  <2>1. t \in Handlers /\ pc[t] = "idle" /\ Others(t)
    BY <1>1 DEF Sound, TypeOK, Others, Handlers, TapStart, Arrives, ReadClock
  <2>2. \A i \in DOMAIN logs : before'[logs[i].by] = before[logs[i].by]
    BY <2>1, Authors DEF Others
  <2>3. CASE TapOf[t].allowed
    <3>1. clock' = clock + 1 /\ now'[t].time = clock /\ pc'[t] = "last"
      BY <1>0, <1>1, <2>1, <2>3 DEF TypeOK, TapStart, ReadClock
    <3>2. \A i \in DOMAIN logs : logs[i].time < now'[t].time
      BY <3>1 DEF Toggled, Timed
    <3>3. clock' \in Nat /\ clock <= clock' /\ now'[t].time < clock'
      BY <1>0, <3>1
    <3>4. logs' = logs /\ status' = status
      BY <1>1 DEF TapStart
    <3> QED BY <2>1, <2>2, <3>1, <3>2, <3>3, <3>4, NoRowToggled
  <2>4. CASE ~TapOf[t].allowed
    <3>1. clock' = clock /\ pc'[t] = "refused" /\ logs' = logs /\ status' = status
      BY <1>0, <1>1, <2>1, <2>4 DEF TypeOK, TapStart
    <3> QED BY <1>0, <2>1, <2>2, <3>1, NoRowToggled
  <2> QED BY <2>3, <2>4
<1>2. ASSUME NEW t \in Taps, TapLast(t)
      PROVE  Toggled'
  <2>1. /\ t \in Handlers /\ Others(t) /\ pc[t] = "last" /\ pc'[t] = "log"
        /\ UNCHANGED <<logs, clock, now, before>>
    BY <1>0, <1>2 DEF TypeOK, Others, Handlers, TapLast
  <2>2. status'[t] = Resolved(t, Today(t))
        /\ \A u \in Taps : u # t => status'[u] = status[u]
    BY <1>0, <1>2 DEF TypeOK, TapLast
  <2>3. Today(t)' = Today(t)
    BY <2>1 DEF Today
  <2>4. now[t].time < clock
        /\ \A i \in DOMAIN logs : logs[i].by \in before[t] => logs[i].time < now[t].time
    BY <2>1 DEF Toggled, Timed
  <2> QED BY <1>0, <2>1, <2>2, <2>3, <2>4, NoRowToggled
<1>3. ASSUME NEW t \in Taps, TapLog(t)
      PROVE  Toggled'
  <2>1. /\ t \in Handlers /\ Others(t) /\ pc[t] = "log" /\ pc'[t] = "publish"
        /\ UNCHANGED <<clock, now, before, status>>
    BY <1>0, <1>3 DEF TypeOK, Others, Handlers, TapLog
  <2>2. status[t] \in Statuses /\ Insert(t, status[t])
    BY <1>0, <1>3 DEF TypeOK, TapLog
  <2> QED BY <2>1, <2>2, RowToggled
<1>4. ASSUME NEW a \in Absences, AbsenceStart(a)
      PROVE  Toggled'
  <2>1. /\ a \in Handlers /\ a \notin Taps /\ pc[a] = "idle" /\ Others(a)
        /\ pc'[a] \in {"redis", "refused"}
        /\ UNCHANGED <<logs, clock, status>>
    BY <1>0, <1>4 DEF TypeOK, Others, Handlers, AbsenceStart, Arrives
  <2>2. \A i \in DOMAIN logs : before'[logs[i].by] = before[logs[i].by]
    BY <2>1, Authors DEF Others
  <2> QED BY <1>0, <2>1, <2>2, NoRowToggled
<1>5. ASSUME NEW a \in Absences, AbsenceSkip(a) \/ SkipRefused(a)
      PROVE  Toggled'
  <2>1. /\ a \in Handlers /\ a \notin Taps /\ Others(a)
        /\ UNCHANGED <<logs, before, status>>
    BY <1>0, <1>5 DEF TypeOK, Others, Handlers, AbsenceSkip, SkipRefused, ReadClock
  <2>2. clock' = clock + 1 /\ now'[a].time = clock
    BY <1>0, <1>5, <2>1 DEF TypeOK, AbsenceSkip, SkipRefused, ReadClock
  <2>3. clock' \in Nat /\ clock <= clock' /\ now'[a].time < clock'
    BY <1>0, <2>2
  <2> QED BY <2>1, <2>3, NoRowToggled
<1>6. ASSUME NEW a \in Absences, AbsenceFind(a)
      PROVE  Toggled'
  <2>1. /\ a \in Handlers /\ a \notin Taps /\ Others(a) /\ pc[a] = "find"
        /\ UNCHANGED <<logs, clock, now, before, status>>
    BY <1>0, <1>6 DEF TypeOK, Others, Handlers, AbsenceFind
  <2>2. now[a].time < clock
    BY <2>1 DEF Toggled, Timed
  <2> QED BY <1>0, <2>1, <2>2, NoRowToggled
<1>7. ASSUME NEW a \in Absences, AbsenceCreate(a)
      PROVE  Toggled'
  <2>1. /\ a \in Handlers /\ Others(a) /\ pc[a] = "create" /\ pc'[a] = "publish"
        /\ UNCHANGED <<clock, now, before, status>>
        /\ "ABSENT" \in Statuses /\ Insert(a, "ABSENT")
    BY <1>0, <1>7 DEF TypeOK, Others, Handlers, AbsenceCreate, Statuses
  <2> QED BY <2>1, RowToggled
<1>8. ASSUME NEW h \in Handlers, Publish(h) \/ Fail(h)
      PROVE  Toggled'
  <2>1. /\ Others(h) /\ pc'[h] \in {"ok", "failed"}
        /\ UNCHANGED <<logs, clock, now, before, status>>
    BY <1>0, <1>8 DEF TypeOK, Others, Publish, Fail
  <2> QED BY <1>0, <2>1, NoRowToggled
<1>9. ASSUME NEW d \in Days, Expire(d)
      PROVE  Toggled'
  <2>1. UNCHANGED <<logs, day, clock, pc, now, status, before>>
    BY <1>9 DEF Expire
  <2>2. Timed' /\ Resolves'
    BY <2>1 DEF Toggled, Timed, Resolves, Today
  <2> QED BY <2>1, <2>2, HeadsKept DEF Toggled
<1>10. CASE NextDay
  <2>1. UNCHANGED <<logs, clock, pc, now, status, before>> /\ day' = day + 1
    BY <1>10 DEF NextDay
  <2>2. Timed' /\ Resolves'
    BY <2>1 DEF Toggled, Timed, Resolves, Today
  <2>3. \A i \in DOMAIN logs : logs[i].day # day'
    BY <2>1, RowFacts, RowTimes DEF Sound, Written, Places
  <2>4. HeadCount(day)' = 0
    BY <1>0, <2>1, <2>3, CountNone DEF HeadCount, TypeOK
  <2>5. RowsOf(day)' = {}
    BY <2>1, <2>3 DEF RowsOf, ToSet
  <2>6. Aboard(day)' = {}
    BY <2>5 DEF Aboard
  <2> QED BY <2>2, <2>4, <2>6, FS_EmptySet DEF Toggled, Heads
<1>11. CASE UNCHANGED vars
  <2>1. UNCHANGED <<logs, day, clock, pc, now, status, before>>
    BY <1>11 DEF vars
  <2>2. Timed' /\ Resolves'
    BY <2>1 DEF Toggled, Timed, Resolves, Today
  <2> QED BY <2>1, <2>2, HeadsKept DEF Toggled
<1> QED BY <1>1, <1>2, <1>3, <1>4, <1>5, <1>6, <1>7, <1>8, <1>9, <1>10, <1>11
        DEF Next, Quiet

\* The passenger count of the fleet is the number of children whose latest tap
\* is BOARDED, on every day without absences and without a card tapped twice at
\* once, however the taps of different children overlap and fail.
THEOREM CountsThoseAboard == Spec => []HeadCountIsAboard
<1>1. Init => Toggled
  BY ToggledStart
<1>2. Sound /\ Toggled /\ [Next]_vars => Toggled'
  BY ToggledStep
<1>3. Toggled => HeadCountIsAboard
  BY DEF Toggled, Heads, OneByOne, HeadCountIsAboard
<1> QED BY <1>1, <1>2, <1>3, AlwaysSound, PTL DEF Spec
=============================================================================
