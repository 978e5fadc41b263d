---------------------------- MODULE Substitution ----------------------------
(***************************************************************************)
(* Al-Ihtiyat, the automatic substitution of absent teachers:              *)
(* SubstitutionService of src/backend/src/academic/services.               *)
(*                                                                         *)
(* One date is modelled, substitutions of different dates share no row and *)
(* no query.  A report of an absence is handled slot by slot; a step is    *)
(* the code between two queries of teacher_substitutions, the only table   *)
(* that changes.  There is no transaction: every upsert commits alone, so  *)
(* what a query found can be out of date when its result is written.       *)
(***************************************************************************)
EXTENDS Naturals, FiniteSets

CONSTANTS
    Teachers, Departments, Subjects,
    Slots,          \* timetable slots of the weekday
    SlotOf,         \* slot -> [teacher, period, dept, subject]
    Substitutable,  \* teachers with isSubstitutable = true
    RoleDepts,      \* teacher -> departments of its roles, AnyDept: school-wide
    TeachesIn,      \* teacher -> departments of its slots on any weekday
    QualifiedFor,   \* teacher -> subjects among its qualifications
    SpecialisedIn,  \* teacher -> subjects its free-text specialisations match
    Unavailable,    \* pairs <<teacher, period>> with isAvailable = false
    Reports,        \* reports of an absence
    AbsentOf,       \* report -> the absent teacher
    MaxInFlight,    \* bound: reports handled at the same time
    AnyDept, None

ASSUME TimetableAssumption ==
    /\ SlotOf \in [Slots -> [teacher: Teachers, period: Nat,
                             dept: Departments, subject: Subjects]]
    /\ AbsentOf \in [Reports -> Teachers]
    /\ Substitutable \subseteq Teachers

ASSUME BoundAssumption ==
    /\ MaxInFlight \in Nat /\ IsFiniteSet(Reports)
    /\ None \notin Teachers \cup Slots

VARIABLES
    subs,    \* slot -> its row of teacher_substitutions for the date
    pc,      \* report -> where it stands, or how it was answered
    cur,     \* report -> the slot of the loop, while it stands in the loop
    todo,    \* report -> the slots still to come
    tried,   \* report -> candidates that were found busy for this slot
    pick     \* report -> the candidate found for this slot, or None

vars == <<subs, pc, cur, todo, tried, pick>>

Active == {"search", "upsert", "notify"}

NoRow == [status |-> "NONE", substitute |-> None]

Rows == [status: {"NONE", "PENDING", "AUTO_ASSIGNED"},
         substitute: Teachers \cup {None}]

Period(x)  == SlotOf[x].period
SlotsOf(t) == {x \in Slots : SlotOf[x].teacher = t}

Init ==
    /\ subs = [x \in Slots |-> NoRow]
    /\ pc = [h \in Reports |-> "idle"]
    /\ cur = [h \in Reports |-> None]
    /\ todo = [h \in Reports |-> {}]
    /\ tried = [h \in Reports |-> {}]
    /\ pick = [h \in Reports |-> None]

Goto(h, place) == pc' = [pc EXCEPT ![h] = place]
-----------------------------------------------------------------------------
(* findBestSubstitute *)

InDepartment(c, x) ==
    \/ RoleDepts[c] \cap {SlotOf[x].dept, AnyDept} # {}
    \/ SlotOf[x].dept \in TeachesIn[c]
    \/ SlotOf[x].subject \in QualifiedFor[c]

Qualified(c, x) == SlotOf[x].subject \in QualifiedFor[c] \cup SpecialisedIn[c]

Teaching(c, p) == \E y \in SlotsOf(c) : Period(y) = p

\* The teachers that pass the checks on the timetable and the profiles.
Candidates(x) ==
    {c \in Substitutable : /\ c # SlotOf[x].teacher
                           /\ InDepartment(c, x) /\ Qualified(c, x)
                           /\ <<c, Period(x)>> \notin Unavailable
                           /\ ~Teaching(c, Period(x))}

\* Mutant of Busy: only what the substitute has accepted counts.
BusyAccepted(c, p) ==
    \E y \in Slots : /\ subs[y].substitute = c /\ Period(y) = p
                     /\ subs[y].status \in {"ACCEPTED"}

\* Mutant of Busy: the filter on the period is missing.
BusyAllDay(c, p) == \E y \in Slots : subs[y].substitute = c

\* The conflict query; its filter lists every status the code ever writes.
Busy(c, p) == \E y \in Slots : subs[y].substitute = c /\ Period(y) = p

\* The next candidate, in whatever order the database returned them.
Consider(h) ==
    /\ pc[h] = "search"
    /\ \E c \in Candidates(cur[h]) \ tried[h] :
          IF Busy(c, Period(cur[h]))
          THEN /\ tried' = [tried EXCEPT ![h] = @ \cup {c}]
               /\ UNCHANGED <<pc, pick>>
          ELSE /\ pick' = [pick EXCEPT ![h] = c]
               /\ Goto(h, "upsert")
               /\ UNCHANGED tried
    /\ UNCHANGED <<subs, cur, todo>>

Exhaust(h) ==
    /\ pc[h] = "search"
    /\ Candidates(cur[h]) \subseteq tried[h]
    /\ pick' = [pick EXCEPT ![h] = None]
    /\ Goto(h, "upsert")
    /\ UNCHANGED <<subs, cur, todo, tried>>
-----------------------------------------------------------------------------
(* handleTeacherAbsence *)

\* The loop goes on with a slot of the earliest period left, or answers.
NextSlot(h, rest) ==
    IF rest = {}
    THEN Goto(h, "ok") /\ UNCHANGED <<cur, todo, tried>>
    ELSE /\ \E x \in rest :
               /\ \A y \in rest : Period(x) <= Period(y)
               /\ cur' = [cur EXCEPT ![h] = x]
               /\ todo' = [todo EXCEPT ![h] = rest \ {x}]
         /\ tried' = [tried EXCEPT ![h] = {}]
         /\ Goto(h, "search")

Report(h) ==
    /\ pc[h] = "idle"
    /\ Cardinality({g \in Reports : pc[g] \in Active}) < MaxInFlight
    /\ NextSlot(h, SlotsOf(AbsentOf[h]))
    /\ UNCHANGED <<subs, pick>>

\* Mutant of RowFor: the status is the word of the response, UNASSIGNED.
RowForResponse(c) ==
    [status |-> IF c = None THEN "UNASSIGNED" ELSE "AUTO_ASSIGNED",
     substitute |-> c]

RowFor(c) == [status |-> IF c = None THEN "PENDING" ELSE "AUTO_ASSIGNED",
              substitute |-> c]

\* Mutant of Upsert: a slot without a candidate is answered, not recorded.
UpsertAssigned(h) ==
    /\ pc[h] = "upsert"
    /\ IF pick[h] = None
       THEN NextSlot(h, todo[h]) /\ UNCHANGED subs
       ELSE /\ subs' = [subs EXCEPT ![cur[h]] = RowFor(pick[h])]
            /\ Goto(h, "notify") /\ UNCHANGED <<cur, todo, tried>>
    /\ UNCHANGED pick

\* The row keyed by slot and date is written over, whatever it says by now.
Upsert(h) ==
    /\ pc[h] = "upsert"
    /\ subs' = [subs EXCEPT ![cur[h]] = RowFor(pick[h])]
    /\ IF pick[h] = None
       THEN NextSlot(h, todo[h])
       ELSE Goto(h, "notify") /\ UNCHANGED <<cur, todo, tried>>
    /\ UNCHANGED pick

\* The publish to the substitute; that it failed is logged and forgotten.
Notify(h) ==
    /\ pc[h] = "notify"
    /\ NextSlot(h, todo[h])
    /\ UNCHANGED <<subs, pick>>

\* A query or the process fails: the slots handled so far stay as they are.
Fail(h) ==
    /\ pc[h] \in Active
    /\ Goto(h, "failed")
    /\ UNCHANGED <<subs, cur, todo, tried, pick>>

\* Every report is answered.
Quiet == /\ \A h \in Reports : pc[h] \in {"ok", "failed"}
         /\ UNCHANGED vars

Next == \/ \E h \in Reports : \/ Report(h) \/ Consider(h) \/ Exhaust(h)
                              \/ Upsert(h) \/ Notify(h) \/ Fail(h)
        \/ Quiet

Spec == Init /\ [][Next]_vars
-----------------------------------------------------------------------------
(* Properties *)

\* The rows and the locals of handleTeacherAbsence keep their types.
TypeOK ==
    /\ subs \in [Slots -> Rows]
    /\ pc \in [Reports -> {"idle", "ok", "failed"} \cup Active]
    /\ cur \in [Reports -> Slots \cup {None}]
    /\ todo \in [Reports -> SUBSET Slots]
    /\ tried \in [Reports -> SUBSET Teachers]
    /\ pick \in [Reports -> Teachers \cup {None}]

\* The verified free period of findBestSubstitute: a substitute is never sent
\* to two classrooms in one period, neither by two substitutions nor by one
\* and its own timetable.
InOnePlace ==
    \A x \in Slots : subs[x].substitute # None =>
        /\ ~Teaching(subs[x].substitute, Period(x))
        /\ \A y \in Slots : /\ y # x
                            /\ subs[y].substitute = subs[x].substitute
                            => Period(y) # Period(x)

\* A report that was answered has left no slot of the absent teacher without
\* a row: each is covered or flagged for manual intervention, whatever failed
\* or was repeated before.
OkMeansHandled ==
    \A h \in Reports : pc[h] = "ok" =>
        \A x \in SlotsOf(AbsentOf[h]) : subs[x] # NoRow

TurnsPending(x) == subs[x].status # "PENDING" /\ subs'[x].status = "PENDING"

NobodyFree(x) ==
    \A c \in Candidates(x) :
        \E y \in Slots : /\ y # x /\ Period(y) = Period(x)
                         /\ subs[y].substitute = c

\* A slot handled for the first time is flagged PENDING only when every
\* eligible teacher is in another classroom in that period.
FirstPendingIsTrue ==
    [][\A x \in Slots : subs[x] = NoRow /\ TurnsPending(x) => NobodyFree(x)]_vars

\* The reason in the response, "No qualified substitute teacher with a free
\* period found", is true of every slot that is flagged PENDING.
PendingIsTrue == [][\A x \in Slots : TurnsPending(x) => NobodyFree(x)]_vars
=============================================================================
