-------------------------------- MODULE Ptm --------------------------------
(***************************************************************************)
(* Booking of parent-teacher conference slots: PtmService of               *)
(* src/backend/src/academic/services.                                      *)
(*                                                                         *)
(* A step of a booking request is the code between two awaits.  The last   *)
(* three steps are one PostgreSQL transaction at READ COMMITTED: the       *)
(* UPDATE of the slot keeps its row lock until the commit, an UPDATE of    *)
(* another transaction waits for that lock and then evaluates its WHERE    *)
(* clause again, and nobody sees a slot or a booking before the commit.    *)
(***************************************************************************)
EXTENDS Naturals, FiniteSets

CONSTANTS
    Slots,       \* slots the staff may create
    Cycles,      \* conference cycles the staff may create
    OpenCycles,  \* the cycles whose isOpen is true
    CycleOf,     \* slot -> its cycle
    TeacherOf,   \* slot -> its teacher
    Requests,    \* booking requests
    RequestOf,   \* request -> [parent, student, slot]
    Parents, Students,
    Links,       \* parentStudentLink: pairs <<parent, student>>
    ClassOf,     \* student -> classroom of the active enrollment
    Teaches,     \* pairs <<teacher, classroom>>: homeroom or timetable
    NoParent, NoClass, Nobody

ASSUME RequestAssumption ==
    /\ OpenCycles \subseteq Cycles
    /\ CycleOf \in [Slots -> Cycles]
    /\ RequestOf \in [Requests -> [parent: Parents \cup {NoParent},
                                   student: Students, slot: Slots]]

ASSUME DistinctAssumption == Nobody \notin Requests

VARIABLES
    cycles,    \* rows of ptm_cycles
    status,    \* slot -> status of its committed row, NONE before there is one
    bookings,  \* committed rows of ptm_bookings
    lock,      \* slot -> the transaction that holds its row lock, or Nobody
    pc         \* request -> where it stands, or how it was answered

vars == <<cycles, status, bookings, lock, pc>>

Active   == {"slot", "class", "teacher", "update", "insert", "commit"}
Answers  == {"ok", "refused", "conflict", "failed"}
Statuses == {"NONE", "AVAILABLE", "BOOKED"}

SlotOf(r)   == RequestOf[r].slot
Linked(r)   == <<RequestOf[r].parent, RequestOf[r].student>> \in Links
Enrolled(r) == ClassOf[RequestOf[r].student] # NoClass
Taught(r)   == <<TeacherOf[SlotOf(r)], ClassOf[RequestOf[r].student]>> \in Teaches

BookingRows == [by: Requests, slot: Slots, parent: Parents \cup {NoParent},
                student: Students]

\* Mutant of BookingOf: the two user ids change places.
BookingSwapped(r) ==
    [by |-> r, slot |-> SlotOf(r), parent |-> RequestOf[r].student,
     student |-> RequestOf[r].parent]

\* The row the transaction inserts; `by' says which request inserted it.
BookingOf(r) ==
    [by |-> r, slot |-> SlotOf(r), parent |-> RequestOf[r].parent,
     student |-> RequestOf[r].student]

Init ==
    /\ cycles = {}
    /\ status = [s \in Slots |-> "NONE"]
    /\ bookings = {}
    /\ lock = [s \in Slots |-> Nobody]
    /\ pc = [r \in Requests |-> "idle"]

Goto(r, place) == pc' = [pc EXCEPT ![r] = place]

Lock(s, who) == lock' = [lock EXCEPT ![s] = who]

\* The transaction of r ends: its row lock, if it has one, is released.
Release(r) == lock' = [lock EXCEPT ![SlotOf(r)] = IF @ = r THEN Nobody ELSE @]
-----------------------------------------------------------------------------
(* createCycle and createSlot: one INSERT each *)

CreateCycle(c) ==
    /\ c \notin cycles
    /\ cycles' = cycles \cup {c}
    /\ UNCHANGED <<status, bookings, lock, pc>>

CreateSlot(s) ==
    /\ status[s] = "NONE"
    /\ CycleOf[s] \in cycles
    /\ status' = [status EXCEPT ![s] = "AVAILABLE"]
    /\ UNCHANGED <<cycles, bookings, lock, pc>>
-----------------------------------------------------------------------------
(* bookSlot: the checks, each on what one query returns *)

CheckLink(r) ==
    /\ pc[r] = "idle"
    /\ Goto(r, IF RequestOf[r].parent # NoParent /\ Linked(r)
               THEN "slot" ELSE "refused")
    /\ UNCHANGED <<cycles, status, bookings, lock>>

CheckSlot(r) ==
    LET s == SlotOf(r)
    IN  /\ pc[r] = "slot"
        /\ Goto(r, IF status[s] = "NONE" \/ CycleOf[s] \notin OpenCycles
                   THEN "refused"
                   ELSE IF status[s] # "AVAILABLE" THEN "conflict" ELSE "class")
        /\ UNCHANGED <<cycles, status, bookings, lock>>

CheckClass(r) ==
    /\ pc[r] = "class"
    /\ Goto(r, IF Enrolled(r) THEN "teacher" ELSE "refused")
    /\ UNCHANGED <<cycles, status, bookings, lock>>

\* Mutant of CheckTeacher: any enrolled student may see any teacher.
CheckTeacherNever(r) ==
    /\ pc[r] = "teacher"
    /\ Goto(r, "update")
    /\ UNCHANGED <<cycles, status, bookings, lock>>

CheckTeacher(r) ==
    /\ pc[r] = "teacher"
    /\ Goto(r, IF Taught(r) THEN "update" ELSE "refused")
    /\ UNCHANGED <<cycles, status, bookings, lock>>
-----------------------------------------------------------------------------
(* bookSlot: the transaction *)

\* Mutant of Update: the UPDATE runs outside the transaction.
UpdateOutside(r) ==
    /\ pc[r] = "update"
    /\ IF status[SlotOf(r)] = "AVAILABLE"
       THEN status' = [status EXCEPT ![SlotOf(r)] = "BOOKED"] /\ Goto(r, "insert")
       ELSE Goto(r, "conflict") /\ UNCHANGED status
    /\ UNCHANGED <<cycles, bookings, lock>>

\* Mutant of Update: a locked row counts as no row (SKIP LOCKED).
UpdateSkipsLocked(r) ==
    LET s == SlotOf(r)
    IN  /\ pc[r] = "update"
        /\ IF status[s] = "AVAILABLE" /\ lock[s] = Nobody
           THEN Lock(s, r) /\ Goto(r, "insert")
           ELSE Goto(r, "conflict") /\ UNCHANGED lock
        /\ UNCHANGED <<cycles, status, bookings>>

\* updateMany WHERE status = AVAILABLE waits for the row lock, then decides.
Update(r) ==
    LET s == SlotOf(r)
    IN  /\ pc[r] = "update"
        /\ lock[s] = Nobody
        /\ IF status[s] = "AVAILABLE"
           THEN Lock(s, r) /\ Goto(r, "insert")
           ELSE Goto(r, "conflict") /\ UNCHANGED lock
        /\ UNCHANGED <<cycles, status, bookings>>

\* slotId is unique in ptm_bookings: P2002 rolls back and answers 409.
Insert(r) ==
    /\ pc[r] = "insert"
    /\ IF \E b \in bookings : b.slot = SlotOf(r)
       THEN Goto(r, "conflict") /\ Release(r)
       ELSE Goto(r, "commit") /\ UNCHANGED lock
    /\ UNCHANGED <<cycles, status, bookings>>

\* The commit publishes both rows; its acknowledgement can be lost.
Commit(r) ==
    /\ pc[r] = "commit"
    /\ status' = [status EXCEPT ![SlotOf(r)] = "BOOKED"]
    /\ bookings' = bookings \cup {BookingOf(r)}
    /\ \E answer \in {"ok", "failed"} : Goto(r, answer)
    /\ Release(r)
    /\ UNCHANGED cycles

\* Mutant of Fail: the connection goes back to the pool with its lock.
FailHoldsLock(r) ==
    /\ pc[r] \in Active
    /\ Goto(r, "failed")
    /\ UNCHANGED <<cycles, status, bookings, lock>>

\* A statement or the process fails, or the transaction times out: it is
\* rolled back and the client sees an error.
Fail(r) ==
    /\ pc[r] \in Active
    /\ Goto(r, "failed")
    /\ Release(r)
    /\ UNCHANGED <<cycles, status, bookings>>

Step(r) == \/ CheckLink(r) \/ CheckSlot(r) \/ CheckClass(r) \/ CheckTeacher(r)
           \/ Update(r) \/ Insert(r) \/ Commit(r)

\* All is created and answered: no request is left to move.
Quiet == /\ cycles = Cycles
         /\ \A s \in Slots : status[s] # "NONE"
         /\ \A r \in Requests : pc[r] \in Answers
         /\ UNCHANGED vars

Next == \/ \E c \in Cycles : CreateCycle(c)
        \/ \E s \in Slots : CreateSlot(s)
        \/ \E r \in Requests : Step(r) \/ Fail(r)
        \/ Quiet

Spec == Init /\ [][Next]_vars

\* A request that has arrived is run to its end: the event loop resumes every
\* settled await and the database grants a row lock that is free.
Advance(r) == pc[r] # "idle" /\ Step(r)

FairSpec == Spec /\ \A r \in Requests : WF_vars(Advance(r))
-----------------------------------------------------------------------------
(* Properties *)

\* Every variable of bookSlot, createSlot and createCycle has its type.
TypeOK ==
    /\ cycles \subseteq Cycles
    /\ status \in [Slots -> Statuses]
    /\ bookings \subseteq BookingRows
    /\ lock \in [Slots -> Requests \cup {Nobody}]
    /\ pc \in [Requests -> {"idle"} \cup Active \cup Answers]

\* The two rows the transaction of bookSlot writes agree, whatever failed in
\* between: a slot is BOOKED exactly when one booking names it, and no slot
\* has two.
BookedOnce ==
    \A s \in Slots :
        /\ status[s] = "BOOKED" <=> \E b \in bookings : b.slot = s
        /\ \A b, c \in bookings : b.slot = s /\ c.slot = s => b = c

\* The 409 of bookSlot is true: whoever is told "Slot already booked" lost to
\* a booking that is committed, never to one that rolled back.
ConflictIsTrue ==
    \A r \in Requests : pc[r] = "conflict" =>
        \E b \in bookings : b.slot = SlotOf(r) /\ b.by # r

\* No caller of bookSlot waits for ever, those blocked on the row lock of a
\* competing transaction that fails included.
Answered == \A r \in Requests : pc[r] \in Active ~> pc[r] \in Answers

\* What SlotGrants sees of the state.
Offered == {s \in Slots : status[s] # "NONE"}

BookingsOf(s) == {b \in bookings : b.slot = s}

Holder == [s \in Slots |-> IF BookingsOf(s) = {} THEN Nobody
                           ELSE (CHOOSE b \in BookingsOf(s) : TRUE).by]

Told(place) == IF place = "ok" THEN "won"
               ELSE IF place = "conflict" THEN "taken"
               ELSE IF place \in {"refused", "failed"} THEN "other" ELSE "none"

ToldTo == [r \in Requests |-> Told(pc[r])]

Entitled == {r \in Requests : /\ RequestOf[r].parent # NoParent
                              /\ Linked(r) /\ Enrolled(r) /\ Taught(r)
                              /\ CycleOf[SlotOf(r)] \in OpenCycles}

Grants == INSTANCE SlotGrants WITH
    Wanted <- [r \in Requests |-> SlotOf(r)], Eligible <- Entitled,
    offered <- Offered, holder <- Holder, answer <- ToldTo

\* bookSlot keeps the promise of SlotGrants: whatever the interleaving, a slot
\* goes to one eligible request, for good, and the answers say so.
KeepsPromise == Grants!Spec
=============================================================================
