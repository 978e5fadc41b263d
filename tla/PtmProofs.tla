----------------------------- MODULE PtmProofs -----------------------------
(***************************************************************************)
(* Proofs about the booking of conference slots, for any number of slots,  *)
(* cycles and concurrent requests.                                         *)
(*                                                                         *)
(* The invariant follows the transaction: whoever is between the UPDATE    *)
(* and the commit holds the row lock of a slot that is still AVAILABLE,    *)
(* so nobody else is there and the commit finds no other booking.          *)
(***************************************************************************)
EXTENDS Ptm, TLAPS

InTransaction == {"insert", "commit"}

\* The row lock is held from the UPDATE to the commit or the rollback.
LockHeld ==
    \A r \in Requests : pc[r] \in InTransaction =>
        lock[SlotOf(r)] = r /\ status[SlotOf(r)] = "AVAILABLE"

\* A booking belongs to a request that has been answered.
BookedByAnswered ==
    \A b \in bookings : b.slot = SlotOf(b.by) /\ pc[b.by] \in {"ok", "failed"}

\* What the checks have established, at each place of bookSlot.
ChecksPassed ==
    \A r \in Requests :
        /\ pc[r] \in Active => RequestOf[r].parent # NoParent /\ Linked(r)
        /\ pc[r] \in Active \ {"slot"} =>
              status[SlotOf(r)] # "NONE" /\ CycleOf[SlotOf(r)] \in OpenCycles
        /\ pc[r] \in Active \ {"slot", "class"} => Enrolled(r)
        /\ pc[r] \in Active \ {"slot", "class", "teacher"} => Taught(r)

IInv == TypeOK /\ LockHeld /\ BookedByAnswered /\ ChecksPassed
               /\ BookedOnce /\ ConflictIsTrue
-----------------------------------------------------------------------------
LEMMA RequestFacts ==
    ASSUME NEW r \in Requests
    PROVE  /\ SlotOf(r) \in Slots
           /\ BookingOf(r) \in BookingRows
           /\ BookingOf(r).slot = SlotOf(r) /\ BookingOf(r).by = r
BY RequestAssumption DEF SlotOf, BookingOf, BookingRows

\* The initial state satisfies the invariant.
LEMMA InitIInv == Init => IInv
BY DEF Init, IInv, TypeOK, LockHeld, BookedByAnswered, ChecksPassed, BookedOnce,
       ConflictIsTrue, InTransaction, Active, Answers, Statuses, BookingRows

\* Types survive every step.
LEMMA NextTypeOK == TypeOK /\ [Next]_vars => TypeOK'
<1> SUFFICES ASSUME TypeOK, [Next]_vars PROVE TypeOK'
  OBVIOUS
<1> USE RequestFacts DEF TypeOK
<1>1. ASSUME NEW c \in Cycles, CreateCycle(c) PROVE TypeOK'
  BY <1>1 DEF CreateCycle
<1>2. ASSUME NEW s \in Slots, CreateSlot(s) PROVE TypeOK'
  BY <1>2 DEF CreateSlot, Statuses
<1>3. ASSUME NEW r \in Requests, Step(r) \/ Fail(r) PROVE TypeOK'
  <2>1. CASE CheckLink(r)
    BY <2>1 DEF CheckLink, Goto, Active, Answers
  <2>2. CASE CheckSlot(r)
    BY <2>2 DEF CheckSlot, Goto, Active, Answers
  <2>3. CASE CheckClass(r)
    BY <2>3 DEF CheckClass, Goto, Active, Answers
  <2>4. CASE CheckTeacher(r)
    BY <2>4 DEF CheckTeacher, Goto, Active, Answers
  <2>5. CASE Update(r)
    BY <2>5 DEF Update, Goto, Lock, Active, Answers
  <2>6. CASE Insert(r)
    BY <2>6 DEF Insert, Goto, Release, Active, Answers
  <2>7. CASE Commit(r)
    BY <2>7 DEF Commit, Goto, Release, Active, Answers, Statuses
  <2>8. CASE Fail(r)
    BY <2>8 DEF Fail, Goto, Release, Active, Answers
  <2> QED
    BY <1>3, <2>1, <2>2, <2>3, <2>4, <2>5, <2>6, <2>7, <2>8 DEF Step
<1>4. CASE UNCHANGED vars
  BY <1>4 DEF vars
<1> QED
  BY <1>1, <1>2, <1>3, <1>4 DEF Next, Quiet
-----------------------------------------------------------------------------
(* One lemma per kind of step: the invariant survives it *)

LEMMA StaffStep ==
    ASSUME IInv, TypeOK',
           \/ \E c \in Cycles : CreateCycle(c)
           \/ \E s \in Slots : CreateSlot(s)
           \/ UNCHANGED vars
    PROVE  IInv'
<1> USE DEF IInv, TypeOK, LockHeld, BookedByAnswered, ChecksPassed, BookedOnce,
            ConflictIsTrue, InTransaction, Linked, Enrolled, Taught
<1>1. ASSUME NEW c \in Cycles, CreateCycle(c) PROVE IInv'
  BY <1>1 DEF CreateCycle
<1>2. ASSUME NEW s \in Slots, CreateSlot(s) PROVE IInv'
  <2>1. /\ pc' = pc /\ lock' = lock /\ bookings' = bookings
        /\ status[s] = "NONE" /\ status' = [status EXCEPT ![s] = "AVAILABLE"]
    BY <1>2 DEF CreateSlot
  <2>2. LockHeld'
    BY <2>1, RequestFacts
  <2>3. ChecksPassed'
    BY <2>1, RequestFacts
  <2>4. BookedOnce'
    BY <2>1
  <2> QED
    BY <2>1, <2>2, <2>3, <2>4
<1>3. CASE UNCHANGED vars
  BY <1>3 DEF vars
<1> QED
  BY <1>1, <1>2, <1>3

\* A request moves and no row changes: the checks, a 409, a failure.
Moves(r, place) ==
    /\ Goto(r, place)
    /\ UNCHANGED <<cycles, status, bookings>>
    /\ lock' = lock \/ Release(r)
    /\ pc[r] \in {"idle"} \cup Active
    /\ place \in {"slot", "class", "teacher", "update", "refused", "conflict",
                  "failed"}
    /\ place = "conflict" => BookingsOf(SlotOf(r)) # {}
    /\ place \in Active =>
          /\ RequestOf[r].parent # NoParent /\ Linked(r)
          /\ place # "slot" => /\ status[SlotOf(r)] # "NONE"
                               /\ CycleOf[SlotOf(r)] \in OpenCycles
          /\ place \notin {"slot", "class"} => Enrolled(r)
          /\ place \notin {"slot", "class", "teacher"} => Taught(r)

\* The UPDATE takes the row lock of an AVAILABLE slot.
Locks(r) ==
    /\ pc[r] = "update" /\ lock[SlotOf(r)] = Nobody
    /\ status[SlotOf(r)] = "AVAILABLE"
    /\ Lock(SlotOf(r), r) /\ Goto(r, "insert")
    /\ UNCHANGED <<cycles, status, bookings>>

LEMMA MoveStep ==
    ASSUME IInv, TypeOK', NEW r \in Requests, NEW place, Moves(r, place)
    PROVE  IInv'
<1> USE DEF Moves
<1>1. /\ \A q \in Requests : pc'[q] = IF q = r THEN place ELSE pc[q]
      /\ status' = status /\ bookings' = bookings
  BY DEF Goto, IInv, TypeOK
<1>2. LockHeld'
  BY <1>1, RequestFacts DEF IInv, TypeOK, LockHeld, InTransaction, Release
<1>3. BookedByAnswered'
  BY <1>1 DEF IInv, TypeOK, BookedByAnswered, BookingRows, Active
<1>4. ChecksPassed'
  BY <1>1 DEF IInv, ChecksPassed, Linked, Enrolled, Taught
<1>5. BookedOnce'
  BY <1>1 DEF IInv, BookedOnce
<1>6. ConflictIsTrue'
  BY <1>1 DEF IInv, ConflictIsTrue, BookedByAnswered, BookingsOf, Active
<1> QED
  BY <1>2, <1>3, <1>4, <1>5, <1>6 DEF IInv

LEMMA LockStep ==
    ASSUME IInv, TypeOK', NEW r \in Requests, Locks(r)
    PROVE  IInv'
<1> USE DEF Locks
<1>1. /\ \A q \in Requests : pc'[q] = IF q = r THEN "insert" ELSE pc[q]
      /\ status' = status /\ bookings' = bookings
  BY DEF Goto, IInv, TypeOK
<1>2. LockHeld'
  BY <1>1, RequestFacts, DistinctAssumption
  DEF IInv, TypeOK, LockHeld, InTransaction, Lock
<1>3. BookedByAnswered' /\ ChecksPassed' /\ BookedOnce' /\ ConflictIsTrue'
  BY <1>1 DEF IInv, TypeOK, BookedByAnswered, BookingRows, ChecksPassed, Linked,
              Enrolled, Taught, BookedOnce, ConflictIsTrue, Active
<1> QED
  BY <1>2, <1>3 DEF IInv

\* The INSERT finds no booking: the P2002 branch is never taken.
LEMMA InsertStep ==
    ASSUME IInv, TypeOK', NEW r \in Requests, Insert(r)
    PROVE  IInv' /\ Goto(r, "commit") /\ UNCHANGED <<status, bookings>>
<1>1. pc[r] = "insert" /\ UNCHANGED <<cycles, status, bookings>>
  BY DEF Insert
<1>2. lock[SlotOf(r)] = r /\ status[SlotOf(r)] = "AVAILABLE"
  BY <1>1 DEF IInv, LockHeld, InTransaction
<1>3. Goto(r, "commit") /\ lock' = lock
  BY <1>2, RequestFacts DEF Insert, IInv, BookedOnce
<1>4. \A q \in Requests : pc'[q] = IF q = r THEN "commit" ELSE pc[q]
  BY <1>3 DEF Goto, IInv, TypeOK
<1>5. LockHeld' /\ ChecksPassed'
  BY <1>1, <1>2, <1>3, <1>4
  DEF IInv, LockHeld, InTransaction, ChecksPassed, Linked, Enrolled, Taught, Active
<1>6. BookedByAnswered' /\ BookedOnce' /\ ConflictIsTrue'
  BY <1>1, <1>4 DEF IInv, TypeOK, BookedByAnswered, BookingRows, BookedOnce,
                    ConflictIsTrue
<1> QED
  BY <1>1, <1>3, <1>5, <1>6 DEF IInv

\* The commit turns the slot to BOOKED and adds its only booking.
LEMMA CommitStep ==
    ASSUME IInv, TypeOK', NEW r \in Requests, Commit(r)
    PROVE  IInv'
<1>1. /\ pc[r] = "commit" /\ lock[SlotOf(r)] = r
      /\ status[SlotOf(r)] = "AVAILABLE"
      /\ status' = [status EXCEPT ![SlotOf(r)] = "BOOKED"]
      /\ bookings' = bookings \cup {BookingOf(r)}
      /\ lock' = [lock EXCEPT ![SlotOf(r)] = Nobody]
  BY DEF Commit, Release, IInv, LockHeld, InTransaction
<1>2. PICK answer \in {"ok", "failed"} : Goto(r, answer)
  BY DEF Commit
<1>3. \A q \in Requests : pc'[q] = IF q = r THEN answer ELSE pc[q]
  BY <1>2 DEF Goto, IInv, TypeOK
<1>4. \A s \in Slots : /\ status'[s] = IF s = SlotOf(r) THEN "BOOKED" ELSE status[s]
                       /\ lock'[s] = IF s = SlotOf(r) THEN Nobody ELSE lock[s]
  BY <1>1, RequestFacts DEF IInv, TypeOK
<1>5. LockHeld'
  BY <1>1, <1>3, <1>4, RequestFacts DEF IInv, LockHeld, InTransaction
<1>6. BookedByAnswered'
  BY <1>1, <1>3, RequestFacts DEF IInv, TypeOK, BookedByAnswered, BookingRows
<1>7. ChecksPassed'
  BY <1>3, <1>4, RequestFacts
  DEF IInv, ChecksPassed, Linked, Enrolled, Taught, Active
<1>8. BookedOnce'
  BY <1>1, <1>4, RequestFacts DEF IInv, BookedOnce
<1>9. ConflictIsTrue'
  BY <1>1, <1>3 DEF IInv, ConflictIsTrue
<1> QED
  BY <1>5, <1>6, <1>7, <1>8, <1>9 DEF IInv
-----------------------------------------------------------------------------
(* Every step is of one of these kinds *)

Staff == \/ \E c \in Cycles : CreateCycle(c)
         \/ \E s \in Slots : CreateSlot(s)
         \/ UNCHANGED vars

\* A slot that is neither absent nor AVAILABLE has its booking.
LEMMA TakenSlot ==
    ASSUME IInv, NEW s \in Slots, status[s] \notin {"NONE", "AVAILABLE"}
    PROVE  BookingsOf(s) # {}
BY DEF IInv, TypeOK, Statuses, BookedOnce, BookingsOf

LEMMA RequestKinds ==
    ASSUME IInv, NEW r \in Requests, Step(r) \/ Fail(r)
    PROVE  \/ \E place : Moves(r, place)
           \/ Locks(r) \/ Insert(r) \/ Commit(r)
<1> USE DEF Moves, Active
<1>1. CASE CheckLink(r)
  <2>1. Moves(r, IF RequestOf[r].parent # NoParent /\ Linked(r)
                 THEN "slot" ELSE "refused")
    BY <1>1 DEF CheckLink
  <2> QED
    BY <2>1
<1>2. CASE CheckSlot(r)
  <2> DEFINE place == IF \/ status[SlotOf(r)] = "NONE"
                         \/ CycleOf[SlotOf(r)] \notin OpenCycles
                      THEN "refused"
                      ELSE IF status[SlotOf(r)] # "AVAILABLE"
                           THEN "conflict" ELSE "class"
  <2>1. Goto(r, place) /\ pc[r] = "slot" /\ UNCHANGED <<cycles, status, bookings, lock>>
    BY <1>2 DEF CheckSlot
  <2>2. RequestOf[r].parent # NoParent /\ Linked(r)
    BY <2>1 DEF IInv, ChecksPassed
  <2>3. Moves(r, place)
    BY <2>1, <2>2, TakenSlot, RequestFacts
  <2> QED
    BY <2>3
<1>3. CASE CheckClass(r)
  <2>1. Moves(r, IF Enrolled(r) THEN "teacher" ELSE "refused")
    BY <1>3 DEF CheckClass, IInv, ChecksPassed
  <2> QED
    BY <2>1
<1>4. CASE CheckTeacher(r)
  <2>1. Moves(r, IF Taught(r) THEN "update" ELSE "refused")
    BY <1>4 DEF CheckTeacher, IInv, ChecksPassed
  <2> QED
    BY <2>1
<1>5. CASE Update(r)
  <2>1. CASE status[SlotOf(r)] = "AVAILABLE"
    BY <1>5, <2>1 DEF Update, Locks
  <2>2. CASE status[SlotOf(r)] # "AVAILABLE"
    <3>1. status[SlotOf(r)] # "NONE"
      BY <1>5 DEF Update, IInv, ChecksPassed
    <3>2. Moves(r, "conflict")
      BY <1>5, <2>2, <3>1, TakenSlot, RequestFacts DEF Update
    <3> QED
      BY <3>2
  <2> QED
    BY <2>1, <2>2
<1>6. CASE Fail(r)
  <2>1. Moves(r, "failed")
    BY <1>6 DEF Fail
  <2> QED
    BY <2>1
<1> QED
  BY <1>1, <1>2, <1>3, <1>4, <1>5, <1>6 DEF Step

LEMMA NextKinds ==
    ASSUME IInv, [Next]_vars
    PROVE  \/ Staff
           \/ \E r \in Requests : \/ \E place : Moves(r, place)
                                  \/ Locks(r) \/ Insert(r) \/ Commit(r)
BY RequestKinds DEF Next, Quiet, Staff

\* The invariant is inductive.
LEMMA NextIInv == IInv /\ [Next]_vars => IInv'
<1> SUFFICES ASSUME IInv, [Next]_vars PROVE IInv'
  OBVIOUS
<1>1. TypeOK'
  BY NextTypeOK DEF IInv
<1>2. CASE Staff
  BY <1>1, <1>2, StaffStep DEF Staff
<1>3. ASSUME NEW r \in Requests,
             (\E place : Moves(r, place)) \/ Locks(r) \/ Insert(r) \/ Commit(r)
      PROVE  IInv'
  BY <1>1, <1>3, MoveStep, LockStep, InsertStep, CommitStep
<1> QED
  BY <1>2, <1>3, NextKinds

LEMMA Invariant == Spec => []IInv
BY InitIInv, NextIInv, PTL DEF Spec

\* Every variable keeps its type.
THEOREM TypeCorrect == Spec => []TypeOK
BY Invariant, PTL DEF IInv

\* A slot is BOOKED exactly when it has a booking, and has at most one,
\* whatever the interleaving and wherever the transaction fails.
THEOREM SlotBookedOnce == Spec => []BookedOnce
BY Invariant, PTL DEF IInv

\* A 409 of bookSlot always means that another request holds the slot.
THEOREM ConflictsAreTrue == Spec => []ConflictIsTrue
BY Invariant, PTL DEF IInv
-----------------------------------------------------------------------------
(* The refinement *)

\* What SlotGrants sees of a slot.
LEMMA HolderFacts ==
    ASSUME BookedOnce, NEW s \in Slots
    PROVE  /\ \A b \in BookingsOf(s) : Holder[s] = b.by
           /\ BookingsOf(s) = {} => Holder[s] = Nobody
BY DEF Holder, BookingsOf, BookedOnce

LEMMA HolderFactsNext ==
    ASSUME BookedOnce', NEW s \in Slots
    PROVE  /\ \A b \in BookingsOf(s)' : Holder'[s] = b.by
           /\ BookingsOf(s)' = {} => Holder'[s] = Nobody
BY DEF Holder, BookingsOf, BookedOnce

\* Before the commit a request has been told nothing.
LEMMA ToldNothing ==
    ASSUME NEW r \in Requests, pc[r] \in {"idle"} \cup Active
    PROVE  ToldTo[r] = "none"
BY DEF ToldTo, Told, Active

LEMMA ToldMove ==
    ASSUME TypeOK, NEW r \in Requests, NEW place, Goto(r, place)
    PROVE  ToldTo' = [ToldTo EXCEPT ![r] = Told(place)]
BY DEF ToldTo, Told, Goto, TypeOK

LEMMA InitRefines == Init => Grants!Init
BY DEF Init, Grants!Init, Offered, Holder, BookingsOf, ToldTo, Told

LEMMA StaffRefines ==
    ASSUME IInv, Staff
    PROVE  [Grants!Next]_(Grants!vars)
<1>1. ASSUME NEW s \in Slots, CreateSlot(s) PROVE Grants!Offer(s)
  BY <1>1 DEF CreateSlot, Grants!Offer, Offered, Holder, BookingsOf, ToldTo, IInv,
              TypeOK
<1>2. CASE (\E c \in Cycles : CreateCycle(c)) \/ UNCHANGED vars
  <2>1. UNCHANGED <<status, bookings, pc>>
    BY <1>2 DEF CreateCycle, vars
  <2>2. Offered' = Offered /\ Holder' = Holder /\ ToldTo' = ToldTo
    BY <2>1 DEF Offered, Holder, BookingsOf, ToldTo, Told
  <2> QED
    BY <2>2 DEF Grants!vars
<1> QED
  BY <1>1, <1>2 DEF Staff, Grants!Next

LEMMA MoveRefines ==
    ASSUME IInv, NEW r \in Requests, NEW place, Moves(r, place)
    PROVE  [Grants!Next]_(Grants!vars)
<1>1. /\ Offered' = Offered /\ Holder' = Holder
      /\ pc[r] \in {"idle"} \cup Active
  BY DEF Moves, Offered, Holder, BookingsOf
<1>2. /\ ToldTo[r] = "none" /\ ToldTo' = [ToldTo EXCEPT ![r] = Told(place)]
      /\ ToldTo = [q \in Requests |-> ToldTo[q]]
  <2>1. ToldTo[r] = "none"
    BY <1>1, ToldNothing
  <2>2. ToldTo' = [ToldTo EXCEPT ![r] = Told(place)]
    BY ToldMove DEF Moves, IInv
  <2>3. ToldTo = [q \in Requests |-> ToldTo[q]]
    BY DEF ToldTo
  <2> QED
    BY <2>1, <2>2, <2>3
<1>3. CASE place = "conflict"
  <2>1. PICK b \in BookingsOf(SlotOf(r)) : TRUE
    BY <1>3 DEF Moves
  <2>2. Holder[SlotOf(r)] = b.by /\ b.by \in Requests
    BY <2>1, HolderFacts, RequestFacts DEF IInv, TypeOK, BookingRows, BookingsOf
  <2>3. Grants!Deny(r)
    BY <1>1, <1>2, <1>3, <2>2, DistinctAssumption DEF Grants!Deny, Told
  <2> QED
    BY <2>3 DEF Grants!Next
<1>4. CASE place \in {"refused", "failed"}
  <2>1. Grants!Dismiss(r)
    BY <1>1, <1>2, <1>4 DEF Grants!Dismiss, Told
  <2> QED
    BY <2>1 DEF Grants!Next
<1>5. CASE place \in Active
  <2>1. ToldTo' = ToldTo
    BY <1>2, <1>5 DEF Told, Active
  <2> QED
    BY <1>1, <2>1 DEF Grants!vars
<1> QED
  BY <1>3, <1>4, <1>5 DEF Moves, Active

\* The steps of the transaction before its commit show nothing.
LEMMA HiddenRefines ==
    ASSUME IInv, TypeOK', NEW r \in Requests, Locks(r) \/ Insert(r)
    PROVE  [Grants!Next]_(Grants!vars)
<1>1. PICK place \in {"insert", "commit"} : Goto(r, place)
  BY InsertStep DEF Locks
<1>2. UNCHANGED <<status, bookings>> /\ pc[r] \in Active
  BY DEF Locks, Insert, Active
<1>3. Offered' = Offered /\ Holder' = Holder
  BY <1>2 DEF Offered, Holder, BookingsOf
<1>4. ToldTo' = ToldTo
  <2>1. ToldTo' = [ToldTo EXCEPT ![r] = Told(place)]
    BY <1>1, ToldMove DEF IInv
  <2>2. Told(place) = "none" /\ ToldTo[r] = "none"
    BY <1>2, ToldNothing DEF Told
  <2>3. ToldTo = [q \in Requests |-> ToldTo[q]]
    BY DEF ToldTo
  <2> QED
    BY <2>1, <2>2, <2>3
<1> QED
  BY <1>3, <1>4 DEF Grants!vars

\* The commit is the grant.
LEMMA CommitRefines ==
    ASSUME IInv, IInv', NEW r \in Requests, Commit(r)
    PROVE  Grants!Next
<1> DEFINE s == SlotOf(r)
<1>1. /\ pc[r] = "commit" /\ status[s] = "AVAILABLE"
      /\ status' = [status EXCEPT ![s] = "BOOKED"]
      /\ bookings' = bookings \cup {BookingOf(r)}
  BY DEF Commit, IInv, LockHeld, InTransaction
<1>2. PICK answer \in {"ok", "failed"} : Goto(r, answer)
  BY DEF Commit
<1>3. ToldTo[r] = "none" /\ ToldTo' = [ToldTo EXCEPT ![r] = Told(answer)]
  BY <1>1, <1>2, ToldNothing, ToldMove DEF IInv, Active
<1>4. r \in Entitled
  BY <1>1 DEF IInv, ChecksPassed, Entitled, Active
<1>5. BookingsOf(s) = {} /\ Holder[s] = Nobody /\ s \in Slots
  BY <1>1, HolderFacts, RequestFacts DEF IInv, BookedOnce, BookingsOf
<1>6. \A t \in Slots : BookingsOf(t)' = IF t = s THEN {BookingOf(r)} ELSE BookingsOf(t)
  BY <1>1, <1>5, RequestFacts DEF BookingsOf
<1>7. Holder' = [Holder EXCEPT ![s] = r]
  <2>1. ASSUME NEW t \in Slots, t # s PROVE Holder'[t] = Holder[t]
    BY <1>6, <2>1, HolderFacts, HolderFactsNext DEF IInv
  <2>2. Holder'[s] = r
    BY <1>5, <1>6, HolderFactsNext, RequestFacts DEF IInv
  <2>3. Holder = [t \in Slots |-> Holder[t]] /\ Holder' = [t \in Slots |-> Holder'[t]]
    BY DEF Holder
  <2> QED
    BY <1>5, <2>1, <2>2, <2>3
<1>8. Offered' = Offered /\ s \in Offered
  BY <1>1, <1>5 DEF Offered, IInv, TypeOK
<1>9. Grants!Grant(r)
  BY <1>3, <1>4, <1>5, <1>7, <1>8 DEF Grants!Grant, Told
<1> QED
  BY <1>9 DEF Grants!Next

\* bookSlot implements SlotGrants: a slot goes to one entitled request and
\* stays with it, and what every caller is told is true.
THEOREM KeepsItsPromise == Spec => KeepsPromise
<1>1. IInv /\ IInv' /\ [Next]_vars => [Grants!Next]_(Grants!vars)
  <2> SUFFICES ASSUME IInv, IInv', [Next]_vars PROVE [Grants!Next]_(Grants!vars)
    OBVIOUS
  <2>1. CASE Staff
    BY <2>1, StaffRefines
  <2>2. ASSUME NEW r \in Requests,
               (\E place : Moves(r, place)) \/ Locks(r) \/ Insert(r) \/ Commit(r)
        PROVE  [Grants!Next]_(Grants!vars)
    BY <2>2, MoveRefines, HiddenRefines, CommitRefines DEF IInv
  <2> QED
    BY <2>1, <2>2, NextKinds
<1> QED
  BY <1>1, InitRefines, Invariant, PTL DEF Spec, KeepsPromise, Grants!Spec
=============================================================================
