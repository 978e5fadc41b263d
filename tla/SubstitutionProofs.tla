------------------------- MODULE SubstitutionProofs -------------------------
(***************************************************************************)
(* Proofs about the substitution engine, for every timetable and every     *)
(* number of reports.  Types and the completeness of an answered report    *)
(* hold under any overlap of reports; that no substitute is in two places  *)
(* and that PENDING is justified hold when reports are handled one at a    *)
(* time, because then nothing is written between the query and the upsert. *)
(***************************************************************************)
EXTENDS Substitution, FiniteSetTheorems, TLAPS

\* The loop of a report that is being handled: the slots behind it have rows.
LoopInv ==
    \A h \in Reports :
        /\ pc[h] \in Active =>
              /\ cur[h] \in SlotsOf(AbsentOf[h])
              /\ \A x \in SlotsOf(AbsentOf[h]) :
                    x \in todo[h] \/ x = cur[h] \/ subs[x] # NoRow
              /\ todo[h] \subseteq SlotsOf(AbsentOf[h])
        /\ pc[h] = "notify" => subs[cur[h]] # NoRow

\* Substitutes are candidates of their slot, and so is what is picked.
EligibleInv ==
    /\ \A x \in Slots : /\ subs[x].substitute # None =>
                              subs[x].substitute \in Candidates(x)
                        /\ subs[x] = NoRow \/ subs[x].status # "NONE"
    /\ \A h \in Reports : pc[h] = "upsert" =>
          pick[h] = None \/ pick[h] \in Candidates(cur[h])

IInv == TypeOK /\ LoopInv /\ EligibleInv /\ OkMeansHandled

-----------------------------------------------------------------------------
LEMMA SlotFacts ==
    /\ \A x \in Slots : Period(x) \in Nat /\ SlotOf[x].teacher \in Teachers
    /\ \A t \in Teachers : SlotsOf(t) \subseteq Slots
    /\ \A h \in Reports : AbsentOf[h] \in Teachers
    /\ \A x \in Slots : Candidates(x) \subseteq Teachers
    /\ None \notin Teachers /\ None \notin Slots
BY TimetableAssumption, BoundAssumption DEF Period, SlotsOf, Candidates

LEMMA RowFacts ==
    ASSUME NEW c \in Teachers \cup {None}
    PROVE  /\ RowFor(c) \in Rows /\ RowFor(c) # NoRow
           /\ RowFor(c).status # "NONE" /\ RowFor(c).substitute = c
BY DEF RowFor, Rows, NoRow

LEMMA InitIInv == Init => IInv
<1> SUFFICES ASSUME Init PROVE IInv
  OBVIOUS
<1>1. TypeOK
  BY DEF Init, TypeOK, Rows, NoRow
<1>2. LoopInv /\ OkMeansHandled
  BY DEF Init, LoopInv, OkMeansHandled, Active
<1>3. EligibleInv
  BY DEF Init, EligibleInv, NoRow
<1> QED
  BY <1>1, <1>2, <1>3 DEF IInv

\* What the loop does to its own report when it goes on.
LEMMA NextSlotFacts ==
    ASSUME TypeOK, NEW h \in Reports, NEW rest \in SUBSET Slots, NextSlot(h, rest)
    PROVE  /\ \A g \in Reports : g # h =>
                 /\ pc'[g] = pc[g] /\ cur'[g] = cur[g]
                 /\ todo'[g] = todo[g] /\ tried'[g] = tried[g]
           /\ \/ pc'[h] = "ok" /\ rest = {}
              \/ /\ pc'[h] = "search" /\ cur'[h] \in rest /\ tried'[h] = {}
                 /\ todo'[h] = rest \ {cur'[h]}
           /\ cur' \in [Reports -> Slots \cup {None}]
           /\ todo' \in [Reports -> SUBSET Slots]
           /\ tried' \in [Reports -> SUBSET Teachers]
           /\ pc' \in [Reports -> {"idle", "ok", "failed"} \cup Active]
<1>1. CASE rest = {}
  BY <1>1 DEF NextSlot, Goto, TypeOK
<1>2. CASE rest # {}
  <2>1. PICK x \in rest : /\ cur' = [cur EXCEPT ![h] = x]
                          /\ todo' = [todo EXCEPT ![h] = rest \ {x}]
    BY <1>2 DEF NextSlot
  <2>2. tried' = [tried EXCEPT ![h] = {}] /\ pc' = [pc EXCEPT ![h] = "search"]
    BY <1>2 DEF NextSlot, Goto
  <2> QED
    BY <2>1, <2>2 DEF TypeOK, Active
<1> QED
  BY <1>1, <1>2

LEMMA ReportStep ==
    ASSUME IInv, NEW h \in Reports, Report(h)
    PROVE  IInv'
<1> DEFINE rest == SlotsOf(AbsentOf[h])
<1>1. /\ pc[h] = "idle" /\ subs' = subs /\ pick' = pick
      /\ NextSlot(h, rest) /\ rest \in SUBSET Slots
  BY SlotFacts DEF Report
<1> HIDE DEF rest
<1>2. TypeOK'
  BY <1>1, NextSlotFacts DEF IInv, TypeOK
<1>3. LoopInv' /\ OkMeansHandled'
  BY <1>1, NextSlotFacts DEF IInv, LoopInv, OkMeansHandled, Active, rest
<1>4. EligibleInv'
  BY <1>1, NextSlotFacts DEF IInv, EligibleInv, Candidates
<1> QED
  BY <1>2, <1>3, <1>4 DEF IInv

LEMMA SearchStep ==
    ASSUME IInv, NEW h \in Reports, Consider(h) \/ Exhaust(h)
    PROVE  IInv'
<1>1. /\ pc[h] = "search" /\ UNCHANGED <<subs, cur, todo>>
      /\ cur[h] \in Slots
  BY SlotFacts DEF Consider, Exhaust, IInv, LoopInv, Active
<1>2. \/ /\ UNCHANGED <<pc, pick>>
         /\ \E c \in Candidates(cur[h]) : tried' = [tried EXCEPT ![h] = @ \cup {c}]
      \/ /\ pc' = [pc EXCEPT ![h] = "upsert"] /\ tried' = tried
         /\ \E c \in Candidates(cur[h]) \cup {None} : pick' = [pick EXCEPT ![h] = c]
  BY DEF Consider, Exhaust, Goto
<1>3. TypeOK'
  BY <1>1, <1>2, SlotFacts DEF IInv, TypeOK, Active
<1>4. LoopInv' /\ OkMeansHandled'
  BY <1>1, <1>2 DEF IInv, TypeOK, LoopInv, OkMeansHandled, Active
<1>5. EligibleInv'
  BY <1>1, <1>2 DEF IInv, TypeOK, EligibleInv, Candidates
<1> QED
  BY <1>3, <1>4, <1>5 DEF IInv

\* What an upsert does to the table.
LEMMA UpsertFacts ==
    ASSUME IInv, NEW h \in Reports, Upsert(h)
    PROVE  /\ cur[h] \in Slots /\ cur[h] \in SlotsOf(AbsentOf[h])
           /\ pick[h] \in Teachers \cup {None}
           /\ pick[h] = None \/ pick[h] \in Candidates(cur[h])
           /\ subs' \in [Slots -> Rows]
           /\ \A x \in Slots : subs'[x] = IF x = cur[h] THEN RowFor(pick[h])
                                          ELSE subs[x]
<1>1. pc[h] = "upsert" /\ subs' = [subs EXCEPT ![cur[h]] = RowFor(pick[h])]
  BY DEF Upsert
<1>2. cur[h] \in SlotsOf(AbsentOf[h]) /\ cur[h] \in Slots
  BY <1>1, SlotFacts DEF IInv, LoopInv, Active
<1>3. /\ pick[h] \in Teachers \cup {None}
      /\ pick[h] = None \/ pick[h] \in Candidates(cur[h])
  BY <1>1 DEF IInv, TypeOK, EligibleInv
<1> QED
  BY <1>1, <1>2, <1>3, RowFacts DEF IInv, TypeOK

LEMMA UpsertStep ==
    ASSUME IInv, NEW h \in Reports, Upsert(h)
    PROVE  IInv'
<1>1. \A x \in Slots : subs[x] # NoRow => subs'[x] # NoRow
  BY UpsertFacts, RowFacts
<1>2. subs'[cur[h]] # NoRow /\ pick' = pick /\ pc[h] = "upsert"
  BY UpsertFacts, RowFacts DEF Upsert
<1>3. /\ \A x \in Slots : /\ subs'[x].substitute # None =>
                                subs'[x].substitute \in Candidates(x)
                          /\ subs'[x] = NoRow \/ subs'[x].status # "NONE"
  BY UpsertFacts, RowFacts DEF IInv, EligibleInv
<1>4. CASE pick[h] = None
  <2>1. NextSlot(h, todo[h]) /\ todo[h] \in SUBSET Slots
    BY <1>4 DEF Upsert, IInv, TypeOK
  <2>2. TypeOK'
    BY <1>2, <2>1, NextSlotFacts, UpsertFacts DEF IInv, TypeOK
  <2>3. LoopInv' /\ OkMeansHandled'
    BY <1>1, <1>2, <2>1, NextSlotFacts, SlotFacts
    DEF IInv, LoopInv, OkMeansHandled, Active
  <2>4. ASSUME NEW g \in Reports, pc'[g] = "upsert"
        PROVE  pick'[g] = None \/ pick'[g] \in Candidates(cur'[g])
    <3>1. g # h
      BY <2>1, <2>4, NextSlotFacts DEF IInv
    <3>2. pc[g] = "upsert" /\ cur'[g] = cur[g] /\ pick'[g] = pick[g]
      BY <1>2, <2>1, <2>4, <3>1, NextSlotFacts DEF IInv
    <3> QED
      BY <3>2 DEF IInv, EligibleInv
  <2>5. EligibleInv'
    BY <1>3, <2>4 DEF EligibleInv, Candidates
  <2> QED
    BY <2>2, <2>3, <2>5 DEF IInv
<1>5. CASE pick[h] # None
  <2>1. pc' = [pc EXCEPT ![h] = "notify"] /\ UNCHANGED <<cur, todo, tried>>
    BY <1>5 DEF Upsert, Goto
  <2>2. TypeOK'
    BY <1>2, <2>1, UpsertFacts DEF IInv, TypeOK, Active
  <2>3. LoopInv' /\ OkMeansHandled'
    BY <1>1, <1>2, <2>1, SlotFacts DEF IInv, TypeOK, LoopInv, OkMeansHandled, Active
  <2>4. EligibleInv'
    BY <1>2, <1>3, <2>1 DEF IInv, TypeOK, EligibleInv, Candidates
  <2> QED
    BY <2>2, <2>3, <2>4 DEF IInv
<1> QED
  BY <1>4, <1>5

LEMMA NotifyStep ==
    ASSUME IInv, NEW h \in Reports, Notify(h)
    PROVE  IInv'
<1>1. /\ pc[h] = "notify" /\ subs' = subs /\ pick' = pick
      /\ NextSlot(h, todo[h]) /\ todo[h] \in SUBSET Slots
  BY DEF Notify, IInv, TypeOK
<1>2. TypeOK'
  BY <1>1, NextSlotFacts DEF IInv, TypeOK
<1>3. LoopInv' /\ OkMeansHandled'
  BY <1>1, NextSlotFacts, SlotFacts DEF IInv, LoopInv, OkMeansHandled, Active
<1>4. EligibleInv'
  BY <1>1, NextSlotFacts DEF IInv, EligibleInv, Candidates
<1> QED
  BY <1>2, <1>3, <1>4 DEF IInv

LEMMA IdleStep ==
    ASSUME IInv, (\E h \in Reports : Fail(h)) \/ UNCHANGED vars
    PROVE  IInv'
<1>1. ASSUME NEW h \in Reports, Fail(h) PROVE IInv'
  <2>1. pc' = [pc EXCEPT ![h] = "failed"] /\ UNCHANGED <<subs, cur, todo, tried, pick>>
    BY <1>1 DEF Fail, Goto
  <2>2. TypeOK'
    BY <2>1 DEF IInv, TypeOK
  <2>3. LoopInv' /\ OkMeansHandled'
    BY <2>1 DEF IInv, TypeOK, LoopInv, OkMeansHandled, Active
  <2>4. EligibleInv'
    BY <2>1 DEF IInv, TypeOK, EligibleInv, Candidates
  <2> QED
    BY <2>2, <2>3, <2>4 DEF IInv
<1>2. CASE UNCHANGED vars
  BY <1>2 DEF vars, IInv, TypeOK, LoopInv, OkMeansHandled, EligibleInv, Candidates
<1> QED
  BY <1>1, <1>2

LEMMA NextIInv == IInv /\ [Next]_vars => IInv'
BY ReportStep, SearchStep, UpsertStep, NotifyStep, IdleStep DEF Next, Quiet

LEMMA Invariant == Spec => []IInv
BY InitIInv, NextIInv, PTL DEF Spec

\* Every variable keeps its type.
THEOREM TypeCorrect == Spec => []TypeOK
BY Invariant, PTL DEF IInv

\* A report that was answered left no slot of the absent teacher without a
\* row, under any overlap, failure and repetition of reports.
THEOREM AnsweredIsHandled == Spec => []OkMeansHandled
BY Invariant, PTL DEF IInv
-----------------------------------------------------------------------------
(* One report at a time *)

AtMostOne == \A g, h \in Reports : pc[g] \in Active /\ pc[h] \in Active => g = h

\* What the queries found is still so when the upsert is made.
FoundInv ==
    \A h \in Reports :
        /\ pc[h] = "search" => \A c \in tried[h] : Busy(c, Period(cur[h]))
        /\ pc[h] = "upsert" =>
              IF pick[h] = None
              THEN \A c \in Candidates(cur[h]) : Busy(c, Period(cur[h]))
              ELSE ~Busy(pick[h], Period(cur[h]))

SInv == IInv /\ AtMostOne /\ FoundInv /\ InOnePlace

LEMMA InitSInv == Init => SInv
<1> SUFFICES ASSUME Init PROVE SInv
  OBVIOUS
<1>1. IInv
  BY InitIInv
<1>2. AtMostOne /\ FoundInv /\ InOnePlace
  BY DEF Init, AtMostOne, FoundInv, InOnePlace, Active, NoRow
<1> QED
  BY <1>1, <1>2 DEF SInv

\* With the bound 1 a report starts when no other is being handled.
LEMMA StartsAlone ==
    ASSUME MaxInFlight = 1, NEW h \in Reports, Report(h)
    PROVE  \A g \in Reports : pc[g] \notin Active
<1> DEFINE S == {g \in Reports : pc[g] \in Active}
<1>1. IsFiniteSet(S)
  BY BoundAssumption, FS_Subset
<1>2. Cardinality(S) = 0
  BY <1>1, FS_CardinalityType DEF Report
<1>3. S = {}
  BY <1>1, <1>2, FS_EmptySet
<1> QED
  BY <1>3

\* A step of a report changes no other report, and starts only alone.
LEMMA AtMostOneStep ==
    ASSUME SInv, [Next]_vars, MaxInFlight = 1
    PROVE  AtMostOne'
<1>1. ASSUME NEW h \in Reports, Report(h) PROVE AtMostOne'
  <2>1. NextSlot(h, SlotsOf(AbsentOf[h])) /\ SlotsOf(AbsentOf[h]) \in SUBSET Slots
    BY <1>1, SlotFacts DEF Report
  <2>2. \A g \in Reports : g # h => pc'[g] = pc[g]
    BY <2>1, NextSlotFacts DEF SInv, IInv
  <2> QED
    BY <1>1, <2>2, StartsAlone DEF AtMostOne
<1>2. ASSUME NEW h \in Reports, Consider(h) \/ Exhaust(h) \/ Fail(h)
      PROVE  AtMostOne'
  BY <1>2 DEF Consider, Exhaust, Fail, Goto, SInv, IInv, TypeOK, AtMostOne, Active
<1>3. ASSUME NEW h \in Reports, Upsert(h) \/ Notify(h) PROVE AtMostOne'
  <2>1. pc[h] \in Active /\ todo[h] \in SUBSET Slots
    BY <1>3 DEF Upsert, Notify, Active, SInv, IInv, TypeOK
  <2>2. \A g \in Reports : g # h => pc'[g] = pc[g]
    BY <1>3, <2>1, NextSlotFacts DEF Upsert, Notify, Goto, SInv, IInv, TypeOK
  <2> QED
    BY <2>1, <2>2 DEF SInv, AtMostOne
<1>4. CASE UNCHANGED vars
  BY <1>4 DEF vars, SInv, AtMostOne
<1> QED
  BY <1>1, <1>2, <1>3, <1>4 DEF Next, Quiet

\* The upsert is the only step that writes, and its substitute is free.
LEMMA InOnePlaceStep ==
    ASSUME SInv, [Next]_vars
    PROVE  InOnePlace'
<1>1. CASE subs' = subs
  BY <1>1 DEF SInv, InOnePlace
<1>2. ASSUME NEW h \in Reports, Upsert(h) PROVE InOnePlace'
  <2>1. pc[h] = "upsert" /\ cur[h] \in Slots /\ pick[h] \in Teachers \cup {None}
    BY <1>2, UpsertFacts DEF Upsert, SInv
  <2>2. pick[h] # None => ~Busy(pick[h], Period(cur[h]))
    BY <2>1 DEF SInv, FoundInv
  <2>3. pick[h] # None => ~Teaching(pick[h], Period(cur[h]))
    BY <1>2, UpsertFacts DEF SInv, Candidates
  <2>4. \A x \in Slots : subs'[x].substitute = IF x = cur[h] THEN pick[h]
                                               ELSE subs[x].substitute
    BY <1>2, <2>1, UpsertFacts, RowFacts DEF SInv
  <2> QED
    BY <2>1, <2>2, <2>3, <2>4 DEF InOnePlace, Busy, SInv
<1> QED
  BY <1>1, <1>2 DEF Next, Report, Consider, Exhaust, Notify, Fail, Quiet, vars

\* The queries of the one report at work are not overtaken by any write.
LEMMA FoundStep ==
    ASSUME SInv, [Next]_vars, MaxInFlight = 1
    PROVE  FoundInv'
<1>0. AtMostOne'
  BY AtMostOneStep
<1>1. ASSUME NEW h \in Reports, Report(h) \/ Notify(h) \/ Upsert(h)
      PROVE  FoundInv'
  <2>1. \A g \in Reports : g # h => pc[g] \notin Active
    BY <1>1, StartsAlone DEF Notify, Upsert, SInv, AtMostOne, Active
  <2>2. PICK rest \in SUBSET Slots :
           \/ NextSlot(h, rest)
           \/ pc' = [pc EXCEPT ![h] = "notify"]
    BY <1>1, SlotFacts DEF Report, Notify, Upsert, Goto, SInv, IInv, TypeOK
  <2>3. /\ \A g \in Reports : g # h => pc'[g] = pc[g]
        /\ \/ pc'[h] \in {"ok", "notify"}
           \/ pc'[h] = "search" /\ tried'[h] = {}
    BY <2>2, NextSlotFacts DEF SInv, IInv, TypeOK
  <2> QED
    BY <2>1, <2>3 DEF FoundInv, Active
<1>2. ASSUME NEW h \in Reports, Consider(h) PROVE FoundInv'
  <2>1. /\ pc[h] = "search" /\ UNCHANGED <<subs, cur, todo>>
        /\ \A g \in Reports : g # h => pc[g] \notin Active
    BY <1>2 DEF Consider, SInv, AtMostOne, Active
  <2>2. PICK c \in Candidates(cur[h]) \ tried[h] :
           IF Busy(c, Period(cur[h]))
           THEN /\ tried' = [tried EXCEPT ![h] = @ \cup {c}]
                /\ UNCHANGED <<pc, pick>>
           ELSE /\ pick' = [pick EXCEPT ![h] = c]
                /\ Goto(h, "upsert")
                /\ UNCHANGED tried
    BY <1>2 DEF Consider
  <2>3. \A d, p : Busy(d, p)' <=> Busy(d, p)
    BY <2>1 DEF Busy, Period
  <2>4. CASE Busy(c, Period(cur[h]))
    <3>1. pc' = pc /\ \A d \in tried'[h] : d = c \/ d \in tried[h]
      BY <2>2, <2>4 DEF SInv, IInv, TypeOK
    <3>2. \A d \in tried'[h] : Busy(d, Period(cur[h]))
      BY <2>1, <2>4, <3>1 DEF SInv, FoundInv
    <3> QED
      BY <2>1, <3>1, <3>2 DEF FoundInv, Active, Busy, Period
  <2>5. CASE ~Busy(c, Period(cur[h]))
    <3>1. pick'[h] = c /\ pc'[h] = "upsert" /\ c # None
          /\ \A g \in Reports : g # h => pc'[g] = pc[g]
      BY <2>1, <2>2, <2>5, SlotFacts
      DEF Goto, SInv, IInv, TypeOK, LoopInv, Active
    <3> QED
      BY <2>1, <2>5, <3>1 DEF FoundInv, Active, Busy, Period
  <2> QED
    BY <2>4, <2>5
<1>3. ASSUME NEW h \in Reports, Exhaust(h) PROVE FoundInv'
  <2>1. /\ pc[h] = "search" /\ UNCHANGED <<subs, cur, todo>>
        /\ \A g \in Reports : g # h => pc[g] \notin Active
        /\ Candidates(cur[h]) \subseteq tried[h]
    BY <1>3 DEF Exhaust, SInv, AtMostOne, Active
  <2>2. /\ pick'[h] = None /\ pc'[h] = "upsert"
        /\ \A g \in Reports : g # h => pc'[g] = pc[g]
    BY <1>3 DEF Exhaust, Goto, SInv, IInv, TypeOK
  <2>3. \A c \in Candidates(cur[h]) : Busy(c, Period(cur[h]))
    BY <2>1 DEF SInv, FoundInv
  <2> QED
    BY <2>1, <2>2, <2>3 DEF FoundInv, Active, Busy, Period, Candidates
<1>4. ASSUME NEW h \in Reports, Fail(h) PROVE FoundInv'
  <2>1. /\ pc'[h] = "failed" /\ \A g \in Reports : g # h => pc'[g] = pc[g]
        /\ \A g \in Reports : g # h => pc[g] \notin Active
    BY <1>4 DEF Fail, Goto, SInv, IInv, TypeOK, AtMostOne, Active
  <2> QED
    BY <2>1 DEF FoundInv, Active
<1>5. CASE UNCHANGED vars
  BY <1>5 DEF vars, SInv, FoundInv, Busy, Candidates, Period
<1> QED
  BY <1>1, <1>2, <1>3, <1>4, <1>5 DEF Next, Quiet

LEMMA SerialInvariant == ASSUME MaxInFlight = 1 PROVE Spec => []SInv
<1>1. SInv /\ [Next]_vars => SInv'
  BY NextIInv, AtMostOneStep, FoundStep, InOnePlaceStep DEF SInv
<1> QED
  BY <1>1, InitSInv, PTL DEF Spec

\* With one report at a time no substitute is ever sent to two places, for
\* every timetable and however often absences are reported.
THEOREM NobodyInTwoPlaces == ASSUME MaxInFlight = 1 PROVE Spec => []InOnePlace
<1>1. SInv => InOnePlace
  BY DEF SInv
<1> QED
  BY <1>1, SerialInvariant, PTL

\* With one report at a time a slot is first flagged PENDING only when every
\* eligible teacher is occupied in another classroom in that period.
THEOREM FirstPendingIsJustified ==
    ASSUME MaxInFlight = 1 PROVE Spec => FirstPendingIsTrue
<1>1. ASSUME SInv, [Next]_vars, NEW x \in Slots, subs[x] = NoRow, TurnsPending(x)
      PROVE  NobodyFree(x)
  <2>1. PICK h \in Reports : Upsert(h)
    BY <1>1 DEF TurnsPending, Next, Report, Consider, Exhaust, Notify, Fail,
                Quiet, vars
  <2>2. x = cur[h] /\ pc[h] = "upsert" /\ pick[h] = None
    BY <1>1, <2>1, UpsertFacts DEF TurnsPending, RowFor, SInv, Upsert
  <2>3. \A c \in Candidates(x) : Busy(c, Period(x))
    <3>1. \A c \in Candidates(cur[h]) : Busy(c, Period(cur[h]))
      BY <1>1, <2>1, <2>2 DEF SInv, FoundInv
    <3> QED
      BY <2>2, <3>1, Zenon
  <2>4. \A c \in Candidates(x) : c # subs[x].substitute
    BY <1>1, SlotFacts DEF NoRow
  <2> QED
    BY <2>3, <2>4 DEF NobodyFree, Busy
<1>2. SInv /\ [Next]_vars =>
        [\A x \in Slots : subs[x] = NoRow /\ TurnsPending(x) => NobodyFree(x)]_vars
  BY <1>1
<1> QED
  BY <1>2, SerialInvariant, PTL DEF Spec, FirstPendingIsTrue
=============================================================================
