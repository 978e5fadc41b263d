--------------------------- MODULE TrackingProofs ---------------------------
(***************************************************************************)
(* Proofs about Tracking: its types, that the cache never moves a bus back *)
(* in time (NeverBackwards), that a driver that is gone has left nothing   *)
(* online (GoneIsOffline), and that a subscription misses no position      *)
(* (NothingMissed).                                                        *)
(*                                                                         *)
(* None of the last three is inductive: they speak of the cache, and what  *)
(* is in the cache next is decided by the commands in flight.  Each has an *)
(* invariant about those: InOrder, Tidy and Heard.                         *)
(***************************************************************************)
EXTENDS Tracking, TLAPS

\* Helper of TypeCorrect: what the constants say of a report.
LEMMA ReportFacts ==
    \A d \in Drivers : \A r \in ReportsOf[d] :
        r.bus \in Buses /\ r.route \in Buses /\ r.trip \in BOOLEAN
BY ClientAssumption DEF Reports

\* Helper of TypeCorrect: a queue after commands were appended.
LEMMA AppendFacts ==
    ASSUME NEW q \in Seq(Commands), NEW cs \in Seq(Commands)
    PROVE  /\ q \o cs \in Seq(Commands)
           /\ \A i \in DOMAIN q : i \in DOMAIN (q \o cs) /\ (q \o cs)[i] = q[i]
           /\ \A i \in DOMAIN (q \o cs) :
                 \/ i \in DOMAIN q
                 \/ i > Len(q) /\ \E j \in DOMAIN cs : (q \o cs)[i] = cs[j]
OBVIOUS

\* Helper of TypeCorrect: a queue after its head was executed.
LEMMA TailFacts ==
    ASSUME NEW q \in Seq(Commands), q # <<>>
    PROVE  /\ Tail(q) \in Seq(Commands)
           /\ 1 \in DOMAIN q /\ Head(q) = q[1] /\ q[1] \in Commands
           /\ \A i \in DOMAIN Tail(q) : i + 1 \in DOMAIN q /\ Tail(q)[i] = q[i + 1]
           /\ \A i \in DOMAIN q : i # 1 => i - 1 \in DOMAIN Tail(q)
OBVIOUS

\* Helper of TypeCorrect: what a crash leaves of a queue.
LEMMA PrefixFacts ==
    ASSUME NEW q \in Seq(Commands), NEW n \in 0..Len(q)
    PROVE  /\ SubSeq(q, 1, n) \in Seq(Commands)
           /\ \A i \in DOMAIN SubSeq(q, 1, n) :
                 i \in DOMAIN q /\ SubSeq(q, 1, n)[i] = q[i]
OBVIOUS

\* Helper of TypeCorrect: the commands that the handlers issue are typed.
LEMMA CommandTypes ==
    /\ \A kind \in {"location", "trip"}, u \in Positions :
          Set(kind, u) \in Commands
    /\ \A kind \in {"location", "trip"}, b \in Buses, d \in Drivers :
          [op |-> "del", key |-> <<kind, b>>, by |-> d] \in Commands
    /\ \A p \in Parents :
          [op |-> "get", key |-> <<"location", RouteOf[p]>>, by |-> p] \in Commands
<1>1. \A kind \in {"location", "trip"}, b \in Buses : <<kind, b>> \in Keys
  BY DEF Keys
<1>2. \A kind \in {"location", "trip"}, u \in Positions : Set(kind, u) \in Commands
  <2> SUFFICES ASSUME NEW kind \in {"location", "trip"}, NEW u \in Positions
               PROVE  Set(kind, u) \in Commands
    OBVIOUS
  <2>1. u.bus \in Buses /\ u.by \in Drivers
    BY DEF Positions
  <2> QED BY <2>1, <1>1 DEF Set, Commands
<1>3. \A kind \in {"location", "trip"}, b \in Buses, d \in Drivers :
         [op |-> "del", key |-> <<kind, b>>, by |-> d] \in Commands
  BY <1>1 DEF Commands
<1>4. \A p \in Parents :
         [op |-> "get", key |-> <<"location", RouteOf[p]>>, by |-> p] \in Commands
  BY <1>1, ClientAssumption DEF Commands
<1> QED BY <1>2, <1>3, <1>4

\* Helper of TypeCorrect: the position that update_location composes.
LEMMA PositionType ==
    ASSUME NEW n \in Nat, n < MaxUpdates, NEW d \in Drivers, NEW r \in ReportsOf[d]
    PROVE  [at |-> n + 1, by |-> d, bus |-> r.bus, route |-> r.route] \in Positions
BY ReportFacts, BoundAssumption DEF Positions

\* What one report does, by the name of the position it composes.
Composed(d, r) == [at |-> sent + 1, by |-> d, bus |-> r.bus, route |-> r.route]
Cached(d, r) == IF r.trip THEN <<Set("location", Composed(d, r)), Set("trip", Composed(d, r))>>
                          ELSE <<Set("location", Composed(d, r))>>

\* Helper of the invariants: update_location in these names.
LEMMA UpdateFacts ==
    ASSUME TypeOK, NEW d \in Drivers, NEW r \in ReportsOf[d], Update(d, r)
    PROVE  /\ conn[d] = "open" /\ conn' = conn /\ store' = store
           /\ sent < MaxUpdates /\ sent' = sent + 1
           /\ joined' = joined /\ ask' = ask /\ snap' = snap
           /\ session' = [session EXCEPT ![d] = IF @ = None THEN r.bus ELSE @]
           /\ Composed(d, r) \in Positions
           /\ Cached(d, r) \in Seq(Commands)
           /\ \A j \in DOMAIN Cached(d, r) :
                 \E kind \in {"location", "trip"} :
                    Cached(d, r)[j] = Set(kind, Composed(d, r))
           /\ queue' = queue \o Cached(d, r)
           /\ got' = [p \in Parents |->
                        IF p \in joined /\ RouteOf[p] = r.route
                        THEN got[p] \cup {Composed(d, r)} ELSE got[p]]
           /\ persisting' = persisting \cup {Composed(d, r)}
           /\ points' = points /\ crashes' = crashes
<1>1. sent \in Nat /\ sent < MaxUpdates
  BY BoundAssumption DEF TypeOK, Update
<1>2. Composed(d, r) \in Positions
  BY <1>1, PositionType DEF Composed
<1>3. Set("location", Composed(d, r)) \in Commands /\ Set("trip", Composed(d, r)) \in Commands
  BY <1>2, CommandTypes
<1>4. Cached(d, r) \in Seq(Commands)
  BY <1>3 DEF Cached
<1>5. \A j \in DOMAIN Cached(d, r) :
         \E kind \in {"location", "trip"} : Cached(d, r)[j] = Set(kind, Composed(d, r))
  BY DEF Cached
<1>6. queue' = queue \o Cached(d, r)
  BY DEF Update, Issue, Cached, Composed
<1>7. got' = [p \in Parents |-> IF p \in joined /\ RouteOf[p] = r.route
                               THEN got[p] \cup {Composed(d, r)} ELSE got[p]]
  BY DEF Update, Composed
<1>8. persisting' = persisting \cup {Composed(d, r)}
  BY DEF Update, Composed
<1> QED BY <1>1, <1>2, <1>4, <1>5, <1>6, <1>7, <1>8 DEF Update
-----------------------------------------------------------------------------
(* Types *)

\* A socket that is being cleaned up has its session.
Registered ==
    \A d \in Drivers : conn[d] \in {"delLocation", "delTrip"} => session[d] # None

\* Helper of TypeCorrect: Init is typed.
LEMMA InitType == Init => TypeOK /\ Registered
BY BoundAssumption DEF Init, TypeOK, Registered, Clients, Closed

\* Helper of TypeCorrect: a step keeps the types.
LEMMA NextType == TypeOK /\ Registered /\ [Next]_vars => TypeOK' /\ Registered'
<1> SUFFICES ASSUME TypeOK, Registered, [Next]_vars PROVE TypeOK' /\ Registered'
  OBVIOUS
<1> USE DEF TypeOK, Registered
<1>0. Drivers \subseteq Clients /\ Parents \subseteq Clients /\ None \notin Buses
  BY NoneAssumption DEF Clients
<1>1. ASSUME NEW c \in Clients, Connect(c) PROVE TypeOK' /\ Registered'
  BY <1>0, <1>1 DEF Connect, Closed
<1>2. ASSUME NEW c \in Clients, Leave(c) PROVE TypeOK' /\ Registered'
  BY <1>0, <1>2 DEF Leave, Closed
<1>3. ASSUME NEW d \in Drivers, Disconnect(d) PROVE TypeOK' /\ Registered'
  <2>1. <<Del("location", d)>> \in Seq(Commands)
    BY <1>3, CommandTypes DEF Del, Disconnect
  <2>2. queue' \in Seq(Commands)
    BY <1>3, <2>1, AppendFacts DEF Disconnect, Issue
  <2> QED BY <1>0, <1>3, <2>2 DEF Disconnect
<1>4. ASSUME NEW d \in Drivers, DeleteTrip(d) PROVE TypeOK' /\ Registered'
  <2>1. <<Del("trip", d)>> \in Seq(Commands)
    BY <1>4, CommandTypes DEF Del, DeleteTrip
  <2>2. queue' \in Seq(Commands)
    BY <1>4, <2>1, AppendFacts DEF DeleteTrip, Issue
  <2> QED BY <1>0, <1>4, <2>2 DEF DeleteTrip
<1>5. ASSUME NEW d \in Drivers, DeleteSession(d) PROVE TypeOK' /\ Registered'
  BY <1>0, <1>5 DEF DeleteSession, Closed
<1>6. ASSUME NEW d \in Drivers, NEW r \in ReportsOf[d], Update(d, r)
      PROVE  TypeOK' /\ Registered'
  <2>1. queue' \in Seq(Commands)
    <3>1. queue' = queue \o Cached(d, r) /\ Cached(d, r) \in Seq(Commands)
      BY <1>6, UpdateFacts
    <3> QED BY <3>1, AppendFacts
  <2>2. sent' \in 0..MaxUpdates
    <3>1. sent' = sent + 1 /\ sent < MaxUpdates
      BY <1>6, UpdateFacts
    <3> QED BY <3>1, BoundAssumption
  <2>3. session' \in [Drivers -> Buses \cup {None}]
    BY <1>6, UpdateFacts, ReportFacts
  <2>4. got' \in [Parents -> SUBSET Positions]
    <3>1. got' = [p \in Parents |-> IF p \in joined /\ RouteOf[p] = r.route
                                    THEN got[p] \cup {Composed(d, r)} ELSE got[p]]
      BY <1>6, UpdateFacts
    <3>2. Composed(d, r) \in Positions
      BY <1>6, UpdateFacts
    <3> QED BY <3>1, <3>2
  <2>5. persisting' \subseteq Positions
    BY <1>6, UpdateFacts
  <2>6. Registered'
    BY <1>0, <1>6, UpdateFacts
  <2> QED BY <1>6, <2>1, <2>2, <2>3, <2>4, <2>5, <2>6, UpdateFacts
<1>7. ASSUME NEW u \in persisting, Persisted(u) PROVE TypeOK' /\ Registered'
  BY <1>7 DEF Persisted
<1>8. ASSUME NEW u \in persisting, PersistFails(u) PROVE TypeOK' /\ Registered'
  BY <1>8 DEF PersistFails
<1>9. ASSUME NEW p \in Parents, Subscribe(p) PROVE TypeOK' /\ Registered'
  <2>1. <<[op |-> "get", key |-> <<"location", RouteOf[p]>>, by |-> p]>> \in Seq(Commands)
    BY CommandTypes
  <2>2. queue' \in Seq(Commands)
    BY <1>9, <2>1, AppendFacts DEF Subscribe, Issue
  <2> QED BY <1>9, <2>2 DEF Subscribe
<1>10. ASSUME NEW p \in Parents, Snapshot(p) PROVE TypeOK' /\ Registered'
  BY <1>10 DEF Snapshot
<1>11. ASSUME NEW p \in Parents, SubscribeFails(p) PROVE TypeOK' /\ Registered'
  BY <1>11 DEF SubscribeFails
<1>12. ASSUME NEW p \in Parents, Unsubscribe(p) PROVE TypeOK' /\ Registered'
  BY <1>12 DEF Unsubscribe
<1>13. ASSUME Execute PROVE TypeOK' /\ Registered'
  <2>1. queue # <<>> /\ queue' = Tail(queue)
    BY <1>13 DEF Execute
  <2>2. queue' \in Seq(Commands) /\ Head(queue) \in Commands
    BY <2>1, TailFacts
  <2>3. Head(queue).op = "setex" => Head(queue).value \in Positions
    BY <2>2 DEF Commands
  <2>4. Head(queue).op = "get" => Head(queue).by \in Parents
    BY <2>2 DEF Commands
  <2>5. Head(queue).key \in Keys
    BY <2>2 DEF Commands
  <2>6. store' \in [Keys -> Positions \cup {None}]
    BY <1>13, <2>3, <2>5 DEF Execute
  <2>7. snap' \in [Parents -> Positions \cup {None}]
    BY <1>13, <2>4, <2>5 DEF Execute
  <2> QED BY <1>13, <2>2, <2>6, <2>7 DEF Execute
<1>14. ASSUME NEW k \in Keys, Expire(k) PROVE TypeOK' /\ Registered'
  BY <1>14 DEF Expire
<1>15. ASSUME Crash PROVE TypeOK' /\ Registered'
  <2>1. queue' \in Seq(Commands)
    BY <1>15, PrefixFacts DEF Crash
  <2>2. crashes' \in 0..MaxCrashes
    BY <1>15, BoundAssumption DEF Crash
  <2>3. conn' \in [Clients -> {"new", "open", "delLocation", "delTrip"} \cup Closed]
    BY <1>15 DEF Crash, Closed
  <2>4. \A d \in Drivers : conn'[d] \notin {"delLocation", "delTrip"}
    BY <1>0, <1>15 DEF Crash, Closed
  <2>5. session' \in [Drivers -> Buses \cup {None}]
    BY <1>15 DEF Crash
  <2> QED BY <1>15, <2>1, <2>2, <2>3, <2>4, <2>5 DEF Crash
<1>16. CASE UNCHANGED vars
  BY <1>16 DEF vars
<1> QED
  BY <1>1, <1>2, <1>3, <1>4, <1>5, <1>6, <1>7, <1>8, <1>9, <1>10, <1>11,
     <1>12, <1>13, <1>14, <1>15, <1>16 DEF Next, Quiet

\* Helper of the invariants: types always hold.
LEMMA Typed == Spec => [](TypeOK /\ Registered)
BY InitType, NextType, PTL DEF Spec

\* Sockets, sessions, commands in flight and keys always have their types.
THEOREM TypeCorrect == Spec => []TypeOK
BY Typed, PTL
-----------------------------------------------------------------------------
(* NeverBackwards *)

\* Positions are cached in the order in which they were reported: the commands
\* in flight are in that order and none is older than what is cached.
InOrder ==
    /\ \A k \in Keys : store[k] # None => store[k].at <= sent
    /\ \A i \in DOMAIN queue : queue[i].op = "setex" => queue[i].value.at <= sent
    /\ \A i \in DOMAIN queue : \A k \in Keys :
          queue[i].op = "setex" /\ queue[i].key = k /\ store[k] # None
          => store[k].at <= queue[i].value.at
    /\ \A i, j \in DOMAIN queue :
          queue[i].op = "setex" /\ queue[j].op = "setex" /\ i < j
          => queue[i].value.at <= queue[j].value.at

\* Helper of the invariants: a command SETEX carries a position, for its key.
LEMMA CommandFacts ==
    ASSUME TypeOK, NEW i \in DOMAIN queue
    PROVE  /\ queue[i] \in Commands /\ queue[i].key \in Keys
           /\ queue[i].op \in {"setex", "del", "get"}
           /\ queue[i].op = "setex" => /\ queue[i].value \in Positions
                                       /\ queue[i].value # None
                                       /\ queue[i].value.at \in Nat
<1>1. queue[i] \in Commands
  BY DEF TypeOK
<1>2. queue[i].op = "setex" => queue[i].value \in Positions
  BY <1>1 DEF Commands
<1>3. \A u \in Positions : u.at \in Nat /\ u # None
  BY NoneAssumption, BoundAssumption DEF Positions
<1> QED BY <1>1, <1>2, <1>3 DEF Commands

\* Helper of the invariants: what is cached is a position.
LEMMA StoreFacts ==
    ASSUME TypeOK, NEW k \in Keys, store[k] # None
    PROVE  store[k] \in Positions /\ store[k].at \in Nat
BY BoundAssumption DEF TypeOK, Positions

\* Kinds of step, seen from the cache and the queue.
Appends(cs) == queue' = queue \o cs /\ cs \in Seq(Commands) /\ store' = store
NoSet(cs) == \A j \in DOMAIN cs : cs[j].op # "setex"
Shortens == /\ store' = store
            /\ \E n \in 0..Len(queue) : queue' = SubSeq(queue, 1, n)
Expires == /\ queue' = queue
           /\ \E k \in Keys : store' = [store EXCEPT ![k] = None]

\* Helper of the invariants: every step is of one of these kinds.
LEMMA QueueKinds ==
    ASSUME TypeOK, Registered, [Next]_vars
    PROVE  \/ sent' = sent /\ \E cs : Appends(cs) /\ NoSet(cs)
           \/ sent' = sent /\ queue' = queue /\ store' = store
           \/ \E d \in Drivers : \E r \in ReportsOf[d] : Update(d, r)
           \/ sent' = sent /\ Execute
           \/ sent' = sent /\ Expires
           \/ sent' = sent /\ Shortens
<1>1. ASSUME NEW d \in Drivers, Disconnect(d)
      PROVE  sent' = sent /\ Appends(<<Del("location", d)>>) /\ NoSet(<<Del("location", d)>>)
  <2>1. session[d] \in Buses
    BY <1>1 DEF TypeOK, Disconnect
  <2>2. Del("location", d) \in Commands
    BY <2>1, CommandTypes DEF Del
  <2> QED BY <1>1, <2>2 DEF Disconnect, Issue, Appends, NoSet, Del
<1>2. ASSUME NEW d \in Drivers, DeleteTrip(d)
      PROVE  sent' = sent /\ Appends(<<Del("trip", d)>>) /\ NoSet(<<Del("trip", d)>>)
  <2>1. session[d] \in Buses
    BY <1>2 DEF TypeOK, Registered, DeleteTrip
  <2>2. Del("trip", d) \in Commands
    BY <2>1, CommandTypes DEF Del
  <2> QED BY <1>2, <2>2 DEF DeleteTrip, Issue, Appends, NoSet, Del
<1>3. ASSUME NEW p \in Parents, Subscribe(p)
      PROVE  \E cs : sent' = sent /\ Appends(cs) /\ NoSet(cs)
  <2> DEFINE c == [op |-> "get", key |-> <<"location", RouteOf[p]>>, by |-> p]
  <2>1. c \in Commands
    BY CommandTypes
  <2>2. sent' = sent /\ Appends(<<c>>) /\ NoSet(<<c>>)
    BY <1>3, <2>1 DEF Subscribe, Issue, Appends, NoSet
  <2> QED BY <2>2
<1>4. ASSUME \/ \E c \in Clients : Connect(c) \/ Leave(c)
             \/ \E d \in Drivers : DeleteSession(d)
             \/ \E u \in persisting : Persisted(u) \/ PersistFails(u)
             \/ \E p \in Parents : Snapshot(p) \/ SubscribeFails(p) \/ Unsubscribe(p)
             \/ Quiet \/ UNCHANGED vars
      PROVE  sent' = sent /\ queue' = queue /\ store' = store
  BY <1>4 DEF Connect, Leave, DeleteSession, Persisted, PersistFails, Snapshot,
              SubscribeFails, Unsubscribe, Quiet, vars
<1>5. ASSUME Execute PROVE sent' = sent
  BY <1>5 DEF Execute
<1>6. ASSUME NEW k \in Keys, Expire(k) PROVE sent' = sent /\ Expires
  BY <1>6 DEF Expire, Expires
<1>7. ASSUME Crash PROVE sent' = sent /\ Shortens
  BY <1>7 DEF Crash, Shortens
<1> QED BY <1>1, <1>2, <1>3, <1>4, <1>5, <1>6, <1>7 DEF Next

\* Helper of the invariants: Execute in the words of its command.
LEMMA ExecuteFacts ==
    ASSUME TypeOK, Execute
    PROVE  /\ queue # <<>> /\ queue' = Tail(queue)
           /\ 1 \in DOMAIN queue /\ queue[1].key \in Keys
           /\ queue[1].op = "get" => store' = store
           /\ queue[1].op # "get" =>
                store' = [store EXCEPT ![queue[1].key] =
                            IF queue[1].op = "setex" THEN queue[1].value ELSE None]
           /\ \A i \in DOMAIN queue' : i + 1 \in DOMAIN queue /\ queue'[i] = queue[i + 1]
<1>1. queue # <<>> /\ queue' = Tail(queue) /\ queue \in Seq(Commands)
  BY DEF Execute, TypeOK
<1>2. 1 \in DOMAIN queue /\ Head(queue) = queue[1]
  BY <1>1, TailFacts
<1>3. \A i \in DOMAIN queue' : i + 1 \in DOMAIN queue /\ queue'[i] = queue[i + 1]
  BY <1>1, TailFacts
<1>4. queue[1].key \in Keys
  BY <1>2, CommandFacts
<1> QED BY <1>1, <1>2, <1>3, <1>4 DEF Execute

\* Helper of NoStepBack: a step keeps the order.
LEMMA NextInOrder == TypeOK /\ Registered /\ InOrder /\ [Next]_vars => InOrder'
<1> SUFFICES ASSUME TypeOK, Registered, InOrder, [Next]_vars PROVE InOrder'
  OBVIOUS
<1>0. sent \in Nat
  BY BoundAssumption DEF TypeOK
<1>q. queue \in Seq(Commands) /\ DOMAIN queue = 1..Len(queue) /\ Len(queue) \in Nat
  BY DEF TypeOK
<1>1. ASSUME sent' = sent, NEW cs, Appends(cs), NoSet(cs) PROVE InOrder'
  <2>1. cs \in Seq(Commands) /\ queue' = queue \o cs
    BY <1>1 DEF Appends
  <2>2. \A i \in DOMAIN queue' :
           \/ i \in DOMAIN queue /\ queue'[i] = queue[i]
           \/ i > Len(queue) /\ \E j \in DOMAIN cs : queue'[i] = cs[j]
    BY <1>q, <2>1, AppendFacts
  <2>3. \A i \in DOMAIN queue' : queue'[i].op = "setex" =>
           i \in DOMAIN queue /\ queue'[i] = queue[i]
    BY <1>1, <2>2 DEF NoSet
  <2>4. store' = store
    BY <1>1 DEF Appends
  <2> QED BY <1>1, <2>3, <2>4 DEF InOrder
<1>2. ASSUME sent' = sent, queue' = queue, store' = store PROVE InOrder'
  BY <1>2 DEF InOrder
<1>3. ASSUME NEW d \in Drivers, NEW r \in ReportsOf[d], Update(d, r) PROVE InOrder'
  <2>1. /\ sent' = sent + 1 /\ store' = store /\ queue' = queue \o Cached(d, r)
        /\ Cached(d, r) \in Seq(Commands)
    BY <1>3, UpdateFacts
  <2>2. \A j \in DOMAIN Cached(d, r) : Cached(d, r)[j].value.at = sent + 1
    <3>1. \A j \in DOMAIN Cached(d, r) : \E kind \in {"location", "trip"} :
             Cached(d, r)[j] = Set(kind, Composed(d, r))
      BY <1>3, UpdateFacts
    <3>2. \A kind \in {"location", "trip"} :
             Set(kind, Composed(d, r)).value.at = sent + 1
      BY DEF Set, Composed
    <3> QED BY <3>1, <3>2
  <2>a. \A i \in DOMAIN queue' :
           \/ i \in DOMAIN queue /\ queue'[i] = queue[i]
           \/ i > Len(queue) /\ \E j \in DOMAIN Cached(d, r) :
                                   queue'[i] = Cached(d, r)[j]
    <3>1. \A i \in DOMAIN queue : queue'[i] = queue[i]
      BY <1>q, <2>1, AppendFacts
    <3>2. \A i \in DOMAIN queue' :
             \/ i \in DOMAIN queue
             \/ i > Len(queue) /\ \E j \in DOMAIN Cached(d, r) :
                                     queue'[i] = Cached(d, r)[j]
      BY <1>q, <2>1, AppendFacts
    <3> QED BY <3>1, <3>2
  <2>3. \A i \in DOMAIN queue' :
           \/ i \in DOMAIN queue /\ queue'[i] = queue[i]
           \/ i > Len(queue) /\ queue'[i].value.at = sent + 1
    BY <2>a, <2>2
  <2>4. \A i \in DOMAIN queue : queue[i].op = "setex" => queue[i].value.at \in Nat
    BY CommandFacts
  <2>5. \A k \in Keys : store[k] # None => store[k].at \in Nat
    BY StoreFacts
  <2>6. \A k \in Keys : store'[k] # None => store'[k].at <= sent'
    BY <1>0, <2>1, <2>5 DEF InOrder
  <2>7. \A i \in DOMAIN queue' : queue'[i].op = "setex" => queue'[i].value.at <= sent'
    <3> SUFFICES ASSUME NEW i \in DOMAIN queue', queue'[i].op = "setex"
                 PROVE  queue'[i].value.at <= sent'
      OBVIOUS
    <3>1. CASE i \in DOMAIN queue /\ queue'[i] = queue[i]
      BY <1>0, <2>1, <2>4, <3>1 DEF InOrder
    <3>2. CASE queue'[i].value.at = sent + 1
      BY <1>0, <2>1, <3>2
    <3> QED BY <2>3, <3>1, <3>2
  <2>8. \A i \in DOMAIN queue' : \A k \in Keys :
           queue'[i].op = "setex" /\ queue'[i].key = k /\ store'[k] # None
           => store'[k].at <= queue'[i].value.at
    <3> SUFFICES ASSUME NEW i \in DOMAIN queue', NEW k \in Keys, queue'[i].op = "setex",
                        queue'[i].key = k, store'[k] # None
                 PROVE  store'[k].at <= queue'[i].value.at
      OBVIOUS
    <3>1. CASE i \in DOMAIN queue /\ queue'[i] = queue[i]
      BY <2>1, <3>1 DEF InOrder
    <3>2. CASE queue'[i].value.at = sent + 1
      BY <1>0, <2>1, <2>5, <3>2 DEF InOrder
    <3> QED BY <2>3, <3>1, <3>2
  <2>9. \A i, j \in DOMAIN queue' :
           queue'[i].op = "setex" /\ queue'[j].op = "setex" /\ i < j
           => queue'[i].value.at <= queue'[j].value.at
    <3> SUFFICES ASSUME NEW i \in DOMAIN queue', NEW j \in DOMAIN queue',
                        queue'[i].op = "setex", queue'[j].op = "setex", i < j
                 PROVE  queue'[i].value.at <= queue'[j].value.at
      OBVIOUS
    <3>0. i \in Nat /\ j \in Nat
      <4>1. queue' \in Seq(Commands)
        BY <1>q, <2>1, AppendFacts
      <4> QED BY <4>1
    <3>1. CASE j \in DOMAIN queue /\ queue'[j] = queue[j]
      <4>1. i \in DOMAIN queue /\ queue'[i] = queue[i]
        BY <1>q, <2>3, <3>0, <3>1
      <4> QED BY <3>1, <4>1 DEF InOrder
    <3>2. CASE queue'[j].value.at = sent + 1
      BY <1>0, <2>1, <2>7, <3>2
    <3> QED BY <2>3, <3>1, <3>2
  <2> QED BY <2>6, <2>7, <2>8, <2>9 DEF InOrder
<1>4. ASSUME sent' = sent, Execute PROVE InOrder'
  <2>1. /\ 1 \in DOMAIN queue /\ queue[1].key \in Keys
        /\ queue[1].op = "get" => store' = store
        /\ queue[1].op # "get" =>
             store' = [store EXCEPT ![queue[1].key] =
                         IF queue[1].op = "setex" THEN queue[1].value ELSE None]
        /\ \A i \in DOMAIN queue' : i + 1 \in DOMAIN queue /\ queue'[i] = queue[i + 1]
    BY <1>4, ExecuteFacts
  <2>2. \A i \in DOMAIN queue' : i \in Nat /\ 1 < i + 1
    <3>1. queue' \in Seq(Commands)
      <4>1. queue # <<>> /\ queue' = Tail(queue)
        BY <1>4 DEF Execute
      <4> QED BY <1>q, <4>1, TailFacts
    <3> QED BY <3>1
  <2>3. \A k \in Keys : store'[k] # None =>
           \/ store'[k] = store[k]
           \/ queue[1].op = "setex" /\ queue[1].key = k /\ store'[k] = queue[1].value
    BY <2>1 DEF TypeOK
  <2>4. \A k \in Keys : store'[k] # None => store'[k].at <= sent'
    BY <1>4, <2>1, <2>3 DEF InOrder
  <2>5. \A i \in DOMAIN queue' : queue'[i].op = "setex" => queue'[i].value.at <= sent'
    BY <1>4, <2>1 DEF InOrder
  <2>6. \A i \in DOMAIN queue' : \A k \in Keys :
           queue'[i].op = "setex" /\ queue'[i].key = k /\ store'[k] # None
           => store'[k].at <= queue'[i].value.at
    BY <2>1, <2>2, <2>3 DEF InOrder
  <2>7. \A i, j \in DOMAIN queue' :
           queue'[i].op = "setex" /\ queue'[j].op = "setex" /\ i < j
           => queue'[i].value.at <= queue'[j].value.at
    <3> SUFFICES ASSUME NEW i \in DOMAIN queue', NEW j \in DOMAIN queue',
                        queue'[i].op = "setex", queue'[j].op = "setex", i < j
                 PROVE  queue'[i].value.at <= queue'[j].value.at
      OBVIOUS
    <3>1. i + 1 \in DOMAIN queue /\ j + 1 \in DOMAIN queue /\ i + 1 < j + 1
      BY <2>1, <2>2
    <3>2. queue'[i] = queue[i + 1] /\ queue'[j] = queue[j + 1]
      BY <2>1
    <3> QED BY <3>1, <3>2 DEF InOrder
  <2> QED BY <2>4, <2>5, <2>6, <2>7 DEF InOrder
<1>5. ASSUME sent' = sent, Expires PROVE InOrder'
  <2>1. \A k \in Keys : store'[k] # None => store'[k] = store[k]
    BY <1>5 DEF Expires, TypeOK
  <2> QED BY <1>5, <2>1 DEF InOrder, Expires
<1>6. ASSUME sent' = sent, Shortens PROVE InOrder'
  <2>1. \A i \in DOMAIN queue' : i \in DOMAIN queue /\ queue'[i] = queue[i]
    BY <1>6, <1>q, PrefixFacts DEF Shortens
  <2> QED BY <1>6, <2>1 DEF InOrder, Shortens
<1> QED BY <1>1, <1>2, <1>3, <1>4, <1>5, <1>6, QueueKinds

\* Helper of NoStepBack: the order always holds.
LEMMA Ordered == Spec => []InOrder
<1>1. Init => InOrder
  BY DEF Init, InOrder
<1> QED BY <1>1, NextInOrder, Typed, PTL DEF Spec

\* Whoever reports a bus, and whatever is in flight when sockets close or the
\* process dies, the cached position of a bus never gets older.
THEOREM NoStepBack == Spec => NeverBackwards
<1>1. TypeOK /\ Registered /\ InOrder /\ [Next]_vars
      => [\A k \in Keys : store[k] # None /\ store'[k] # None
                          => store[k].at <= store'[k].at]_vars
  <2> SUFFICES ASSUME TypeOK, Registered, InOrder, [Next]_vars,
                      NEW k \in Keys, store[k] # None, store'[k] # None
               PROVE  store[k].at <= store'[k].at
    OBVIOUS
  <2>0. store[k].at \in Nat
    BY StoreFacts
  <2>1. ASSUME store' = store PROVE store[k].at <= store'[k].at
    BY <2>0, <2>1
  <2>2. ASSUME NEW d \in Drivers, NEW r \in ReportsOf[d], Update(d, r)
        PROVE  store' = store
    BY <2>2 DEF Update
  <2>3. ASSUME Execute PROVE store[k].at <= store'[k].at
    <3>1. \/ store'[k] = store[k]
          \/ queue[1].op = "setex" /\ queue[1].key = k /\ store'[k] = queue[1].value
      BY <2>3, ExecuteFacts DEF TypeOK
    <3>2. 1 \in DOMAIN queue
      BY <2>3, ExecuteFacts
    <3> QED BY <2>0, <3>1, <3>2 DEF InOrder
  <2>4. ASSUME Expires PROVE store'[k] = store[k]
    BY <2>4 DEF Expires, TypeOK
  <2> QED BY <2>0, <2>1, <2>2, <2>3, <2>4, QueueKinds DEF Appends, Shortens
<1> QED BY <1>1, Typed, Ordered, PTL DEF Spec, NeverBackwards
-----------------------------------------------------------------------------
(* GoneIsOffline *)

\* No position that d reported is cached under k, nor about to be.
Silent(d, k) ==
    /\ store[k] # None => store[k].by # d
    /\ \A i \in DOMAIN queue :
          queue[i].op = "setex" /\ queue[i].by = d => queue[i].key # k

\* A DEL of d is about to clean k, and nothing of d's comes after it.
Doomed(d, k) ==
    \E i \in DOMAIN queue :
        /\ queue[i].op = "del" /\ queue[i].by = d /\ queue[i].key = k
        /\ \A j \in DOMAIN queue :
              i < j /\ queue[j].op = "setex" /\ queue[j].by = d
              => queue[j].key # k

\* Whoever issues a SETEX reported its position.
Honest == \A i \in DOMAIN queue :
             queue[i].op = "setex" => queue[i].value.by = queue[i].by

\* A step that issues no SETEX of d and loses no command.
Flows(d) == \/ queue' = queue /\ store' = store
            \/ \E cs : /\ Appends(cs)
                       /\ \A j \in DOMAIN cs : cs[j].op = "setex" => cs[j].by # d
            \/ Execute
            \/ Expires

\* Helper of the invariants: the queue after commands were appended.
LEMMA Appended ==
    ASSUME TypeOK, NEW cs, Appends(cs)
    PROVE  /\ \A i \in DOMAIN queue : i \in DOMAIN queue' /\ queue'[i] = queue[i]
           /\ \A i \in DOMAIN queue' :
                 \/ i \in DOMAIN queue
                 \/ \E j \in DOMAIN cs : queue'[i] = cs[j]
<1>1. queue \in Seq(Commands) /\ cs \in Seq(Commands) /\ queue' = queue \o cs
  BY DEF TypeOK, Appends
<1>2. \A i \in DOMAIN queue : i \in DOMAIN queue' /\ queue'[i] = queue[i]
  BY <1>1, AppendFacts
<1>3. \A i \in DOMAIN queue' : i \in DOMAIN queue \/ \E j \in DOMAIN cs : queue'[i] = cs[j]
  BY <1>1, AppendFacts
<1> QED BY <1>2, <1>3

\* Helper of OfflineWhenGone: a step keeps the commands honest.
LEMMA NextHonest == TypeOK /\ Registered /\ Honest /\ [Next]_vars => Honest'
<1> SUFFICES ASSUME TypeOK, Registered, Honest, [Next]_vars PROVE Honest'
  OBVIOUS
<1>q. queue \in Seq(Commands) /\ Len(queue) \in Nat
  BY DEF TypeOK
<1>1. ASSUME NEW cs, Appends(cs),
             \A j \in DOMAIN cs : cs[j].op = "setex" => cs[j].value.by = cs[j].by
      PROVE  Honest'
  <2>1. \A i \in DOMAIN queue : queue'[i] = queue[i]
    BY <1>1, Appended
  <2>2. \A i \in DOMAIN queue' :
           i \in DOMAIN queue \/ \E j \in DOMAIN cs : queue'[i] = cs[j]
    BY <1>1, Appended
  <2> QED BY <1>1, <2>1, <2>2 DEF Honest
<1>2. ASSUME NEW d \in Drivers, NEW r \in ReportsOf[d], Update(d, r) PROVE Honest'
  <2>1. Appends(Cached(d, r))
    BY <1>2, UpdateFacts DEF Appends
  <2>2. \A j \in DOMAIN Cached(d, r) : \E kind \in {"location", "trip"} :
           Cached(d, r)[j] = Set(kind, Composed(d, r))
    BY <1>2, UpdateFacts
  <2>3. \A kind \in {"location", "trip"} :
           Set(kind, Composed(d, r)).value.by = Set(kind, Composed(d, r)).by
    BY DEF Set
  <2>4. \A j \in DOMAIN Cached(d, r) : Cached(d, r)[j].value.by = Cached(d, r)[j].by
    BY <2>2, <2>3
  <2> QED BY <1>1, <2>1, <2>4
<1>3. ASSUME Execute PROVE Honest'
  <2>1. \A i \in DOMAIN queue' : i + 1 \in DOMAIN queue /\ queue'[i] = queue[i + 1]
    BY <1>3, ExecuteFacts
  <2> QED BY <2>1 DEF Honest
<1>4. ASSUME Shortens PROVE Honest'
  <2>1. \A i \in DOMAIN queue' : i \in DOMAIN queue /\ queue'[i] = queue[i]
    BY <1>4, <1>q, PrefixFacts DEF Shortens
  <2> QED BY <2>1 DEF Honest
<1>5. ASSUME queue' = queue PROVE Honest'
  BY <1>5 DEF Honest
<1> QED BY <1>1, <1>2, <1>3, <1>4, <1>5, QueueKinds DEF NoSet, Expires

\* Helper of OfflineWhenGone: what is silent stays silent.
LEMMA SilentStep ==
    ASSUME TypeOK, Honest, NEW d \in Drivers, NEW k \in Keys, Silent(d, k),
           Flows(d) \/ Shortens
    PROVE  Silent(d, k)'
<1>q. queue \in Seq(Commands) /\ Len(queue) \in Nat
  BY DEF TypeOK
<1>1. CASE queue' = queue /\ store' = store
  BY <1>1 DEF Silent
<1>2. ASSUME NEW cs, Appends(cs),
             \A j \in DOMAIN cs : cs[j].op = "setex" => cs[j].by # d
      PROVE  Silent(d, k)'
  <2>1. store' = store
    BY <1>2 DEF Appends
  <2>2. \A i \in DOMAIN queue : queue'[i] = queue[i]
    BY <1>2, Appended
  <2>3. \A i \in DOMAIN queue' :
           i \in DOMAIN queue \/ \E j \in DOMAIN cs : queue'[i] = cs[j]
    BY <1>2, Appended
  <2> QED BY <1>2, <2>1, <2>2, <2>3 DEF Silent
<1>3. CASE Execute
  <2>1. /\ 1 \in DOMAIN queue /\ queue[1].key \in Keys
        /\ queue[1].op = "get" => store' = store
        /\ queue[1].op # "get" =>
             store' = [store EXCEPT ![queue[1].key] =
                         IF queue[1].op = "setex" THEN queue[1].value ELSE None]
        /\ \A i \in DOMAIN queue' : i + 1 \in DOMAIN queue /\ queue'[i] = queue[i + 1]
    BY <1>3, ExecuteFacts
  <2>2. store'[k] # None =>
           \/ store'[k] = store[k]
           \/ queue[1].op = "setex" /\ queue[1].key = k /\ store'[k] = queue[1].value
    BY <2>1 DEF TypeOK
  <2>3. store'[k] # None => store'[k].by # d
    BY <2>1, <2>2 DEF Silent, Honest
  <2> QED BY <2>1, <2>3 DEF Silent
<1>4. CASE Expires
  <2>1. store'[k] # None => store'[k] = store[k]
    BY <1>4 DEF Expires, TypeOK
  <2> QED BY <1>4, <2>1 DEF Silent, Expires
<1>5. CASE Shortens
  <2>1. \A i \in DOMAIN queue' : i \in DOMAIN queue /\ queue'[i] = queue[i]
    BY <1>5, <1>q, PrefixFacts DEF Shortens
  <2> QED BY <1>5, <2>1 DEF Silent, Shortens
<1> QED BY <1>1, <1>2, <1>3, <1>4, <1>5 DEF Flows

\* Helper of OfflineWhenGone: what is doomed is doomed until it is silent.
LEMMA DoomedStep ==
    ASSUME TypeOK, Honest, NEW d \in Drivers, NEW k \in Keys, Doomed(d, k), Flows(d)
    PROVE  Silent(d, k)' \/ Doomed(d, k)'
<1>q. queue \in Seq(Commands) /\ Len(queue) \in Nat /\ DOMAIN queue = 1..Len(queue)
  BY DEF TypeOK
<1> PICK i \in DOMAIN queue :
       /\ queue[i].op = "del" /\ queue[i].by = d /\ queue[i].key = k
       /\ \A j \in DOMAIN queue : i < j /\ queue[j].op = "setex" /\ queue[j].by = d
                                  => queue[j].key # k
  BY DEF Doomed
<1>1. CASE queue' = queue /\ store' = store
  BY <1>1 DEF Doomed
<1>2. ASSUME NEW cs, Appends(cs),
             \A j \in DOMAIN cs : cs[j].op = "setex" => cs[j].by # d
      PROVE  Doomed(d, k)'
  <2>2. \A j \in DOMAIN queue : j \in DOMAIN queue' /\ queue'[j] = queue[j]
    BY <1>2, Appended
  <2>3. \A j \in DOMAIN queue' :
           j \in DOMAIN queue \/ \E n \in DOMAIN cs : queue'[j] = cs[n]
    BY <1>2, Appended
  <2>4. \A j \in DOMAIN queue' : i < j /\ queue'[j].op = "setex" /\ queue'[j].by = d
                                  => queue'[j].key # k
    BY <1>2, <2>2, <2>3
  <2> QED BY <2>2, <2>4 DEF Doomed
<1>3. CASE Execute
  <2>1. /\ 1 \in DOMAIN queue /\ queue[1].key \in Keys
        /\ queue[1].op # "get" =>
             store' = [store EXCEPT ![queue[1].key] =
                         IF queue[1].op = "setex" THEN queue[1].value ELSE None]
        /\ \A j \in DOMAIN queue' : j + 1 \in DOMAIN queue /\ queue'[j] = queue[j + 1]
        /\ queue # <<>> /\ queue' = Tail(queue)
    BY <1>3, ExecuteFacts
  <2>2. \A j \in DOMAIN queue : j # 1 => j - 1 \in DOMAIN queue'
    BY <1>q, <2>1, TailFacts
  <2>3. \A j \in DOMAIN queue' : j \in Nat /\ 1 < j + 1
    <3>1. queue' \in Seq(Commands)
      BY <1>q, <2>1, TailFacts
    <3> QED BY <3>1
  <2>4. CASE i = 1
    <3>1. store'[k] = None
      BY <2>1, <2>4 DEF TypeOK
    <3>2. \A j \in DOMAIN queue' : queue'[j].op = "setex" /\ queue'[j].by = d
                                  => queue'[j].key # k
      BY <2>1, <2>3, <2>4
    <3> QED BY <3>1, <3>2 DEF Silent
  <2>5. CASE i # 1
    <3>1. i \in Nat /\ i - 1 \in DOMAIN queue' /\ queue'[i - 1] = queue[i]
      <4>1. i \in Nat /\ i - 1 \in DOMAIN queue'
        BY <1>q, <2>2, <2>5
      <4>2. queue'[i - 1] = queue[(i - 1) + 1]
        BY <2>1, <4>1
      <4> QED BY <4>1, <4>2
    <3>2. \A j \in DOMAIN queue' :
             i - 1 < j /\ queue'[j].op = "setex" /\ queue'[j].by = d
             => queue'[j].key # k
      BY <2>1, <2>3, <3>1
    <3> QED BY <3>1, <3>2 DEF Doomed
  <2> QED BY <2>4, <2>5
<1>4. CASE Expires
  BY <1>4 DEF Expires, Doomed
<1> QED BY <1>1, <1>2, <1>3, <1>4 DEF Flows

\* A step of the connection of d, or one that leaves it alone.
Keeps(d) == conn'[d] = conn[d] /\ session'[d] = session[d] /\ Flows(d)
Opens(d) == /\ conn[d] = "new" /\ conn'[d] \in {"open", "closed"}
            /\ session'[d] = session[d] /\ Flows(d)
Leaves(d) == /\ conn[d] = "open" /\ session[d] = None /\ conn'[d] = "closed"
             /\ session'[d] = session[d] /\ Flows(d)
Crashes(d) == /\ conn'[d] = IF conn[d] \in {"new"} \cup Closed THEN conn[d] ELSE "lost"
              /\ session'[d] = None /\ Shortens

\* Helper of OfflineWhenGone: every step, seen from the driver d.
LEMMA DriverKinds ==
    ASSUME TypeOK, Registered, [Next]_vars, NEW d \in Drivers
    PROVE  \/ Keeps(d) \/ Opens(d) \/ Leaves(d) \/ Crashes(d)
           \/ Disconnect(d) \/ DeleteTrip(d) \/ DeleteSession(d)
           \/ \E r \in ReportsOf[d] : Update(d, r)
<1>0. d \in Clients /\ conn \in [Clients -> {"new", "open", "delLocation", "delTrip"} \cup Closed]
      /\ session \in [Drivers -> Buses \cup {None}]
  BY DEF Clients, TypeOK
<1>1. ASSUME NEW c \in Clients, Connect(c) PROVE Keeps(d) \/ Opens(d)
  <2>1. CASE c = d
    BY <1>0, <1>1, <2>1 DEF Connect, Opens, Flows
  <2>2. CASE c # d
    BY <1>0, <1>1, <2>2 DEF Connect, Keeps, Flows
  <2> QED BY <2>1, <2>2
<1>2. ASSUME NEW c \in Clients, Leave(c) PROVE Keeps(d) \/ Leaves(d)
  <2>1. CASE c = d
    BY <1>0, <1>2, <2>1 DEF Leave, Leaves, Flows
  <2>2. CASE c # d
    BY <1>0, <1>2, <2>2 DEF Leave, Keeps, Flows
  <2> QED BY <2>1, <2>2
<1>3. ASSUME NEW e \in Drivers, e # d, Disconnect(e) \/ DeleteTrip(e) PROVE Keeps(d)
  <2>1. session[e] \in Buses
    BY <1>3 DEF TypeOK, Registered, Disconnect, DeleteTrip
  <2>2. \A kind \in {"location", "trip"} : Del(kind, e) \in Commands /\ Del(kind, e).op = "del"
    BY <2>1, CommandTypes DEF Del
  <2>3. PICK kind \in {"location", "trip"} : queue' = queue \o <<Del(kind, e)>>
    BY <1>3 DEF Disconnect, DeleteTrip, Issue
  <2>4. Flows(d)
    <3>1. Appends(<<Del(kind, e)>>)
      BY <1>3, <2>2, <2>3 DEF Appends, Disconnect, DeleteTrip
    <3>2. \A j \in DOMAIN <<Del(kind, e)>> : <<Del(kind, e)>>[j].op # "setex"
      BY <2>2, <2>3
    <3> QED BY <3>1, <3>2 DEF Flows
  <2>5. conn'[d] = conn[d] /\ session'[d] = session[d]
    BY <1>0, <1>3 DEF Disconnect, DeleteTrip
  <2> QED BY <2>4, <2>5 DEF Keeps
<1>4. ASSUME NEW e \in Drivers, e # d, DeleteSession(e) PROVE Keeps(d)
  BY <1>0, <1>4 DEF DeleteSession, Keeps, Flows
<1>5. ASSUME NEW e \in Drivers, e # d, NEW r \in ReportsOf[e], Update(e, r) PROVE Keeps(d)
  <2>1. Appends(Cached(e, r))
    BY <1>5, UpdateFacts DEF Appends
  <2>2. \A j \in DOMAIN Cached(e, r) : \E kind \in {"location", "trip"} :
           Cached(e, r)[j] = Set(kind, Composed(e, r))
    BY <1>5, UpdateFacts
  <2>3. \A kind \in {"location", "trip"} : Set(kind, Composed(e, r)).by = e
    BY DEF Set, Composed
  <2>4. \A j \in DOMAIN Cached(e, r) : Cached(e, r)[j].by # d
    BY <1>5, <2>2, <2>3
  <2>5. conn'[d] = conn[d] /\ session'[d] = session[d]
    BY <1>0, <1>5, UpdateFacts
  <2> QED BY <2>1, <2>4, <2>5 DEF Keeps, Flows
<1>6. ASSUME NEW p \in Parents, Subscribe(p) PROVE Keeps(d)
  <2> DEFINE c == [op |-> "get", key |-> <<"location", RouteOf[p]>>, by |-> p]
  <2>1. c \in Commands
    BY CommandTypes
  <2>2. Appends(<<c>>) /\ \A j \in DOMAIN <<c>> : <<c>>[j].op # "setex"
    BY <1>6, <2>1 DEF Subscribe, Issue, Appends
  <2>3. Flows(d)
    BY <2>2 DEF Flows
  <2> QED BY <1>6, <2>3 DEF Subscribe, Keeps
<1>7. ASSUME \/ \E u \in persisting : Persisted(u) \/ PersistFails(u)
             \/ \E p \in Parents : Snapshot(p) \/ SubscribeFails(p) \/ Unsubscribe(p)
             \/ Quiet \/ UNCHANGED vars
      PROVE  Keeps(d)
  BY <1>7 DEF Persisted, PersistFails, Snapshot, SubscribeFails, Unsubscribe,
              Quiet, vars, Keeps, Flows
<1>8. ASSUME Execute PROVE Keeps(d)
  BY <1>8 DEF Execute, Keeps, Flows
<1>9. ASSUME NEW k \in Keys, Expire(k) PROVE Keeps(d)
  BY <1>9 DEF Expire, Expires, Keeps, Flows
<1>10. ASSUME Crash PROVE Crashes(d)
  BY <1>0, <1>10 DEF Crash, Crashes, Shortens
<1> QED BY <1>1, <1>2, <1>3, <1>4, <1>5, <1>6, <1>7, <1>8, <1>9, <1>10 DEF Next

\* A driver d of the one bus b leaves nothing behind: what it reported is cached,
\* or about to be, only while it is connected or a DEL is on its way.
Tidy(d, b) ==
    /\ session[d] \in {None, b}
    /\ \A k \in Keys : k[2] # b => Silent(d, k)
    /\ (conn[d] \in {"new", "closed"} \/ (conn[d] = "open" /\ session[d] = None))
       => \A k \in Keys : Silent(d, k)
    /\ conn[d] = "delLocation" =>
          \A k \in Keys : k[1] = "location" => Silent(d, k) \/ Doomed(d, k)
    /\ conn[d] = "delTrip" =>
          \A k \in Keys :
             /\ k[1] = "location" => Silent(d, k)
             /\ k[1] = "trip" => Silent(d, k) \/ Doomed(d, k)

OneBus(d, b) == d \in Drivers /\ \A r \in ReportsOf[d] : r.bus = b

\* Helper of OfflineWhenGone: a DEL whose answer has come is not in flight.
LEMMA DelAnswered ==
    ASSUME NEW d, NEW k, Doomed(d, k) PROVE Awaits(d)
BY DEF Doomed, Awaits

\* Helper of OfflineWhenGone: once the DEL of k is issued, k is silent or doomed.
LEMMA DelIssued ==
    ASSUME TypeOK, NEW d \in Drivers, NEW kind \in {"location", "trip"}, session[d] \in Buses,
           queue' = queue \o <<Del(kind, d)>>
    PROVE  \A k : k = <<kind, session[d]>> => Doomed(d, k)'
<1>1. queue \in Seq(Commands) /\ Del(kind, d) \in Commands /\ Len(queue) \in Nat
  BY CommandTypes DEF TypeOK, Del
<1>2. /\ Len(queue) + 1 \in DOMAIN queue' /\ queue'[Len(queue) + 1] = Del(kind, d)
      /\ \A j \in DOMAIN queue' : ~(Len(queue) + 1 < j)
  BY <1>1
<1>3. /\ Del(kind, d).op = "del" /\ Del(kind, d).by = d
      /\ Del(kind, d).key = <<kind, session[d]>>
  BY DEF Del
<1>4. ASSUME NEW k, k = <<kind, session[d]>> PROVE Doomed(d, k)'
  <2>1. PICK i \in DOMAIN queue' : /\ queue'[i].op = "del" /\ queue'[i].by = d
                                   /\ queue'[i].key = k
                                   /\ \A j \in DOMAIN queue' : ~(i < j)
    BY <1>2, <1>3, <1>4
  <2> QED BY <2>1 DEF Doomed
<1> QED BY <1>4

\* Helper of OfflineWhenGone: a step keeps a driver's cache tidy.
LEMMA NextTidy ==
    ASSUME TypeOK, Registered, Honest, [Next]_vars, NEW d, NEW b, OneBus(d, b), Tidy(d, b)
    PROVE  Tidy(d, b)'
<1>0. d \in Drivers /\ d \in Clients /\ conn[d] \in {"new", "open", "delLocation", "delTrip"} \cup Closed
  BY DEF OneBus, Clients, TypeOK
<1>k. \A k \in Keys : k[1] \in {"location", "trip"} /\ k = <<k[1], k[2]>>
  BY DEF Keys
<1>s. ASSUME Flows(d) \/ Shortens, NEW k \in Keys, Silent(d, k) PROVE Silent(d, k)'
  BY <1>0, <1>s, SilentStep
<1>d. ASSUME Flows(d), NEW k \in Keys, Doomed(d, k) PROVE Silent(d, k)' \/ Doomed(d, k)'
  BY <1>0, <1>d, DoomedStep
<1>1. CASE Keeps(d)
  BY <1>1, <1>s, <1>d DEF Keeps, Tidy
<1>2. CASE Opens(d)
  BY <1>2, <1>s DEF Opens, Tidy
<1>3. CASE Leaves(d)
  BY <1>3, <1>s DEF Leaves, Tidy
<1>4. CASE Crashes(d)
  BY <1>0, <1>4, <1>s DEF Crashes, Tidy, Closed
<1>5. CASE Disconnect(d)
  <2>1. session[d] = b /\ b \in Buses /\ session' = session /\ conn'[d] = "delLocation"
    BY <1>0, <1>5 DEF Disconnect, Tidy, TypeOK
  <2>2. queue' = queue \o <<Del("location", d)>>
    BY <1>5 DEF Disconnect, Issue
  <2>3. \A k : k = <<"location", b>> => Doomed(d, k)'
    BY <1>0, <2>1, <2>2, DelIssued
  <2>4. \A k \in Keys : k[1] = "location" /\ k[2] = b => Doomed(d, k)'
    BY <1>k, <2>3
  <2>5. Flows(d)
    <3>1. Del("location", d) \in Commands /\ Del("location", d).op = "del"
      BY <1>0, <2>1, CommandTypes DEF Del
    <3>2. Appends(<<Del("location", d)>>)
      BY <1>5, <2>2, <3>1 DEF Appends, Disconnect
    <3>3. \A j \in DOMAIN <<Del("location", d)>> : <<Del("location", d)>>[j].op # "setex"
      BY <3>1
    <3> QED BY <3>2, <3>3 DEF Flows
  <2>6. \A k \in Keys : k[2] # b => Silent(d, k)'
    BY <2>5, <1>s DEF Tidy
  <2> QED BY <2>1, <2>4, <2>6 DEF Tidy
<1>6. CASE DeleteTrip(d)
  <2>1. session[d] = b /\ b \in Buses /\ session' = session /\ conn'[d] = "delTrip"
    BY <1>0, <1>6 DEF DeleteTrip, Registered, Tidy, TypeOK
  <2>2. queue' = queue \o <<Del("trip", d)>>
    BY <1>6 DEF DeleteTrip, Issue
  <2>3. \A k : k = <<"trip", b>> => Doomed(d, k)'
    BY <1>0, <2>1, <2>2, DelIssued
  <2>4. \A k \in Keys : k[1] = "trip" /\ k[2] = b => Doomed(d, k)'
    BY <1>k, <2>3
  <2>5. Flows(d)
    <3>1. Del("trip", d) \in Commands /\ Del("trip", d).op = "del"
      BY <1>0, <2>1, CommandTypes DEF Del
    <3>2. Appends(<<Del("trip", d)>>)
      BY <1>6, <2>2, <3>1 DEF Appends, DeleteTrip
    <3>3. \A j \in DOMAIN <<Del("trip", d)>> : <<Del("trip", d)>>[j].op # "setex"
      BY <3>1
    <3> QED BY <3>2, <3>3 DEF Flows
  <2>6. \A k \in Keys : k[2] # b => Silent(d, k)'
    BY <2>5, <1>s DEF Tidy
  <2>7. \A k \in Keys : k[1] = "location" => Silent(d, k)
    BY <1>6, DelAnswered DEF DeleteTrip, Tidy
  <2>8. \A k \in Keys : k[1] = "location" => Silent(d, k)'
    BY <2>5, <2>7, <1>s
  <2> QED BY <2>1, <2>4, <2>6, <2>8 DEF Tidy
<1>7. CASE DeleteSession(d)
  <2>0. \A k \in Keys : ~Doomed(d, k)
    BY <1>7, DelAnswered DEF DeleteSession
  <2>1. \A k \in Keys : Silent(d, k)
    BY <1>k, <1>7, <2>0 DEF DeleteSession, Tidy
  <2>2. Flows(d)
    BY <1>7 DEF DeleteSession, Flows
  <2>3. \A k \in Keys : Silent(d, k)'
    BY <2>1, <2>2, <1>s
  <2>4. session'[d] = None /\ conn'[d] = "closed"
    BY <1>0, <1>7 DEF DeleteSession, TypeOK
  <2> QED BY <2>3, <2>4 DEF Tidy
<1>8. ASSUME NEW r \in ReportsOf[d], Update(d, r) PROVE Tidy(d, b)'
  <2>1. r.bus = b /\ b \in Buses /\ b # None
    BY <1>0, <1>8, ReportFacts, NoneAssumption DEF OneBus
  <2>2. conn'[d] = "open" /\ session'[d] = b
    BY <1>0, <1>8, <2>1, UpdateFacts DEF Tidy, TypeOK
  <2>3. Appends(Cached(d, r)) /\ store' = store
    BY <1>0, <1>8, UpdateFacts DEF Appends
  <2>4. \A j \in DOMAIN Cached(d, r) : Cached(d, r)[j].key[2] = b
    <3>1. \A j \in DOMAIN Cached(d, r) : \E kind \in {"location", "trip"} :
             Cached(d, r)[j] = Set(kind, Composed(d, r))
      BY <1>0, <1>8, UpdateFacts
    <3>2. \A kind \in {"location", "trip"} : Set(kind, Composed(d, r)).key[2] = b
      BY <2>1 DEF Set, Composed
    <3> QED BY <3>1, <3>2
  <2>5. ASSUME NEW k \in Keys, k[2] # b PROVE Silent(d, k)'
    <3>1. Silent(d, k)
      BY <2>5 DEF Tidy
    <3>2. \A i \in DOMAIN queue : queue'[i] = queue[i]
      BY <2>3, Appended
    <3>3. \A i \in DOMAIN queue' :
             i \in DOMAIN queue \/ \E j \in DOMAIN Cached(d, r) : queue'[i] = Cached(d, r)[j]
      BY <2>3, Appended
    <3>4. \A i \in DOMAIN queue' : i \in DOMAIN queue \/ queue'[i].key[2] = b
      BY <3>3, <2>4
    <3>5. \A i \in DOMAIN queue' : queue'[i].op = "setex" /\ queue'[i].by = d
                                    => queue'[i].key # k
      BY <2>5, <3>1, <3>2, <3>4 DEF Silent
    <3> QED BY <2>3, <3>1, <3>5 DEF Silent
  <2> QED BY <2>1, <2>2, <2>5 DEF Tidy
<1> QED BY <1>0, <1>1, <1>2, <1>3, <1>4, <1>5, <1>6, <1>7, <1>8, DriverKinds

\* Helper of OfflineWhenGone: the caches of all drivers of one bus are tidy.
AllTidy == \A d \in Drivers : \A b : OneBus(d, b) => Tidy(d, b)

\* Helper of OfflineWhenGone: they always are.
LEMMA AlwaysTidy == Spec => [](AllTidy /\ Honest)
<1>1. Init => AllTidy /\ Honest
  BY DEF Init, Honest, AllTidy, Tidy, Silent, OneBus, Clients
<1>2. TypeOK /\ Registered /\ AllTidy /\ Honest /\ [Next]_vars => AllTidy' /\ Honest'
  <2> SUFFICES ASSUME TypeOK, Registered, AllTidy, Honest, [Next]_vars
               PROVE  AllTidy' /\ Honest'
    OBVIOUS
  <2>1. ASSUME NEW d \in Drivers, NEW b, OneBus(d, b) PROVE Tidy(d, b)'
    <3>1. Tidy(d, b)
      BY <2>1 DEF AllTidy
    <3> QED BY <2>1, <3>1, NextTidy
  <2>2. Honest'
    BY NextHonest
  <2> QED BY <2>1, <2>2 DEF AllTidy, OneBus
<1> QED BY <1>1, <1>2, Typed, PTL DEF Spec

\* A driver of one bus that has gone in an orderly way has left no position of
\* its own in the cache, whatever was in flight when it went.
THEOREM OfflineWhenGone == Spec => []GoneIsOffline
<1>1. AllTidy => GoneIsOffline
  <2> SUFFICES ASSUME AllTidy, NEW d \in Drivers, conn[d] = "closed",
                      \A r, q \in ReportsOf[d] : r.bus = q.bus,
                      NEW k \in Keys, store[k] # None
               PROVE  store[k].by # d
    BY DEF GoneIsOffline
  <2>1. \E b : \A r \in ReportsOf[d] : r.bus = b
    <3>1. CASE ReportsOf[d] = {}
      BY <3>1
    <3>2. CASE ReportsOf[d] # {}
      <4>1. PICK q \in ReportsOf[d] : TRUE
        BY <3>2
      <4>2. \A r \in ReportsOf[d] : r.bus = q.bus
        BY <4>1
      <4> QED BY <4>2
    <3> QED BY <3>1, <3>2
  <2>2. PICK b : OneBus(d, b)
    BY <2>1 DEF OneBus
  <2>3. Tidy(d, b)
    BY <2>2 DEF AllTidy
  <2>4. Silent(d, k)
    BY <2>3 DEF Tidy
  <2> QED BY <2>4 DEF Silent
<1> QED BY <1>1, AlwaysTidy, PTL
-----------------------------------------------------------------------------
(* NothingMissed *)

Watched(p) == <<"location", RouteOf[p]>>

\* A GET of p that is executed after the i-th command.
AskedAfter(p, i) == \E g \in DOMAIN queue : /\ i < g
                                            /\ queue[g].op = "get" /\ queue[g].by = p

\* What is cached for p's route, or about to be, has been sent to p, will be
\* found by its GET, or has been.
Heard(p) ==
    /\ \A i \in DOMAIN queue :
          /\ queue[i].op = "setex" /\ queue[i].key = Watched(p)
          /\ queue[i].value.route = RouteOf[p]
          => queue[i].value \in got[p] \/ AskedAfter(p, i)
    /\ store[Watched(p)] # None /\ store[Watched(p)].route = RouteOf[p]
       => \/ store[Watched(p)] \in got[p]
          \/ Awaits(p)
          \/ snap[p] = store[Watched(p)]
    /\ ask[p] = "answered" => ~Awaits(p) /\ snap[p] = None

Subscribed(p) == p \in joined /\ ask[p] \in {"asking", "answered"}

\* Every subscription is caught up, and a GET asks for the route of its parent.
CaughtUp == \A p \in Parents : Subscribed(p) => Heard(p)
GetsOwn == \A i \in DOMAIN queue :
              queue[i].op = "get" => queue[i].key = Watched(queue[i].by)

\* Helper of NoneMissed: parents send nothing but GETs, and drivers none.
LEMMA WhoSends ==
    ASSUME TypeOK, NEW i \in DOMAIN queue, NEW p \in Parents, queue[i].by = p
    PROVE  queue[i].op = "get"
<1>1. queue[i] \in Commands /\ p \notin Drivers
  BY CommandFacts, ClientAssumption
<1> QED BY <1>1 DEF Commands

\* Helper of NoneMissed: the key that p watches is one.
LEMMA WatchedKey == \A p \in Parents : Watched(p) \in Keys
BY ClientAssumption DEF Watched, Keys

\* A step that leaves the subscription of p alone and caches nothing.
Idles(p) ==
    /\ p \in joined' => p \in joined
    /\ ask'[p] = ask[p] /\ snap'[p] = snap[p] /\ got[p] \subseteq got'[p]
    /\ \/ queue' = queue /\ store' = store
       \/ \E cs : Appends(cs) /\ NoSet(cs) /\ \A j \in DOMAIN cs : cs[j].by # p
       \/ Expires

\* Helper of NoneMissed: every step, seen from the parent p.
LEMMA ParentKinds ==
    ASSUME TypeOK, Registered, [Next]_vars, NEW p \in Parents
    PROVE  \/ Idles(p) \/ ~Subscribed(p)'
           \/ \E d \in Drivers : \E r \in ReportsOf[d] : Update(d, r)
           \/ Execute \/ Subscribe(p) \/ Snapshot(p)
<1>0. p \in Clients /\ p \notin Drivers
      /\ ask \in [Parents -> {"idle", "asking", "answered", "failed"}]
      /\ snap \in [Parents -> Positions \cup {None}]
      /\ got \in [Parents -> SUBSET Positions]
  BY ClientAssumption DEF Clients, TypeOK
<1>1. ASSUME NEW c \in Clients, Connect(c) PROVE Idles(p)
  BY <1>1 DEF Connect, Idles
<1>2. ASSUME NEW c \in Clients, Leave(c) PROVE Idles(p) \/ ~Subscribed(p)'
  <2>1. CASE c = p
    BY <1>2, <2>1 DEF Leave, Subscribed
  <2>2. CASE c # p
    BY <1>0, <1>2, <2>2 DEF Leave, Idles
  <2> QED BY <2>1, <2>2
<1>3. ASSUME NEW d \in Drivers, Disconnect(d) \/ DeleteTrip(d) PROVE Idles(p)
  <2>1. session[d] \in Buses
    BY <1>3 DEF TypeOK, Registered, Disconnect, DeleteTrip
  <2>2. \A kind \in {"location", "trip"} :
           Del(kind, d) \in Commands /\ Del(kind, d).op = "del" /\ Del(kind, d).by = d
    BY <2>1, CommandTypes DEF Del
  <2>3. PICK kind \in {"location", "trip"} : queue' = queue \o <<Del(kind, d)>>
    BY <1>3 DEF Disconnect, DeleteTrip, Issue
  <2>4. Appends(<<Del(kind, d)>>)
    BY <1>3, <2>2, <2>3 DEF Appends, Disconnect, DeleteTrip
  <2>5. \A j \in DOMAIN <<Del(kind, d)>> :
           <<Del(kind, d)>>[j].op # "setex" /\ <<Del(kind, d)>>[j].by # p
    BY <1>0, <2>2, <2>3
  <2>6. \E cs : Appends(cs) /\ NoSet(cs) /\ \A j \in DOMAIN cs : cs[j].by # p
    BY <2>4, <2>5 DEF NoSet
  <2>7. joined' = joined /\ ask' = ask /\ snap' = snap /\ got' = got
    BY <1>3 DEF Disconnect, DeleteTrip
  <2> QED BY <2>6, <2>7 DEF Idles
<1>4. ASSUME NEW q \in Parents, q # p, Subscribe(q) PROVE Idles(p)
  <2> DEFINE c == [op |-> "get", key |-> <<"location", RouteOf[q]>>, by |-> q]
  <2>1. c \in Commands
    BY CommandTypes
  <2>2. Appends(<<c>>) /\ NoSet(<<c>>) /\ \A j \in DOMAIN <<c>> : <<c>>[j].by # p
    BY <1>4, <2>1 DEF Subscribe, Issue, Appends, NoSet
  <2>3. p \in joined' => p \in joined
    BY <1>4 DEF Subscribe
  <2>4. ask'[p] = ask[p] /\ snap' = snap /\ got' = got
    BY <1>0, <1>4 DEF Subscribe
  <2> HIDE DEF c
  <2> QED BY <2>2, <2>3, <2>4 DEF Idles
<1>5. ASSUME NEW q \in Parents, q # p, Snapshot(q) PROVE Idles(p)
  BY <1>0, <1>5 DEF Snapshot, Idles
<1>6. ASSUME NEW q \in Parents, SubscribeFails(q) PROVE Idles(p) \/ ~Subscribed(p)'
  <2>1. CASE q = p
    BY <1>0, <1>6, <2>1 DEF SubscribeFails, Subscribed
  <2>2. CASE q # p
    BY <1>0, <1>6, <2>2 DEF SubscribeFails, Idles
  <2> QED BY <2>1, <2>2
<1>7. ASSUME NEW q \in Parents, Unsubscribe(q) PROVE Idles(p)
  BY <1>7 DEF Unsubscribe, Idles
<1>8. ASSUME \/ \E d \in Drivers : DeleteSession(d)
             \/ \E u \in persisting : Persisted(u) \/ PersistFails(u)
             \/ Quiet \/ UNCHANGED vars
      PROVE  Idles(p)
  BY <1>8 DEF DeleteSession, Persisted, PersistFails, Quiet, vars, Idles
<1>9. ASSUME NEW k \in Keys, Expire(k) PROVE Idles(p)
  BY <1>9 DEF Expire, Expires, Idles
<1>10. ASSUME Crash PROVE ~Subscribed(p)'
  BY <1>10 DEF Crash, Subscribed
<1> QED BY <1>1, <1>2, <1>3, <1>4, <1>5, <1>6, <1>7, <1>8, <1>9, <1>10 DEF Next

\* Helper of NoneMissed: a step that idles keeps p caught up.
LEMMA IdleHeard ==
    ASSUME TypeOK, NEW p \in Parents, Subscribed(p) => Heard(p), Idles(p), Subscribed(p)'
    PROVE  Heard(p)'
<1>1. Heard(p) /\ ask'[p] = ask[p] /\ snap'[p] = snap[p] /\ got[p] \subseteq got'[p]
  BY DEF Idles, Subscribed
<1>w. Watched(p) \in Keys
  BY WatchedKey
<1>2. CASE queue' = queue /\ store' = store
  BY <1>1, <1>2 DEF Heard, AskedAfter, Awaits
<1>3. ASSUME NEW cs, Appends(cs), NoSet(cs), \A j \in DOMAIN cs : cs[j].by # p
      PROVE  Heard(p)'
  <2>1. \A i \in DOMAIN queue : i \in DOMAIN queue' /\ queue'[i] = queue[i]
    BY <1>3, Appended
  <2>2. \A i \in DOMAIN queue' :
           i \in DOMAIN queue \/ \E j \in DOMAIN cs : queue'[i] = cs[j]
    BY <1>3, Appended
  <2>3. \A i \in DOMAIN queue' :
           i \in DOMAIN queue \/ (queue'[i].op # "setex" /\ queue'[i].by # p)
    BY <1>3, <2>2 DEF NoSet
  <2>4. store' = store
    BY <1>3 DEF Appends
  <2>5. Awaits(p)' <=> Awaits(p)
    BY <2>1, <2>3 DEF Awaits
  <2>6. \A i : AskedAfter(p, i) => AskedAfter(p, i)'
    BY <2>1 DEF AskedAfter
  <2> QED BY <1>1, <2>1, <2>3, <2>4, <2>5, <2>6 DEF Heard
<1>4. CASE Expires
  <2>1. queue' = queue /\ (store'[Watched(p)] # None => store'[Watched(p)] = store[Watched(p)])
    BY <1>4, <1>w DEF Expires, TypeOK
  <2> QED BY <1>1, <2>1 DEF Heard, AskedAfter, Awaits
<1> QED BY <1>2, <1>3, <1>4 DEF Idles

\* Helper of NoneMissed: a report is broadcast before it is cached.
LEMMA UpdateHeard ==
    ASSUME TypeOK, NEW p \in Parents, Subscribed(p) => Heard(p), Subscribed(p)',
           NEW d \in Drivers, NEW r \in ReportsOf[d], Update(d, r)
    PROVE  Heard(p)'
<1>1. store' = store /\ joined' = joined /\ ask' = ask /\ snap' = snap
  BY UpdateFacts
<1>2. got' = [q \in Parents |-> IF q \in joined /\ RouteOf[q] = r.route
                               THEN got[q] \cup {Composed(d, r)} ELSE got[q]]
  BY UpdateFacts
<1>3. Appends(Cached(d, r))
  BY UpdateFacts DEF Appends
<1>4. \A j \in DOMAIN Cached(d, r) : \E kind \in {"location", "trip"} :
         Cached(d, r)[j] = Set(kind, Composed(d, r))
  BY UpdateFacts
<1>5. Heard(p) /\ p \in joined
  BY <1>1 DEF Subscribed
<1>6. got[p] \subseteq got'[p] /\ (r.route = RouteOf[p] => Composed(d, r) \in got'[p])
  BY <1>2, <1>5 DEF TypeOK
<1>7. \A kind \in {"location", "trip"} :
         /\ Set(kind, Composed(d, r)).op = "setex"
         /\ Set(kind, Composed(d, r)).value = Composed(d, r)
  BY DEF Set
<1>8. Composed(d, r).route = r.route
  BY DEF Composed
<1>9. \A i \in DOMAIN queue : i \in DOMAIN queue' /\ queue'[i] = queue[i]
  BY <1>3, Appended
<1>10. \A i \in DOMAIN queue' :
          \/ i \in DOMAIN queue
          \/ queue'[i].op = "setex" /\ queue'[i].value = Composed(d, r)
  BY <1>3, <1>4, <1>7, Appended
<1>11. Awaits(p)' <=> Awaits(p)
  BY <1>9, <1>10 DEF Awaits
<1>12. \A i : AskedAfter(p, i) => AskedAfter(p, i)'
  BY <1>9 DEF AskedAfter
<1> QED BY <1>1, <1>5, <1>6, <1>8, <1>9, <1>10, <1>11, <1>12 DEF Heard

\* Helper of NoneMissed: Redis overwrites a position by one that p has, or that
\* its GET will find, and answers a GET with what is cached.
LEMMA ExecuteHeard ==
    ASSUME TypeOK, GetsOwn, NEW p \in Parents, Subscribed(p) => Heard(p), Execute,
           Subscribed(p)'
    PROVE  Heard(p)'
<1>1. joined' = joined /\ ask' = ask /\ got' = got
  BY DEF Execute
<1>2. Heard(p) /\ ask[p] \in {"asking", "answered"}
  BY <1>1 DEF Subscribed
<1>3. /\ queue # <<>> /\ queue' = Tail(queue)
      /\ 1 \in DOMAIN queue /\ queue[1].key \in Keys
      /\ queue[1].op = "get" => store' = store
      /\ queue[1].op # "get" =>
           store' = [store EXCEPT ![queue[1].key] =
                       IF queue[1].op = "setex" THEN queue[1].value ELSE None]
      /\ \A i \in DOMAIN queue' : i + 1 \in DOMAIN queue /\ queue'[i] = queue[i + 1]
  BY ExecuteFacts
<1>4. \A i \in DOMAIN queue' : i \in Nat /\ 1 < i + 1
  <2>1. queue' \in Seq(Commands)
    BY <1>3, TailFacts DEF TypeOK
  <2> QED BY <2>1
<1>5. \A i \in DOMAIN queue : i # 1 =>
         i \in Nat /\ i - 1 \in DOMAIN queue' /\ queue'[i - 1] = queue[i]
  <2> SUFFICES ASSUME NEW i \in DOMAIN queue, i # 1
               PROVE  i \in Nat /\ i - 1 \in DOMAIN queue' /\ queue'[i - 1] = queue[i]
    OBVIOUS
  <2>1. i \in Nat /\ i - 1 \in DOMAIN queue'
    BY <1>3, TailFacts DEF TypeOK
  <2>2. queue'[i - 1] = queue[(i - 1) + 1]
    BY <1>3, <2>1
  <2> QED BY <2>1, <2>2
<1>w. Watched(p) \in Keys
  BY WatchedKey
<1>6. \A i \in DOMAIN queue' : AskedAfter(p, i + 1) => AskedAfter(p, i)'
  <2> SUFFICES ASSUME NEW i \in DOMAIN queue',
                      NEW g \in DOMAIN queue, i + 1 < g,
                      queue[g].op = "get", queue[g].by = p
               PROVE  AskedAfter(p, i)'
    BY DEF AskedAfter
  <2>1. i \in Nat /\ 1 < i + 1 /\ g \in Nat
    BY <1>4 DEF TypeOK
  <2>2. g - 1 \in DOMAIN queue' /\ queue'[g - 1] = queue[g] /\ i < g - 1
    BY <1>5, <2>1
  <2> QED BY <2>2 DEF AskedAfter
<1>7. \A i \in DOMAIN queue' :
         /\ queue'[i].op = "setex" /\ queue'[i].key = Watched(p)
         /\ queue'[i].value.route = RouteOf[p]
         => queue'[i].value \in got[p] \/ AskedAfter(p, i)'
  BY <1>2, <1>3, <1>6 DEF Heard
<1>8. AskedAfter(p, 1) => Awaits(p)'
  <2> SUFFICES ASSUME NEW g \in DOMAIN queue, 1 < g,
                      queue[g].op = "get", queue[g].by = p
               PROVE  Awaits(p)'
    BY DEF AskedAfter
  <2>1. g - 1 \in DOMAIN queue' /\ queue'[g - 1] = queue[g]
    BY <1>5
  <2> QED BY <2>1 DEF Awaits
<1>9. Awaits(p)' => Awaits(p)
  BY <1>3 DEF Awaits
<1>10. Awaits(p) => Awaits(p)' \/ (queue[1].op = "get" /\ queue[1].by = p)
  <2> SUFFICES ASSUME NEW g \in DOMAIN queue, queue[g].op # "setex", queue[g].by = p
               PROVE  Awaits(p)' \/ (queue[1].op = "get" /\ queue[1].by = p)
    BY DEF Awaits
  <2>1. CASE g = 1
    BY <2>1, WhoSends
  <2>2. CASE g # 1
    BY <1>5, <2>2 DEF Awaits
  <2> QED BY <2>1, <2>2
<1>11. CASE queue[1].op = "get"
  <2>1. store' = store
    BY <1>3, <1>11
  <2>2. CASE queue[1].by = p
    <3>1. Awaits(p)
      BY <1>3, <1>11, <2>2 DEF Awaits
    <3>2. ask[p] = "asking"
      BY <1>2, <3>1 DEF Heard
    <3>3. queue[1].key = Watched(p)
      BY <1>3, <1>11, <2>2 DEF GetsOwn
    <3>4. Head(queue) = queue[1]
      BY <1>3, TailFacts DEF TypeOK
    <3>5. snap'[p] = store[Watched(p)]
      BY <1>11, <2>2, <3>2, <3>3, <3>4 DEF Execute, TypeOK
    <3> QED BY <1>1, <1>7, <2>1, <3>2, <3>5 DEF Heard
  <2>3. CASE queue[1].by # p
    <3>1. Head(queue) = queue[1]
      BY <1>3, TailFacts DEF TypeOK
    <3>2. snap'[p] = snap[p]
      BY <1>11, <2>3, <3>1 DEF Execute, TypeOK
    <3>3. Awaits(p) <=> Awaits(p)'
      BY <1>9, <1>10, <2>3
    <3> QED BY <1>1, <1>2, <1>7, <2>1, <3>2, <3>3 DEF Heard
  <2> QED BY <2>2, <2>3
<1>12. CASE queue[1].op # "get"
  <2>1. snap' = snap
    <3>1. Head(queue) = queue[1]
      BY <1>3, TailFacts DEF TypeOK
    <3> QED BY <1>12, <3>1 DEF Execute
  <2>2. Awaits(p) <=> Awaits(p)'
    BY <1>9, <1>10, <1>12
  <2>3. store'[Watched(p)] # None =>
           \/ store'[Watched(p)] = store[Watched(p)]
           \/ /\ queue[1].op = "setex" /\ queue[1].key = Watched(p)
              /\ store'[Watched(p)] = queue[1].value
    BY <1>3, <1>12, <1>w DEF TypeOK
  <2>4. ASSUME store'[Watched(p)] # None, store'[Watched(p)].route = RouteOf[p]
        PROVE  \/ store'[Watched(p)] \in got[p]
               \/ Awaits(p)'
               \/ snap[p] = store'[Watched(p)]
    <3>1. CASE store'[Watched(p)] = store[Watched(p)]
      BY <1>2, <2>2, <2>4, <3>1 DEF Heard
    <3>2. CASE /\ queue[1].op = "setex" /\ queue[1].key = Watched(p)
               /\ store'[Watched(p)] = queue[1].value
      BY <1>2, <1>3, <1>8, <2>4, <3>2 DEF Heard
    <3> QED BY <2>3, <2>4, <3>1, <3>2
  <2> QED BY <1>1, <1>2, <1>7, <2>1, <2>2, <2>4 DEF Heard
<1> QED BY <1>11, <1>12

\* Helper of NoneMissed: the GET of a subscription comes after what is in flight.
LEMMA SubscribeHeard ==
    ASSUME TypeOK, NEW p \in Parents, Subscribe(p) PROVE Heard(p)'
<1> DEFINE c == [op |-> "get", key |-> <<"location", RouteOf[p]>>, by |-> p]
<1>1. c \in Commands /\ c.op = "get" /\ c.by = p
  BY CommandTypes
<1>2. queue' = queue \o <<c>> /\ queue \in Seq(Commands) /\ Len(queue) \in Nat
  BY DEF Subscribe, Issue, TypeOK
<1> HIDE DEF c
<1>3. /\ Len(queue) + 1 \in DOMAIN queue' /\ queue'[Len(queue) + 1] = c
      /\ \A i \in DOMAIN queue' : i < Len(queue) + 1 \/ queue'[i] = c
  BY <1>1, <1>2
<1>4. Awaits(p)'
  BY <1>1, <1>3 DEF Awaits
<1>5. \A i \in DOMAIN queue' : queue'[i].op = "setex" => AskedAfter(p, i)'
  BY <1>1, <1>3 DEF AskedAfter
<1>6. ask'[p] = "asking"
  BY DEF Subscribe, TypeOK
<1> QED BY <1>4, <1>5, <1>6 DEF Heard

\* Helper of NoneMissed: the snapshot is what the room did not send.
LEMMA SnapshotHeard ==
    ASSUME TypeOK, NEW p \in Parents, Subscribed(p) => Heard(p), Snapshot(p),
           Subscribed(p)'
    PROVE  Heard(p)'
<1>1. /\ queue' = queue /\ store' = store /\ joined' = joined /\ ~Awaits(p)
      /\ ask[p] = "asking" /\ snap'[p] = None
      /\ got'[p] = got[p] \cup ({snap[p]} \ {None})
  BY DEF Snapshot, TypeOK
<1>2. Heard(p)
  BY <1>1 DEF Subscribed
<1>3. \A i : ~AskedAfter(p, i)
  BY <1>1 DEF AskedAfter, Awaits
<1>4. ~Awaits(p)'
  BY <1>1 DEF Awaits
<1> QED BY <1>1, <1>2, <1>3, <1>4 DEF Heard

\* Helper of NoneMissed: a step issues GETs for the route of their parent only.
LEMMA NextGets == TypeOK /\ Registered /\ GetsOwn /\ [Next]_vars => GetsOwn'
<1> SUFFICES ASSUME TypeOK, Registered, GetsOwn, [Next]_vars PROVE GetsOwn'
  OBVIOUS
<1>q. queue \in Seq(Commands) /\ Len(queue) \in Nat
  BY DEF TypeOK
<1>1. ASSUME NEW cs, Appends(cs),
             \A j \in DOMAIN cs : cs[j].op = "get" => cs[j].key = Watched(cs[j].by)
      PROVE  GetsOwn'
  <2>1. \A i \in DOMAIN queue : queue'[i] = queue[i]
    BY <1>1, Appended
  <2>2. \A i \in DOMAIN queue' :
           i \in DOMAIN queue \/ \E j \in DOMAIN cs : queue'[i] = cs[j]
    BY <1>1, Appended
  <2> QED BY <1>1, <2>1, <2>2 DEF GetsOwn
<1>2. ASSUME NEW d \in Drivers, Disconnect(d) \/ DeleteTrip(d) PROVE GetsOwn'
  <2>1. session[d] \in Buses
    BY <1>2 DEF TypeOK, Registered, Disconnect, DeleteTrip
  <2>2. \A kind \in {"location", "trip"} :
           Del(kind, d) \in Commands /\ Del(kind, d).op = "del"
    BY <2>1, CommandTypes DEF Del
  <2>3. PICK kind \in {"location", "trip"} : queue' = queue \o <<Del(kind, d)>>
    BY <1>2 DEF Disconnect, DeleteTrip, Issue
  <2>4. Appends(<<Del(kind, d)>>)
    BY <1>2, <2>2, <2>3 DEF Appends, Disconnect, DeleteTrip
  <2>5. \A j \in DOMAIN <<Del(kind, d)>> : <<Del(kind, d)>>[j].op = "del"
    BY <2>2, <2>3
  <2> QED BY <1>1, <2>4, <2>5
<1>3. ASSUME NEW d \in Drivers, NEW r \in ReportsOf[d], Update(d, r) PROVE GetsOwn'
  <2>1. Appends(Cached(d, r))
    BY <1>3, UpdateFacts DEF Appends
  <2>2. \A j \in DOMAIN Cached(d, r) : \E kind \in {"location", "trip"} :
           Cached(d, r)[j] = Set(kind, Composed(d, r))
    BY <1>3, UpdateFacts
  <2>3. \A kind \in {"location", "trip"} : Set(kind, Composed(d, r)).op = "setex"
    BY DEF Set
  <2>4. \A j \in DOMAIN Cached(d, r) : Cached(d, r)[j].op = "setex"
    BY <2>2, <2>3
  <2> QED BY <1>1, <2>1, <2>4
<1>4. ASSUME NEW p \in Parents, Subscribe(p) PROVE GetsOwn'
  <2> DEFINE c == [op |-> "get", key |-> <<"location", RouteOf[p]>>, by |-> p]
  <2>1. c \in Commands /\ c.key = Watched(c.by)
    BY CommandTypes DEF Watched
  <2>2. Appends(<<c>>)
    BY <1>4, <2>1 DEF Subscribe, Issue, Appends
  <2> HIDE DEF c
  <2>3. \A j \in DOMAIN <<c>> : <<c>>[j] = c
    OBVIOUS
  <2> QED BY <1>1, <2>1, <2>2, <2>3
<1>5. ASSUME Execute PROVE GetsOwn'
  <2>1. \A i \in DOMAIN queue' : i + 1 \in DOMAIN queue /\ queue'[i] = queue[i + 1]
    BY <1>5, ExecuteFacts
  <2> QED BY <2>1 DEF GetsOwn
<1>6. ASSUME Crash PROVE GetsOwn'
  <2>1. \A i \in DOMAIN queue' : i \in DOMAIN queue /\ queue'[i] = queue[i]
    BY <1>6, <1>q, PrefixFacts DEF Crash
  <2> QED BY <2>1 DEF GetsOwn
<1>7. ASSUME queue' = queue PROVE GetsOwn'
  BY <1>7 DEF GetsOwn
<1> QED BY <1>2, <1>3, <1>4, <1>5, <1>6, <1>7
        DEF Next, Connect, Leave, DeleteSession, Persisted, PersistFails, Snapshot,
            SubscribeFails, Unsubscribe, Expire, Quiet, vars

\* Helper of NoneMissed: every subscription is always caught up.
LEMMA AlwaysCaughtUp == Spec => [](CaughtUp /\ GetsOwn)
<1>1. Init => CaughtUp /\ GetsOwn
  BY DEF Init, CaughtUp, GetsOwn, Subscribed
<1>2. TypeOK /\ Registered /\ CaughtUp /\ GetsOwn /\ [Next]_vars => CaughtUp' /\ GetsOwn'
  <2> SUFFICES ASSUME TypeOK, Registered, CaughtUp, GetsOwn, [Next]_vars
               PROVE  CaughtUp' /\ GetsOwn'
    OBVIOUS
  <2>1. ASSUME NEW p \in Parents, Subscribed(p)' PROVE Heard(p)'
    <3>1. Subscribed(p) => Heard(p)
      BY DEF CaughtUp
    <3>2. CASE Idles(p)
      BY <2>1, <3>1, <3>2, IdleHeard
    <3>3. ASSUME NEW d \in Drivers, NEW r \in ReportsOf[d], Update(d, r) PROVE Heard(p)'
      BY <2>1, <3>1, <3>3, UpdateHeard
    <3>4. CASE Execute
      BY <2>1, <3>1, <3>4, ExecuteHeard
    <3>5. CASE Subscribe(p)
      BY <3>5, SubscribeHeard
    <3>6. CASE Snapshot(p)
      BY <2>1, <3>1, <3>6, SnapshotHeard
    <3> QED BY <2>1, <3>2, <3>3, <3>4, <3>5, <3>6, ParentKinds
  <2>2. GetsOwn'
    BY NextGets
  <2> QED BY <2>1, <2>2 DEF CaughtUp
<1> QED BY <1>1, <1>2, Typed, PTL DEF Spec

\* A parent whose subscription was answered has been sent what the cache holds
\* for its route, however its GET, the broadcasts and the SETEXs overlapped.
THEOREM NoneMissed == Spec => []NothingMissed
<1>1. TypeOK /\ CaughtUp => NothingMissed
  <2> SUFFICES ASSUME TypeOK, CaughtUp, NEW p \in Parents, p \in joined,
                      ask[p] = "answered", store[Watched(p)] # None,
                      store[Watched(p)].route = RouteOf[p]
               PROVE  store[Watched(p)] \in got[p]
    BY DEF NothingMissed, Watched
  <2>1. Heard(p)
    BY DEF CaughtUp, Subscribed
  <2> QED BY <2>1 DEF Heard
<1> QED BY <1>1, Typed, AlwaysCaughtUp, PTL
=============================================================================
