------------------------------ MODULE Tracking ------------------------------
(***************************************************************************)
(* The live map: BusTrackingGateway                                        *)
(* (src/backend/src/logistics/gateways/bus-tracking.gateway.ts), the       *)
(* telemetry it hands to BusTelemetryService and its keys in Redis.        *)
(*                                                                         *)
(* One process serves all sockets.  Its Redis client sends commands in the *)
(* order in which the handlers issue them (`queue'), Redis executes them   *)
(* later, one by one, and a handler that awaits a command resumes later    *)
(* still.  A broadcast reaches the sockets of a room in the order of the   *)
(* broadcasts.  A socket connects once: a client that reconnects is another*)
(* socket.                                                                 *)
(***************************************************************************)
EXTENDS Naturals, Sequences, FiniteSets, SequencesExt

CONSTANTS
    Drivers,      \* sockets of drivers and matrons, who may report positions
    Parents,      \* sockets that only watch
    Verified,     \* the sockets that connect with a valid access token
    Buses,        \* strings the clients use as bus and route identifiers
    ReportsOf,    \* driver -> the reports it sends: [bus, route, trip]
    RouteOf,      \* parent -> the route it watches
    None,
    MaxUpdates,   \* bound: positions reported
    MaxCrashes    \* bound: crashes of the process

Clients == Drivers \cup Parents
Reports == [bus: Buses, route: Buses, trip: BOOLEAN]

ASSUME ClientAssumption ==
    /\ Drivers \cap Parents = {}
    /\ Verified \subseteq Clients
    /\ ReportsOf \in [Drivers -> SUBSET Reports]
    /\ RouteOf \in [Parents -> Buses]

ASSUME BoundAssumption ==
    MaxUpdates \in Nat /\ MaxCrashes \in Nat /\ IsFiniteSet(Clients)

\* None is neither a bus nor a position.
ASSUME NoneAssumption ==
    None \notin Buses \cup [at: 1..MaxUpdates, by: Drivers, bus: Buses, route: Buses]

VARIABLES
    conn,        \* socket -> its connection; "lost" is closed by a crash
    session,     \* driverSessions: socket -> the bus it first reported, or None
    queue,       \* Redis commands issued and not yet executed
    store,       \* Redis: key -> the position that was last set, or None
    sent,        \* positions reported so far; it dates them
    joined,      \* the sockets in the room of their route
    ask,         \* parent -> its subscribe_route
    snap,        \* parent -> what its GET returned
    got,         \* parent -> the positions it was sent
    persisting,  \* positions being written to MongoDB
    points,      \* positions in MongoDB
    crashes

vars == <<conn, session, queue, store, sent, joined, ask, snap, got,
          persisting, points, crashes>>

\* bus:{busId}:location and bus:{busId}:trip
Keys == {"location", "trip"} \X Buses

Positions == [at: 1..MaxUpdates, by: Drivers, bus: Buses, route: Buses]

Commands == [op: {"setex"}, key: Keys, value: Positions, by: Drivers]
     \cup   [op: {"del"}, key: Keys, by: Drivers]
     \cup   [op: {"get"}, key: Keys, by: Parents]

Closed == {"closed", "lost"}

Init ==
    /\ conn = [c \in Clients |-> "new"]
    /\ session = [d \in Drivers |-> None]
    /\ queue = <<>>
    /\ store = [k \in Keys |-> None]
    /\ sent = 0
    /\ joined = {}
    /\ ask = [p \in Parents |-> "idle"]
    /\ snap = [p \in Parents |-> None]
    /\ got = [p \in Parents |-> {}]
    /\ persisting = {} /\ points = {}
    /\ crashes = 0

Issue(commands) == queue' = queue \o commands

\* A handler that awaits its DEL or GET resumes once Redis has executed it.
Awaits(c) == \E i \in DOMAIN queue : queue[i].by = c /\ queue[i].op # "setex"

Set(kind, u) == [op |-> "setex", key |-> <<kind, u.bus>>, value |-> u, by |-> u.by]
Del(kind, d) == [op |-> "del", key |-> <<kind, session[d]>>, by |-> d]
-----------------------------------------------------------------------------
(* Connections *)

\* handleConnection closes the socket whose token does not verify.
Connect(c) ==
    /\ conn[c] = "new"
    /\ conn' = [conn EXCEPT ![c] = IF c \in Verified THEN "open" ELSE "closed"]
    /\ UNCHANGED <<session, queue, store, sent, joined, ask, snap, got,
                   persisting, points, crashes>>

\* Mutant of Leave: a socket without a session is cleaned up all the same.
LeaveUnchecked(c) ==
    /\ conn[c] = "open"
    /\ c \in Drivers => session[c] = None
    /\ IF c \in Drivers THEN Issue(<<Del("location", c)>>) ELSE UNCHANGED queue
    /\ conn' = [conn EXCEPT ![c] = "closed"]
    /\ joined' = joined \ {c}
    /\ ask' = [p \in Parents |-> IF p = c THEN "idle" ELSE ask[p]]
    /\ snap' = [p \in Parents |-> IF p = c THEN None ELSE snap[p]]
    /\ UNCHANGED <<session, store, sent, got, persisting, points, crashes>>

\* A parent goes, or a driver that never reported: there is nothing to clean.
Leave(c) ==
    /\ conn[c] = "open"
    /\ c \in Drivers => session[c] = None
    /\ conn' = [conn EXCEPT ![c] = "closed"]
    /\ joined' = joined \ {c}
    /\ ask' = [p \in Parents |-> IF p = c THEN "idle" ELSE ask[p]]
    /\ snap' = [p \in Parents |-> IF p = c THEN None ELSE snap[p]]
    /\ UNCHANGED <<session, queue, store, sent, got, persisting, points, crashes>>

\* Mutant of Disconnect: the cached position is looked for under the route.
DisconnectRoute(d) ==
    /\ conn[d] = "open"
    /\ session[d] # None
    /\ \E r \in ReportsOf[d] :
          Issue(<<[op |-> "del", key |-> <<"location", r.route>>, by |-> d]>>)
    /\ conn' = [conn EXCEPT ![d] = "delLocation"]
    /\ UNCHANGED <<session, store, sent, joined, ask, snap, got,
                   persisting, points, crashes>>

\* handleDisconnect of a driver with a session, as far as its first await.
Disconnect(d) ==
    /\ conn[d] = "open"
    /\ session[d] # None
    /\ Issue(<<Del("location", d)>>)
    /\ conn' = [conn EXCEPT ![d] = "delLocation"]
    /\ UNCHANGED <<session, store, sent, joined, ask, snap, got,
                   persisting, points, crashes>>

DeleteTrip(d) ==
    /\ conn[d] = "delLocation" /\ ~Awaits(d)
    /\ Issue(<<Del("trip", d)>>)
    /\ conn' = [conn EXCEPT ![d] = "delTrip"]
    /\ UNCHANGED <<session, store, sent, joined, ask, snap, got,
                   persisting, points, crashes>>

DeleteSession(d) ==
    /\ conn[d] = "delTrip" /\ ~Awaits(d)
    /\ session' = [session EXCEPT ![d] = None]
    /\ conn' = [conn EXCEPT ![d] = "closed"]
    /\ UNCHANGED <<queue, store, sent, joined, ask, snap, got,
                   persisting, points, crashes>>
-----------------------------------------------------------------------------
(* update_location *)

\* Mutant of Update: two positions in a row are broadcast once.
UpdateThrottled(d, r) ==
    LET u == [at |-> sent + 1, by |-> d, bus |-> r.bus, route |-> r.route]
    IN  /\ conn[d] = "open" /\ sent < MaxUpdates
        /\ sent' = sent + 1
        /\ session' = [session EXCEPT ![d] = IF @ = None THEN r.bus ELSE @]
        /\ persisting' = persisting \cup {u}
        /\ Issue(IF r.trip THEN <<Set("location", u), Set("trip", u)>>
                           ELSE <<Set("location", u)>>)
        /\ got' = [p \in Parents |->
                     IF p \in joined /\ RouteOf[p] = r.route /\ sent % 2 = 0
                     THEN got[p] \cup {u} ELSE got[p]]
        /\ UNCHANGED <<conn, store, joined, ask, snap, points, crashes>>

\* The handler runs to its end without an await: it registers the socket once,
\* starts the insert and the SETEXs and broadcasts.
Update(d, r) ==
    LET u == [at |-> sent + 1, by |-> d, bus |-> r.bus, route |-> r.route]
    IN  /\ conn[d] = "open" /\ sent < MaxUpdates
        /\ sent' = sent + 1
        /\ session' = [session EXCEPT ![d] = IF @ = None THEN r.bus ELSE @]
        /\ persisting' = persisting \cup {u}
        /\ Issue(IF r.trip THEN <<Set("location", u), Set("trip", u)>>
                           ELSE <<Set("location", u)>>)
        /\ got' = [p \in Parents |->
                     IF p \in joined /\ RouteOf[p] = r.route
                     THEN got[p] \cup {u} ELSE got[p]]
        /\ UNCHANGED <<conn, store, joined, ask, snap, points, crashes>>

\* Mutant of Persisted: the position is cached again once it is stored.
PersistedCaches(u) ==
    /\ u \in persisting
    /\ persisting' = persisting \ {u}
    /\ points' = points \cup {u}
    /\ Issue(<<Set("location", u)>>)
    /\ UNCHANGED <<conn, session, store, sent, joined, ask, snap, got, crashes>>

\* recordPoint, which nobody awaits: inserts end in any order.
Persisted(u) ==
    /\ u \in persisting
    /\ persisting' = persisting \ {u}
    /\ points' = points \cup {u}
    /\ UNCHANGED <<conn, session, queue, store, sent, joined, ask, snap, got,
                   crashes>>

\* The error is logged and swallowed.
PersistFails(u) ==
    /\ u \in persisting
    /\ persisting' = persisting \ {u}
    /\ UNCHANGED <<conn, session, queue, store, sent, joined, ask, snap, got,
                   points, crashes>>
-----------------------------------------------------------------------------
(* subscribe_route and unsubscribe_route *)

\* Joins the room, and then asks Redis for the last position under the route.
Subscribe(p) ==
    /\ conn[p] = "open" /\ ask[p] # "asking" /\ ~Awaits(p)
    /\ joined' = joined \cup {p}
    /\ Issue(<<[op |-> "get", key |-> <<"location", RouteOf[p]>>, by |-> p]>>)
    /\ ask' = [ask EXCEPT ![p] = "asking"]
    /\ UNCHANGED <<conn, session, store, sent, snap, got, persisting, points,
                   crashes>>

\* Emits location_snapshot when there is one, and answers.
Snapshot(p) ==
    /\ ask[p] = "asking" /\ ~Awaits(p)
    /\ got' = [got EXCEPT ![p] = @ \cup ({snap[p]} \ {None})]
    /\ ask' = [ask EXCEPT ![p] = "answered"]
    /\ snap' = [snap EXCEPT ![p] = None]
    /\ UNCHANGED <<conn, session, queue, store, sent, joined, persisting,
                   points, crashes>>

\* The GET is rejected: the client is told so and stays in the room.
SubscribeFails(p) ==
    /\ ask[p] = "asking" /\ ~Awaits(p)
    /\ ask' = [ask EXCEPT ![p] = "failed"]
    /\ snap' = [snap EXCEPT ![p] = None]
    /\ UNCHANGED <<conn, session, queue, store, sent, joined, got, persisting,
                   points, crashes>>

Unsubscribe(p) ==
    /\ conn[p] = "open" /\ p \in joined
    /\ joined' = joined \ {p}
    /\ UNCHANGED <<conn, session, queue, store, sent, ask, snap, got,
                   persisting, points, crashes>>
-----------------------------------------------------------------------------
(* Redis and the process *)

Execute ==
    /\ queue # <<>>
    /\ LET c == Head(queue)
       IN  /\ store' = IF c.op = "get" THEN store
                       ELSE [store EXCEPT ![c.key] =
                               IF c.op = "setex" THEN c.value ELSE None]
           /\ snap' = IF c.op = "get" /\ ask[c.by] = "asking"
                      THEN [snap EXCEPT ![c.by] = store[c.key]] ELSE snap
    /\ queue' = Tail(queue)
    /\ UNCHANGED <<conn, session, sent, joined, ask, got, persisting, points,
                   crashes>>

\* 120 seconds for a location, 12 hours for a trip, after the last SETEX.
Expire(k) ==
    /\ store[k] # None
    /\ store' = [store EXCEPT ![k] = None]
    /\ UNCHANGED <<conn, session, queue, sent, joined, ask, snap, got,
                   persisting, points, crashes>>

\* The process ends, by itself or because nobody handles the rejection of a
\* SETEX that is not awaited.  Some of what it sent still arrives.
Crash ==
    /\ crashes < MaxCrashes
    /\ crashes' = crashes + 1
    /\ conn' = [c \in Clients |-> IF conn[c] \in {"new"} \cup Closed
                                  THEN conn[c] ELSE "lost"]
    /\ session' = [d \in Drivers |-> None]
    /\ \E i \in 0..Len(queue) : queue' = SubSeq(queue, 1, i)
    /\ joined' = {}
    /\ ask' = [p \in Parents |-> "idle"]
    /\ snap' = [p \in Parents |-> None]
    /\ persisting' = {}
    /\ UNCHANGED <<store, sent, got, points>>

\* All sockets are closed and Redis and MongoDB have settled.
Quiet == /\ \A c \in Clients : conn[c] \in Closed
         /\ queue = <<>> /\ persisting = {} /\ \A k \in Keys : store[k] = None
         /\ UNCHANGED vars

Next == \/ \E c \in Clients : Connect(c) \/ Leave(c)
        \/ \E d \in Drivers : \/ Disconnect(d) \/ DeleteTrip(d)
                              \/ DeleteSession(d)
                              \/ \E r \in ReportsOf[d] : Update(d, r)
        \/ \E u \in persisting : Persisted(u) \/ PersistFails(u)
        \/ \E p \in Parents : \/ Subscribe(p) \/ Snapshot(p)
                              \/ SubscribeFails(p) \/ Unsubscribe(p)
        \/ Execute
        \/ \E k \in Keys : Expire(k)
        \/ Crash \/ Quiet

Spec == Init /\ [][Next]_vars
-----------------------------------------------------------------------------
(* get_bus_location, and isOnline of the fleet *)

Online(b) == store[<<"location", b>>] # None
-----------------------------------------------------------------------------
(* Properties *)

\* Sockets, sessions, commands in flight and keys keep their types.
TypeOK ==
    /\ conn \in [Clients -> {"new", "open", "delLocation", "delTrip"} \cup Closed]
    /\ session \in [Drivers -> Buses \cup {None}]
    /\ queue \in Seq(Commands)
    /\ store \in [Keys -> Positions \cup {None}]
    /\ sent \in 0..MaxUpdates
    /\ joined \subseteq Parents
    /\ ask \in [Parents -> {"idle", "asking", "answered", "failed"}]
    /\ snap \in [Parents -> Positions \cup {None}]
    /\ got \in [Parents -> SUBSET Positions]
    /\ persisting \subseteq Positions /\ points \subseteq Positions
    /\ crashes \in 0..MaxCrashes

\* "The parent sees the bus instantly on map open": a parent whose subscription
\* was answered has been sent the position the cache holds for its route, by
\* the snapshot or by the room, however the two overlapped.
NothingMissed ==
    \A p \in Parents :
        LET u == store[<<"location", RouteOf[p]>>]
        IN  p \in joined /\ ask[p] = "answered" /\ u # None
              => (u.route = RouteOf[p] => u \in got[p])

\* "Mark bus as offline in Redis": once a driver of one bus is gone in an
\* orderly way no key holds what it reported, whatever was in flight.
GoneIsOffline ==
    \A d \in Drivers :
        /\ conn[d] = "closed"
        /\ \A r, q \in ReportsOf[d] : r.bus = q.bus
        => \A k \in Keys : store[k] # None => store[k].by # d

\* The map never moves a bus back in time, whoever reports it.
NeverBackwards ==
    [][\A k \in Keys : store[k] # None /\ store'[k] # None
                       => store[k].at <= store'[k].at]_vars
=============================================================================
