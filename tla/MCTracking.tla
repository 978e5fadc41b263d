----------------------------- MODULE MCTracking -----------------------------
(***************************************************************************)
(* A driver reports its bus under the identifier of the route or under its *)
(* plate, another socket (a reconnection, or a matron) under the plate; one *)
(* parent watches, and one socket has no valid token.                      *)
(***************************************************************************)
EXTENDS Tracking

CONSTANTS d1, d2, p1, p2, route, plate

MCReportsOf ==
    [d \in Drivers |->
        IF d = d1 THEN {[bus |-> route, route |-> route, trip |-> FALSE],
                        [bus |-> plate, route |-> route, trip |-> TRUE]}
        ELSE {[bus |-> plate, route |-> route, trip |-> TRUE]}]

MCRouteOf == [p \in Parents |-> route]
=============================================================================
