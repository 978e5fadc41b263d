SPECIFICATION Spec
CONSTANTS
    d1 = d1  d2 = d2  p1 = p1  p2 = p2
    route = route  plate = plate
    None = None
    Drivers = {d1, d2}
    Parents = {p1, p2}
    Verified = {d1, d2, p1}
    Buses = {route, plate}
    ReportsOf <- MCReportsOf
    RouteOf <- MCRouteOf
    MaxUpdates = 2
    MaxCrashes = 1
INVARIANTS
    TypeOK
    NothingMissed
    GoneIsOffline
PROPERTIES
    NeverBackwards
