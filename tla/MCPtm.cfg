SPECIFICATION FairSpec
CONSTANTS
    early = early  late = late
    spring = spring  autumn = autumn
    tarek = tarek  room = room  hall = hall
    mona = mona  omar = omar  zein = zein  laila = laila
    r1 = r1  r2 = r2  r3 = r3  r4 = r4  r5 = r5
    NoParent = NoParent
    NoClass = NoClass
    Nobody = Nobody
    Slots = {early, late}
    Cycles = {spring, autumn}
    OpenCycles = {spring}
    CycleOf <- MCCycleOf
    TeacherOf <- MCTeacherOf
    Requests = {r1, r2, r3, r4, r5}
    RequestOf <- MCRequestOf
    Parents = {mona, omar}
    Students = {zein, laila}
    Links <- MCLinks
    ClassOf <- MCClassOf
    Teaches <- MCTeaches
INVARIANTS
    TypeOK
    BookedOnce
    ConflictIsTrue
PROPERTIES
    Answered
    KeepsPromise
