SPECIFICATION Spec
CONSTANTS
    ali = ali  mai = mai
    t1 = t1  t2 = t2  t3 = t3
    a1 = a1  a2 = a2 
    Students = {ali, mai}
    Taps = {t1, t2, t3}
    TapOf <- MCTapOf
    Absences = {a1, a2}
    AbsenceOf <- MCAbsenceOf
    MaxInFlight = 2
    MaxFailures = 2
    MaxDay = 1
SYMMETRY Alike
INVARIANTS
    TypeOK
    OneAbsenceRow
    SkipListKnows
    HeadCountIsAboard
