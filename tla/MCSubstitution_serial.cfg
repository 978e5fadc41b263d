SPECIFICATION Spec
CONSTANTS
    tarek = tarek  nadia = nadia  sameh = sameh  hany = hany
    h1 = h1  h2 = h2  h3 = h3
    math = math  american = american
    m1 = m1  m2 = m2  n1 = n1  n2 = n2  own = own
    AnyDept = AnyDept
    None = None
    Teachers = {tarek, nadia, sameh, hany}
    Departments = {american}
    Subjects = {math}
    Slots = {m1, m2, n1, n2, own}
    SlotOf <- MCSlotOf
    Substitutable = {sameh, hany}
    RoleDepts <- MCRoleDepts
    TeachesIn <- MCTeachesIn
    QualifiedFor <- MCQualifiedFor
    SpecialisedIn <- MCSpecialisedIn
    Unavailable = {}
    Reports = {h1, h2, h3}
    AbsentOf <- MCAbsentOf
    MaxInFlight = 1
INVARIANTS
    TypeOK
    
    OkMeansHandled
PROPERTIES
    FirstPendingIsTrue
