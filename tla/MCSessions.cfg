SPECIFICATION Spec
CONSTANTS
    mona = mona
    laptop = laptop  phone = phone
    renew = renew  leave = leave  fetch = fetch  admin = admin
    None = None
    Users = {mona}
    Logins = {laptop, phone}
    Refreshes = {renew}
    Logouts = {leave}
    Requests = {fetch}
    Suspensions = {admin}
    Secrets = {TRUE, FALSE}
    Ttl = 2
    MaxTime = 2
    MaxInFlight = 2
SYMMETRY Alike
INVARIANTS
    TypeOK
    OutMeansOut
    RefusedForCause
    ReusedRevokesAll
