SPECIFICATION Spec
CONSTANTS
    s1 = s1
    cola = cola  water = water  twice = twice
    t1 = t1
    h1 = h1  h2 = h2
    raise = raise  block = block  forged = forged
    Tags <- MCTags
    Menu <- MCMenu
    Price <- MCPrice
    TagsOf <- MCTagsOf
    InStock <- MCMenu
    PurchaseOf <- MCPurchaseOf
    TopUpOf <- MCTopUpOf
    HookRef <- MCHookRef
    EditOf <- MCEditOf
    Students = {s1}
    Opening <- Open
    Purchases = {}
    TopUps = {t1}
    Hooks = {h1, h2}
    Edits = {}
    MaxInFlight = 2
    MaxDay = 0
INVARIANTS
    PostedOnce
