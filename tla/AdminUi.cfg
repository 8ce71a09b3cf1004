SPECIFICATION FairSpec
CONSTANTS
    t1 = t1
    t2 = t2
    o1 = o1
    bare = bare
    u1 = u1
    u2 = u2
    get = get
    pets = pets
    None = None
    Tokens = {t1, t2}
    Issued = {t1}
    Operations = {o1}
    MethodOf <- MCMethodOf
    GroupOf <- MCGroupOf
    Targets = {bare, u1, u2}
    Normalized <- MCNormalized
    SeedTarget = u1
    Specs <- MCSpecs
    Modes = {"real", "demo"}
    Visits <- MCVisits
    MaxFaults = 1
INVARIANTS
    TypeOK
    SettledPagesAreCurrent
PROPERTIES
    SettledSaveIsSafe
    ImplementsLifecycle
    SwitchIsFollowedByRefresh
CHECK_DEADLOCK FALSE
