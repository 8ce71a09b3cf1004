SPECIFICATION Spec
CONSTANTS
    t1 = t1
    t2 = t2
    o1 = o1
    bare = bare
    u1 = u1
    u2 = u2
    get = get
    pets = pets
    None = None
    Tokens = {t1}
    Issued = {t1}
    Operations = {o1}
    MethodOf <- MCMethodOf
    GroupOf <- MCGroupOf
    Targets = {u1, u2}
    Normalized <- MCNormalized
    SeedTarget = u1
    Specs <- MCSpecs
    Modes = {"real"}
    Visits <- MCSwitchAndEdit
    MaxFaults = 0
INVARIANTS
    RegrantedExplicitly
CHECK_DEADLOCK FALSE
