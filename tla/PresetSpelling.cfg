SPECIFICATION Spec
CONSTANTS
    t1 = t1
    t2 = t2
    o1 = o1
    bare = bare
    u1 = u1
    u2 = u2
    get = get
    pets = pets
    None = None
    Tokens = {t1, t2}
    Issued = {t1}
    Operations = {o1}
    MethodOf <- MCMethodOf
    GroupOf <- MCGroupOf
    Targets = {bare, u1, u2}
    Normalized <- MCNormalized
    SeedTarget = u1
    Specs <- MCSpecs
    Modes = {"real"}
    Visits <- MCOneSave
    MaxFaults = 0
PROPERTIES
    SwitchIsWarned
CHECK_DEADLOCK FALSE
