SPECIFICATION Spec
CONSTANTS
    a = a
    b = b
    o1 = o1
    o2 = o2
    o3 = o3
    e1 = e1
    e2 = e2
    None = None
    Ops = {o1, o2, o3}
    Endpoints = {e1, e2}
    EndpointOf <- MCEndpointOf
    SpecsOf <- MCSpecsOf
    Tokens = {t1, t2}
    Servers = {a, b}
    MaxRowId = 6
    TokenCalls = {u1, u2}
    OpLists <- MCOpLists
    Edits = {"keep", "never"}
    Puts = {p1}
    PutPairs <- MCPutPairs
    Jobs = {j1, j2}
    Calls = {}
    OneTab = TRUE
    Presets <- MCPinned
    Mixes <- MCAnyMix
    MaxRestarts = 1
INVARIANTS
    NoOrphanGrants
    GrantsOfCurrentBackend
PROPERTIES
    PatchTakesEffect
    ImplementsMatrix
    SyncIsExact
SYMMETRY Symmetry
CHECK_DEADLOCK FALSE
