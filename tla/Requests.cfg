SPECIFICATION Spec
CONSTANTS
    a = a
    b = b
    o1 = o1
    o2 = o2
    o3 = o3
    e1 = e1
    e2 = e2
    None = None
    Ops = {o1, o2, o3}
    Endpoints = {e1, e2}
    EndpointOf <- MCEndpointOf
    SpecsOf <- MCSpecsOf
    Tokens = {t1}
    Servers = {a, b}
    MaxRowId = 5
    TokenCalls = {u1, u2, u3}
    OpLists <- MCOneList
    Edits = {"keep", "later"}
    Puts = {p1, p2}
    PutPairs <- MCMixedPairs
    Jobs = {j1}
    Calls = {c1}
    OneTab = FALSE
    Presets <- MCPinned
    Mixes <- MCRequestMixes
    MaxRestarts = 1
INVARIANTS
    TypeOK
    CatalogFromOneSpec
    NoForwardAfterRevocation
PROPERTY
    SwitchWipes
    ImplementsLifecycle
SYMMETRY Symmetry
CHECK_DEADLOCK FALSE
