SPECIFICATION Spec
CONSTANTS
    a = a
    b = b
    o1 = o1
    o2 = o2
    o3 = o3
    e1 = e1
    e2 = e2
    None = None
    Ops = {o1, o2, o3}
    Endpoints = {e1, e2}
    EndpointOf <- MCEndpointOf
    SpecsOf <- MCSpecsOf
    Tokens = {t1}
    Servers = {a, b}
    MaxRowId = 4
    TokenCalls = {u1}
    OpLists <- MCOneList
    Edits = {"keep", "later"}
    Puts = {p1}
    PutPairs <- MCPutPairs
    Jobs = {j1}
    Calls = {c1}
    OneTab = TRUE
    Presets <- MCPinned
    Mixes <- MCAnyMix
    MaxRestarts = 0
INVARIANT
    NoForwardAcrossBackends
CHECK_DEADLOCK FALSE
