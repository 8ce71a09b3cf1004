SPECIFICATION FairSpec
CONSTANTS
    a = a
    b = b
    o1 = o1
    o2 = o2
    o3 = o3
    e1 = e1
    e2 = e2
    None = None
    Ops = {o1, o2, o3}
    Endpoints = {e1, e2}
    EndpointOf <- MCEndpointOf
    SpecsOf <- MCSpecsOf
    Tokens = {t1}
    Servers = {a, b}
    MaxRowId = 4
    TokenCalls = {u1}
    OpLists <- MCOneList
    Edits = {"keep", "never"}
    Puts = {p1}
    PutPairs <- MCPutPairs
    Jobs = {j1}
    Calls = {c1}
    OneTab = FALSE
    Presets <- MCPresets
    Mixes <- MCAnyMix
    MaxRestarts = 0
PROPERTY
    RequestsEnd
CHECK_DEADLOCK FALSE
