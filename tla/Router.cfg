SPECIFICATION Spec
CONSTANTS
    Workers = {w1}
    Routers = {"root", "sub", "deep"}
    Root = "root"
    Endpoints <- OverlappingEndpoints
    Mounts <- NestedMounts
    Requests <- SomeRequests
    Wildcard = "*"
    Null = Null
INVARIANTS
    TypeOK
    DispatchIsReference
    RelativeRouteFits
    NothingInUseIsRemoved
