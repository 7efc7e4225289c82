SPECIFICATION Spec
CONSTANTS
    TmpSize = 17
    FlushAt = 6
    CharIsSigned = TRUE
    CodePoints = {233, 128512, 65533}
    Jobs <- AllJobs
INVARIANTS
    TypeOK
    BufferFits
    PageShowsRequest
    LogGivesEachLine
    LogKeepsLines
    RouteIsComponents
PROPERTIES
    ContentIsInert
    BufferIsTransparent
