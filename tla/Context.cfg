SPECIFICATION Spec
CONSTANTS
    Workers = {w1, w2}
    Routers = {r1}
    EmptyRouter = empty
    Contexts = {c1}
    Null = null
SYMMETRY Symmetry
INVARIANTS
    TypeOK
    RouterIsSet
    SnapshotIsCurrent
PROPERTIES
    NothingLeftUnpublished
    NoStaleWriteBack
