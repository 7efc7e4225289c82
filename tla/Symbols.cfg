SPECIFICATION FairSpec
CONSTANTS
    Callers = {t1, t2, t3}
    Strings = {empty, a, b}
    Empty = empty
    NoAnswer = NoAnswer
    Nobody = Nobody
INVARIANTS
    TypeOK
    SymbolEqualityIsStringEquality
    IndexMatchesStrings
    ResolveAssertion
PROPERTIES
    Implements
    CallsReturn
