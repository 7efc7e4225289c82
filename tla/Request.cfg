SPECIFICATION Spec
CONSTANTS
    MaxWrites = 3
    StatusCodes <- Codes
    Unset = Unset
INVARIANTS
    TypeOK
    HeadersThenBody
    SentHeadersAreFinal
    AnsweredAsLogged
    ComplainsOnce
    ResultSetsStatus
