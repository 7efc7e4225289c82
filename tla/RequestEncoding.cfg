SPECIFICATION Spec
CONSTANTS
    MaxWrites = 3
    StatusCodes <- Codes
    Unset = Unset
INVARIANTS
    ValidFormat
