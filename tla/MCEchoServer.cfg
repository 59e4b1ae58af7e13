SPECIFICATION Spec
CONSTANTS
    Server = {S1, S2}
    NULL = NULL
INVARIANTS
    TypeOK
    HandleRuns
    Serves
