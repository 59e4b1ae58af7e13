SPECIFICATION Spec
CONSTANTS
    MAGIC_SIZE = 2
    ENC_GCM_KEY_SIZE = 3
    IV_SIZE = 2
    BIN_SIZE_DATA = 2
    AUTH_SIZE = 2
    RESERVED_HEADER = 2
    BLOCK = 3
    MaxLen = 8
INVARIANTS
    TypeOK
    PositionInv
    CipherInv
    CompleteIsSupplied
PROPERTIES
    IsStream
    AcceptedIsWhole
