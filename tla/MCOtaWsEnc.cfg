SPECIFICATION Spec
CONSTANTS
    A = A
    B = B
    G = G
    T = T
    Image = {A, B}
    NoImage = NoImage
    ImageSize <- MCImageSize
    EncFile = {G, T}
    Genuine = {G}
    Plain <- MCPlain
    SizeValues <- MCSizeValues
    SlotSize = 4
    HeaderLen = 1
    EncHeader = 1
    BLOCK = 2
    MaxLeaks = 1
    RollbackEnabled = TRUE
    ChunkSize = 2
    WordMod = 16
INVARIANTS
    TypeOK
    PipelineInv
PROPERTIES
    InstalledIsGenuine
    IsService
