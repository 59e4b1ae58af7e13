SPECIFICATION Spec
CONSTANTS
    Image = {A, B}
    NoImage = NoImage
    ImageSize <- MCImageSize
    SizeValues <- MCSizeValues
    SlotSize = 4
    HeaderLen = 1
    MaxLeaks = 1
    RollbackEnabled = TRUE
    ChunkSize = 2
    WordMod = 16
SYMMETRY MCSymmetry
INVARIANTS
    TypeOK
    SessionInv
    RunningIsWhole
    VerdictInv
    FallbackReady
PROPERTIES
    EndMeansInstalled
    IsService
