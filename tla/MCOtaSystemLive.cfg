SPECIFICATION FairSysSpec
CONSTANTS
    Image = {A, B}
    NoImage = NoImage
    ImageSize <- MCMixedSize
    SizeValues <- MCSizeValues
    SlotSize = 4
    HeaderLen = 1
    MaxLeaks = 0
    RollbackEnabled = FALSE
    ChunkSize = 2
    WordMod = 16
    Page = {p}
    MaxFrames = 2
    MaxReaders = 1
    Patient = FALSE
    SendFails = FALSE
PROPERTIES
    UploadEnds
