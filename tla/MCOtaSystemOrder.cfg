SPECIFICATION SysSpec
CONSTANTS
    Image = {A}
    NoImage = NoImage
    ImageSize <- MCImageSize
    SizeValues <- MCSizeValues
    SlotSize = 4
    HeaderLen = 1
    MaxLeaks = 1
    RollbackEnabled = TRUE
    ChunkSize = 2
    WordMod = 16
    Page = {p}
    MaxFrames = 3
    MaxReaders = 1
    Patient = FALSE
    SendFails = FALSE
PROPERTIES
    ChunksInOrder
