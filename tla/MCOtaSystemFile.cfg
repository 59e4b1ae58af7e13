SPECIFICATION SysSpec
CONSTANTS
    Image = {A, B}
    NoImage = NoImage
    ImageSize <- MCImageSize
    SizeValues <- MCSizeValues
    SlotSize = 4
    HeaderLen = 1
    MaxLeaks = 1
    RollbackEnabled = TRUE
    ChunkSize = 2
    WordMod = 16
    Page = {p}
    MaxFrames = 2
    MaxReaders = 1
    Patient = TRUE
    SendFails = FALSE
PROPERTIES
    InstalledIsShown
