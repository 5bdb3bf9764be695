CONSTANTS
    Workers = {w1, w2}
    FileChunks = 3
    MaxPauses = 3
SPECIFICATION FairSpec
INVARIANTS
    TypeOK
    OneReader
    NoUseAfterDelete
    QuietAfterCompletion
    PauseStopsReading
PROPERTIES
    IsDownload
    Delivered
    Freed
