CONSTANTS
    Block = 2
    Wrap = 8
    IV = 5
    Size = 4
    UploadAttempts = 3
    DownloadAttempts = 2
    ChunkSizes <- MCChunkSizes
    MaxGarbled = 1
    PartSizes <- MCPartSizes
SPECIFICATION Spec
INVARIANTS
    StoredIsBody
    EachAttemptObserved
    SinkIsPrefix
    SuccessIsTheRange
CHECK_DEADLOCK FALSE
