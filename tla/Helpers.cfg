\* One of four supervisors; small processes, answers and files, and one more than allowed.
SPECIFICATION HelpersSpec
CONSTANTS
    MaxPid = 5
    Sweeps = 3
    EmptyReads = 2
    Request = 2
    MaxAnswer = 3
    Limit = 2
    MaxInterrupts = 2
    MaxBlob = 3
    BlobLimit = 2
    Sharing = TRUE
    MaxSignals = 2
    Images = {"image1", "image2"}
    MaxChanges = 2
INVARIANTS
    LimiterSound
    ChildrenSound
    PassHappened
PROPERTIES
    WaitsEnd
    EvidenceNeverReplaced
CHECK_DEADLOCK FALSE
