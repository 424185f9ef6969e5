\* Calls for one slot of a change-loop task, four turns, one after the other.
SPECIFICATION FairSpec
CONSTANTS
    Runners = {r1}
    Foreign = {}
    N = 1
    StrayDirs = {}
    ChangeLoop = TRUE
    MaxTurns = 4
INVARIANTS
    SealedIsComplete
    SandboxAccounted
PROPERTIES
    ArtifactsKept
    CallsEnd
