\* All tasks, three lists of seeds, four times, four files in two directories, two edits by
\* others in any part.
SPECIFICATION AllSpec
CONSTANTS
    Tasks = {"L1-ASSEMBLE", "L2-RESOLVE", "L4-ECO"}
    SeedLists <- Lists
    MaxEdits = 2
    Workspace <- Sources
    Directories <- Layout
    Python <- Modules
    MaxChanges = 2
    Campaigns <- Given
    Fold <- Casefold
    Times <- Clock
    MaxTouches = 2
    MaxDeeds = 2
INVARIANTS
    ClaimJustified
    DeliveredAsFrozen
    EvidenceSound
    HandedAsApproved
    InspectionPredicts
    AttestationTrue
PROPERTIES
    SourceTogether
CHECK_DEADLOCK FALSE
