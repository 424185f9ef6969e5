\* A replacement of the run log that fails, and leaves its temporary file.
SPECIFICATION Spec
CONSTANTS
    Runners = {r1}
    Foreign = {}
    N = 1
    StrayDirs = {}
    ChangeLoop = FALSE
    MaxTurns = 1
INVARIANTS
    InventoryExists
