\* Two controllers, three starts, three slots: races for the lock, deaths at every step.
SPECIFICATION Spec
CONSTANTS
    Runners = {c1, c2}
    Foreign = {}
    Controllers = {c1, c2}
    N = 3
    Threshold = 2
    MaxStarts = 3
    Attestations = {TRUE, FALSE}
    Endings = {"completed_ungraded", "failed", "partial"}
    StrayDirs = {}
SYMMETRY ControllerSymmetry
INVARIANTS
    JournalLoadable
    NoRedispatch
    FlaggedNeverDispatched
    SerialDispatch
    FailureBudget
PROPERTIES
    KeepsPromise
CHECK_DEADLOCK FALSE
