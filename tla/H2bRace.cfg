\* Two callers with different authorizations race for a slot of an assembly task.
SPECIFICATION Spec
CONSTANTS
    Runners = {r1, r2}
    Foreign = {r2}
    N = 1
    StrayDirs = {}
    ChangeLoop = FALSE
    MaxTurns = 1
PROPERTIES
    ImplementsSlotRun
VIEW OutsideView
