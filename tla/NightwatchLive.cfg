\* Two controllers under weak fairness; no slot has a directory yet.
SPECIFICATION FairSpec
CONSTANTS
    Runners = {c1, c2}
    Foreign = {}
    Controllers = {c1, c2}
    N = 2
    Threshold = 2
    MaxStarts = 3
    Attestations = {TRUE}
    Endings = {"completed_ungraded", "partial"}
    StrayDirs = {}
PROPERTIES
    Termination
    RunningResolved
CHECK_DEADLOCK FALSE
