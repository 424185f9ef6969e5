\* One controller, started once; Ctrl-C while the executor works on a slot.
SPECIFICATION Spec
CONSTANTS
    Runners = {c1}
    Foreign = {}
    Controllers = {c1}
    N = 2
    Threshold = 2
    MaxStarts = 1
    Attestations = {FALSE}
    Endings = {"failed"}
    StrayDirs = {}
PROPERTIES
    CancellationStopsCampaign
CHECK_DEADLOCK FALSE
