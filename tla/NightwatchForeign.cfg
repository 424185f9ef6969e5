\* One controller, one start, and the status command; direct runners of this campaign (d1, first slot)
\* and of another (d2, last slot); one direct call at a time, none while the status command runs.
SPECIFICATION RestingSpec
CONSTANTS
    Runners = {c1, d1, d2}
    Foreign = {d2}
    Controllers = {c1}
    N = 2
    Threshold = 2
    MaxStarts = 1
    Attestations = {TRUE}
    Endings = {"completed_ungraded", "failed"}
    StrayDirs = {}
INVARIANTS
    ClaimExclusive
    ResultsBacked
    VerdictTruthful
PROPERTIES
    EvidencePermanent
    StatusTruthful
