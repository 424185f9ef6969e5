\* Up to four calls on one workspace; one name is taken, one export file exists.
SPECIFICATION FairSpec
CONSTANTS
    Names = {n1, n2, n3, n4}
    ForeignNames = {n3}
    StrayArchives = {n4}
CHECK_DEADLOCK FALSE
INVARIANTS
    OnlyAttestedRun
    NothingLost
    OutcomeTruthful
PROPERTIES
    ForeignUntouched
    RestoredAfterRemoval
    CallEnds
