\* docker create is carried out after its client gave up.
SPECIFICATION Spec
CONSTANTS
    Names = {n1, n2, n3, n4}
    ForeignNames = {n3}
    StrayArchives = {}
CHECK_DEADLOCK FALSE
INVARIANTS
    AbsenceVerified
