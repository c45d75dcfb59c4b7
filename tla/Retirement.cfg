SPECIFICATION Spec
CONSTANTS
    Count = 2
    Edge = 1
    Crashable = {1}
    AdminActions = {"RESUME"}
    RevMax = 4
INVARIANTS ReleaseIsProven OrderlyRelease RecordsAreValid
