SPECIFICATION Spec
CONSTANTS
    Browsers = {b1, b2}
    Limit = 2
    MaxRuns = 3
    MaxRequests = 2
INVARIANTS
    DeletesAreCountedOnce
PROPERTIES
    DeletesHitWhatWasSeen
    DetailsAreOfRowsClicked
CHECK_DEADLOCK FALSE
