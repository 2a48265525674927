SPECIFICATION Spec
CONSTANTS
    r1 = r1
    r2 = r2
    Requests <- Two
    Calls <- MCFull
    Models <- MCModels
    DocTypes <- MCDocTypes
    TestTenant = "__test__"
    MaxWorkers = 2
    Retry = 1
    MaxPages = 2
INVARIANT
    GlobalCallCap
CHECK_DEADLOCK FALSE
