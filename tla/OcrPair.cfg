SPECIFICATION FairSpec
CONSTANTS
    r1 = r1
    r2 = r2
    Requests <- Two
    Calls <- MCPair
    Models <- MCModels
    DocTypes <- MCDocTypes
    TestTenant = "__test__"
    MaxWorkers = 2
    Retry = 1
    MaxPages = 2
INVARIANTS
    TypeOK
    OneRowPerFile
    BilledAgreesWithPages
    RunsAreBacked
    AttemptsAccountedFor
    WorkIsAuthorised
    ReplyAgreesWithLedger
PROPERTIES
    ContractHolds
    NothingIsRevised
    EveryRequestEnds
CHECK_DEADLOCK FALSE
