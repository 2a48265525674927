SPECIFICATION Spec
CONSTANTS
    w1 = w1
    w2 = w2
    k = k
    r1 = r1
    r2 = r2
    Workers = {w1, w2}
    Scripts = {k}
    Schema <- MCSchema
    Files <- MCFiles
    Torn <- MCTorn
    Known <- MCKnown
    MaxStarts = 2
    MaxEdits = 2
    Requests = {r1, r2}
    Calls <- MCCalls
SYMMETRY Alike
INVARIANTS
    AnswersAreTraceable
    AccessLogAgreesWithAnswers
    LoggingKillsNoRequest
    BookedOnce
    ServingFindsItsSchema
    MigrationRaceEnds
    MenuLeadsToRoutes
CHECK_DEADLOCK FALSE
