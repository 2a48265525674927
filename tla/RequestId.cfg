SPECIFICATION Spec
CONSTANTS
    w1 = w1
    w2 = w2
    k = k
    r1 = r1
    r2 = r2
    Workers = {w1}
    Scripts = {k}
    Schema <- MCSchema
    Files <- MCFiles
    Torn <- MCTorn
    Known <- MCKnown
    MaxStarts = 1
    MaxEdits = 0
    Requests = {r1}
    Calls <- MCCalls
INVARIANT
    EveryAnswerHasAnId
CHECK_DEADLOCK FALSE
