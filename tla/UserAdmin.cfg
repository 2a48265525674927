SPECIFICATION Spec
CONSTANTS
    c1 = c1
    c2 = c2
    u1 = u1
    u2 = u2
    u3 = u3
    u4 = u4
    Clients = {c1, c2}
    session <- MCSession
    Uids = {u1, u2, u3, u4}
    Names = {"kim", "lee", "park", "choi"}
    Requests <- MCRequests
    InitialUsers <- MCInitialUsers
INVARIANTS
    TypeOK
    OneAccountPerName
PROPERTIES
    OnlyAdminsChangeUsers
    UpdatesChangeOnlyWhatTheyName
    LockoutEndsOnlyBySeeding
CHECK_DEADLOCK FALSE
