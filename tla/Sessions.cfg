SPECIFICATION Spec
CONSTANTS
    Workers = {w1, w2}
    Passwords = {"old", "new"}
    AssignedRoles = {"developer", "accountant"}
    Permissions = {"ocr:test"}
    MaxAge = 2
    TicksPerSecond = 4
    Horizon = 9
    MaxStarts = 1
INVARIANTS
    DecisionsAreTimely
    FixedKeyKeepsSessions
PROPERTIES
    SessionLifetime
    DeactivationShutsOut
