SPECIFICATION Spec
CONSTANTS
    Files <- MCFiles
    Aliases <- MCAliases
    environ <- MCEnviron
    standard_env <- MCStandardEnv
    MaxEdits = 3
    MaxCalls = 2
INVARIANT
    ConfiguredKeyIsUsed
