SPECIFICATION Spec
CONSTANTS
    MaxPages = 2
    RawUploads <- MCRawUploads
    MaxFiles = 2
    Providers = {"gemini", "vertex_ai"}
    Alias = "smart"
    MaxTokens = 1
INVARIANT
    RollupCountsRequests
CHECK_DEADLOCK FALSE
