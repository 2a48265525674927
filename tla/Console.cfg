SPECIFICATION Spec
CONSTANTS
    Cards = {k1, k2}
    Choices = {"a", "b"}
    MaxLoads = 2
    MaxSent = 3
INVARIANTS
    QuietCardTellsLastRun
    AlwaysACard
PROPERTIES
    ResultFitsForm
    CardsComeFree
CHECK_DEADLOCK FALSE
