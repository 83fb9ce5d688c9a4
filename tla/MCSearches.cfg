SPECIFICATION SomeSpec
CONSTANTS
    State = {0, 1, 2, 3}
    Problems <- Paths
    Algorithms <- AllAlgorithms
    DeadEnd = 50
    Val = {v1, v2}
    InitSize = 2
    MaxKey = 3
    TopKey = 4
    MaxPushes = 4
    N = 2
    MaxCost = 9
    WordBits = 3
    MaxStates = 3
    MaxMsgs = 2
    IntBits = 32
    HeurSubtypes = {10, 4096}
    MaxCalls = 2
    MaxHops = 2
CHECK_DEADLOCK FALSE
INVARIANTS
    PlanIsValid
    CheapestPlan
    ExhaustedMeansUnsolvable
    ClusterOptimal
    ClusterKeeps
    OneNumberPerState
    PruningKeepsPlans
    GeneratorFindsApplicable
    PrivateOpsCommute
    ProjectionIsOptimistic
    SaysWhatWasSaid
PROPERTIES
    ListsAreQueues
