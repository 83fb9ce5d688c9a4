SPECIFICATION SomeSpec
CONSTANTS
    N = 3
    Problems <- AllProblems
    MaxEval = 1
    LocalProblems <- ThreeTasks
    Kinds <- AllKinds
    MaxNodes = 4
INVARIANTS
    AllAdmissible
    EstimatesExact
    AskedOnce
    SameGraph
    PlansAreClosed
    RepairIsExact
    RefcountsExact
PROPERTIES
    EvaluationsAllEnd
CHECK_DEADLOCK FALSE
