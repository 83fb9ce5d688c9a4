SPECIFICATION Spec
CONSTANTS
    N = 2
    Problems <- OneGoalAsking
    MaxCost = 9
INVARIANTS
    VerifiedIsOptimal
