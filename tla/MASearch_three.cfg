SPECIFICATION Spec
CONSTANTS
    N = 3
    Problems <- Three
    MaxCost = 9
INVARIANTS
    VerifiedIsOptimal
    
    ParentsKnown
    TraceComplete
    TracedWithinGoal
