SPECIFICATION Spec
CONSTANTS
    N = 2
    Problems <- TwoGoals
    MaxCost = 9
INVARIANTS
    SolutionKept
