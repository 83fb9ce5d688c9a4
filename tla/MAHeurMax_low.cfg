SPECIFICATION Spec
CONSTANTS
    N = 3
    Problems <- ForeignOnly
    MaxEval = 1
INVARIANTS
    AnswersSequential
CHECK_DEADLOCK FALSE
