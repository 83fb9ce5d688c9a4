SPECIFICATION Spec
CONSTANTS
    N = 2
    MaxNew = 1
    MaxVerify = 1
INVARIANTS
    TerminatesAtDeadEndOnly
