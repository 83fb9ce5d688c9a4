\* Three agents with a distributed heuristic: readers in the middle of a step.
SPECIFICATION FairSpec
CONSTANTS
    N = 3
    p0 = p0
    p1 = p1
    Plan = {p0, p1}
    Traced <- OwnPlans
    NoPlan = NoPlan
    Garbage <- WorstGarbage
    MAHeur = TRUE
    MaxWork = 1
INVARIANTS
    TypeOK
    LeastInitiatorWins
    Agreement
    FlushComplete
    CountersReady
PROPERTIES
    ImplementsAgreeToStop
    EveryoneLeaves
