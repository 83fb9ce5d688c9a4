SPECIFICATION Spec
CONSTANTS
    Agents = {a1, a2}
    Options <- AllOptions
    MaxSignals = 2
INVARIANTS
    RunningIsRegistered
PROPERTIES
    AbortTellsAll
    MutexIdleWhenDestroyed
    LimitEnds
