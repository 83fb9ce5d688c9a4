SPECIFICATION Spec
CONSTANTS
    Agents = {a1, a2}
    Options <- AllOptions
    MaxSignals = 0
PROPERTIES
    AbortAborts
