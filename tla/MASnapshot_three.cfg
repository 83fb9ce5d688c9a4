SPECIFICATION Spec
CONSTANTS
    N = 3
    Item = {i1}
    MaxSnap = 2
INVARIANTS
    ConsistentCut
    NoStrayMessage
    SnapshotsEnd
