SPECIFICATION Spec
CONSTANTS
    FrameLens = {8}
    MaxLen = 9
    FifoCap = 2
    ProtDepth = 0
    SlowTx = FALSE
INVARIANTS FrameBoundary
