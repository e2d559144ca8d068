SPECIFICATION FairSpec
CONSTANTS
    FrameLens = {6}
    MaxLen = 9
    FifoCap = 2
    ProtDepth = 0
    SlowTx = FALSE
PROPERTY FramesDrained
