SPECIFICATION FairSpec
CONSTANTS
    FrameLens = {2, 5, 6}
    MaxLen = 9
    FifoCap = 3
    ProtDepth = 2
    SlowTx = FALSE
INVARIANTS NoLostWakeup MaskingCorrect TxExclusive FrameBoundary
 
