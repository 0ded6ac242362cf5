CONSTANTS
    c1 = c1
    c2 = c2
    d1 = d1
    d2 = d2
    Unset = Unset
    Mixed = Mixed
    Config <- MCConfig
    Device <- MCDevice
SPECIFICATION Spec
SYMMETRY MCSymmetry
INVARIANT TypeOK
INVARIANT StartMeansApplied
INVARIANT FailureBlocksStart
INVARIANT ScanIsWhole
