CONSTANTS
    c1 = c1
    c2 = c2
    Zero = Zero
    None = None
    Config <- MCConfig
    GeomRegs <- MCGeomRegs
    UltraRegs <- MCUltraRegs
    LaserRegs <- MCLaserRegs
SPECIFICATION Spec
SYMMETRY MCSymmetry
INVARIANT TypeOK
INVARIANT PlanInForce
INVARIANT SuccessMeansConfigured
INVARIANT ModesExclusive
PROPERTY ParametersChangeStopped
PROPERTY LaserTimingChangesOff
