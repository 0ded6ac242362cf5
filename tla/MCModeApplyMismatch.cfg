CONSTANTS
    c1 = c1
    c2 = c2
    Zero = Zero
    None = None
    Config <- MCConfig
    GeomRegs <- MCGeomRegs
    UltraRegs <- MCUltraRegs
    LaserRegs <- MCLaserRegs
SPECIFICATION Spec
SYMMETRY MCSymmetry
PROPERTY NoStartAfterMismatch
CHECK_DEADLOCK FALSE
