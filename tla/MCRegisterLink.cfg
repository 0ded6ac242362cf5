CONSTANTS
    r1 = r1
    version = version
    v0 = v0
    v1 = v1
    wide = wide
    None = None
    Retries = 1
    MaxCalls = 3
    Address <- MCAddress
    Value <- MCValue
    Default <- MCDefault
    Stored <- MCStored
    Readable <- MCReadable
    Writable <- MCWritable
SPECIFICATION Spec
INVARIANT TypeOK
INVARIANT NeverFabricated
INVARIANT FreshWhenDrained
INVARIANT LagIsConserved
PROPERTY CallReturns
CHECK_DEADLOCK FALSE
