CONSTANTS
    ExpectedBytes = 3
    SeqSpace = 4
    b = b
    None = None
    MaxCount = 2
    MaxRun = 4
    Byte <- MCByte
    Payload <- MCPayload
SPECIFICATION MCSpec
INVARIANT AssemblerTypeOK
INVARIANT FrameIsOneRun
INVARIANT PartialIsOneRun
PROPERTY FramesAreCounted
CHECK_DEADLOCK FALSE
