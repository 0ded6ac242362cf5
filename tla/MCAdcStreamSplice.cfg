CONSTANTS
    ExpectedBytes = 5
    FrameBytes = 5
    PacketBytes = 2
    SeqSpace = 16
    None = None
    MaxScans = 2
    MaxPackets = 7
    MaxWire = 2
    Byte <- MCByte
    Payload <- MCPayload
SPECIFICATION Spec
INVARIANT GapDropsPartialFrame
CHECK_DEADLOCK FALSE
