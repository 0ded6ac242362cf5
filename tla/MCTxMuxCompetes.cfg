SPECIFICATION Spec
CONSTANTS
    None = None
    ReplySize = 4
    DataSizes <- MCDataSizes
    ArpSize = 4
    IcmpSize = 5
    ProgFull = 7
    DelayClocks = 8
    DoneClocks = 5



PROPERTY DataCompetes
