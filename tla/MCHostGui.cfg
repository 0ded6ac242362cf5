CONSTANTS
    c1 = c1
    c2 = c2
    d1 = d1
    d2 = d2
    Unset = Unset
    Mixed = Mixed
    None = None
    MaxFrames = 1
    Config <- MCConfig
    Device <- MCDevice
    Worker <- MCWorker
SPECIFICATION MCSpec
VIEW MCView
INVARIANT OnePortOwner
INVARIANT IdleMeansIdle
INVARIANT OneLiveWorker
INVARIANT ReceiverFollowsConnection
PROPERTY FramesAreCurrent
PROPERTY ReceiverFitsScan
PROPERTY StopIsObeyedWhenSilent
