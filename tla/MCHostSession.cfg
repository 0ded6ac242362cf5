SPECIFICATION Spec
CONSTANTS
    Omitted = Omitted
    None = None
    Unreadable = Unreadable
    Retries = 1
    MaxCalls = 1000
    Configuration <- MCConfiguration
    Background <- MCBackground
    Sessions <- MCSessions
VIEW View
INVARIANTS
    ExitZeroMeansConfigured
    StepsAreCurrent
    AcceptedMeansVerified
    SuccessPassesAudit
    CleanAuditMeansConfigured
    RunningChangeIsReported

