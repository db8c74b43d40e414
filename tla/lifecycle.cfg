SPECIFICATION Spec
CONSTANTS
    Workspaces = {w1, w2}
    Branches = {1, 2}
    NoSession = NoSession
    Disturbances <- LifecycleDisturbances
    MaxConnects = 2
    MaxPrompts = 0
    MaxStops = 0
    MaxMessages = 1
INVARIANTS
    TypeOK
    NoOrphanProcess
    ReadyMeansOwnSession
    SavedSessionOfWorkspace
    RecoveryRunsOnce
    ClosingWaitsForStop
    ExitSignalsProcess
PROPERTIES
    ReadyOnCleanBranch
