SPECIFICATION FairSpec
CONSTANTS
    ProbeId <- MCProbeId
    Hosts <- MCHosts
    PreflightRuns = 2
    Generations = 4
    Expected <- MCExpected
    Payloads <- MCPayloads
    GateRuns = 2
    GateGenerations = 5
    GateDisturbances <- MCGateDisturbances
    Overlap = FALSE
INVARIANTS
    TypeOK
    RunsAreDriven
    NoOrphanProbe
    TimerOfLiveProbe
    GateCleansUp
    VerdictIsProved
PROPERTIES
    PreflightKeepsContract
    GateKeepsContract
    RunsEnd
