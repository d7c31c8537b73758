SPECIFICATION FairStagingSpec
CONSTANTS
    h1 = h1
    h2 = h2
    api = api
    Nothing = Nothing
    NoKey = NoKey
    NoCommand = NoCommand
    Inputs <- SourceInputs
    Commands <- StagedCommands
    Writers = {h1}
    Handlers = {h1}
    ProcessOf <- OneProcess
    ClaimLimit = 1
    Faults = {"publish throws", "query fails", "connection lost", "process dies"}
    MaxFaults = 2
    MaxEvents = 3
    MaxClock = 1
    MaxStepBack = 0
INVARIANTS
    OrphansHaveNoOrigin
    SourceReferenceUnique
PROPERTIES
    EveryRecordDecided
CHECK_DEADLOCK FALSE
