SPECIFICATION StagingSpec
CONSTANTS
    h1 = h1
    h2 = h2
    api = api
    Nothing = Nothing
    NoKey = NoKey
    NoCommand = NoCommand
    Inputs <- InstallmentInputs
    Commands <- StagedCommands
    Writers = {h1, h2, api}
    Handlers = {h1, h2}
    ProcessOf <- TwoProcesses
    ClaimLimit = 2
    Faults = {"publish throws", "message lost", "submitter dies", "query fails", "connection lost", "process dies", "server dies"}
    MaxFaults = 1
    MaxEvents = 4
    MaxClock = 0
    MaxStepBack = 0
INVARIANTS
    HeldOnce
    MarksAreTrue
    LineageHonest
PROPERTIES
    DecisionsStand
CHECK_DEADLOCK FALSE
