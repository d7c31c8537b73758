SPECIFICATION SubSpec
CONSTANTS
    w1 = w1
    w2 = w2
    h1 = h1
    h2 = h2
    NoKey = NoKey
    NoCommand = NoCommand
    Blank = Blank
    NoPlan = NoPlan
    Nobody = Nobody
    Writers = {w1}
    Calls = {h1}
    Commands <- Earlier
    MaxEvents = 3
    MaxClock = 0
    MaxStepBack = 0
    Refs <- OneIntent
    Offered <- AllScenarios
    Amounts = {0, 1}
    Directory <- MCDirectory
    Typed = {"ana", "someone", "nobody"}
    Unidentified <- MCUnidentified
    Correcting = {NoPlan}
    Faults = {"ledger restart", "treasury restart"}
INVARIANTS
    CandidatesWellFormed
PROPERTIES
    ImplementsProposals
    EveryCallReturns
CHECK_DEADLOCK FALSE
