SPECIFICATION SubSpec
CONSTANTS
    w1 = w1
    w2 = w2
    h1 = h1
    h2 = h2
    NoKey = NoKey
    NoCommand = NoCommand
    Blank = Blank
    NoPlan = NoPlan
    Nobody = Nobody
    Writers = {w1}
    Calls = {h1}
    Commands <- Staged
    MaxEvents = 3
    MaxClock = 0
    MaxStepBack = 0
    Refs <- TwoIntents
    Offered = {}
    Amounts = {1}
    Directory <- MCDirectory
    Typed = {"ana"}
    Unidentified <- MCUnidentified
    Correcting = {1, 2}
    Faults = {}
INVARIANTS
    ReissueEndsPending
CHECK_DEADLOCK FALSE
