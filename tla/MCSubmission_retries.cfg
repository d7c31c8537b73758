SPECIFICATION SubSpec
CONSTANTS
    w1 = w1
    w2 = w2
    h1 = h1
    h2 = h2
    NoKey = NoKey
    NoCommand = NoCommand
    Blank = Blank
    NoPlan = NoPlan
    Nobody = Nobody
    Writers = {w1, w2}
    Calls = {h1, h2}
    Commands <- Staged
    MaxEvents = 3
    MaxClock = 0
    MaxStepBack = 0
    Refs <- TwoIntents
    Offered = {"register_advance_settlement"}
    Amounts = {1, 2}
    Directory <- MCDirectory
    Typed = {}
    Unidentified <- MCUnidentified
    Correcting = {NoPlan, 1}
    Faults = {"timeout", "treasury restart", "ledger restart"}
INVARIANTS
    KeyNamesOneEvent
    AcceptedIsRecorded
    RestatedAfterRetraction
    OpenedFromPosition
SYMMETRY SlotSymmetry
CHECK_DEADLOCK FALSE
