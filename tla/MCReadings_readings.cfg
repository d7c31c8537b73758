SPECIFICATION ReadSpec
CONSTANTS
    NoKey = NoKey
    NoCommand = NoCommand
    Writers = {}
    Commands <- ReadCommands
    MaxEvents = 4
    MaxClock = 1
    MaxStepBack = 0
    Usina = "usina"
    TypeRank <- Ranks
    UuidRank <- Uuids
    LastDay = 2
    PageLimit = 1
    Filters <- ListingFilters
INVARIANTS
    
    NarrowingIsSound
    ExposuresReconcile
    CountedWhileStanding
    StatementsChain
    WalkComplete
