SPECIFICATION Spec
CONSTANTS
    r1 = r1
    r2 = r2
    r3 = r3
    r4 = r4
    r5 = r5
    r6 = r6
    k1 = k1
    w1 = w1
    NoKey = NoKey
    NoCommand = NoCommand
    Writers = {w1}
    Commands <- SoleCommands
    MaxEvents = 4
    MaxClock = 1
    MaxStepBack = 0
INVARIANTS
    TypeOK
    LineageGrounded
    HashChainLinear
    GuardAgreesWithReads
    
SYMMETRY SoleSymmetry
PROPERTIES
    SettlementConserves
    ImplementsAtomicBook
