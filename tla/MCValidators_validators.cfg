SPECIFICATION Spec
CONSTANTS
    BlockOf <- Blocks
    SimilarDigits <- OneApart
    Databases <- Sources
    PropOrder <- ProposalsInOrder
    AdvOrder <- AdvancesInOrder
    AdvText <- AdvancesInOrder
    batchSize <- PageSizes
    MaxQueue = 1
    MaxEdits = 1
    MaxFailures = 1
    MaxOneOffs = 2
    Deployments <- Together
INVARIANTS
    CheckpointBehindUnwritten
    
PROPERTIES
    OnlyLateWritersSpoil
    
