SPECIFICATION Spec
CONSTANTS
    Texts <- MCTexts
    Minted <- MCMinted
    Place <- MCPlace
    normalizeName <- MCKeys
    Similar <- MCSimilar
    Usina = "usina"
    Legacy = {"alfa"}
    Tabs = {"t1", "t2"}
    Admitting = {"t1"}
    Questions = {"document"}
    MaxFacts = 2
    MaxImports = 1
INVARIANTS
    NoGhosts
    DisclosureStaysTrue
    
PROPERTIES
    LostOnlyWhenOvertaken
