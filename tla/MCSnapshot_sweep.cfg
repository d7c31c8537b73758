SPECIFICATION Spec
CONSTANTS
    Positions = {"p"}
    Listings = {"l1"}
    PAGE_SIZE = 1
    MAX_PAGES = 2
    MaxEvents = 4
    MaxFailures = 1
INVARIANTS
    SweptIsCurrent
PROPERTIES
    CursorAdvances
    StaleIsForgotten
