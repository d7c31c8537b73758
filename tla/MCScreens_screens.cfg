SYMMETRY Entries
SPECIFICATION Spec
CONSTANTS
    Periods = {p1, p2}
    DefaultPeriod = p1
    f1 = f1
    f2 = f2
    Filters = {f1, f2}
    NoFilters = f1
    PagesOf <- PagesOfEach
    Objects = {o1}
    Events = {e1, e2}
    Contextual = {}
    Whole = Whole
    None = None
    MaxUnderWay = 1
    MaxFailures = 1
    MaxWrites = 2
INVARIANTS ShownIsAnswered CorrectionIsRead
