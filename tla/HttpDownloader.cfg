\* Safety: two workers, four items on two priorities.
SPECIFICATION Spec
CONSTANTS
    h1 = h1
    h2 = h2
    l1 = l1
    l2 = l2
    Item = {h1, h2, l1, l2}
    NoItem = NoItem
    NumWorkers = 2
    LastPriority = 1
    PriorityOf <- MCPriorityOf
SYMMETRY MCSymmetry
INVARIANTS
    TypeOK
    OnePlace
    SetItemFindsIdleWorker
    PopFindsItem
    PauseAdmitsOne
    NoInversion
    ReportedOnce
PROPERTIES
    Implements
CHECK_DEADLOCK TRUE
