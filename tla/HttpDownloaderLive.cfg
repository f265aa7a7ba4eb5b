\* Liveness: two workers, two items of different priorities, fair threads.
SPECIFICATION FairSpec
CONSTANTS
    h1 = h1
    h2 = h2
    l1 = l1
    l2 = l2
    Item = {h1, h2, l1}
    NoItem = NoItem
    NumWorkers = 2
    LastPriority = 1
    PriorityOf <- MCSmallPriorityOf
PROPERTIES
    EveryDownloadEnds
    WorkersComeBack
