\* Two callers, three operations, two cancels at any time.
SPECIFICATION FairSpec
CONSTANTS
    scene = scene
    background = background
    Caller = {scene, background}
    Scene = scene
    MaxOps = 3
    MaxCancels = 2
INVARIANTS
    TypeOK
    OneSkipPerCancel
    FirstComeFirstServed
    DoneIsDone
    CancelAdmitsOne
    CleanBatchesNeverFault
PROPERTIES
    QueueDrains
\* The program stops when it crashes.
CHECK_DEADLOCK FALSE
