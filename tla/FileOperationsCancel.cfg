\* A second thread queues an operation after a cancel.
SPECIFICATION Spec
CONSTANTS
    scene = scene
    background = background
    Caller = {scene, background}
    Scene = scene
    MaxOps = 2
    MaxCancels = 1
INVARIANTS
    OnCancelQueueIsCleared
\* The program stops when it crashes.
CHECK_DEADLOCK FALSE
