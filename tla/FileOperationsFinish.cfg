\* An operation is queued and started as the worker finishes.
SPECIFICATION FairSpec
CONSTANTS
    scene = scene
    background = background
    Caller = {scene, background}
    Scene = scene
    MaxOps = 2
    MaxCancels = 0
PROPERTIES
    PausesOnlyWhenFinished
\* The program stops when it crashes.
CHECK_DEADLOCK FALSE
