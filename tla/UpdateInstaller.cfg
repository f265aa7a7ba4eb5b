\* Two updates of the dashboard, a skin or both, two failed calls, and a power
\* failure.  A plug-in is installed as a skin is.
SPECIFICATION LiveSpec
CONSTANTS
    Part = {"dash", "skin"}
    MaxUpdates = 2
    MaxFailures = 2
    MaxCuts = 1
INVARIANTS TypeOK ACopySurvives SuccessIsInstalled BrokenIsKnown
PROPERTIES InstallerEnds
CHECK_DEADLOCK FALSE
