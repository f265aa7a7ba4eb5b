\* Two paths and no upload: a rename of what no RNFR named.
SPECIFICATION LiveSpec
CONSTANTS
    a = a
    b = b
    NoPath = NoPath
    Path = {a, b}
    XferSize = 1
    MaxBytes = 1
    MaxToggles = 0
CHECK_DEADLOCK FALSE
PROPERTIES
    RenameFollowsRnfr
