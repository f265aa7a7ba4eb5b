\* One path, uploads of up to three chunks, the server switched off and on.
SPECIFICATION LiveSpec
CONSTANTS
    a = a
    NoPath = NoPath
    Path = {a}
    XferSize = 2
    MaxBytes = 5
    MaxToggles = 2
CHECK_DEADLOCK FALSE
INVARIANTS
    TypeOK
    BufferHasOneOwner
    StoredInOrder
    StoreIsComplete
    WritesOnlyWhileOpen
PROPERTIES
    StoreEnds
