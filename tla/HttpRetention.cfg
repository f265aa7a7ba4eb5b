\* Two workers, refreshes and restarts, and every event that spoils them.
SPECIFICATION Spec
CONSTANTS
    info = info
    asx = asx
    wmv = wmv
    NoReq = NoReq
    Req = {info, asx, wmv}
    Root = {info}
    Child <- MCChild
    Worker = {w1, w2}
    MaxBegins = 2
    MaxOutages = 2
    Env = {"offline boot", "profile scene", "power lost while booting"}
SYMMETRY MCSymmetry
INVARIANTS
    TypeOK
    OwedIsPersisted
    NoExtraRow
    QuietRestartResumes
