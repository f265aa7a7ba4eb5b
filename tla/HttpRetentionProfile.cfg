\* The profile scene is opened while downloads are outstanding.
SPECIFICATION Spec
CONSTANTS
    info = info
    asx = asx
    wmv = wmv
    NoReq = NoReq
    Req = {info, asx}
    Root = {info}
    Child <- MCSmallChild
    Worker = {w1}
    MaxBegins = 1
    MaxOutages = 1
    Env = {"profile scene"}
INVARIANTS
    OutstandingIsResumed
\* An idle console whose bounded refreshes and outages are spent may stay so.
CHECK_DEADLOCK FALSE
