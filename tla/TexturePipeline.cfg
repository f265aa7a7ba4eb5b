\* One box art, one icon, three games (one without a screenshot), one worker of
\* each kind; only the first screenshot is asked for again while it is busy.
SPECIFICATION LiveSpec
CONSTANTS
    None = None
    Loader = Loader
    Screen = Screen
    Art = {art}
    Icon = {icon}
    Shot = {s1, s2, s3}
    Bare = {s3}
    FileW = {f1}
    TextureW = {t1}
    FileTexW = {x1}
    ReleaseW = {r1}
    Budget <- MCBudget
    Hasty = {s1}
CHECK_DEADLOCK FALSE
INVARIANTS
    TypeOK
    CountIsRight
    DataInUseIsLive
    ShownIsLive
    NothingLeaks
PROPERTIES
    ShownStaysShown
    LoadsEnd
    DeselectedIsFreed
