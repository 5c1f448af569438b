SPECIFICATION Spec
SYMMETRY Symmetry
CONSTANTS
    Key = {k1, k2}
    Value = {1, 2}
    None = None
    Walker = {w1, w2}
    Client = {c1, c2}
    kWrap = 7
    Conn = {a, b, c}
    Fd = {1, 2}
    NoSession = NoSession
    Side = {left, right}
    Text = {t1, t2}
    Nothing = Nothing
    kMaxAttempts = 2
    kMaxCopies = 2
    Runner = {r1, r2, r3}
    Poster = {p1}
    NoRunner = NoRunner
    kMaxTasks = 2
    Process = {s1, s2}
    Name = {d1, d2}
    Pref = {key}
    Setting = {on, off}
    NoDb = NoDb
INVARIANTS
    NothingComesBack
    VisitsWhatStays
    AllocMatches
    QuietReportAgrees
    OneGoodbye
    MessageToItsSession
    NoPingPong
    PicksOneWithRoom
    OpenWhereUsed
CHECK_DEADLOCK FALSE
