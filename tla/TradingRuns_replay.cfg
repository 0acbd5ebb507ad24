CONSTANTS
    a1 = a1
    a2 = a2
    w1 = w1
    w2 = w2
    c1 = c1
    c2 = c2
    Accounts = {a1, a2}
    Workers = {w1, w2}
    Configs = {c1}
    LastDay = 3
    OpenDays <- FullCalendar
    Statuses = {}
    MaxRuns = 2
SPECIFICATION Spec
SYMMETRY Symmetry
CHECK_DEADLOCK FALSE
INVARIANTS
    TypeOK
    LineageIsSound
    HeadIsFinishedRun
    OneWriterPerRun
    SameBindingSameResult
    PromotedRunStaysOnHistory
PROPERTIES
    HistorySpec
