CONSTANTS
    a1 = a1
    a2 = a2
    w1 = w1
    w2 = w2
    c1 = c1
    c2 = c2
    Accounts = {a1}
    Workers = {w1, w2}
    Configs = {c1, c2}
    LastDay = 3
    OpenDays <- PartialCalendars
    Statuses = {"paused"}
    MaxRuns = 2
SPECIFICATION FairSpec
INVARIANTS
    FinishedRunsAreWhole
    ReturnedRunIsTheOneAsked
PROPERTIES
    CallsReturn
