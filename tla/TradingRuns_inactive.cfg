CONSTANTS
    a1 = a1
    a2 = a2
    w1 = w1
    w2 = w2
    c1 = c1
    c2 = c2
    Accounts = {a1}
    Workers = {w1}
    Configs = {c1}
    LastDay = 1
    OpenDays <- FullCalendar
    Statuses = {"closed"}
    MaxRuns = 1
SPECIFICATION Spec
PROPERTIES
    NoRunOnInactiveAccount
