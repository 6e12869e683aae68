SPECIFICATION Spec
CONSTANTS
    t1 = t1
    t2 = t2
    r1 = r1
    r2 = r2
    w1 = w1
    w2 = w2
    boss = boss
    dev = dev
    None = None
    Tasks = {t1}
    Requests = {r1, r2}
    Workers = {w1, w2}
    Users = {boss, dev}
    Admins = {boss}
    Limit = 1
    MaxCrashes = 1
SYMMETRY RowSymmetry
INVARIANTS OneOpenRequest NothingLeftApproved RunningHasWorker
PROPERTIES ReviewedRuns DecisionIsFinal
