SPECIFICATION FairSpec
CONSTANTS
    t1 = t1
    t2 = t2
    x1 = x1
    x2 = x2
    w1 = w1
    w2 = w2
    None = None
    Tasks = {t1}
    Targets = {x1, x2}
    Remote = {x1}
    Workers = {w1, w2}
    Limit = 1
    MaxRetries = 2
    MaxCrashes = 1
INVARIANTS CompletedIsDeployed EntryIsAwaited RunningIsServed
PROPERTIES DeploymentEnds
CHECK_DEADLOCK FALSE
