SPECIFICATION Spec
CONSTANTS
    t1 = t1
    t2 = t2
    t3 = t3
    p1 = p1
    tm1 = tm1
    server = server
    scheduler = scheduler
    cleaner = cleaner
    w1 = w1
    w2 = w2
    w3 = w3
    None = None
    Tasks = {t1, t2, t3}
    Callers = {server}
    Workers = {w1, w2}
    Teams = {tm1}
    Pipelines = {p1}
    Kind <- MCDeploys
    Team <- MCOneTeam
    Pipeline <- MCNoPipeline
    Limit <- MCLimitOne
    Duties <- MCServerAll
SYMMETRY RowSymmetry
INVARIANTS TypeOK SlotLimit
