SPECIFICATION Spec
CONSTANTS
    t1 = t1
    t2 = t2
    t3 = t3
    p1 = p1
    tm1 = tm1
    server = server
    scheduler = scheduler
    cleaner = cleaner
    w1 = w1
    w2 = w2
    w3 = w3
    None = None
    Tasks = {t1, t2, t3}
    Callers = {server, scheduler}
    Workers = {w1, w2}
    Teams = {tm1}
    Pipelines = {p1}
    Kind <- MCThreeKinds
    Team <- MCTeamAndNone
    Pipeline <- MCAllButExport
    Limit <- MCLimitOne
    Duties <- MCCronAndServer
SYMMETRY ThreadSymmetry
INVARIANTS AdmissionLimit AdmissionSerial SlotHasWorker OneWorkerPerTask
PROPERTIES ImplementsTeamSlots
CHECK_DEADLOCK FALSE
