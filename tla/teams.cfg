SPECIFICATION Spec
CONSTANTS
    ann = ann
    bob = bob
    w1 = w1
    w2 = w2
    pipe = pipe
    pipe2 = pipe2
    host = host
    src = src
    reg = reg
    Users <- MCUsers
    SystemAdmins <- MCAdmins
    Teams = {home, t1}
    DefaultTeam = home
    Invites = {i1}
    Resources <- MCResources
    KindOf <- MCKindOf
    Tasks = {k1}
    Workers <- MCWorkers
    MaxRequests = 4
    Granted = {2, 4}
    None = None
SYMMETRY MCSymmetry
INVARIANTS MembersOfLiveTeams OwnerUnlessRaced NothingLeftBehind
CHECK_DEADLOCK FALSE
