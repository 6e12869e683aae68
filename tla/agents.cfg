SPECIFICATION FairSpec
CONSTANTS
    c1 = c1
    c2 = c2
    None = None
    Conns = {c1, c2}
    Ways = {"token", "secret"}
    MaxRestarts = 2
INVARIANTS MemberReachable WaitingIsListed
PROPERTIES GoneIsNoticed
CHECK_DEADLOCK FALSE
