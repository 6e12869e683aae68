SPECIFICATION Spec
CONSTANTS
    t1 = t1
    t2 = t2
    t3 = t3
    p1 = p1
    p2 = p2
    main = main
    None = None
    Tasks = {t1, t2, t3}
    Pushes = {p1, p2}
    Refs = {main}
    TagRefs = {}
    Ref <- Pushed
    Configured = main
    Allowed = {main}
    TagCount <- Tagged
    Strategy = "use_push"
    Every = 2
    Stored = None
    MaxMinute = 2
    MaxFaults = 1
SYMMETRY RowSymmetry
INVARIANTS DueTimeMet PushNotForgotten DeliveredOnce
