SPECIFICATION Spec
CONSTANTS
    Hows <- MCHows
    MaxExecs = 2
    Services = {web, db}
    Main = web
    Attempts = 2
    MaxLate = 1
    MaxCrashes = 1
    Old = old
    None = None
INVARIANTS SuccessInEffect SuccessIsWhole
PROPERTIES KeepsNewRelease
CHECK_DEADLOCK FALSE
