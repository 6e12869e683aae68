CONSTANTS
  r1 = r1  r2 = r2
  app = app  api = api
  ws = ws  multi = multi  up = up  exp = exp
  None = None
  Rows = {r1, r2}
  Jobs = {ws, multi, up, exp}
  Images = {app, api}
  Kind <- MCKind  Targets <- MCTargets  Push <- MCPush
  Slots = 1
  MaxCrashes = 1
SPECIFICATION FairSpec
INVARIANTS SnapshotHeld RunningIsServed SendsOwnImage
PROPERTIES CompletedIsBuilt RunningEnds
CHECK_DEADLOCK FALSE
