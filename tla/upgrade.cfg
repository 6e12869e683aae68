SPECIFICATION UpgradeSpec
CONSTANTS
    Releases <- MCReleases
    ConfigUsers <- MCConfigUsers
    ConfigHasRegistries = TRUE
    UserTemplates <- MCUserTemplates
    MaxStarts = 3
    MaxFailures = 1
    MaxChanges = 2
    Null = Null
INVARIANTS HostsKept ExecutionsKeepContent TeamsExist HistoryHasTeam
PROPERTIES MembersKept
CHECK_DEADLOCK FALSE
