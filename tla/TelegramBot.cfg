\* Users tap three times or more; one request fails, the server restarts once.
CONSTANTS
    Environments <- MCEnvironments
    MaxUpdates = 5
    MaxConfirms = 2
    MaxRestarts = 1
SPECIFICATION FairSpec
INVARIANTS ExecutedOnce RouteNamed
PROPERTIES NoticeSettles UpdatesHandled
CHECK_DEADLOCK FALSE
