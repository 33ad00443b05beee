SPECIFICATION LiveSpec
CONSTANTS
    Parts = {"activityLive", "attachLive", "supervisorLive"}
PROPERTIES
    DaemonEnds
    GuestIsReleased
    CommandsEnd
CHECK_DEADLOCK FALSE
