SPECIFICATION LiveSpec
CONSTANTS
    Parts = {"sshLive", "signal", "calls", "polls"}
PROPERTIES
    EverythingEnds
CHECK_DEADLOCK FALSE
