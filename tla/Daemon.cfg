SPECIFICATION Spec
CONSTANTS
    Parts = {"activity", "attach", "sessions", "socket", "record", "controller", "startup", "supervisor", "late"}
INVARIANTS
    CancellationIsNeverLost
    ExitFollowsOutput
    TokensAreAccountedFor
    ServingIsReachable
    RecordNamesTheServer
    StartupIsReported
PROPERTIES
    GateIsKept
    ExpiryIsIdle
    MigrationIsSafe
    CommandsConverge
CHECK_DEADLOCK FALSE
