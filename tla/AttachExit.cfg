SPECIFICATION Spec
CONSTANTS
    Cap = 1
    Frames = {"stdin"}
    MaxInput = 1
    MaxOutput = 0
    Echo = FALSE
    Quits = TRUE
    Leaves = FALSE
    Stops = FALSE
INVARIANTS
    ExitCodeIsExact
CHECK_DEADLOCK FALSE
