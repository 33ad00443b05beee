SPECIFICATION Spec
CONSTANTS
    Parts = {"lock", "npm", "context", "cache", "snapshot", "fetch"}
    None = None
INVARIANTS
    LockIsWhole
PROPERTIES
    
    CopiesAreWhole
CHECK_DEADLOCK FALSE
