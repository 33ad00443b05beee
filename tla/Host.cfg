SPECIFICATION Spec
CONSTANTS
    Parts = {"ssh", "identity", "user", "sshDoctor", "apple", "arca", "configure",
             "terminal", "keyboard", "calls", "polls", "artifacts"}
INVARIANTS
    IdentityIsOne
    UserFileIsKept
    ReportsAreTrue
    OnboardingIsReal
    TerminalIsRestored
    
PROPERTIES
    
    CallsAreFaithful
CHECK_DEADLOCK FALSE
