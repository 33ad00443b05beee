SPECIFICATION Spec
CONSTANTS
    Parts = {"transport", "evidence", "containers", "apple", "solo", "fake", "contract"}
    Raws <- MCRaws
    AutoPorts = {5001, 5002, 5003}
    MaxEdits = 2
    MaxFaults = 1

    
    
PROPERTIES
    
    FakeIsABackend
CHECK_DEADLOCK FALSE
