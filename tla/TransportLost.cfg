SPECIFICATION Spec
CONSTANTS
    Parts = {"transport"}
    Raws <- MCRaws
    AutoPorts = {5001, 5002, 5003}
    MaxEdits = 2
    MaxFaults = 0
PROPERTIES
    RefusedReplacementRestores
CHECK_DEADLOCK FALSE
