SPECIFICATION Spec
CONSTANTS
    MaxGeneration = 2
    MaxRequest = 3
    ChanCap = 2
    ConfigIds = {1}
    Bodies = {"valid"}
    Events = {"bus", "setup"}
    Signals = {}
    Faults = {}
INVARIANTS
    CleanTrafficNeverFails
