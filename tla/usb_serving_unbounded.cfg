SPECIFICATION Spec
CONSTANTS
    MaxGeneration = 2
    MaxRequest = 2
    ChanCap = 2
    ConfigIds = {1}
    Bodies = {"valid"}
    Events = {}
    Signals = {}
    Faults = {}
INVARIANTS
    HandshakesBounded
