\* What must eventually happen while workers may die; deadlocks are checked.
SPECIFICATION FairSpec
CONSTANTS
    MaxGeneration = 2
    MaxRequest = 2
    ChanCap = 2
    ConfigIds = {1}
    Bodies = {"empty", "valid", "invalid"}
    Events = {"bus", "setup"}
    Signals = {"TERM", "HUP"}
    Faults = {"exit"}
PROPERTIES
    StopHonoured
    ReloadHonoured
    WorkerLossRepaired
    DeclarationAnswered
