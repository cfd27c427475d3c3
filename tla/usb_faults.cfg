\* Every fault at once.  A wedged worker can block the supervisor's send for
\* ever (usb_wedged_send), so the system may stop: no deadlock check here.
SPECIFICATION Spec
CONSTANTS
    MaxGeneration = 2
    MaxRequest = 2
    ChanCap = 2
    ConfigIds = {1}
    Bodies = {"empty", "valid", "invalid"}
    Events = {"bus", "setup"}
    Signals = {"TERM", "HUP"}
    Faults = {"exit", "wedge", "slow", "garbage", "repeat", "os", "profile", "crash"}
INVARIANTS
    TypeOK
    AttachedIsServed
    BeliefMatchesKernel
    ExpectsHold
    CleanExit
PROPERTIES
    EndpointsReleasedBeforeRemoval
    OneWorkerAtATime
    DwellBeforeRebind
    GadgetKept
CHECK_DEADLOCK FALSE
