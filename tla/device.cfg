\* Every fault at once; the profile may be replaced at any time.
SPECIFICATION FairSpec
CONSTANTS
    Profiles = {"char", "bsc", "foreign", "invalid"}
    Faults = {"fail", "deaf", "litter", "os", "crash"}
INVARIANTS
    TypeOK
    WorkerHasItsResource
    ClosedBeforeUnload
    SuccessIsEarned
    CleanExit
PROPERTIES
    OneWorkerAtATime
    StopHonoured
    ReloadHonoured
    WorkerEndNoticed
