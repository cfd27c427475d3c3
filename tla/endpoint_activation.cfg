\* Two helpers share the condition variable; deadlocks are checked.
SPECIFICATION FairSpec
CONSTANTS
    Helpers = {h1, h2}
    MaxActivation = 2
    ChanCap = 1
    MaxEnables = 3
INVARIANTS
    TypeOK
    ActivationsInOrder
    ActivationsAreReal
    EnabledMatchesKernel
    ParkedOnlyAfterLoss
PROPERTIES
    GateKept
    ServiceResumes
