\* MaxGeneration = 1: the unbounded wait for a replacement's Serving cannot
\* occur, what is left is the blocking send.
SPECIFICATION FairSpec
CONSTANTS
    MaxGeneration = 1
    MaxRequest = 2
    ChanCap = 2
    ConfigIds = {1}
    Bodies = {"valid"}
    Events = {"bus"}
    Signals = {"TERM"}
    Faults = {"wedge"}
PROPERTIES
    WedgedWorkerStopped
CHECK_DEADLOCK FALSE
