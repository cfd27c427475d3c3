SPECIFICATION Spec
CONSTANTS
    Helpers = {h1}
    MaxActivation = 2
    ChanCap = 1
    MaxEnables = 2
INVARIANTS
    ConfiguredIsServed
