SPECIFICATION MCSpec
CONSTANTS
    MaxByte = 3
    MaxStrings = 7
    OsString = 9
    Regular <- MCRegular
    Odd <- MCOdd
    MaxOdd = 1
    NativeInterfaces <- MCNativeInterfaces
    MaxCalls = 5
    CommandLines <- MCCommandLines
    Profiles <- MCProfiles
    Devices <- MCDevices
    GpioChips <- MCGpioChips
    Boards <- MCBoards
    MaxReloads = 2
INVARIANTS
    InvalidKeepsServing
CHECK_DEADLOCK FALSE
