\* Both parts come to an end of their own: a command that only checks, a
\* personality that is served or refused.  No deadlock check for that reason.
SPECIFICATION MCSpec
CONSTANTS
    MaxByte = 3
    MaxStrings = 7
    OsString = 9
    Regular <- MCRegular
    Odd <- MCOdd
    MaxOdd = 1
    NativeInterfaces <- MCNativeInterfaces
    MaxCalls = 5
    CommandLines <- MCCommandLines
    Profiles <- MCProfiles
    Devices <- MCDevices
    GpioChips <- MCGpioChips
    Boards <- MCBoards
    MaxReloads = 2
INVARIANTS
    LaunchTypeOK
    NoSelfConflict
    NamesMatchFiles
    DriverFitsBoard
    CheckTouchesNothing
    ReferencedStringsKnown
    EndpointsAgree
    InterfaceNamesKept
    OsDescriptorsComplete
    ServedIffWellDeclared
PROPERTIES
    DiscoveryServes
CHECK_DEADLOCK FALSE
