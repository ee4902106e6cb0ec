SPECIFICATION ServerSpec
CONSTANTS
    MaxInt = 63
    Uint32 = 8
    MaxUint8 = 5
    Millisecond = 2
    Hour = 10
    Default <- Defaults
    Unset = Unset
    Malformed = Malformed
    c1 = c1
    c2 = c2
    Environments <- AnyEnvironment
    Clients = {c1, c2}
INVARIANTS
    RequestsCanHash
    FittingSettingsAreUsed
    ClosesBehindShutdown
PROPERTIES
    StopsOnSignal
