SPECIFICATION TransportSpec
CONSTANTS
    alice = alice
    Arrivals <- EveryRoute
    Users = {alice}
    MaxRequests = 2
    Panics = TRUE
INVARIANTS
    TransportTypeOK
    LogIsTrue
    Guarded
    SpansEnd
PROPERTIES
    EveryRequestWritten
