SPECIFICATION TransportSpec
CONSTANTS
    alice = alice
    Arrivals <- EveryRoute
    Users = {alice}
    MaxRequests = 1
    Panics = TRUE
INVARIANTS
    OneLinePerRequest
