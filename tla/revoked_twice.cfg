SPECIFICATION Spec
CONSTANTS
    r1 = r1
    r2 = r2
    r3 = r3
    r4 = r4
    alice = alice
    Forged = Forged
    None = None
    Addresses = {alice}
    Requests = {r1, r2, r3}
    Forms = {"canonical"}
    Passwords = {12}
    SessionTTL = 2
    MaxTime = 1
    PoolSize = 2
    Faults = {}
    Traffic <- OnlySignOuts
INVARIANTS
    RevokedOnce
