SPECIFICATION Spec
CONSTANTS
    r1 = r1
    r2 = r2
    r3 = r3
    r4 = r4
    alice = alice
    Forged = Forged
    None = None
    Addresses = {alice}
    Requests = {r1, r2, r3, r4}
    Forms = {"canonical", "mixedCase", "malformed"}
    Passwords = {11, 12, 256, 257}
    SessionTTL = 1
    MaxTime = 2
    PoolSize = 2
    Faults = {"db", "crash", "panic"}
    Traffic <- ServiceTraffic
INVARIANTS
    TypeOK
    UniqueEmail
    EmailTakenIsTrue
    RefusalLeavesNothing
    AnswersAreDurable
    SignedOutStaysOut
    OutboxMatchesTables
    NoLeakedTransaction
    AuthenticatedIsServed
PROPERTIES
    ImplementsLedger
    RevocationIsFinal
