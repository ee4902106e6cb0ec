SPECIFICATION CredentialSpec
CONSTANTS
    i1 = i1
    i2 = i2
    weak = weak
    strong = strong
    ann = ann
    bob = bob
    cyd = cyd
    tooShort = tooShort
    shortest = shortest
    longest = longest
    dummyPassword = dummyPassword
    tooLong = tooLong
    Instances = {i1, i2}
    Params = {weak, strong}
    Emails = {ann, bob, cyd}
    Passwords = {tooShort, shortest, dummyPassword, longest, tooLong}
    Dummy = dummyPassword
    Length <- LengthOf
INVARIANTS
    OnlyTheChosenPassword
    SameWorkForUnknownAddress
