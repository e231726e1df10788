SPECIFICATION Spec
CONSTANTS
    k1 = k1
    k2 = k2
    b1 = b1
    b2 = b2
    r1 = r1
    r2 = r2
    r3 = r3
    None = None
    Key = {k1, k2}
    Request <- Reused
    Req = {r1, r2, r3}
    Answers = {"APPLIED", "HELD"}
    Conns = 4
    TTL = 2
    MaxClock = 0
    FaultyDB = TRUE
SYMMETRY Goroutines
INVARIANT TypeOK
INVARIANT OneAnswerPerKey
INVARIANT ClaimsAreReleased
