SPECIFICATION FairSpec
CONSTANTS
    k1 = k1
    k2 = k2
    b1 = b1
    b2 = b2
    r1 = r1
    r2 = r2
    r3 = r3
    None = None
    Key = {k1, k2}
    Request <- Plain
    Req = {r1, r2}
    Answers = {"APPLIED"}
    Conns = 3
    TTL = 1
    MaxClock = 2
    FaultyDB = FALSE
INVARIANT LeaderFindsNoAnswer
PROPERTY EveryRequestEnds
