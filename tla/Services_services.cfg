SPECIFICATION ServicesSpec
CONSTANTS
    Upload = {"u1"}
    Size = 3
    ChunkSize = 2
    NoUpload = NoUpload
    Sub = {"s1", "s2"}
    MaxEpoch = 2
    MaxTime = 1
    MaxSubmit = 1
    MaxDraw = 2
    SLA = 1
    Root = Root
    Caller = {"c1", "c2", "c3"}
    MaxFailures = 2
    MaxCount = 4
    Resolver = {"g1", "g2", "g3"}
    MaxVersion = 1
    NoOne = NoOne
    Token = {"t1"}
    Request = {"q1", "q2"}
    NoToken = NoToken
    Req = {"r1", "r2"}
    Call = {"c1", "c2", "c3", "c4"}
    MaxAuthority = 3
INVARIANT ServicesTypeOK
INVARIANT UploadIntact
PROPERTY RestartResumes
INVARIANT LeasesAreAccounted
PROPERTY ExpiredIsResolved
INVARIANT ClosedBelowLimit
PROPERTY BreakerRecovers
INVARIANT OneQueryAtATime
PROPERTY EveryResolveReturns
INVARIANT RevokedIsRefused
INVARIANT WithdrawnNeverAuthorises
INVARIANT SingleUse
CHECK_DEADLOCK FALSE
