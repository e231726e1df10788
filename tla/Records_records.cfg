SPECIFICATION RecordsSpec
CONSTANTS
    Key = {"k1", "k2"}
    Asg = {"a1", "a2", "a3"}
    Insp = {"i1"}
    Fingerprint = {"p1"}
    MaxRev = 5
    Goal = {"in_progress", "partially_submitted", "completed"}
    Held = "a1"
    MaxCall = 3
    MaxOpen = 2
    NoAsg = NoAsg
    NoFingerprint = NoFingerprint
    c1 = c1
    c2 = c2
    c3 = c3
    Cert = {c1, c2, c3}
    Inspection = {"i1", "i2"}
    AssetOf <- OneAsset
    NoCert = NoCert
    Pack = {"p1"}
    Release = {"r1", "r2"}
    Editor = {"e1", "e2"}
    MaxRevision = 4
    Nobody = Nobody
    Producer = {"p1", "p2"}
    Consumer = {"c1", "c2"}
    Capacity = 2
    MaxPush = 4
    NoItem = NoItem
INVARIANT RecordsTypeOK
INVARIANT NoLostUpdate
INVARIANT AppliedOnce
INVARIANT SubmittedOnce
INVARIANT OneActiveAssignment
INVARIANT NumbersAreGapless
INVARIANT CertificateHistory
INVARIANT ApprovedBeforeRelease
PROPERTY ImplementsQueue
SYMMETRY Interchangeable
CHECK_DEADLOCK FALSE
