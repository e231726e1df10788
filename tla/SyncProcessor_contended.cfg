SPECIFICATION Spec
CONSTANTS
    d1 = d1
    d2 = d2
    t1 = t1
    t2 = t2
    t3 = t3
    h1 = h1
    h2 = h2
    r1 = r1
    r2 = r2
    None = None
    Device = {d1}
    Tx = {t1, t2}
    Hash = {h1, h2}
    Req = {r1, r2}
    Envelopes <- Contended
    Genuine <- GenuineContended
    PolicyRejects <- RefusedEdit
    Stripe <- OneLock
    Revocable = {d1}
    CrashBudget = 1
    FaultyDB = TRUE
INVARIANT TypeOK
INVARIANT AnswersAreDurable
INVARIANT MemoryIsDurable
INVARIANT WatermarkBacked
INVARIANT AcknowledgedIsConsumed
INVARIANT LedgerExact
PROPERTY ImplementsLedger
