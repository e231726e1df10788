SPECIFICATION Spec
CONSTANTS
    None = None
    MaxTx = 2
    MaxSeal = 2
    MaxSequence = 3
    MaxNet = 1
    MaxEpoch = 2
    MaxRestarts = 1
    Operations = {"edit", "clear", "purge", "replay"}
INVARIANT TypeOK
INVARIANT AcknowledgedIsApplied
INVARIANT WorkIsKept
CHECK_DEADLOCK FALSE
