SPECIFICATION FairSpec
CONSTANTS
    None = None
    MaxTx = 2
    MaxSeal = 2
    MaxSequence = 3
    MaxNet = 2
    MaxEpoch = 2
    MaxRestarts = 1
    Operations = {}
PROPERTY RestartDelivers
CHECK_DEADLOCK FALSE
