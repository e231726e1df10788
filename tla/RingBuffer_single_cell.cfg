SPECIFICATION RingSpec
CONSTANTS
    Producer = {"p1"}
    Consumer = {"c1"}
    Capacity = 1
    MaxPush = 3
    NoItem = NoItem
INVARIANT NeverOverrun
CHECK_DEADLOCK FALSE
