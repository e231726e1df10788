SPECIFICATION PackSpec
CONSTANTS
    Pack = {"p1"}
    Release = {"r1", "r2"}
    Editor = {"e1", "e2"}
    MaxRevision = 4
    Nobody = Nobody
PROPERTY ReleasedIsFinal
CHECK_DEADLOCK FALSE
