\* A preset mode and the fastest speed; one message each way.
CONSTANTS
    Absent = Absent
    Percentages = {0, 100}
    Used = {"auto", "manual4"}
    MaxMessages = 1
SPECIFICATION Spec
INVARIANTS
    TypeOK
    ShownMeansConnected
    CaughtUp
    SpeedsRoundUp
PROPERTIES
    Converges
