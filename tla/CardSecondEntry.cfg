SPECIFICATION Spec
CONSTANTS
    Rows = 2
    Names = {"A"}
    Others = {"X"}
    Cards <- ForeignCards
    Free = "free"
    NoCard = NoCard
    Unformatted = Unformatted
    Attempts = 2
    WaitTicks = 2
    MaxSwaps = 0
    MaxSessions = 1
PROPERTY SaveWritesNamedEntry
CHECK_DEADLOCK FALSE
