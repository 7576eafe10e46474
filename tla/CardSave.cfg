SPECIFICATION Spec
CONSTANTS
    Rows = 2
    Names = {"A", "B"}
    Others = {"X"}
    Cards <- SomeCards
    Free = "free"
    NoCard = NoCard
    Unformatted = Unformatted
    Attempts = 3
    WaitTicks = 4
    MaxSwaps = 1
    MaxSessions = 2
INVARIANTS TypeOK MirrorsAgree
PROPERTIES NoUnconfirmedOverwrite SaveKeepsOthers SaveEnds ScreenCloses
CHECK_DEADLOCK FALSE
