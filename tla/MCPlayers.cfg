SPECIFICATION Spec
CONSTANTS
    Names = {"mathieu", "kevin"}
    GamesOf <- MCGamesOf
    Absent = Absent
    NoHand = NoHand
    MaxLen = 3
    MaxFaults = 2
INVARIANTS TypeOK HeapBalance
PROPERTY ImplementsPlayers
CHECK_DEADLOCK FALSE
