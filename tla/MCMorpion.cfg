SPECIFICATION Spec
INVARIANTS TurnsAlternate ScoreMatchesBoard
PROPERTIES PartyEnds
CHECK_DEADLOCK FALSE
