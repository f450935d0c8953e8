SPECIFICATION Spec
CONSTANTS
    Chars <- MCChars
    Words <- MCWords
    Lines <- MCLines
    NbTours = 3
    MaxOverdraft = 1
INVARIANTS TypeOK ShownIsTried ResultIsEarned
PROPERTIES PartyEnds ImplementsGame
CHECK_DEADLOCK FALSE
