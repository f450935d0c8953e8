SPECIFICATION Spec
CONSTANTS
    NbPIECE = 3
    Colors = {"V", "R", "M"}
    MaxTENTATIVE = 2
    MaxParties = 2
INVARIANTS TypeOK AnswerIsRight PartyIsDecided
PROPERTIES PartyEnds ImplementsGame
CHECK_DEADLOCK FALSE
