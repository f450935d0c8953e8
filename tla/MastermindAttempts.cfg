SPECIFICATION Spec
CONSTANTS
    NbPIECE = 2
    Colors = {"V", "R"}
    MaxTENTATIVE = 10
    MaxParties = 1
INVARIANT AtMostMaxTentative
CHECK_DEADLOCK FALSE
