SPECIFICATION Spec
CONSTANTS
    Vectors = {v1, v2}
    Blocks <- MCBlocks
    Keys <- MCKeys
    Null = Null
    Absent = Absent
    Garbage = Garbage
    NoJob = NoJob
    Profiles <- MCProfiles
    Capacities = {2}
    MaxCapacity = 3
    MaxList = 2
INVARIANTS TypeOK OneOwner
PROPERTIES SortEnds ImplementsVector
CHECK_DEADLOCK FALSE
