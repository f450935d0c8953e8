SPECIFICATION Spec
CONSTANTS
    Addrs = {a1, a2, a3, a4}
    Null = null
    Handles = {l1, l2}
    Vals <- MCVals
    Absent = absent
    NoVal = no_val
    Profiles <- MCProfiles
    Debug = TRUE
SYMMETRY AnyName
VIEW ButReply
INVARIANTS TypeOK MemorySafe NoNodeLost BackLinks
PROPERTY ImplementsList
CHECK_DEADLOCK FALSE
