SPECIFICATION Spec
CONSTANTS
    GameNames <- MCGameNames
    CounterMod = 3
    Chars <- MCChars
    Names <- MCNames
    Words <- MCWords
    LongGames = {"a long comment line"}
    Files <- MCFiles
    Undefined = Undefined
    Pending = Pending
    MaxLookups = 2
INVARIANT DrawsOptional
CHECK_DEADLOCK FALSE
