CONSTANTS
    morpion = morpion
    pendu2 = pendu2
    noFunction = noFunction
    noStart = noStart
    noName = noName
    broken = broken
    readme = readme
    plugins = plugins
    other = other
    Files <- MCFiles
    Libraries <- MCLibraries
    Loadable <- MCLoadable
    WithName <- MCWithName
    WithStart <- MCWithStart
    WithFunction <- MCWithFunction
    GameName <- MCGameName
    DefaultNames <- MCDefaultNames
    Dirs <- MCDirs
    DefaultPluginsDir = plugins
    Disks <- MCDisks
    Absent = {nowhere}
    NoDir = NoDir
    Static = Static
    NullFunction = NullFunction
    MAX_NB_SHARED_LIB = 4
    MaxOptions = 2
    MaxParties = 2
SPECIFICATION Spec
INVARIANTS
    TypeOK
    MenuIsComplete
    PluginsStayOpen
    HandlesAreOpen
    HeapAtExit
