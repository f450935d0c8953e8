SPECIFICATION Spec
CONSTANTS
    GameNames <- MCGameNames
    CounterMod = 3
    UserNames <- MCUserNames
    Overlong = {"too_long"}
    Known = {"kevin", "jasmine"}
    Record <- MCRecord
    Functions <- MCFunctions
    Outcomes <- MCOutcomes
    LongGames = {"a_very_long_plugin_name"}
    GameLists <- MCGameLists
    Anonymous = "anonymous"
    NoName = "no name"
    NoFunction = "none"
    MaxRefusals = 2
    MaxParties = 2
INVARIANT DrawsCounted
