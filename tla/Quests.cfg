SPECIFICATION QuestSpec
CONSTANTS
    Quest = {"hunt", "fetch", "later"}
    Mob = {"snail", "slime", "snails"}
    Item = {"map", "shell"}
    Info <- MCInfo
    KillIds <- MCKillIds
    MaxMobs = 2
    MaxHave <- MCMaxHave
    MaxRefs = 2
INVARIANTS KillsAreCounted NeededItemsAvailable
PROPERTY QuestsMoveForward
CHECK_DEADLOCK FALSE
