SPECIFICATION Spec
CONSTANTS
    Char = {"ann", "bob"}
    Newcomer = "new"
    Channel = {"ch1", "ch2"}
    Scenes <- MCScenes
    EquipType = {"cap"}
    StackType = {"potion"}
    Outfit <- MCOutfit
INVARIANT BagIsLoaded
ACTION_CONSTRAINT MovesBetweenSaves
CHECK_DEADLOCK FALSE
