SPECIFICATION Spec
CONSTANTS
    Player = {p1, p2}
    DropCount = {0, 1, 2, 3}
    MaxMonsters = 1
    MaxEnd = 5
    MaxDrops = 4
VIEW View
INVARIANTS DropsLead TimersMatch
CHECK_DEADLOCK FALSE
