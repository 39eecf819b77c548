CONSTANTS
  Player = {p1, p2}
  SpawnerCount = 2
  MaxSpawns = 1
  MaxControllees = 3
SPECIFICATION Spec
SYMMETRY Players
INVARIANTS TypeOK ControllersMatch ObjectsLead SpawnersAccounted
PROPERTY GivenToFewest
CHECK_DEADLOCK FALSE
