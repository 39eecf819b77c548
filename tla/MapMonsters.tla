---------------------------- MODULE MapMonsters -----------------------------
(***************************************************************************)
(* The monsters of a map (channel/map.c) and the players who control them. *)
(* A player's client computes the movement of the monsters it controls, so *)
(* every living monster has one controller as long as anybody is there.    *)
(*                                                                         *)
(* map.c keeps players and monsters in two arrays and links them with      *)
(* pointers both ways.  Whoever leaves either array is replaced by its     *)
(* last element, which moves, and every pointer to it has to follow.  A    *)
(* pointer into an array is the number of its slot, counted from 1; 0 is   *)
(* NULL.  The heap of controllers (ControllerHeap) says who gets new       *)
(* monsters.                                                               *)
(*                                                                         *)
(* Positions, hit points beyond dead and alive and the packets are left    *)
(* out.  The ids of the objects come from the map's object list; NPCs,     *)
(* reactors and drops, which take ids from it too, are left out, and its   *)
(* hashing is that of HashSet.  Running out of memory is not modelled.     *)
(***************************************************************************)
EXTENDS ControllerHeap, FiniteSets

CONSTANTS
  Player,
  SpawnerCount,   \* map->spawnerCount
  MaxSpawns,      \* bound: monsters made by map_spawn()
  MaxControllees  \* bound: controlleeCount of a heap node, which never falls

ASSUME SpawnerAssumption == SpawnerCount \in Nat \ {0}
ASSUME BoundsAssumption == MaxSpawns \in Nat /\ MaxControllees \in Nat

NoOid == -1
Freed == -1     \* a pointer into an array that realloc() has freed

VARIABLES
  players,        \* who sits in map->players
  playerCapacity,
  lists,          \* players[s].monsters: slots of monsters
  heap,           \* map->heap: nodes [who, count, slot]
  monsters,       \* map->monsters: [oid, spawner (0: none), alive, controller, index]
  monsterCapacity,
  dead,           \* map->dead: how often it holds the spawner
  objects,        \* the object list: oid -> slot of the monster (boss: 0)
  freeStack,      \* its free ids
  dying,          \* ids of monsters whose drops are still falling (dropperOid)
  boss,           \* map->boss: [oid, alive, controller]
  spawns,         \* how often map_spawn() was used
  corrupt         \* pointers have been sent astray; nothing more is modelled

arrays == <<players, playerCapacity, lists, heap, monsters, monsterCapacity>>
ids == <<objects, freeStack>>
vars == <<arrays, dead, ids, dying, boss, spawns, corrupt>>

Slot(p) == CHOOSE s \in Slots(players) : players[s] = p
Present(p) == ~corrupt /\ \E s \in Slots(players) : players[s] = p

\* map_create() of a map with an area boss.
Init ==
  /\ players = <<>> /\ playerCapacity = 1
  /\ lists = <<>> /\ heap = <<>>
  /\ monsters = [i \in 1..SpawnerCount |->
        [oid |-> i - 1, spawner |-> i, alive |-> TRUE, controller |-> 0, index |-> 0]]
  /\ monsterCapacity = SpawnerCount
  /\ dead = [i \in 1..SpawnerCount |-> 0]
  /\ objects = [o \in 0..SpawnerCount |-> (o + 1) % (SpawnerCount + 1)]
  /\ freeStack = <<>>
  /\ dying = {}
  /\ boss = [oid |-> SpawnerCount, alive |-> TRUE, controller |-> 0]
  /\ spawns = 0
  /\ corrupt = FALSE

-----------------------------------------------------------------------------
(***************************************************************************)
(* Links between a monster and its controller.  A world w is a pair of     *)
(* monsters and lists.                                                     *)
(***************************************************************************)

World == [monsters |-> monsters, lists |-> lists]

SetControllers(mons, ms, c) ==
  [m \in Slots(mons) |-> IF m \in ms THEN [mons[m] EXCEPT !.controller = c] ELSE mons[m]]

\* A monster without a controller; its index, now meaningless, is set to 0.
Abandon(mons, ms) ==
  [m \in Slots(mons) |-> IF m \in ms THEN [mons[m] EXCEPT !.controller = 0, !.index = 0] ELSE mons[m]]

\* Monster m is added at the end of the list of player slot s.
Link(w, m, s) ==
  [monsters |-> [w.monsters EXCEPT ![m].controller = s, ![m].index = Len(w.lists[s]) + 1],
   lists |-> [w.lists EXCEPT ![s] = Append(@, m)]]

\* The monsters of the sequence ms are added one after the other.
LinkAll(w, ms, s) ==
  [monsters |-> [m \in Slots(w.monsters) |->
      IF \E i \in Slots(ms) : ms[i] = m
      THEN [w.monsters[m] EXCEPT !.controller = s,
                                 !.index = Len(w.lists[s]) + CHOOSE i \in Slots(ms) : ms[i] = m]
      ELSE w.monsters[m]],
   lists |-> [w.lists EXCEPT ![s] = @ \o ms]]

\* Monster m is taken from its controller's list, whose last monster fills the hole.
Unlink(w, m) ==
  LET s == w.monsters[m].controller
      i == w.monsters[m].index
      last == w.lists[s][Len(w.lists[s])]
  IN  [monsters |-> [w.monsters EXCEPT ![last].index = i],
       lists |-> [w.lists EXCEPT ![s] = SubSeq([@ EXCEPT ![i] = last], 1, Len(@) - 1)]]

-----------------------------------------------------------------------------
(***************************************************************************)
(* Players come and go.                                                    *)
(***************************************************************************)

\* The living monsters in the order of their slots.
Living ==
  LET upTo[n \in 0..Len(monsters)] ==
        IF n = 0 THEN <<>>
        ELSE IF monsters[n].alive THEN Append(upTo[n - 1], n) ELSE upTo[n - 1]
  IN  upTo[Len(monsters)]

\* The realloc() of map_join() redirects the containers, nodes and monsters, but not
\* the boss: unless the array can grow in place its controller points to freed memory.
MovedBoss ==
  IF Len(players) = playerCapacity /\ boss.controller # 0
  THEN {boss, [boss EXCEPT !.controller = Freed]}
  ELSE {boss}

\* MUTANT of CapacityAfterJoin: the new capacity is not stored.
CapacityForgotten == playerCapacity

\* The players array is doubled when it is full.
CapacityAfterJoin ==
  IF Len(players) = playerCapacity THEN 2 * playerCapacity ELSE playerCapacity

\* map_join(): the first player gets every living monster.
Join(p) ==
  LET s == Len(players) + 1
      taken == IF heap = <<>> THEN Living ELSE <<>>
  IN
  /\ ~corrupt /\ ~Present(p)
  /\ players' = Append(players, p)
  /\ playerCapacity' = CapacityAfterJoin
  /\ LET w == LinkAll([monsters |-> monsters, lists |-> Append(lists, <<>>)], taken, s)
     IN  monsters' = w.monsters /\ lists' = w.lists
  /\ heap' = HeapPush(heap, [who |-> p, count |-> Len(taken), slot |-> s])
  /\ \E b \in MovedBoss :
       boss' = IF b.oid # NoOid /\ b.controller = 0 THEN [b EXCEPT !.controller = s] ELSE b
  /\ UNCHANGED <<monsterCapacity, dead, ids, dying, spawns, corrupt>>

\* MUTANT of FillSlot: the monsters of the player who moves are not told.
FillSlotForgetsMonsters(s, w, h) ==
  LET n == Len(players)
  IN
  /\ players' = SubSeq([players EXCEPT ![s] = players[n]], 1, n - 1)
  /\ lists' = SubSeq([w.lists EXCEPT ![s] = w.lists[n]], 1, n - 1)
  /\ monsters' = w.monsters
  /\ heap' = [i \in Slots(h) |-> IF h[i].slot = n THEN [h[i] EXCEPT !.slot = s] ELSE h[i]]

\* The last player takes the free slot s; his node and his monsters are told.
FillSlot(s, w, h) ==
  LET n == Len(players)
  IN
  /\ players' = SubSeq([players EXCEPT ![s] = players[n]], 1, n - 1)
  /\ lists' = SubSeq([w.lists EXCEPT ![s] = w.lists[n]], 1, n - 1)
  /\ monsters' = IF s = n THEN w.monsters
                 ELSE SetControllers(w.monsters, {w.lists[n][i] : i \in Slots(w.lists[n])}, s)
  /\ heap' = [i \in Slots(h) |-> IF h[i].slot = n THEN [h[i] EXCEPT !.slot = s] ELSE h[i]]

\* map_leave() while others stay: the top of the heap gets the monsters, and the boss.
LeaveOthers(p) ==
  LET s == Slot(p)
      h == HeapRemove(heap, p)
  IN
  /\ Present(p) /\ Len(players) > 1
  /\ LET next == h[1].slot
         w == LinkAll(World, lists[s], next)
     IN  /\ FillSlot(s, w, h)
         /\ boss' = IF boss.oid # NoOid /\ boss.controller = s
                    THEN [boss EXCEPT !.controller = next] ELSE boss
  /\ UNCHANGED <<playerCapacity, monsterCapacity, dead, ids, dying, spawns, corrupt>>

\* map_leave() of the last player.
LeaveLast(p) ==
  /\ Present(p) /\ Len(players) = 1
  /\ players' = <<>> /\ lists' = <<>>
  /\ heap' = HeapRemove(heap, p)
  /\ monsters' = Abandon(monsters, {lists[1][i] : i \in Slots(lists[1])})
  /\ boss' = [boss EXCEPT !.controller = 0]
  /\ UNCHANGED <<playerCapacity, monsterCapacity, dead, ids, dying, spawns, corrupt>>

-----------------------------------------------------------------------------
(***************************************************************************)
(* Monsters come and go.                                                   *)
(***************************************************************************)

\* object_list_allocate(), n times: ids from the free stack, then new ones.
NewOid(i) ==
  IF i <= Len(freeStack) THEN freeStack[Len(freeStack) + 1 - i]
  ELSE Cardinality(DOMAIN objects) + i - 1

StackAfter(n) == IF n <= Len(freeStack) THEN SubSeq(freeStack, 1, Len(freeStack) - n) ELSE <<>>

\* Monsters of these spawners are made, controlled by the player in slot s, if any,
\* the players' lists being led.
Spawned(spawners, s, led) ==
  LET n == Len(monsters)
      grown == monsters \o [i \in Slots(spawners) |->
                 [oid |-> NewOid(i), spawner |-> spawners[i], alive |-> TRUE,
                  controller |-> 0, index |-> 0]]
      w == [monsters |-> grown, lists |-> led]
  IN
  /\ LET v == IF s = 0 THEN w
              ELSE LinkAll(w, [i \in Slots(spawners) |-> n + i], s)
     IN  monsters' = v.monsters /\ lists' = v.lists
  /\ objects' = [o \in DOMAIN objects \cup {NewOid(i) : i \in Slots(spawners)} |->
                   IF o \in DOMAIN objects THEN objects[o]
                   ELSE n + CHOOSE i \in Slots(spawners) : NewOid(i) = o]
  /\ freeStack' = StackAfter(Len(spawners))

\* map_spawn() enlarging the array: in the list of its controller every monster becomes
\* the slot behind the last one.
Misled ==
  [s \in Slots(lists) |-> [i \in Slots(lists[s]) |->
     IF \E m \in Slots(monsters) : monsters[m].controller = s /\ monsters[m].index = i
     THEN Len(monsters) + 1 ELSE lists[s][i]]]

\* map_spawn(), the "!spawn" command.  When the array is full it is enlarged, which
\* leads the lists astray; a dead monster in it has no controller to follow (NULL).
Spawn(p) ==
  /\ Present(p) /\ spawns < MaxSpawns
  /\ spawns' = spawns + 1
  /\ \/ /\ Len(monsters) < monsterCapacity
        /\ Spawned(<<0>>, heap[1].slot, lists)
        /\ UNCHANGED <<monsterCapacity, corrupt>>
     \/ /\ Len(monsters) = monsterCapacity
        /\ corrupt' = TRUE
        /\ \/ /\ \A m \in Slots(monsters) : monsters[m].controller # 0
              /\ monsterCapacity' = 2 * monsterCapacity
              /\ Spawned(<<0>>, heap[1].slot, Misled)
           \/ /\ \E m \in Slots(monsters) : monsters[m].controller = 0
              /\ UNCHANGED <<monsters, lists, ids, monsterCapacity>>
  /\ UNCHANGED <<players, playerCapacity, heap, dead, dying, boss>>

\* on_respawn(): how many monsters the map is filled up to, ceil((0.7 + 0.05 n) S).
MaxSpawnCount ==
  LET n == IF Len(players) < 6 THEN Len(players) ELSE 6
  IN  ((70 + 5 * n) * SpawnerCount + 99) \div 100

\* on_respawn(): spawners are drawn from the dead ones; drawing from none divides by 0.
Respawn ==
  LET missing == MaxSpawnCount - Len(monsters)
  IN
  /\ ~corrupt /\ missing > 0
  /\ \E spawners \in [1..missing -> 1..SpawnerCount] :
       /\ \A s \in 1..SpawnerCount :
            Cardinality({i \in 1..missing : spawners[i] = s}) <= dead[s]
       /\ Spawned(spawners, IF heap = <<>> THEN 0 ELSE heap[1].slot, lists)
       /\ dead' = [s \in 1..SpawnerCount |->
                     dead[s] - Cardinality({i \in 1..missing : spawners[i] = s})]
  /\ IF heap = <<>> THEN UNCHANGED heap
     ELSE heap[1].count + missing <= MaxControllees /\ heap' = HeapInc(heap, missing)
  /\ UNCHANGED <<players, playerCapacity, monsterCapacity, dying, boss, spawns, corrupt>>

\* respawn_boss()
RespawnBoss ==
  /\ ~corrupt /\ boss.oid = NoOid
  /\ boss' = [oid |-> NewOid(1), alive |-> TRUE,
              controller |-> IF heap = <<>> THEN 0 ELSE heap[1].slot]
  /\ objects' = [o \in DOMAIN objects \cup {NewOid(1)} |->
                   IF o \in DOMAIN objects THEN objects[o] ELSE 0]
  /\ freeStack' = StackAfter(1)
  /\ UNCHANGED <<arrays, dead, dying, spawns, corrupt>>

\* MUTANT of DeadAfter: the spawner of a dead monster is not recorded.
DeadForgotten(spawner) == dead

\* A monster of this spawner dies; those of map_spawn() have none.
DeadAfter(spawner) == IF spawner # 0 THEN [dead EXCEPT ![spawner] = @ + 1] ELSE dead

\* MUTANT of RemoveMonster: the object of the monster that moves keeps its index.
RemoveMonsterOldObject(oid, w) ==
  LET i == objects[oid]
      n == Len(w.monsters)
      last == w.monsters[n]
  IN
  /\ monsters' = SubSeq([w.monsters EXCEPT ![i] = last], 1, n - 1)
  /\ lists' = IF last.controller # 0 THEN [w.lists EXCEPT ![last.controller][last.index] = i]
              ELSE w.lists
  /\ dead' = DeadAfter(w.monsters[i].spawner)
  /\ objects' = [o \in DOMAIN objects \ {oid} |-> objects[o]]
  /\ freeStack' = Append(freeStack, oid)

\* map_kill_monster() of a monster: the last monster takes its slot; the moved monster's
\* controller and object are told.
RemoveMonster(oid, w) ==
  LET i == objects[oid]
      n == Len(w.monsters)
      last == w.monsters[n]
  IN
  /\ monsters' = SubSeq([w.monsters EXCEPT ![i] = last], 1, n - 1)
  /\ lists' = IF last.controller # 0 THEN [w.lists EXCEPT ![last.controller][last.index] = i]
              ELSE w.lists
  /\ dead' = DeadAfter(w.monsters[i].spawner)
  /\ objects' = [o \in DOMAIN objects \ {oid} |-> IF o = last.oid THEN i ELSE objects[o]]
  /\ freeStack' = Append(freeStack, oid)

\* map_kill_monster() of the boss.
RemoveBoss ==
  /\ objects' = [o \in DOMAIN objects \ {boss.oid} |-> objects[o]]
  /\ freeStack' = Append(freeStack, boss.oid)

\* What becomes of a monster without hit points: it is removed (no drops known for it,
\* or one), or when the last of its drops has fallen, or never (no drop was drawn).
Fates == {"removed", "dying", "stays"}

\* Player p takes over the control of monster m, unless he has it.
TakeOver(m, p) ==
  IF monsters[m].controller = Slot(p) THEN World ELSE Link(Unlink(World, m), m, Slot(p))

\* map_damage_monster_by(): the attacker gets the monster, which survives ...
Hit(p, oid) ==
  /\ Present(p) /\ oid \in DOMAIN objects /\ oid # boss.oid
  /\ LET m == objects[oid]
     IN  /\ monsters[m].alive
         /\ monsters' = TakeOver(m, p).monsters /\ lists' = TakeOver(m, p).lists
  /\ UNCHANGED <<players, playerCapacity, heap, monsterCapacity, dead, ids, dying, boss,
                 spawns, corrupt>>

\* ... or loses its hit points and its controller.
Slay(p, oid, fate) ==
  /\ Present(p) /\ oid \in DOMAIN objects /\ oid # boss.oid
  /\ LET m == objects[oid]
         v == Unlink(TakeOver(m, p), m)
         w == [v EXCEPT !.monsters = Abandon([@ EXCEPT ![m].alive = FALSE], {m})]
     IN  /\ monsters[m].alive
         /\ IF fate = "removed" THEN RemoveMonster(oid, w)
            ELSE /\ monsters' = w.monsters /\ lists' = w.lists
                 /\ UNCHANGED <<dead, ids>>
  /\ dying' = IF fate = "dying" THEN dying \cup {oid} ELSE dying
  /\ UNCHANGED <<players, playerCapacity, heap, monsterCapacity, boss, spawns, corrupt>>

\* The same for the boss.  Its old controller is told, whoever the pointer leads to.
Astray(c) == c \notin 1..Len(players)

HitBoss(p) ==
  /\ Present(p) /\ boss.oid # NoOid /\ boss.alive
  /\ boss' = [boss EXCEPT !.controller = Slot(p)]
  /\ corrupt' \in IF Astray(boss.controller) THEN BOOLEAN ELSE {FALSE}
  /\ UNCHANGED <<arrays, dead, ids, dying, spawns>>

SlayBoss(p, fate) ==
  /\ Present(p) /\ boss.oid # NoOid /\ boss.alive
  /\ boss' = [oid |-> IF fate = "removed" THEN NoOid ELSE boss.oid, alive |-> FALSE, controller |-> 0]
  /\ IF fate = "removed" THEN RemoveBoss ELSE UNCHANGED ids
  /\ dying' = IF fate = "dying" THEN dying \cup {boss.oid} ELSE dying
  /\ corrupt' \in IF Astray(boss.controller) THEN BOOLEAN ELSE {FALSE}
  /\ UNCHANGED <<arrays, dead, spawns>>

\* on_next_drop(), the last drop having fallen: map_kill_monster(dropperOid).
LastDrop(oid) ==
  /\ ~corrupt /\ oid \in dying
  /\ dying' = dying \ {oid}
  /\ \/ /\ oid # boss.oid
        /\ RemoveMonster(oid, World)
        /\ UNCHANGED boss
     \/ /\ oid = boss.oid
        /\ RemoveBoss
        /\ boss' = [boss EXCEPT !.oid = NoOid]
        /\ UNCHANGED <<monsters, lists, dead>>
  /\ UNCHANGED <<players, playerCapacity, heap, monsterCapacity, spawns, corrupt>>

-----------------------------------------------------------------------------
Next ==
  \/ \E p \in Player :
       \/ Join(p) \/ LeaveOthers(p) \/ LeaveLast(p) \/ Spawn(p) \/ HitBoss(p)
       \/ \E oid \in DOMAIN objects : Hit(p, oid)
       \/ \E oid \in DOMAIN objects, fate \in Fates : Slay(p, oid, fate)
       \/ \E fate \in Fates : SlayBoss(p, fate)
  \/ \E oid \in dying : LastDrop(oid)
  \/ Respawn \/ RespawnBoss

Spec == Init /\ [][Next]_vars

-----------------------------------------------------------------------------
(***************************************************************************)
(* Properties.                                                             *)
(***************************************************************************)

Oids == 0..(SpawnerCount + MaxSpawns)

\* Every variable has its type; the lists are those of the players.
TypeOK ==
  /\ players \in Seq(Player) /\ playerCapacity \in Nat /\ Len(players) <= playerCapacity
  /\ lists \in Seq(Seq(Nat)) /\ Len(lists) = Len(players)
  /\ heap \in Seq([who : Player, count : 0..(MaxControllees + SpawnerCount + MaxSpawns), slot : Nat])
  /\ monsters \in Seq([oid : Oids, spawner : 0..SpawnerCount, alive : BOOLEAN,
                       controller : Nat, index : Nat])
  /\ monsterCapacity \in Nat
  /\ dead \in [1..SpawnerCount -> Nat]
  /\ DOMAIN objects \subseteq Oids /\ \A o \in DOMAIN objects : objects[o] \in Nat
  /\ freeStack \in Seq(Oids)
  /\ dying \subseteq Oids
  /\ boss \in [oid : Oids \cup {NoOid}, alive : BOOLEAN, controller : Nat \cup {Freed}]
  /\ spawns \in 0..MaxSpawns /\ corrupt \in BOOLEAN

\* The pointers between players and monsters match, whoever moved in either array: a
\* player's list holds living monsters that name him and their place in it, and while
\* anybody is there every living monster is in the list of its controller, whom
\* map_damage_monster_by() follows unchecked; the heap has one node for each player, which
\* names his slot.  That is so until map_spawn() enlarges the array, which leaves the lists
\* wrong, or a pointer of the boss to freed memory is followed.
ControllersMatch == ~corrupt =>
  /\ \A s \in Slots(lists) : \A i \in Slots(lists[s]) :
       /\ lists[s][i] \in Slots(monsters)
       /\ LET m == monsters[lists[s][i]]
          IN  m.alive /\ m.controller = s /\ m.index = i
  /\ \A m \in Slots(monsters) : LET c == monsters[m].controller
                                    i == monsters[m].index IN
       IF monsters[m].alive /\ players # <<>>
       THEN c \in Slots(players) /\ i \in Slots(lists[c]) /\ lists[c][i] = m
       ELSE c = 0
  /\ Len(heap) = Len(players)
  /\ \A i \in Slots(heap) : heap[i].slot \in Slots(players) /\ players[heap[i].slot] = heap[i].who
  /\ \A i, j \in Slots(heap) : heap[i].who = heap[j].who => i = j

\* An object id leads to the monster that has it, no id is given out twice, and the
\* ids in use and on the free stack are together 0, 1, 2 ...: a new one is unused.
\* A monster whose drops still fall is there, dead, when on_next_drop() removes it.
ObjectsLead ==
  /\ \A m \in Slots(monsters) : monsters[m].oid \in DOMAIN objects /\ objects[monsters[m].oid] = m
  /\ Cardinality(DOMAIN objects) = Len(monsters) + (IF boss.oid = NoOid THEN 0 ELSE 1)
  /\ DOMAIN objects \cup {freeStack[i] : i \in Slots(freeStack)}
       = 0..(Cardinality(DOMAIN objects) + Len(freeStack) - 1)
  /\ \A o \in dying : /\ o \in DOMAIN objects
                      /\ IF o = boss.oid THEN ~boss.alive ELSE ~monsters[objects[o]].alive

\* Every spawner is dead once or has one monster: on_respawn() never draws from an
\* empty list (rand() % 0), the list does not outgrow its array, and neither do the
\* monsters when on_respawn() adds to them.
SpawnersAccounted ==
  /\ \A s \in 1..SpawnerCount :
       dead[s] + Cardinality({m \in Slots(monsters) : monsters[m].spawner = s}) = 1
  /\ Len(monsters) <= monsterCapacity
  /\ MaxSpawnCount <= monsterCapacity

\* The players by the number of monsters they were given.
Given == [p \in {heap[i].who : i \in Slots(heap)} |->
            heap[CHOOSE i \in Slots(heap) : heap[i].who = p].count]

Queue == INSTANCE MinQueue WITH Increments <- 0..SpawnerCount, given <- Given

\* map_join() enters a player with the monsters he finds, map_leave() takes one out and
\* on_respawn() gives new monsters to a player who was given no more than anybody else;
\* whatever else happens on the map changes nobody's number.
GivenToFewest == Queue!Spec
=============================================================================
