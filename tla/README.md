# Syrup: a TLA+ model of the login and channel servers

Syrup is a MapleStory v83 server written in C: a login server and a channel
server, each a main thread and a pool of workers over libevent, a MySQL database
reached through MariaDB's asynchronous client library, and a link between the
servers. The repository has no tests and no prose documentation; what the code
promises is said in its comments, which the specifications quote. This directory
holds TLA+ modules translated from that code, the TLC runs that check small
instances of them, and TLAPS proofs of what holds for every instance. File names
below are relative to `src/src/` and line numbers are those of `PROJECT.json`.

## 1. The system

### Parts, their state, their operations

| Part | Source | State | Operations | Module |
|---|---|---|---|---|
| hash set | `hash-map.c` | capacity, count, slot states, slot data, iterating | insert, get, remove, foreach, clear, resize | `HashSet`, `KeyBag` |
| connection lock | `database.c` 149-176, 2807-2863 | one queue of waiters per connection (each with an eventfd) | lock, unlock | `ClientSession` |
| login, save, logout of a character | `channel/client.c`, `channel/main.c` | handler state of a client, the character, a detached save | LOGIN and LOGOUT of `client_resume`, `client_save_start`, `start_save` | `ClientSession` |
| channel sessions | `channel/server.c` | socket, room, timer, user event, disconnecting | connect, read, user event, timer, room change, kick, end of connection | `ClientSession` |
| link, login side | `login/server.c` | per channel: connected, attempts, list of logged-in characters with an eventfd each | `assign_channel`, read, connect / timeout / eof events, `do_leave` | `Link` |
| link, channel side | `channel/server.c` | first, connected, pending ids, queue of logouts | listen, accept, read, write and event callbacks | `Link` |
| accounts | `account.c` | list of logged-in accounts and their character | login, logout, set_cid, logout_by_cid | `Link` |
| rooms and workers | `channel/server.c`, `channel/thread-coordinator.c` | rooms with sessions, timers, keepAlive; command pipe; shared table id -> room; room -> thread | transfer, NEW_CLIENT, KICK, USER_COMMAND, timers, destroy | `Rooms` |
| maps: monsters | `channel/map.c` | players, monsters, their controllers, the heap, spawners, object list | join, leave, spawn, damage, kill, respawn | `MapMonsters`, `ControllerHeap`, `MinQueue` |
| maps: drops | `channel/map.c` | batches of drops that fall and that lie, their timers, reactors, object list | drop, fall, pick up, end of the owner's time, expire | `MapDrops` |
| inventory and shop | `channel/client.c` | stacks, equipment, weapon worn, slot of the next arrow, mesos | gain, lose, move, merge, shoot, equip, buy, sell, recharge | `Inventory` |
| stats | `channel/client.c`, `character.c` | level, job, points, vitals, skills, marks for the next commit | gain exp, assign, advance, heal, damage, equip | `Progress` |
| quests and scripts | `channel/client.c`, `channel/scripting/script-manager.c` | started and completed quests, monsters and items they wait for, the script that waits | start, end, give up, kill, talk, answer | `Quests` |
| database requests | `database.c`, `sql/db.sql` | tables; statement and its position | GetCharacter, AllocateIds, UpdateCharacter, creation, one statement after the other | `Database` |
| login sessions | `login/*.c` | session state, current handler | sign in, PIC, creation; gender, character list | partly in `Link`, `Database` |
| party, events, pool of Lua states | `party.c`, `channel/events.c`, `channel/scripting/*` | members; cyclic timers and properties | create, join; listeners | not modelled |
| packets, encryption, wz, drop tables, configuration | `packet.c`, `reader.c`, `crypt.c`, `wz.c`, `channel/drops.c`, `channel/config.c` | none, or read once at start | layout, ciphers, parsing | not modelled |

### How the parts interact

* A player signs in at the login server (`account_login`). When he enters his
  PIC, `assign_channel` puts his character in the channel's list and sends its id
  over the **link**; the channel makes the id pending and acknowledges it; the
  eventfd in the list wakes the login session, which tells the player the address.
* The player connects to the channel's main thread. `session_assign_id` takes the
  pending id, the character is loaded through the main thread's **connection
  lock**, and `session_change_room` hands the session to a worker as a NEW_CLIENT
  command through its pipe.
* The worker runs **rooms**: packets, timers, commands. Every session saves its
  character when its timer expires and when it goes, through the worker's own
  connection lock. A logout is reported over the link, or queued while the link is down.
* After every reconnect the servers exchange one byte each. The login server
  answers 1 when it has lost its list; the channel then kicks its sessions.
* A packet of a playing session changes its **character** (inventory, stats,
  quests) and its **map** (monsters, drops); a drop that is picked up leaves one for
  the other, a kill counts for the quests. Every save numbers the new items
  (AllocateIds) and writes the character with the statements of **UpdateCharacter**.
* All of these tables are **hash sets**.

### What is hard

Callbacks run to completion, so nothing interleaves within one thread, but a
handler is a chain of callbacks and everything can happen between two of them: the
end of the connection, the expiry of the timer, a room change that takes the
session to another event loop, another session's unlock. Between the threads there
are a pipe and two shared tables; between the servers a connection that may be lost
at any byte, timeouts, and restarts of either side. `PROJECT.json` lists 40
hazards at their lines: those with properties are covered by the runs below, the
others carry the reason.

What makes each part correct: a *hash set* finds what was inserted and not removed,
whatever the order of operations, and a foreach misses nothing; a *lock* is held by
one job, in queue order, and is always passed on; a *session* has one handler at a
time and ends when its connection has ended; a *flush* never puts an older
character over a newer one; a *character* is played at most once, and only on an
account that is logged in; *rooms* exist while they are used; a *session handed
over* arrives unless its worker has stopped; every pointer of a *map* leads to the object
it was stored for, and new monsters go to the player who was given the fewest; a *timer*
ends the drop it was started for; *items* and *points* are neither made nor lost, and a gain is all or
nothing; what a *save* has written stays stored whatever other connections do; a
*quest* sees every kill and item it still needs, and is done once. Where the code falls
short of this, section 3 says how far.

## 2. The modules

Definitions keep the names of the code where they can; `PROJECT.json` maps each to
its lines. Definitions whose comment begins with MUTANT are deliberate errors: for
each property of each passing run there is one that the property must catch.

### HashSet, KeyBag, HashSetProofs (`hash-map.c`)

`HashSet` has the fields of `struct HashSet`. An operation is one step, except that
a rehash takes a step per slot and a foreach a step per slot it looks at, since its
callback calls back into the set. A probing loop is described by the slot at which
it stops; a loop that never stops leaves its operation without a step and would be
a deadlock, which is checked. The callers' contract is a guard: no insert inside a
foreach, no removal of an absent key. `Rooms` has a caller that breaks the second part,
and says what comes of that. `KeyBag` says what the table is for: a bag of
keys with insert, remove and clear (the code does not prevent duplicates; see
`Rooms` for what comes of that).

### ClientSession, ClientSessionProofs (`database.c`, `channel/client.c`, `channel/server.c`)

One record per client for `struct Session`, one task per client for what its user
event resumes, the two lock queues, and the character reduced to one number, its
progress, in memory (`chr`), in the database (`row`) and in flight (`saving`,
`leaving`). Each callback is one action, with all the calls it makes: an expiring
timer, for example, tries the lock and, if it gets it, executes the first request
in the same step. `Faults` says what may fail (an eventfd that cannot be made, a
request that errs); `AllocatesAtOnce` says whether the AllocateIds request may end
in its first call without a round trip. `crashed` records that the code
dereferences a NULL pointer; nothing happens afterwards.

### Link, LinkProofs (`login/server.c`, `login/handlers.c`, `account.c`, `channel/server.c`)

Both ends of the link with their buffers, the data under way in each direction, and
the faults of its environment: the connection breaks, either server restarts. A
read delivers any prefix of what is under way. `on_channel_read` takes one message
per call and `on_login_server_read` all of them, as in the code; `Flush` is the
socket write with its callback, which frees the queue of logouts. A character and
its account are one value, since an account has at most one character in the game.
The TCP connect and the CONNECTED event are one step. Players join a channel only
after they were given its address. `forgot` is a history variable: the clients
whose entries the login server dropped (three timeouts, or a restart) while the
channel may still know them; it is emptied when a channel that starts afresh has
been heard.

### Rooms, RoomsProofs (`channel/server.c`, `channel/thread-coordinator.c`)

`map_thread_coordinator_ref` gives every room to thread 0, so there is one worker,
which is also the receiver of its own commands. Main thread and worker interleave:
the first transfer of a session is two steps, the write to the pipe (`SendFirst`)
and the entry in the shared table (`RecordFirst`). That table is a bag per id: an
id gets one entry when it is assigned and another when it is first transferred, and
which one a lookup meets is any of them. `session_send_command` waits for a
semaphore that its own thread would post; the model stops the worker there.

The coordinator's table of rooms is a hash set as well. NEW_CLIENT creates its room
when it is not there, without an entry at the coordinator, and when such a room is
destroyed an absent key is removed (`Unregister`). That removal probes until it meets
an unused slot: without one it never ends and keeps the coordinator's lock; with one
it counts an entry too few, after which an insertion or a shrinking removal may
never end. Where the hashes put the rooms is left open, so the model chooses:
`directory` is "sound", "damaged" or "locked", and whoever needs a locked one stops
(`MainHangs`, `WorkerHangs`, `KickHangs`; `main` and `worker` are "stuck" then).
`deserted` is a history variable: the rooms destroyed under a session on its way and
not registered since. A room with an area boss never goes away (`KeptRoom`).

### ControllerHeap, MinQueue, MapMonsters, MapProofs (`channel/map.c`)

`ControllerHeap` has the operations of the heap of controllers, and `MinQueue` says what
they are for: to each player the number of monsters he was given, new ones to one with the
least. `MapMonsters` implements it: `Given` reads the numbers from the heap, and
`GivenToFewest` says that every step of the map is one of the queue or leaves the numbers
alone.

`MapMonsters` has the arrays of players and monsters with their capacities. A pointer into
one of them is a slot number, so that moving an element to another slot leaves a pointer
that nobody redirected visibly wrong. `map_join`, `map_leave`, `map_spawn`,
`map_damage_monster_by` with `map_kill_monster`, `on_respawn`, `respawn_boss` and the end of
a drop batch (`on_next_drop`) are one action each, or one per outcome; `map_kill_all_by` and
the attack handlers call them once per monster. A monster is alive or not; one without hit
points is removed at once, or with its last drop, or stays when no drop was drawn for it.
`realloc` may move the players, or not (`MovedBoss`). Enlarging the array of monsters in
`map_spawn` writes, for every monster, the slot behind the last one into its entry in the
list of its controller (`channel/map.c:959`), and then doubles the capacity and adds the new
monster: `Misled` are the lists it leaves. A monster without a controller makes the loop
follow a NULL pointer. Either way `corrupt` is set and no step follows, so
`ControllersMatch` is a statement about the time before it, while the object ids, the
spawners and the heap are in order in that state too. The map has an area boss from its
beginning; a map whose boss was already registered when it was created, and NPCs and
reactors, which only shift the object ids, are left out.

### MapDrops, MapDropsProofs (`channel/map.c`)

The second half of a map: what monsters, reactors and players drop. A batch of
several drops falls one by one, every 200 ms, in `droppingBatches` and then moves to
`dropBatches`; a pick-up puts the last drop of the batch in the hole; the array of
batches is left with holes, shifted to the front and halved when few are left. The object list
says for the id a client knows in which batch and at which place the drop is. Two kinds of
timer run: 15 s of exclusive right, then 285 s, or 300 s at once for what a player
drops. Their handlers ignore the handle and take the first (exclusive) batch of the
array, so the order of the array has to be the order of the timers. The model takes
timers as exact: they run out in the order of their deadlines. (The code arms the second
timer from the callback of the first; a callback that is late by more than the gap
between two drops would turn the order around.) Whether an automatic pick-up
succeeds is a choice, since the inventory may be full. A monster with a drop table
of which nothing drops stays for good (`remains`, line 1160).

### Inventory, InventoryProofs (`channel/client.c`)

Stacks in the slots of one inventory, carried equipment, the equipment worn in the weapon
slot and in one other slot (`elsewhere`), the purse and the shop, with one action per
function or per outcome. `client_equip` accepts any piece for any slot, and so do `Equip` and
`EquipElsewhere`; a login puts everything where it belongs (`Reload`). A stack may be moved onto
its own slot.
`client_gain_items` works on a copy that is stored only when everything found room
(`Exchanged`, `CopiedBack`). An emptied slot keeps its old contents behind `isEmpty`;
where the code reads them nevertheless the model chooses anything. `active` is
`activeProjectile`; `tracked` is a history variable that turns FALSE at the steps
which lose it (removal in an exchange, a merge that fits exactly, the active stack moved
onto its own slot, the last arrow of the active slot used like a potion, a change to a
weapon without ammunition, a weapon put into another slot), so `ActiveIsFirst` says of all the
others that they do not.

### Progress, CharacterProofs (`channel/client.c`, `character.c`)

Level, job, points, vitals and skills of a character and what its client was last
told of each. `client->stats` is `pending`; `Later` marks a stat for the next commit,
`Now` commits it. A level-up runs the loop of `client_gain_exp` for every level
gained, with the integer widths and the HP limit of the code; rolls of `rand()` are
chosen from a set. The amounts of AUTO_AP_ASSIGN are `Amount`: any `int16_t`, since `main.c`
passes what the packet says, negative ones included. `overdrawn` is a history variable: one of
them took more from a stat than it had.

### Quests, CharacterProofs (`channel/client.c`)

Started quests with their progress, completed quests, `monsterQuests` with its
reference counts, `itemQuests`, the items carried and the script that waits for an
answer. A script is its outcomes: it ends, fails, kicks, asks the next question, and
on the way starts or ends its quest. Two assumptions on the quest data are named:
no two quests need the same quest item (`UnsharedItems`), and a quest takes only its
own (`OwnItemsTaken`); the code keeps no count per quest, and data that break them
break `NeededItemsAvailable`.

### Database (`database.c`, `sql/db.sql`, `channel/client.c`)

The tables that hold what characters carry and the statements of GetCharacter,
AllocateIds, UpdateCharacter and the creation of a character. Every statement is a
step and commits by itself, as the code opens no transaction; statements of several
connections interleave, and a statement may fail or be refused for a key, which ends the
request. A character has
one thing in each of three places (stack, worn, bag), since the statements treat all
of a place alike; everything else a save writes is the number of the save. `saved`
is a history variable: what the last finished save wrote. A login loads the bag by the join of
`do_get_character` (`InBag`), which is not the key under which a save stores it (`BagOf`,
`StoredBag`). `astray` is the other history variable: "bag" once a login has loaded another bag
than the one that was stored, and "type" once a logout has numbered a piece of the bag,
whose row is then written with type 0 (`channel/client.c:1337-1347`).

## 3. The runs

| Run | Instance | Checks | Distinct states |
|---|---|---|---|
| `hash_set` | 2 keys, 8 slots, 6 entries | `TypeOK` `IndInv` `GetFinds` `ForeachComplete` `ImplementsBag`, deadlock | 78 277 |
| `session_safe` | 2 clients, progress 2, failing requests | `TypeOK` `OneExecuting` `LockDiscipline` `RowNeverGoesBack` | 275 835 |
| `session_live` | 2 clients, failing eventfds, fairness | `LockGranted` | |
| `link_safe` | 2 players, 3 sign-ins, 3 faults | `TypeOK` `DescriptorsOpen` `AckFinds` `LeaveFinds` `PlayedIsLoggedIn` | 1 216 236 |
| `rooms_move` | 2 characters, 2 rooms, 1 of them kept, 2 joins, 1 kick, 1 timer, fairness | `TypeOK` `RoomsInUseExist` `DestroyFindsEntry` `OnlyDesertedUnregistered` `TransferArrives` | 723 026 |
| `map_monsters` | 2 players, 2 spawners, 1 `map_spawn` | `TypeOK` `ControllersMatch` `ObjectsLead` `SpawnersAccounted` `GivenToFewest` | 402 072 |
| `drops` | 2 players, 1 monster, 1 reactor, 4 drops, 5 places | `DropsLead` `TimersMatch` | 204 384 |
| `inventory` | 3 slots, arrows, stars, 2 weapons in 2 equipment slots | `TypeOK` `ActiveIsFirst` `GainsAllOrNothing` `MovesKeepItems`, deadlock | 147 852 |
| `progress` | 4 characters, 5 packets, amounts 3 and -6 | `StatsShown` `PointsConserved` | 1 259 782 |
| `quests` | 3 quests, 3 monsters, 2 items | `KillsAreCounted` `NeededItemsAvailable` `QuestsMoveForward` | 316 936 |
| `database` | 2 characters, 2 channels, 1 to create, 4 scenes | `TypeOK` `KeptIsStored` `KeysHold` `CreatedIsWhole` | 786 236 |
| `database_bag` | the same | `BagIsLoaded`: violated | |

**Bounds, and why they are enough.** The two keys of `hash_set` collide in small arrays and
part in larger ones, and their chains wrap around the end; eight slots allow three doublings
and shrinking twice; six entries allow duplicates of both. Two clients suffice for a lock:
one holds it while the other waits, closes or logs out; the proofs cover any number.
Progress 2 is needed for one save to be overtaken by play and another save. Three sign-ins
and three faults allow a player to come back over a link that broke, was restarted and broke
again (four sign-ins were also tried, 4.0 million states, with the same result). Two rooms,
two characters and one timer let a room empty while a session is on its way to it, be
created again behind the coordinator's back and be destroyed a second time, and each reason
to keep a room hold alone; one of the rooms has an area boss. `MaxControllees` bounds the
count of a heap node, which the code increases and never decreases. Two players and three
monsters let either array move its last element into a hole in its middle or at its
beginning, with the element controlled or not (three players were also tried: 1.1 million
states, three minutes, with the same result). Four drops in batches of up to three, over
five places of the array, let a batch be picked up in its middle while it falls and while it
lies, two batches fall at once, and the array grow to eight and be shifted with a batch in
it. As long as the invariants hold, states of `drops` that differ only in the ids of objects
and timers are alike (`VIEW` of `MCMapDrops`). Three slots and stacks of up to two give
partly filled, full and empty stacks, exact fits, gains spread over two slots and moves onto
the same slot; both pieces of equipment are weapons, as only they concern `activeProjectile`
(the proofs cover the others). The four characters of `progress` stand where something
changes: the advancement, the levels 17 and 18 of a Cygnus knight, the HP limit, points to
spend; five packets allow a level-up, an advancement and two assignments after it. The
amount -6 takes from some stats less than they have and from others more. The quests share a
monster, one starts by a script after another, one ends by one. The scenes of `database`
bound saves, moves of things and failures: together on one server, where things change
hands; apart, where two saves interleave; and a save beside a creation. Its action
constraint lets things move only while the connection of their server is idle: a move during
a save commutes with the save's statements, which read a copy. The runs other than
`hash_set` and `inventory` switch the deadlock check off: once the bounds are used up the
servers may have nothing to do, and a crashed or waiting process stops.

**Fairness.** Nothing is assumed of players. In `ClientSession`, libevent delivers
an event that stays ready, the database answers, an output buffer drains and a
timer expires. Strong fairness is used for the events that `do_transfer` takes out
of one event loop and NEW_CLIENT adds to the next: their readiness survives the
move, and every move needs a round trip to the client, during which the loop runs.
In `Rooms`, the worker's event loop serves its pipe (weak fairness of `Command`).

**Where a property has a limit.** `LockGranted` is checked without failing requests: a login
whose GetCharacter errs returns with the lock held (`channel/client.c:757`).
`RowNeverGoesBack` is checked without failing eventfds: a logout that gets none is dropped.
The three list properties of `Link` speak of clients not in `forgot`: after three timeouts
the login server logs out accounts that are being played, and later reports can meet entries
that are not there. `TransferArrives` excepts a worker that has stopped, in
`session_send_command` or at the coordinator; `OnlyDesertedUnregistered` says from which
rooms the second kind can come. `ControllersMatch` holds until `map_spawn` enlarges the
array of monsters, and no longer. `ActiveIsFirst` holds while `tracked`, and
`MovesKeepItems` states what a move of a stack onto its own slot loses. `PointsConserved`
ends with an AUTO_AP_ASSIGN that takes more from a stat than it has (`overdrawn`).
`KeptIsStored` and `KeysHold` hold until a login loads another bag than the stored one
("bag" in `astray`, the case that `database_bag` shows): that can load a worn piece a second
time, and then two places, and after a drop two characters, hold the keys of one piece.
Within the bounds of `database` a statement is not refused even then, but nothing is claimed
about it. `KeptIsStored` does not speak of the types of items after a logout that numbered a
piece of the bag ("type").

### What the code does otherwise

`database_bag` refutes `BagIsLoaded`. `InventoryEquipment.equip` is a key of
`CharacterEquipment` (`FOREIGN KEY (equip) REFERENCES CharacterEquipment (id)`,
`sql/db.sql:147`), and `do_update_character` stores that key (`database.c:2218`).
`do_get_character` joins it with `CharacterEquipment.equip` (`database.c:1278`), which is a key of
`Equipment`. Both tables count their keys from 1, so the join finds the right row as long as
every piece gets both keys in step. A save that fails between AllocateIds' inserts into
`Equipment` and into `CharacterEquipment` puts them out of step for good, and
two connections that insert in turns exchange them. From then on a character may log in without its
bag, or with other pieces in it, and the next save deletes what was not loaded.

### What was met on the way

While the code was translated these came up. They are in the models where the models reach
them; none of them is a property of a run.

Sessions, link, rooms, monsters:

* The end of a connection is reported once. If a save is under way then, the timer is
  freed, and when the save ends `on_session_user_fd_ready` finds no timer and does
  nothing (`channel/server.c:1788`): the session is never logged out.
* A logout whose AllocateIds ends in its first call unlocks the connection and goes on
  to UpdateCharacter without it (`channel/client.c:1366`), against `database.h:507`.
  `AllocatesAtOnce` is the constant for it.
* "we let the channel server know to kick all clients" (`login/server.c:503`): the
  channel sends KICK only to sessions whose room has a thread; one that waits for its
  character stays.
* "Otherwise, the session has already disconnected" (`channel/server.c:1624`): the
  entry with room -1 that `session_assign_id` makes beside the real one lets the
  KICK of a session in its room be dropped.
* A room that empties while a session is on its way to it is destroyed and taken from the
  coordinator; NEW_CLIENT creates it again without an entry there (`channel/server.c:1537-1551`).
  When its last session leaves, `map_thread_coordinator_unref` removes an absent key
  (`channel/thread-coordinator.c:83-88`): in a full table the worker never returns and keeps
  the lock, and the main thread stops at its next transfer.
* `map_spawn` on a full array writes to the lists of all controllers (`channel/map.c:958-959`) before
  it grows: the index it stores is that of the new monster, for every old one.
* "Since this is the last player, they must have the control over the boss"
  (`channel/map.c:904`): neither the `realloc` of `map_join` nor the move of the last
  player redirects the controller of the boss.

Items and the database:

* `client_use_item` takes any item that `wz_get_consumable_info` knows, and that is all of
  `Item.wz/Consume`, ammunition too ("TODO: Check if id is a usable item", line 3661); it
  leaves `activeProjectile` alone when a stack is used up.
* Neither `main.c` (879-884) nor `client_move_item` rejects a move of a stack onto its own slot:
  one below half of `slotMax` is doubled and then marked empty (`channel/client.c:3278-3282`), and
  `activeProjectile` stays there. `client_equip` accepts any piece for any slot, and a weapon in
  a wrong one sets `activeProjectile` (3507).
* An exact fit of a merge leaves a stack of none (`channel/client.c:3279` has `<`); a
  rechargeable item picked up into a full inventory is reported as gained and lost
  (2705-2731); a purchase is paid for before it is known whether there is a slot
  (4389); a loss of more mesos than there are doubles the purse (2345); a swap of carried
  equipment exchanges two stacks of the set-up inventory (3442).
* AllocateIds of a logout writes the bag's new pieces over those worn in the request (1339): the
  entries that are theirs carry no item id, and the row in `Items` is written with type 0. A failed
  save loses what was gained since the last one, and what was dropped meanwhile is
  doubled; `UPDATE Storages` is prepared and never executed (`database.c:1879`).

Quests, stats, drops:

* Giving up a quest while its end script waits, and then `endQuestNow`, removes an
  absent key (`channel/client.c:5531`); a start that fails for want of space leaves
  its monsters counted (5338).
* AUTO_AP_ASSIGN passes any 32-bit amount on as an `int16_t` (`channel/main.c:940-988`); with a negative
  one `client_adjust_str` and its likes (`channel/client.c:2040-2054`) stop at 0 and give back the whole
  amount as free points.
* Skill points are taken before it is checked that the skill can be learnt (2185);
  `job_is_a(JOB_FIGHTER)` leaves out swordsmen, pages and spearmen, who gain no HP
  (2282); `EXP_TABLE` is read behind its end at level 200 (`character.c:163`).
* When the last player takes the slot of one who left, the owners of drop batches keep
  the old pointer (`channel/map.c:892`): the players' own lists of batches, and
  `map_pick_up_all`, which walks them, are left out of `MapDrops` for it.

## 4. The proofs

All constants are arbitrary, under the named assumptions of the modules: any number
of clients, rooms, players, monsters, slots, items and quests, and any bounds. All
safety properties of nine components are proved, among them three action properties
and two refinements; the table says what each rests on.

| Module | Theorems (property) | Beyond the bounds | Hypotheses |
|---|---|---|---|
| `HashSetProofs` | `TypeCorrect` (`TypeOK`) `InvariantHolds` (`IndInv`) `GetIsCorrect` (`GetFinds`) `ForeachIsComplete` (`ForeachComplete`) `BagIsImplemented` (`ImplementsBag`) | any hash function | |
| `ClientSessionProofs` | `TypeCorrect` (`TypeOK`) `LockIsDisciplined` (`LockDiscipline`) `OneRequestAtATime` (`OneExecuting`) | any clients, any faults | `~AllocatesAtOnce` |
| | `RowOnlyAdvances` (`RowNeverGoesBack`) | any clients | also `"lock" \notin Faults` |
| `LinkProofs` | `TypeCorrect` (`TypeOK`) `NoClosedDescriptor` (`DescriptorsOpen`) `AckHasEntry` (`AckFinds`) `LeaveHasEntry` (`LeaveFinds`) `PlayersAreLoggedIn` (`PlayedIsLoggedIn`) | any players, sign-ins, faults | |
| `RoomsProofs` | `TypeCorrect` (`TypeOK`) `NoRoomFreedInUse` (`RoomsInUseExist`) `DestroyIsSafe` (`DestroyFindsEntry`) `UnregisteredWereDeserted` (`OnlyDesertedUnregistered`) | any rooms, sessions, timers | |
| `InventoryProofs` | `TypeCorrect` (`TypeOK`) `FirstIsActive` (`ActiveIsFirst`) `GainsAreWhole` (`GainsAllOrNothing`) `MovesConserve` (`MovesKeepItems`) | any slots, items, equipment | |
| `CharacterProofs` | `StatsAreShown` (`StatsShown`) `PointsAreConserved` (`PointsConserved`) | any experience table, skills, equipment, amounts | `StartBalanced` `AmountInRange` `LevelsCost` `RollsInRange` |
| | `KillsStayCounted` (`KillsAreCounted`) `ItemsStayAvailable` (`NeededItemsAvailable`) `CompletedIsFinal` (`QuestsMoveForward`) | any quest data | `UnsharedItems`, `OwnItemsTaken` |
| `MapProofs` | `TypesHold` (`TypeOK`) `PointersMatch` (`ControllersMatch`) `ObjectsFound` (`ObjectsLead`) `SpawnersCounted` (`SpawnersAccounted`) `HeapIsQueue` (`GivenToFewest`) | any players, spawners | |
| `MapDropsProofs` | `DropsFound` (`DropsLead`) `TimersKept` (`TimersMatch`) | any players, monsters, drop counts, arrays | |

The two hypotheses of `ClientSession` are needed: without them the properties do not hold
(section 3). `StartBalanced` says of the characters that are loaded what the property says
of those that play, `AmountInRange` that an amount is an `int16_t`, `LevelsCost` that the
experience table ends at level 200, and `RollsInRange` is the range of `rand()` in the code.
`UnsharedItems` and `OwnItemsTaken` are about the game's data (section 2). The other
assumptions give the constants their types; `EmptyAssumption` keeps the mark of an empty
slot apart from everything a slot can hold.

**HashSet.** `GetFinds` alone is not inductive: a lookup stops at a free slot, so what has
to be kept is that no probe for the key of an occupied slot passes a free one (`Chained`).
Inserts keep it because they fill the slot at which their probe stopped (`PlaceChained`),
removals because a deleted slot is not free (`DeleteChained`). Termination of the probes
needs room, hence `count` must be the number of occupied slots (`OccAdd`, `OccDel`). During
a rehash the new array must hold what the old one holds below the loop's counter, and as
many (`MoveInv`, `SwapInv`). `IndInv` is the conjunction; TLC checks it too. From it, a
probe that stops at all stops at the right slot (`ProbeHits`, `ProbeStops`). The foreach
property is then inductive by itself, given that no resize happens while iterating. For the
refinement the bag of a table is what its occupied slots hold, key by key (`Amount`), plus
the key of an insert under way. `BagInv` adds that the new array of a rehash has each key as
often as the old one below the counter, so that the swap at the end changes no amount; then
each step adds one key, removes one, empties the bag or leaves it (`MoveBag`, `ShrinkBag`
and a lemma per operation).

**ClientSession.** `OneExecuting` is not inductive: an unlock wakes whoever is second,
and that the first has then ended and the second will not start twice is a fact about
the queue. `LockDiscipline` is the strengthening: at most one job holds a lock, the
queue is not empty then, everyone behind the head is a distinct session waiting for
its eventfd (`InOrder`), and no session has a running timer, or has yet to send its
login packet, while it has an event, so that nothing starts a second handler. One
lemma per thing a callback does to a queue (acquire, enqueue, release, awake, next
request) and one per action; helpers that run in the middle of a step, with the
lock already released or acquired, are proved from the predicate about the
intermediate queue. `RowNeverGoesBack` needs to know of every write when it was
read from the character: `RowInv` says that of each client the row is at most what a
save or a logout carries, that is at most what the character has, and that no save is
left over when its session is gone.

**Link.** None of the four properties is inductive. The proof looks at the two streams `Up`
and `Dn`: all that was sent on the current connection and is not yet handled, in buffers
or on the wire. The handshake keeps them in order (the first byte travels alone, the
reply precedes every id, the queue of logouts is sent again only when nothing of it
is under way), and then at most one token (id, expected or running session, ack, logout)
stands for each client that was not forgotten (`ClientOK`), with the entry that goes with it.

**Rooms.** All of it holds whatever the removal of an absent key does. `RoomsInUseExist`
needs that a NEW_CLIENT in the pipe is the only one of its session and that its target is a
room (`HandedOverOnce`, `TargetIsRoom`); `DestroyFindsEntry` that a session has an entry as
soon as it has an id (`KnownHasEntry`): the one of `session_assign_id` is what saves a
session that the worker destroys before `RecordFirst`. `OnlyDesertedUnregistered` needs the
same of the target of every session on its way (`SentToKnown`), and a lemma for the one step
that can make a room deserted (`DestroyedKnown`).

**Inventory.** `ActiveIsFirst` is strengthened by `Clean`: as long as `tracked` no stack of
none passes for ammunition, since `AfterRemoval` could not tell the shot that empties the
active slot from one that does not. The loops of `client_gain_items` are functions over the
slots; what a turn keeps the loop keeps (`LoopStays`, by the least slot at which it would
fail), with `Going` for the types and the active slot. A removal (`LossKeeps`), a stack put
into an empty slot (`PutKept`) and each branch of `client_move_item` have a lemma, and so
has a move onto the same slot (`OwnSlot`), which changes nothing or loses the stack. For
`GainsAllOrNothing` and `MovesKeepItems` an amount is a sum over the slots, turn by turn;
changing one slot changes it by the difference (`OneSlotTotal`, `Sums`), a turn of a gain
moves from what is still to be given to the slots what it puts there (`TurnCounts`), and
swaps and merges change two slots by opposite amounts (`SwappedTotal`, `MergeTotal`).

**Progress.** `Shaped` of every character and `Sound` of one that is not `overdrawn`, the
two properties themselves and, for the loop of level-ups, their form in the middle of a
handler, where what is marked may differ from what the client shows: every handler changes
marked stats only (`Within`). That the points of a sound character never leave the `int16_t`
they are kept in (`SoundBounded`) follows from the levels, of which the table has 200.
Proving `PointsConserved` for all constants showed that it depends on the characters that
are loaded (now `StartBalanced`). Proving `StatsShown` led back to `client_set_hp` and
`client_set_mp`: they return before they set anything when the value is the one there is,
even one above a maximum that has fallen since; the model had set, and cut, it without
marking it.

**Quests.** What makes the properties inductive is what holds of a script that waits
(`Waits`): the quest it will start or end is still open to that, and the items it
will need are wanted already. Counting needs that the entries of `monsterQuests` are at least the
unmet goals of the started quests (`Open`), as a cardinality that changes by one goal at a time.

**Maps.** `IInv` of `MapProofs` joins five parts, none of which holds without the others. The
invariant is `IInv`, or `Enlarged`: after the array was enlarged the lists are wrong, and the types,
the ids and the spawners are not (`SpawnEnlarges`).
`SeatPart`: as many players, lists and heap nodes, each node with the slot of its player,
no node above one that was given fewer. `LinkPart`: while somebody is there a living monster is
in the list of its controller at the index it names, and the lists hold nothing else.
`IdPart`: the monsters' ids, the boss's and the free ones are the ids from 0 to
`SpawnerCount`, each once, so that a new id is unused. `SpawnerPart`: a spawner is dead
once or has one monster, hence the arrays suffice. `BossPart` has the types of
the rest. A removal
that moves the last element into a hole is described by what the slots hold
afterwards; the loops over a list of monsters (`LinkAll`, the sifting in the heap) are
recursive functions over naturals, and a lemma (`TurnByTurn`, by a least counterexample)
stands in for induction. Sifting is shown to permute the nodes and to put them in order from any
heap in which one node is out of place. That order is what makes `heap_top` a least
one, and so the map an implementation of `MinQueue` (`HeapIsQueue`).

**Drops.** `Good` of `MapDropsProofs` is what holds between handlers, and `Linked` the part
of it that everything a handler does keeps. `Lying` and `FallingAt` say in both
directions that drops and object list lead to each other: that the entry of a drop names
its batch and its place is the property, that an entry names a place with this drop on it is
what keeps two drops from sharing an id. `Droppers` says that the monster of a falling
batch is there and has no other one, so that removing it with its last drop leaves no
batch without a dropper; `Timed` that the timers are those of the batches, in the
order of the array; `Fitting` that the batches fit and that nothing lies before
`dropBatchStart`. Not part of `Linked`: that no batch has fallen completely (`Waiting`)
and that `dropBatchStart` is at a batch (`AtBatch`), which fail in the middle of a handler.
The lemmas follow the handler: a batch is put behind the others with the latest deadline;
the hole a drop leaves is filled, or the batch is taken away; the loop that moves
batches to the front is a function from the number of a turn to the map after it, each
turn of which keeps what lies at both its ends (`Sweep`); when a falling batch settles,
those behind it move up and the list is told (`CloseGap`, `Settled`). That a timer's handler
takes the right batch is then a fact about two orders: the first exclusive batch of the
array is the one of the first exclusive timer (`FirstOwned`). `DropsLead` needs no such
order and `TimersMatch` no object list, but the steps of each need that the batch
they work on is the one meant, and so they are proved in one.

**Model-checked only.** Liveness (`LockGranted`, `TransferArrives`) is out of the
prover's reach. The four properties of `Database` are checked by TLC only; section 6
says what their proofs would need.

## 5. Not modelled

Packet layouts, encryption, the parsing of game data, configuration and logging: I/O,
formatting or read-only tables. Parties, because whatever involves a second member stops the
worker; transports, whose only state is one property; seats, chairs, key bindings, the
monster book, movement and chat. Of the login server, the requests that read or write one
row and the sessions themselves, which have neither rooms nor timers. Storage, into which
nothing is put. Running out of memory, except where the code goes on (a shrink that fails,
an eventfd that cannot be made). In `Rooms`: the server's shutdown, a pipe that cannot be
written, broadcasts, the order of the timer array; `room_break_off` is never called. Data
races inside libevent's buffers (`channel/server.c:2044`) are listed as a hazard.

## 6. Plan

Modelled, in the order of how much rests on them: HashSet, ClientSession, Link, Rooms,
MapMonsters, Inventory, Database, Quests, Progress, MapDrops.

Proved: all safety properties of every module but Database, and that HashSet implements
KeyBag and MapMonsters MinQueue.

To come: the properties of Database. `KeptIsStored` and `KeysHold` need an invariant
per statement of a save: which tables already hold the new rows, which the old, and
that the purges, which may stand between any two statements, take only rows of
equipment that no character refers to, as long as no login has loaded another bag than the
stored one. Keys have to be kept apart among those in
memory, those on the ground and those that a request carries. `CreatedIsWhole` needs
the inserts of a new character as a fold over its outfit.
