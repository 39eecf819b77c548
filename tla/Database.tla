------------------------------ MODULE Database ------------------------------
(***************************************************************************)
(* How characters and what they carry live in the tables of sql/db.sql:    *)
(* the requests of database.c, statement by statement, and the code of     *)
(* client.c that numbers new items (AllocateIds), copies a character into  *)
(* an UpdateCharacter request and rebuilds it from GetCharacter.           *)
(*                                                                         *)
(* No request runs in a transaction: every statement commits by itself,    *)
(* and the statements of two connections interleave.  Each channel server  *)
(* saves over one connection, whose lock (ClientSession) admits one save   *)
(* at a time; the login server creates characters over its own.  A save    *)
(* is AllocateIds followed by UpdateCharacter under one hold of the lock.  *)
(*                                                                         *)
(* A character carries at most one thing in each Place: a stack, a worn    *)
(* piece of equipment and one in the bag.  A thing is known by its item_id *)
(* (type) and the keys of its rows in Items, Equipment and                 *)
(* CharacterEquipment, 0 while it has none.  Everything else a save writes *)
(* is the number of the save, in the Characters row and in each list: it   *)
(* has changed by the next one.  Storage is left out: nothing in the game  *)
(* puts a thing there.                                                     *)
(***************************************************************************)
EXTENDS Integers, Sequences, FiniteSets, Functions

CONSTANTS
    Char,           \* the characters that are played
    Newcomer,       \* the name the login server is asked to create
    Channel,        \* the channel servers
    Scenes,         \* records: the home of those who play a part, Newcomer
                    \* among them when it is created, and bounds on the
                    \* saves that are started, the things that change their
                    \* place and the statements that fail
    EquipType,      \* item_ids of equipment
    StackType,      \* item_ids of stackable items
    Outfit          \* the outfits a new character may wear, sequences of item_ids

NoType == "0"

ASSUME PlacesAssumption ==
    /\ Newcomer \notin Char /\ IsFiniteSet(Char)
    /\ "none" \notin Channel
    /\ EquipType # {} /\ EquipType \cap StackType = {} /\ NoType \notin EquipType \cup StackType
ASSUME ScenesAssumption ==
    \A s \in Scenes : /\ s.saves \in Nat
                      /\ \A c \in DOMAIN s.home \cap Char : s.home[c] \in Channel
ASSUME OutfitAssumption ==
    Outfit # {} /\ \A o \in Outfit : o \in Seq(Range(o)) /\ Len(o) \in {3, 4}

VARIABLES
    db,         \* the tables
    scene,      \* who plays on which channel server, and the bounds
    mem,        \* the characters in the memory of the channel servers
    ground,     \* the drop that lies in the map of a channel
    job,        \* the request of each channel server's connection
    creation,   \* the request of the login server's connection
    saved,      \* history: what each character's last finished save wrote,
                \* fresh until its next one changes a table, and the items it
                \* has let go of since that save copied it
    broken,     \* a statement was refused for its keys
    astray,     \* history: "bag" once a login has loaded another bag than the
                \* stored one, "type" once a logout has numbered a piece in it
    saves,      \* saves that have been started
    moves,      \* things that have changed their place
    failures    \* statements that have failed

vars == <<db, scene, mem, ground, job, creation, saved, broken, astray, saves, moves, failures>>

Place == {"stack", "worn", "bag"}
Empty == [type |-> NoType, item |-> 0, equip |-> 0, own |-> 0]
New(type) == [Empty EXCEPT !.type = type]

(* The lists an UpdateCharacter request writes besides the things: those   *)
(* it deletes and inserts anew (Quests and Progresses, QuestInfos,         *)
(* CompletedQuests, Keymaps) and those it writes over (Skills,             *)
(* MonsterBooks).  Nothing reads them while their character is played, so  *)
(* the statements on each kind are one.                                    *)
List == {"replaced", "kept"}
Gone == -1

Filled(carried) == {p \in Place : carried[p] # Empty}
Nobody == [p \in Place |-> Empty]
-----------------------------------------------------------------------------
(* The tables.  A table is a function from its primary key.                *)

Keys(table) == DOMAIN table
Without(table, keys) == Restrict(table, Keys(table) \ keys)

(* DELETE FROM Items with the ON DELETE CASCADE of the tables below it.    *)
DeleteItems(d, ids) ==
    LET equips == {e \in Keys(d.equipment) : d.equipment[e] \in ids}
        owns == {o \in Keys(d.owned) : d.owned[o].equip \in equips}
    IN  [d EXCEPT !.items = Without(@, ids), !.stacks = Without(@, ids),
                  !.equipment = Without(@, equips), !.owned = Without(@, owns),
                  !.worn = @ \ owns, !.bag = @ \ owns]

OwnedBy(d, c) == {o \in Keys(d.owned) : d.owned[o].chr = c}
StacksOf(d, c) == {i \in Keys(d.stacks) : d.stacks[i] = c}

(* INSERT of one row or several: AUTO_INCREMENT numbers them one by one.   *)
Run(first, n) == first .. first + n - 1

InsertItems(d, types) ==
    LET new == Run(d.next.items, Len(types))
    IN  [d EXCEPT !.items = [i \in Keys(d.items) \cup new |->
                                IF i \in new
                                THEN [type |-> types[i - d.next.items + 1], deleted |-> FALSE]
                                ELSE d.items[i]],
                  !.next = [d.next EXCEPT !.items = d.next.items + Len(types)]]

InsertEquipment(d, items) ==
    LET new == Run(d.next.equipment, Len(items))
    IN  [d EXCEPT !.equipment = [e \in Keys(d.equipment) \cup new |->
                                    IF e \in new THEN items[e - d.next.equipment + 1]
                                    ELSE d.equipment[e]],
                  !.next = [d.next EXCEPT !.equipment = d.next.equipment + Len(items)]]

InsertOwned(d, equips, c) ==
    LET new == Run(d.next.owned, Len(equips))
    IN  [d EXCEPT !.owned = [o \in Keys(d.owned) \cup new |->
                                IF o \in new
                                THEN [equip |-> equips[o - d.next.owned + 1], chr |-> c]
                                ELSE d.owned[o]],
                  !.next = [d.next EXCEPT !.owned = d.next.owned + Len(equips)]]
-----------------------------------------------------------------------------
(* do_get_character: what the SELECTs of the three kinds of things return. *)
(* The bag's join takes InventoryEquipment.equip for a key of Equipment;   *)
(* sql/db.sql declares it one of CharacterEquipment.                       *)

Row(d, o) ==
    LET e == d.owned[o].equip
        i == d.equipment[e]
    IN  [type |-> d.items[i].type, item |-> i, equip |-> e, own |-> o]

OneOf(things) == IF things = {} THEN Empty ELSE CHOOSE t \in things : TRUE

LoadedWorn(d, c) == {Row(d, o) : o \in OwnedBy(d, c) \cap d.worn}
InBag(d, o) == d.owned[o].equip \in d.bag
LoadedBag(d, c) == {Row(d, o) : o \in {p \in OwnedBy(d, c) : InBag(d, p)}}
BagOf(d, c) == {r.own : r \in LoadedBag(d, c)}
StoredBag(d, c) == OwnedBy(d, c) \cap d.bag
LoadedStacks(d, c) ==
    {[Empty EXCEPT !.type = d.items[i].type, !.item = i] : i \in StacksOf(d, c)}

Loaded(d, c) ==
    [p \in Place |->
        CASE p = "worn"  -> OneOf(LoadedWorn(d, c))
          [] p = "bag"   -> OneOf(LoadedBag(d, c))
          [] p = "stack" -> OneOf(LoadedStacks(d, c))]

(* The row, and the SELECTs of the lists.                                  *)
LoadedRest(d, c) == [row |-> d.row[c], lists |-> d.lists[c]]
-----------------------------------------------------------------------------
(* do_allocate_ids.  "params" holds the things the request is to number,   *)
(* a function from their places.                                           *)

Unnumbered(carried) ==
    {p \in Filled(carried) : IF p = "stack" THEN carried[p].item = 0 ELSE carried[p].own = 0}

(* on_id_allocate_database_unlocked                                        *)
TimerParams(carried) == Restrict(carried, Unnumbered(carried))

(* client_logout_cont stores the bag's entries among the worn equipment's: *)
(* they replace what was there, and the bag's own entries stay zero.       *)
LogoutParams(carried) ==
    LET params == TimerParams(carried)
    IN  [p \in DOMAIN params |->
            CASE p = "bag" -> Empty
              [] p = "worn" /\ "bag" \in DOMAIN params -> params["bag"]
              [] OTHER -> params[p]]

AllocateProgram ==
    << <<"items", "stack">>, <<"items", "worn">>, <<"items", "bag">>,
       <<"equipment", "worn">>, <<"equipment", "bag">>,
       <<"owned", "worn">>, <<"owned", "bag">> >>

(* A statement is executed for the things there are.                       *)
Executes(params, k) == AllocateProgram[k][2] \in DOMAIN params

(* One execute of the request: the row and the key mysql_stmt_insert_id    *)
(* hands back.                                                             *)
Allocated(d, params, table, p, c) ==
    CASE table = "items" /\ params[p].item = 0 ->
            <<InsertItems(d, <<params[p].type>>), [params EXCEPT ![p].item = d.next.items]>>
      [] table = "equipment" /\ params[p].equip = 0 ->
            <<InsertEquipment(d, <<params[p].item>>), [params EXCEPT ![p].equip = d.next.equipment]>>
      [] table = "owned" ->
            <<InsertOwned(d, <<params[p].equip>>, c), [params EXCEPT ![p].own = d.next.owned]>>
      [] OTHER -> <<d, params>>

(* start_save: the keys are copied to the things that still lack them.     *)
Numbered(carried, params) ==
    [p \in Place |->
        IF p \in Unnumbered(carried) \cap DOMAIN params
        THEN [params[p] EXCEPT !.type = carried[p].type]
        ELSE carried[p]]
-----------------------------------------------------------------------------
(* do_update_character: the effect of each statement for character c, of   *)
(* whom the request holds the copy s.                                      *)

Equips(s) == {s.carried[p] : p \in Filled(s.carried) \ {"stack"}}
Stacks(s) == {s.carried[p] : p \in Filled(s.carried) \cap {"stack"}}

UpdateRow(d, c, s) == [d EXCEPT !.row[c] = s.row]

Mark(d, ids) ==
    [d EXCEPT !.items = [i \in Keys(d.items) |->
        [type |-> d.items[i].type, deleted |-> d.items[i].deleted \/ i \in ids]]]
MarkStacks(d, c, s) == Mark(d, StacksOf(d, c))
MarkEquips(d, c, s) ==
    Mark(d, {d.equipment[d.owned[o].equip] : o \in OwnedBy(d, c)})

(* The rows may have been deleted by another connection in the meantime:   *)
(* INSERT ... ON DUPLICATE KEY UPDATE deleted = 0.                         *)
RestoreItems(d, c, s) ==
    LET things == Equips(s) \cup Stacks(s)
        kept == {t.item : t \in things}
    IN  [d EXCEPT !.items =
            [i \in Keys(@) \cup kept |->
                [type |-> IF i \in Keys(@) THEN @[i].type
                          ELSE (CHOOSE t \in things : t.item = i).type,
                 deleted |-> i \notin kept /\ @[i].deleted]]]

PutStacks(d, c, s) ==
    [d EXCEPT !.stacks =
        [i \in Keys(@) \cup {t.item : t \in Stacks(s)} |->
            IF \E t \in Stacks(s) : t.item = i THEN c ELSE @[i]]]

PutEquipment(d, c, s) ==
    [d EXCEPT !.equipment =
        [e \in Keys(@) \cup {t.equip : t \in Equips(s)} |->
            IF e \in Keys(@) THEN @[e] ELSE (CHOOSE t \in Equips(s) : t.equip = e).item]]

(* MUTANT of PutOwned: a row that exists keeps its character.              *)
PutOwnedIgnores(d, c, s) ==
    [d EXCEPT !.owned =
        [o \in Keys(@) \cup {t.own : t \in Equips(s)} |->
            IF o \in Keys(@) THEN @[o]
            ELSE [equip |-> (CHOOSE t \in Equips(s) : t.own = o).equip, chr |-> c]]]

PutOwned(d, c, s) ==
    [d EXCEPT !.owned =
        [o \in Keys(@) \cup {t.own : t \in Equips(s)} |->
            [equip |-> IF o \in Keys(@) THEN @[o].equip
                       ELSE (CHOOSE t \in Equips(s) : t.own = o).equip,
             chr |-> IF \E t \in Equips(s) : t.own = o THEN c ELSE @[o].chr]]]

ClearWorn(d, c, s) == [d EXCEPT !.worn = @ \ OwnedBy(d, c)]
ClearBag(d, c, s) == [d EXCEPT !.bag = @ \ OwnedBy(d, c)]
KeysAt(s, p) == {s.carried[q].own : q \in Filled(s.carried) \cap {p}}
PutWorn(d, c, s) == [d EXCEPT !.worn = @ \cup KeysAt(s, "worn")]
PutBag(d, c, s) == [d EXCEPT !.bag = @ \cup KeysAt(s, "bag")]

(* MUTANT of Purge: equipment of a deleted item stays.                     *)
PurgeStacksOnly(d, c, s) ==
    LET ids == {i \in Keys(d.items) : d.items[i].deleted}
    IN  [d EXCEPT !.items = Without(@, ids), !.stacks = Without(@, ids)]

Purge(d, c, s) == DeleteItems(d, {i \in Keys(d.items) : d.items[i].deleted})

ClearReplaced(d, c, s) == [d EXCEPT !.lists[c]["replaced"] = Gone]
PutList(d, c, s, l) == [d EXCEPT !.lists[c][l] = s.lists[l]]

(* MUTANT of UpdateProgram: what is worn is cleared before the marks.      *)
UpdateProgramClearsFirst ==
    << <<"row">>, <<"clear worn">>, <<"clear bag">>, <<"mark stacks">>, <<"mark equips">>,
       <<"items">>, <<"stacks">>, <<"equipment">>, <<"owned">>, <<"worn">>,
       <<"bag">>, <<"purge">>, <<"clear replaced">>, <<"put", "replaced">>, <<"put", "kept">> >>

UpdateProgram ==
    << <<"row">>, <<"mark stacks">>, <<"mark equips">>, <<"items">>, <<"stacks">>,
       <<"equipment">>, <<"owned">>, <<"clear worn">>, <<"clear bag">>, <<"worn">>,
       <<"bag">>, <<"purge">>, <<"clear replaced">>, <<"put", "replaced">>, <<"put", "kept">> >>

Updated(d, statement, c, s) ==
    CASE statement[1] = "row"          -> UpdateRow(d, c, s)
      [] statement[1] = "mark stacks"  -> MarkStacks(d, c, s)
      [] statement[1] = "mark equips"  -> MarkEquips(d, c, s)
      [] statement[1] = "items"        -> RestoreItems(d, c, s)
      [] statement[1] = "stacks"       -> PutStacks(d, c, s)
      [] statement[1] = "equipment"    -> PutEquipment(d, c, s)
      [] statement[1] = "owned"        -> PutOwned(d, c, s)
      [] statement[1] = "clear worn"   -> ClearWorn(d, c, s)
      [] statement[1] = "clear bag"    -> ClearBag(d, c, s)
      [] statement[1] = "worn"         -> PutWorn(d, c, s)
      [] statement[1] = "bag"          -> PutBag(d, c, s)
      [] statement[1] = "purge"        -> Purge(d, c, s)
      [] statement[1] = "clear replaced" -> ClearReplaced(d, c, s)
      [] statement[1] = "put"          -> PutList(d, c, s, statement[2])

(* The FOREIGN KEYs and PRIMARY KEYs of the tables that an INSERT without  *)
(* ON DUPLICATE KEY, or with a parent row, has to respect.                 *)
Refused(d, statement, c, s) ==
    CASE statement[1] = "stacks"    -> \E t \in Stacks(s) : t.item \notin Keys(d.items)
      [] statement[1] = "equipment" -> \E t \in Equips(s) : t.item \notin Keys(d.items)
      [] statement[1] = "owned"     -> \E t \in Equips(s) : t.equip \notin Keys(d.equipment)
      [] statement[1] = "worn"      -> ~ KeysAt(s, "worn") \subseteq Keys(d.owned) \ d.worn
      [] statement[1] = "bag"       -> ~ KeysAt(s, "bag") \subseteq Keys(d.owned) \ d.bag
      [] statement = <<"put", "replaced">>   -> d.lists[c]["replaced"] # Gone
      [] OTHER -> FALSE
-----------------------------------------------------------------------------
NoJob == [kind |-> "none"]

(* What an UpdateCharacter request is given: the n-th save copies the      *)
(* things, the row and the lists.                                          *)
CopiedLists(n) == [l \in List |-> n]
CopyOf(carried, n) == [carried |-> carried, row |-> n, lists |-> CopiedLists(n)]

Offline == [at |-> "none", carried |-> Nobody, kicked |-> FALSE]

InitialType == Head(CHOOSE o \in Outfit : TRUE)

Number == CHOOSE f \in [Char -> 1 .. Cardinality(Char)] :
            IsInjective(f) /\ \A k \in 1 .. Cardinality(Char) : \E c \in Char : f[c] = k
Piece(c) == [type |-> InitialType, item |-> Number[c], equip |-> Number[c], own |-> Number[c]]

(* Every character has kept one piece of its outfit and was never saved.   *)
Init ==
    /\ LET n == Cardinality(Char)
       IN  db = [items |-> [k \in 1 .. n |-> [type |-> InitialType, deleted |-> FALSE]],
                 stacks |-> <<>>,
                 equipment |-> [k \in 1 .. n |-> k],
                 owned |-> [k \in 1 .. n |-> [equip |-> k, chr |-> CHOOSE c \in Char : Number[c] = k]],
                 worn |-> 1 .. n, bag |-> {},
                 row |-> [c \in Char |-> 0],
                 lists |-> [c \in Char |-> [l \in List |-> 0]],
                 next |-> [items |-> n + 1, equipment |-> n + 1, owned |-> n + 1]]
    /\ saved = [c \in Char |-> [copy |-> CopyOf([Nobody EXCEPT !["worn"] = Piece(c)], 0),
                                fresh |-> TRUE, given |-> {}]]
    /\ scene \in Scenes
    /\ mem = [c \in Char |-> Offline]
    /\ ground = [ch \in Channel |-> Empty]
    /\ job = [ch \in Channel |-> NoJob]
    /\ creation = [pc |-> 0, pieces |-> <<>>, first |-> 0]
    /\ broken = FALSE /\ astray = {}
    /\ saves = 0
    /\ moves = 0
    /\ failures = 0
-----------------------------------------------------------------------------
(* The characters in memory.                                               *)

Online(c) == mem[c].at \in Channel

(* A packet of c is handled: none is while the session waits for the ids,  *)
(* nor once it has been kicked or is being logged out.                     *)
Acting(c) ==
    /\ Online(c) /\ ~mem[c].kicked
    /\ \A ch \in Channel : job[ch].kind # "none" /\ job[ch].chr = c
                              => job[ch].kind = "timer" /\ job[ch].stage = "update"

(* client_cont, the end of the login: the character is rebuilt.            *)
Login(c) ==
    /\ c \in DOMAIN scene.home /\ mem[c].at = "none"
    /\ mem' = [mem EXCEPT ![c] = [at |-> scene.home[c], carried |-> Loaded(db, c), kicked |-> FALSE]]
    /\ astray' = IF BagOf(db, c) = StoredBag(db, c) THEN astray ELSE astray \cup {"bag"}
    /\ UNCHANGED <<scene, db, ground, job, creation, saved, broken, saves, moves, failures>>

Carry(c, places) ==
    /\ moves < scene.moves
    /\ moves' = moves + 1
    /\ mem' = [mem EXCEPT ![c].carried = places]

Gain(c, type) ==
    /\ Acting(c)
    /\ LET p == IF type \in StackType THEN "stack" ELSE "bag"
       IN  /\ mem[c].carried[p] = Empty
           /\ Carry(c, [mem[c].carried EXCEPT ![p] = New(type)])
    /\ UNCHANGED <<scene, db, ground, job, creation, saved, broken, astray, saves, failures>>

(* client_equip and client_unequip                                         *)
Equip(c) ==
    /\ Acting(c)
    /\ Filled(mem[c].carried) \cap {"worn", "bag"} # {}
    /\ Carry(c, [mem[c].carried EXCEPT !["worn"] = mem[c].carried["bag"],
                                       !["bag"] = mem[c].carried["worn"]])
    /\ UNCHANGED <<scene, db, ground, job, creation, saved, broken, astray, saves, failures>>

(* The whole stack or the piece of equipment falls with its keys.          *)
Drop(c, p) ==
    /\ Acting(c) /\ p # "worn"
    /\ mem[c].carried[p] # Empty
    /\ ground[mem[c].at] = Empty
    /\ ground' = [ground EXCEPT ![mem[c].at] = mem[c].carried[p]]
    /\ Carry(c, [mem[c].carried EXCEPT ![p] = Empty])
    /\ saved' = [saved EXCEPT ![c].given = @ \cup {mem[c].carried[p].item}]
    /\ UNCHANGED <<scene, db, job, creation, broken, astray, saves, failures>>

PickUp(c) ==
    /\ Acting(c)
    /\ LET t == ground[mem[c].at]
           p == IF t.type \in StackType THEN "stack" ELSE "bag"
       IN  /\ t # Empty /\ mem[c].carried[p] = Empty
           /\ Carry(c, [mem[c].carried EXCEPT ![p] = t])
    /\ ground' = [ground EXCEPT ![mem[c].at] = Empty]
    /\ UNCHANGED <<scene, db, job, creation, saved, broken, astray, saves, failures>>

-----------------------------------------------------------------------------
(* The requests of a channel server.                                       *)

Allocating(ch) == job[ch].kind # "none" /\ job[ch].stage = "allocate"

Allocate(c, kind, params) ==
    LET ch == mem[c].at
    IN  /\ job[ch] = NoJob
        /\ saves < scene.saves
        /\ saves' = saves + 1
        /\ job' = [job EXCEPT ![ch] = [kind |-> kind, chr |-> c, stage |-> "allocate",
                                       pc |-> 1, params |-> params,
                                       copy |-> CopyOf(Nobody, saves')]]
        /\ UNCHANGED <<scene, db, mem, ground, creation, saved, broken, moves, failures>>

(* The timer of the session, the lock free: AllocateIds starts.            *)
StartSave(c) == Acting(c) /\ Allocate(c, "timer", TimerParams(mem[c].carried)) /\ UNCHANGED astray

(* client_logout_cont, the lock free and no timed save under way.          *)
StartLogout(c) ==
    /\ Online(c)
    /\ Allocate(c, "logout", LogoutParams(mem[c].carried))
    /\ astray' = IF "bag" \in Unnumbered(mem[c].carried) THEN astray \cup {"type"} ELSE astray

AllocateStatement(ch, k) ==
    LET j == job[ch]
        done == Allocated(db, j.params, AllocateProgram[k][1], AllocateProgram[k][2], j.chr)
    IN  /\ Allocating(ch) /\ j.pc <= k
        /\ Executes(j.params, k) /\ \A n \in j.pc .. k - 1 : ~ Executes(j.params, n)
        /\ db' = done[1]
        /\ job' = [job EXCEPT ![ch].params = done[2], ![ch].pc = k + 1]
        /\ UNCHANGED <<scene, mem, ground, creation, saved, broken, astray, saves, moves, failures>>

(* AllocateIds has ended: the keys are copied, the character is copied     *)
(* into the UpdateCharacter request.                                       *)
StartUpdate(ch) ==
    LET j == job[ch]
        numbered == Numbered(mem[j.chr].carried, j.params)
    IN  /\ Allocating(ch) /\ \A k \in j.pc .. Len(AllocateProgram) : ~ Executes(j.params, k)
        /\ mem' = [mem EXCEPT ![j.chr].carried = numbered]
        /\ job' = [job EXCEPT ![ch].stage = "update", ![ch].pc = 1, ![ch].copy = CopyOf(numbered, @.row)]
        /\ saved' = [saved EXCEPT ![j.chr].fresh = FALSE, ![j.chr].given = {}]
        /\ UNCHANGED <<scene, db, ground, creation, broken, astray, saves, moves, failures>>

(* A refused statement ends the request, as a failed one does.             *)
UpdateStatement(ch) ==
    LET j == job[ch]
        c == j.chr
        statement == UpdateProgram[j.pc]
        refused == Refused(db, statement, c, j.copy)
        last == j.pc = Len(UpdateProgram)
    IN  /\ j.kind # "none" /\ j.stage = "update"
        /\ broken' = (broken \/ refused)
        /\ db' = IF refused THEN db ELSE Updated(db, statement, c, j.copy)
        /\ job' = [job EXCEPT ![ch] = IF last \/ refused THEN NoJob ELSE [j EXCEPT !.pc = @ + 1]]
        /\ saved' = IF last /\ ~refused
                    THEN [saved EXCEPT ![c].copy = j.copy, ![c].fresh = TRUE]
                    ELSE saved
        /\ mem' = IF (last \/ refused) /\ j.kind = "logout" THEN [mem EXCEPT ![c] = Offline] ELSE mem
        /\ UNCHANGED <<scene, ground, creation, astray, saves, moves, failures>>

(* A statement of a timed save fails: a failed AllocateIds kicks the       *)
(* client, of a failed UpdateCharacter nobody hears.  (A failed logout     *)
(* destroys the client with all that happened since its last save; what it *)
(* let go of exists twice then.  It is not among the faults of the model.) *)
Fail(ch) ==
    LET j == job[ch]
    IN  /\ j.kind = "timer" /\ failures < scene.faults
        /\ job' = [job EXCEPT ![ch] = NoJob]
        /\ mem' = [mem EXCEPT ![j.chr].kicked = j.stage = "allocate"]
        /\ failures' = failures + 1
        /\ UNCHANGED <<scene, db, ground, creation, saved, broken, astray, saves, moves>>
-----------------------------------------------------------------------------
(* do_try_create_character, on the login server's connection.  The rows of *)
(* a multi-row INSERT have consecutive keys, and mysql_stmt_insert_id      *)
(* returns the first: the others are computed from it.  An outfit has four *)
(* pieces when the top is a coat, else (an overall) three.                 *)

(* MUTANT of IdOf: the key of an overall's outfit for every outfit.        *)
IdOfNoPants(first, n, k) ==
    CASE k = 1 -> first
      [] k = 2 /\ n = 4 -> first + 1
      [] k = n - 1 -> first + 1
      [] k = n -> first + 2

IdOf(first, n, k) ==
    LET shoes == IF n = 4 THEN first + 2 ELSE first + 1
        weapon == IF n = 4 THEN first + 3 ELSE first + 2
    IN  CASE k = 1 -> first
          [] k = 2 /\ n = 4 -> first + 1
          [] k = n - 1 -> shoes
          [] k = n -> weapon

CreateStart(pieces) ==
    /\ Newcomer \in DOMAIN scene.home /\ creation.pc = 0
    /\ creation' = [pc |-> 1, pieces |-> pieces, first |-> 0]
    /\ UNCHANGED <<scene, db, mem, ground, job, saved, broken, astray, saves, moves, failures>>

CreateStatement ==
    LET n == Len(creation.pieces)
        id(k) == IdOf(creation.first, n, k)
        ids == [k \in 1 .. n |-> id(k)]
        then(first, d) == db' = d /\ creation' = [creation EXCEPT !.pc = @ + 1, !.first = first]
    IN  /\ \/ creation.pc = 1 /\ then(0, db)             \* the Characters row
           \/ creation.pc = 2 /\ then(db.next.items, InsertItems(db, creation.pieces))
           \/ creation.pc = 3 /\ then(db.next.equipment, InsertEquipment(db, ids))
           \/ creation.pc = 4 /\ then(db.next.owned, InsertOwned(db, ids, Newcomer))
           \/ creation.pc = 5 /\ then(0, [db EXCEPT !.worn = @ \cup Range(ids)])
           \/ creation.pc = 6 /\ then(0, db)             \* the default Keymaps
        /\ broken' = (broken \/ CASE creation.pc = 3 -> \E k \in 1 .. n : id(k) \notin Keys(db.items)
                                  [] creation.pc = 4 -> \E k \in 1 .. n : id(k) \notin Keys(db.equipment)
                                  [] creation.pc = 5 -> \E k \in 1 .. n : id(k) \notin Keys(db.owned) \ db.worn
                                  [] OTHER -> FALSE)
        /\ UNCHANGED <<scene, mem, ground, job, saved, astray, saves, moves, failures>>
-----------------------------------------------------------------------------
Next ==
    \/ \E c \in Char :
        \/ \E t \in EquipType \cup StackType : Gain(c, t)
        \/ \E p \in Place : Drop(c, p)
        \/ Login(c) \/ Equip(c) \/ PickUp(c) \/ StartSave(c) \/ StartLogout(c)
    \/ \E ch \in Channel :
        \/ \E k \in 1 .. Len(AllocateProgram) : AllocateStatement(ch, k)
        \/ StartUpdate(ch) \/ UpdateStatement(ch) \/ Fail(ch)
    \/ \E pieces \in Outfit : CreateStart(pieces)
    \/ CreateStatement

Spec == Init /\ [][Next]_vars
-----------------------------------------------------------------------------
Type == {NoType} \cup EquipType \cup StackType \cup UNION {Range(o) : o \in Outfit}
Thing == [type : Type, item : Nat, equip : Nat, own : Nat]

(* Types of the tables, of the characters in memory and of the requests.   *)
TypeOK ==
    /\ \A i \in Keys(db.items) : db.items[i] \in [type : Type, deleted : BOOLEAN]
    /\ Keys(db.stacks) \subseteq Keys(db.items) /\ Range(db.stacks) \subseteq Char
    /\ Range(db.equipment) \subseteq Keys(db.items)
    /\ \A o \in Keys(db.owned) : db.owned[o].equip \in Keys(db.equipment)
                                 /\ db.owned[o].chr \in Char \cup {Newcomer}
    /\ db.worn \cup db.bag \subseteq Keys(db.owned)
    /\ db.row \in [Char -> 0 .. scene.saves]
    /\ db.lists \in [Char -> [List -> {Gone} \cup 0 .. scene.saves]]
    /\ scene \in Scenes
    /\ mem \in [Char -> [at : Channel \cup {"none"}, carried : [Place -> Thing], kicked : BOOLEAN]]
    /\ ground \in [Channel -> Thing]
    /\ \A ch \in Channel : job[ch].kind \in {"none", "timer", "logout"}
    /\ astray \subseteq {"bag", "type"}

(* What a character carried at its last finished save and has not let go   *)
(* of since is in the tables, in the place it was saved in, under the      *)
(* character's name, and nothing else is; its row and lists are the saved  *)
(* ones.  Whatever other characters' saves, their purges of deleted items, *)
(* item transfers and failed saves did meanwhile.  Two things void it: a   *)
(* login that loads another bag than the stored one (BagIsLoaded says that *)
(* none does), and for the item_ids alone a logout that numbers a piece of *)
(* the bag: client_logout_cont hands over no item_id, and 0 is stored.     *)
SameThing(t, row) ==
    /\ [row EXCEPT !.type = t.type] = t
    /\ "type" \notin astray => row.type = t.type

StoredAt(c, t, p) ==
    IF p = "stack"
    THEN t.item \in StacksOf(db, c) /\ SameThing(t, [t EXCEPT !.type = db.items[t.item].type])
    ELSE /\ t.own \in OwnedBy(db, c) \cap (IF p = "worn" THEN db.worn ELSE db.bag)
         /\ SameThing(t, Row(db, t.own))

KeptIsStored ==
    "bag" \notin astray =>
        \A c \in Char :
            LET s == saved[c].copy
            IN  saved[c].fresh =>
                  /\ LoadedRest(db, c) = [row |-> s.row, lists |-> s.lists]
                  /\ \A p \in Filled(s.carried) :
                        s.carried[p].item \notin saved[c].given => StoredAt(c, s.carried[p], p)
                  /\ StacksOf(db, c) \subseteq {t.item : t \in Stacks(s)}
                  /\ OwnedBy(db, c) \cap db.worn \subseteq KeysAt(s, "worn")
                  /\ StoredBag(db, c) \subseteq KeysAt(s, "bag")

(* No statement of a save or of the creation of a character is refused: a  *)
(* row it refers to is there and a key it inserts is not, although rows    *)
(* come and go on other connections and keys travel with dropped things.   *)
(* Voided too by a login that loads another bag than the stored one: two   *)
(* characters may hold the same keys from then on.                         *)
KeysHold == "bag" \notin astray => ~broken

(* A created character wears its whole outfit, each piece once: the keys   *)
(* computed from the first one are the keys the rows have.                 *)
CreatedIsWhole ==
    creation.pc = 7 =>
        LET rows == LoadedWorn(db, Newcomer)
        IN  /\ {r.type : r \in rows} = Range(creation.pieces)
            /\ Cardinality(rows) = Len(creation.pieces)

(* InventoryEquipment holds keys of CharacterEquipment (sql/db.sql:147):   *)
(* the bag of a character that nobody plays is what these rows refer to.   *)
BagIsLoaded ==
    \A c \in Char : mem[c].at = "none" =>
        BagOf(db, c) = StoredBag(db, c)
=============================================================================
