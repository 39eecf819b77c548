------------------------------ MODULE MapDrops ------------------------------
(***************************************************************************)
(* The drops of a map (channel/map.c): what monsters, reactors and players *)
(* drop, who may pick it up, and the timers that end the owner's time and  *)
(* the drop.                                                               *)
(*                                                                         *)
(* Drops lie in batches.  A batch of several falls one by one, every 200   *)
(* milliseconds, in droppingBatches, and moves to dropBatches with the     *)
(* last.  The object list says for the id of a drop in which batch and at  *)
(* which place it is, so whatever moves a drop or a batch has to tell it.  *)
(* The handlers of the timers do not look at their handle: they take the   *)
(* first batch.  Places are counted from 1.                                *)
(*                                                                         *)
(* Timers run out in the order of their deadlines, without delay.  What a  *)
(* drop is, positions and packets are left out, and so are the lists of    *)
(* their own batches that players keep for map_pick_up_all.  The monsters  *)
(* are those of MapMonsters, reduced to their ids.                         *)
(***************************************************************************)
EXTENDS Integers, Sequences, FiniteSets, SequencesExt

CONSTANTS
    Player,
    DropCount,      \* how many drops a kill or a reactor brings
    MaxMonsters,    \* bound: monsters at a time
    MaxEnd,         \* bound: the end of dropBatches, with what still falls
    MaxDrops        \* bound: drops at a time

ASSUME DropCountAssumption == DropCount \subseteq Nat

VARIABLES
    map,            \* the fields of struct Map that hold drops
    reactor         \* the reactor: whole, dropping (keepAlive) or broken

vars == <<map, reactor>>

(* The fields of map:
     batches     dropBatches up to dropBatchEnd: Nil or a batch
     start       dropBatchStart
     capacity    dropBatchCapacity
     dropping    droppingBatches
     objects     the object list: id -> [type, index, index2]
     timers      the timers of the batches, in the order the batches came   *)
Nil == [drops |-> <<>>]
NoOid == -1
ReactorOid == 0

Alive(w) == {b \in 1 .. Len(w.batches) : w.batches[b] # Nil}
-----------------------------------------------------------------------------
(* object_list_allocate and object_list_free.  The code takes the id that  *)
(* was freed last; ids are only names here, and any that is free is taken. *)
NewOid(w) == CHOOSE o \in 0 .. Cardinality(DOMAIN w.objects) : o \notin DOMAIN w.objects

Allocate(w, object) ==
    [w EXCEPT !.objects = [o \in DOMAIN @ \cup {NewOid(w)} |-> IF o \in DOMAIN @ THEN @[o] ELSE object]]

FreeAll(w, oids) == [w EXCEPT !.objects = [o \in DOMAIN @ \ oids |-> @[o]]]
Free(w, oid) == FreeAll(w, {oid})

(* room_add_timer and room_stop_timer: ids of timers are only names, too.  *)
NewTimer(w) == CHOOSE t \in 0 .. Len(w.timers) : \A i \in 1 .. Len(w.timers) : w.timers[i].id # t
Stop(w, t) == [w EXCEPT !.timers = RemoveAt(@, CHOOSE i \in 1 .. Len(@) : @[i].id = t)]

(* A batch at the end of dropBatches, its timer started.                   *)
AddBatch(w, drops, owner, exclusive) ==
    [w EXCEPT !.capacity = IF Len(w.batches) = @ THEN 2 * @ ELSE @,
              !.batches = Append(@, [drops |-> drops, owner |-> owner, exclusive |-> exclusive,
                                     timer |-> NewTimer(w)]),
              !.timers = Append(@, [id |-> NewTimer(w),
                                    kind |-> IF exclusive THEN "exclusive" ELSE "expire"])]

(* A batch with one drop.                                                  *)
AddDrop(w, owner, exclusive) ==
    Allocate(AddBatch(w, <<NewOid(w)>>, owner, exclusive),
             [type |-> "drop", index |-> Len(w.batches) + 1, index2 |-> 1])
-----------------------------------------------------------------------------
(* MUTANT of Shift: the objects keep the old indices.                      *)
ShiftForgets(w, s) ==
    [w EXCEPT !.batches = SubSeq(@, s + 1, Len(@)), !.start = 0, !.capacity = @ \div 2]

(* The end of map_remove_drop and of on_drop_time_expired: dropBatchStart  *)
(* passes the empty places; when few batches are left they move to the     *)
(* front of the array, which is halved.                                    *)
Shift(w, s) ==
    [w EXCEPT !.batches = SubSeq(@, s + 1, Len(@)), !.start = 0, !.capacity = @ \div 2,
              !.objects = [o \in DOMAIN @ |-> IF @[o].type = "drop"
                                              THEN [@[o] EXCEPT !.index = w.objects[o].index - s]
                                              ELSE @[o]]]

SweepStep(w) ==
    LET s == w.start + 1
    IN  IF s > Len(w.batches) \/ w.batches[s] # Nil THEN w
        ELSE IF Len(w.batches) - s < w.capacity \div 4 THEN Shift(w, s)
        ELSE [w EXCEPT !.start = s]

Sweep(w) ==
    LET run[n \in 0 .. Len(w.batches)] == IF n = 0 THEN w ELSE SweepStep(run[n - 1])
    IN  run[Len(w.batches)]

(* map_remove_drop: the last drop of the batch takes the place.            *)
RemoveLying(w, oid) ==
    LET b == w.objects[oid].index
        j == w.objects[oid].index2
        batch == w.batches[b]
        drops == Front([batch.drops EXCEPT ![j] = Last(batch.drops)])
        told == [w EXCEPT !.objects[Last(batch.drops)].index2 = j]
        gone == Free(told, oid)
    IN  Sweep(IF drops # <<>> THEN [gone EXCEPT !.batches[b].drops = drops]
              ELSE [Stop(gone, batch.timer) EXCEPT !.batches[b] = Nil])

(* The last that has fallen takes the place, and the last that is still to *)
(* fall the place of that.                                                 *)
RemoveFalling(w, oid) ==
    LET b == w.objects[oid].index
        j == w.objects[oid].index2
        batch == w.dropping[b]
        moved == batch.drops[batch.current]
        drops == Front([batch.drops EXCEPT ![j] = moved, ![batch.current] = Last(batch.drops)])
        told == [w EXCEPT !.objects[moved].index2 = j,
                          !.dropping[b] = [batch EXCEPT !.drops = drops, !.current = @ - 1]]
    IN  Free(told, oid)

RemoveDrop(w, oid) == IF w.objects[oid].type = "drop" THEN RemoveLying(w, oid) ELSE RemoveFalling(w, oid)

(* do_client_auto_pickup, by an owner who is there, has it enabled and has *)
(* space: the outcomes.                                                    *)
AutoPickup(w, oid) == {w, RemoveDrop(w, oid)}
-----------------------------------------------------------------------------
FitsBound(w, n) ==
    /\ Len(w.batches) + Len(w.dropping) < MaxEnd
    /\ Cardinality({o \in DOMAIN w.objects : w.objects[o].type \in {"drop", "dropping"}}) + n <= MaxDrops

(* map_drop_batch_from_map_object with n > 1 drops: the first falls.       *)
StartFalling(w, p, dropper, n) ==
    Allocate([w EXCEPT !.dropping = Append(@,
                 [drops |-> [i \in 1 .. n |-> IF i = 1 THEN NewOid(w) ELSE NoOid],
                  current |-> 1, owner |-> p, dropper |-> dropper])],
             [type |-> "dropping", index |-> Len(w.dropping) + 1, index2 |-> 1])

(* map_drop_batch_from_map_object: the outcomes.                           *)
DropBatch(w, p, dropper, n) ==
    IF n = 0 THEN {w}
    ELSE AutoPickup(IF n = 1 THEN AddDrop(w, p, TRUE) ELSE StartFalling(w, p, dropper, n), NewOid(w))

(* map_kill_monster                                                        *)
KillMonster(w, oid) == Free(w, oid)

Falling(w) == {w.dropping[b].dropper : b \in 1 .. Len(w.dropping)}

(* map_damage_monster_by, when a monster's last hit points go and n things *)
(* of its drop table drop: with several it stays until the last has        *)
(* fallen, with none it stays for good.                                    *)
Slay(p, oid, n) ==
    /\ oid \in DOMAIN map.objects \ Falling(map) /\ map.objects[oid].type = "monster"
    /\ FitsBound(map, n)
    /\ \E w \in DropBatch(map, p, oid, n) :
        map' = IF n = 0 THEN [w EXCEPT !.objects[oid].type = "remains"]
               ELSE IF n = 1 THEN KillMonster(w, oid) ELSE w
    /\ UNCHANGED reactor

(* A monster without a drop table.                                         *)
SlayPoor(oid) ==
    /\ oid \in DOMAIN map.objects \ Falling(map) /\ map.objects[oid].type = "monster"
    /\ map' = KillMonster(map, oid)
    /\ UNCHANGED reactor

(* on_respawn, one monster.  What remains of one counts.                   *)
Respawn ==
    /\ Cardinality({o \in DOMAIN map.objects : map.objects[o].type \in {"monster", "remains"}}) < MaxMonsters
    /\ map' = Allocate(map, [type |-> "monster", index |-> 1, index2 |-> 1])
    /\ UNCHANGED reactor

(* map_drop_batch_from_reactor, of n drops.                                *)
ReactorDrops(w, p, n) == DropBatch(w, p, ReactorOid, n)

(* map_hit_reactor, when the hit breaks it and its script drops: the       *)
(* reactor is destroyed after the script, or with the last drop.           *)
HitReactor(p, n) ==
    /\ reactor = "whole"
    /\ FitsBound(map, n)
    /\ map' \in ReactorDrops(map, p, n)
    /\ reactor' = IF n > 1 THEN "dropping" ELSE "broken"

(* on_respawn_reactor                                                      *)
RespawnReactor == reactor = "broken" /\ reactor' = "whole" /\ UNCHANGED map

(* map_add_player_drop                                                     *)
PlayerDrop(p) ==
    /\ FitsBound(map, 1)
    /\ map' = AddDrop(map, p, FALSE)
    /\ UNCHANGED reactor

(* PICKUP: map_player_can_pick_up_drop, and the item is gained.            *)
MayPickUp(p, oid) ==
    LET object == map.objects[oid]
    IN  IF object.type = "dropping" THEN map.dropping[object.index].owner = p
        ELSE map.batches[object.index].owner = p \/ ~map.batches[object.index].exclusive

PickUp(p, oid) ==
    /\ oid \in DOMAIN map.objects /\ map.objects[oid].type \in {"drop", "dropping"}
    /\ MayPickUp(p, oid)
    /\ map' = RemoveDrop(map, oid)
    /\ UNCHANGED reactor
-----------------------------------------------------------------------------
(* on_next_drop: one more falls.                                           *)
Fallen(w, b) ==
    LET n == w.dropping[b].current + 1
    IN  Allocate([w EXCEPT !.dropping[b].drops[n] = NewOid(w), !.dropping[b].current = n],
                 [type |-> "dropping", index |-> b, index2 |-> n])

(* The last dropping batch takes place b, and its drops are told.          *)
CloseGap(w, b) ==
    LET last == Last(w.dropping)
    IN  [w EXCEPT !.dropping = Front([@ EXCEPT ![b] = last]),
                  !.objects = [o \in DOMAIN @ |->
                      IF \E i \in 1 .. last.current : last.drops[i] = o THEN [@[o] EXCEPT !.index = b] ELSE @[o]]]

(* The batch has fallen: it moves to dropBatches.                          *)
Settled(w, b) ==
    LET batch == w.dropping[b]
        closed == CloseGap(AddBatch(w, batch.drops, batch.owner, TRUE), b)
    IN  [closed EXCEPT !.objects = [o \in DOMAIN @ |->
            IF o \in Range(batch.drops) THEN [@[o] EXCEPT !.type = "drop", !.index = Len(closed.batches)]
            ELSE @[o]]]

NextDrop(b) ==
    LET batch == map.dropping[b]
        w == Fallen(map, b)
        done == Settled(w, b)
    IN
    IF batch.current + 1 < Len(batch.drops)
    THEN map' \in AutoPickup(w, NewOid(map)) /\ UNCHANGED reactor
    ELSE IF batch.dropper = ReactorOid
    THEN map' \in AutoPickup(done, NewOid(map)) /\ reactor' = "broken"
    ELSE map' \in AutoPickup(KillMonster(done, batch.dropper), NewOid(map)) /\ UNCHANGED reactor

(* The exclusive timers run out in the order they were started.            *)
FirstExclusive == {t \in 1 .. Len(map.timers) :
                      /\ map.timers[t].kind = "exclusive"
                      /\ \A u \in 1 .. t - 1 : map.timers[u].kind # "exclusive"}

(* MUTANT of FirstOwned: the first batch, owned or not.                    *)
FirstLying(w) == CHOOSE b \in Alive(w) : \A c \in Alive(w) : b <= c

(* on_exclusive_drop_time_expired: the first exclusive batch.              *)
FirstOwned(w) ==
    CHOOSE b \in Alive(w) : /\ w.batches[b].exclusive
                            /\ \A c \in Alive(w) : w.batches[c].exclusive => b <= c

ExclusiveOver ==
    \E t \in FirstExclusive :
        /\ map' = [map EXCEPT !.batches[FirstOwned(map)].exclusive = FALSE,
                              !.batches[FirstOwned(map)].timer = NewTimer(map),
                              !.timers[t] = [id |-> NewTimer(map), kind |-> "expire"]]
        /\ UNCHANGED reactor

(* on_drop_time_expired, of the oldest timer: the first batch goes.        *)
Expired ==
    /\ map.timers # <<>> /\ Head(map.timers).kind = "expire"
    /\ LET b == map.start + 1
           gone == FreeAll([map EXCEPT !.timers = Tail(@)], Range(map.batches[b].drops))
       IN  map' = Sweep([gone EXCEPT !.batches[b] = Nil])
    /\ UNCHANGED reactor
-----------------------------------------------------------------------------
(* map_create: a reactor and no drops.                                     *)
Init ==
    /\ map = [batches |-> <<>>, start |-> 0, capacity |-> 1, dropping |-> <<>>,
              objects |-> [o \in {ReactorOid} |-> [type |-> "reactor", index |-> 1, index2 |-> 1]],
              timers |-> <<>>]
    /\ reactor = "whole"

Next ==
    \/ \E p \in Player :
        \/ \E n \in DropCount : HitReactor(p, n) \/ \E oid \in DOMAIN map.objects : Slay(p, oid, n)
        \/ PlayerDrop(p)
        \/ \E oid \in DOMAIN map.objects : PickUp(p, oid)
    \/ \E oid \in DOMAIN map.objects : SlayPoor(oid)
    \/ \E b \in 1 .. Len(map.dropping) : NextDrop(b)
    \/ Respawn \/ RespawnReactor
    \/ ExclusiveOver \/ Expired

Spec == Init /\ [][Next]_vars
-----------------------------------------------------------------------------
(* The object list and the batches agree, whatever was removed, moved or   *)
(* moved to the front: the id of every drop leads to the place where it    *)
(* is, every object of a drop has a drop, the array holds the batches, and *)
(* the dropper of a batch that still falls is there, as on_next_drop       *)
(* expects.                                                                *)
Lies(b, j) == [type |-> "drop", index |-> b, index2 |-> j]
Falls(b, j) == [type |-> "dropping", index |-> b, index2 |-> j]

DropsLead ==
    /\ \A b \in Alive(map) : \A j \in 1 .. Len(map.batches[b].drops) :
        map.batches[b].drops[j] \in DOMAIN map.objects /\ map.objects[map.batches[b].drops[j]] = Lies(b, j)
    /\ \A b \in 1 .. Len(map.dropping) :
        /\ \A j \in 1 .. map.dropping[b].current :
            map.dropping[b].drops[j] \in DOMAIN map.objects /\ map.objects[map.dropping[b].drops[j]] = Falls(b, j)
        /\ map.dropping[b].current < Len(map.dropping[b].drops)
        /\ map.dropping[b].dropper \in DOMAIN map.objects
        /\ map.objects[map.dropping[b].dropper].type \in {"monster", "reactor"}
    /\ \A o \in DOMAIN map.objects :
        /\ map.objects[o].type = "drop" => \E b \in Alive(map) : o \in Range(map.batches[b].drops)
        /\ map.objects[o].type = "dropping" => \E b \in 1 .. Len(map.dropping) : o \in Range(map.dropping[b].drops)
    /\ Len(map.batches) <= map.capacity

(* Every batch has its own timer running, of the kind its owner's time     *)
(* calls for, in the order of the array: the batch a timer's handler takes *)
(* is the one it was started for, so no drop goes early and none is        *)
(* forgotten, and the timer that map_remove_drop stops still runs.         *)
TimerOf(batch) == [id |-> batch.timer, kind |-> IF batch.exclusive THEN "exclusive" ELSE "expire"]
IsOf(timer, batch) == timer.id = batch.timer

TimersMatch ==
    LET alive == Alive(map)
        ts == 1 .. Len(map.timers)
    IN  /\ \A b \in alive : \E i \in ts : map.timers[i] = TimerOf(map.batches[b])
        /\ \A i \in ts : \E b \in alive : IsOf(map.timers[i], map.batches[b])
        /\ \A i \in ts, b \in alive : IsOf(map.timers[i], map.batches[b]) =>
             \A j \in ts, c \in alive : IsOf(map.timers[j], map.batches[c]) => (i < j <=> b < c)
        /\ map.start < Len(map.batches) => map.batches[map.start + 1] # Nil
=============================================================================
