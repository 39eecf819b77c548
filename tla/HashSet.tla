------------------------------ MODULE HashSet ------------------------------
(***************************************************************************)
(* The open-addressing set of hash-map.c, on which every table of the two  *)
(* servers rests: sessions, rooms, pending logins, quests, skills.         *)
(*                                                                         *)
(* An operation runs to its end on one thread (callers that share a set    *)
(* hold a mutex), so an operation is one step, with two exceptions.        *)
(* Rehashing into a new array is one step per slot of the old one, and     *)
(* hash_set_u32_foreach is one step per slot it looks at, because its      *)
(* callback calls back into the set.  A probing loop is described by the   *)
(* slot at which it stops (StopsAt): a loop that never stops leaves its    *)
(* operation without a step, which TLC reports as a deadlock.              *)
(***************************************************************************)
EXTENDS Naturals, FiniteSets

CONSTANTS
    Key,            \* keys of the entries
    NoKey,          \* contents of memory that was never written
    Hash,           \* XXH3_64bits of each key
    MaxCapacity,    \* bound: no array grows beyond this many slots
    MaxCount        \* bound: no insert beyond this many entries

ASSUME KeyAssumption  == NoKey \notin Key
ASSUME HashAssumption == Hash \in [Key -> Nat]
ASSUME MaxAssumption  == MaxCapacity \in Nat \ {0} /\ MaxCount \in Nat

(* The states of a slot, as the comment on HashSet.states numbers them. *)
Free     == 0
Occupied == 1
Deleted  == 2

VARIABLES
    capacity, count,    \* struct HashSet
    states, keys,       \* struct HashSet: slot -> state, slot -> key part of data
    iterating,          \* struct HashSet
    cursor,             \* slot the running foreach looks at next (capacity: none)
    seen,               \* keys the running foreach has handed to its callback
    targets,            \* keys in the set when the running foreach began
    pc,                 \* "idle", "place", "grow" or "shrink"
    arg,                \* key the pending insert brings
    newCapacity, newStates, newKeys,    \* the array being filled by a rehash
    moved               \* slots of the old array the rehash has dealt with

table   == <<capacity, count, states, keys>>
rehash  == <<newCapacity, newStates, newKeys, moved>>
foreach == <<iterating, cursor, seen, targets>>
vars    == <<table, foreach, pc, arg, rehash>>

----------------------------------------------------------------------------
(* Probing *)

Slots(cap) == 0 .. (cap - 1)

Home(k, cap) == Hash[k] % cap

(* m is passed by a probe that starts at h and stops at j. *)
Passed(h, m, j) == IF h <= j THEN h <= m /\ m < j
                             ELSE h <= m \/ m < j

(* The loop that starts at h, steps to the next slot modulo cap and goes   *)
(* on while the slot is in skip, stops at j.                               *)
StopsAt(cap, h, skip, j) ==
    /\ j \in Slots(cap) \ skip
    /\ \A m \in Slots(cap) : Passed(h, m, j) => m \in skip

Occ(st, cap) == {m \in Slots(cap) : st[m] = Occupied}

(* Slots that hash_set_get and hash_set_remove step over. *)
NotMatching(k) == {m \in Slots(capacity) :
                      \/ states[m] = Deleted
                      \/ states[m] = Occupied /\ keys[m] # k}

(* hash_set_get: the slots it can return; empty stands for NULL, which it  *)
(* returns at a free slot and when it is back at its start.                *)
Get(k) == {j \in Slots(capacity) :
              /\ StopsAt(capacity, Home(k, capacity), NotMatching(k), j)
              /\ states[j] = Occupied}

Present(k) == \E m \in Slots(capacity) : states[m] = Occupied /\ keys[m] = k

----------------------------------------------------------------------------
Init ==
    /\ capacity = 1 /\ count = 0
    /\ states = [m \in Slots(1) |-> Free]
    /\ keys = [m \in Slots(1) |-> NoKey]
    /\ iterating = FALSE
    /\ cursor = 1 /\ seen = {} /\ targets = {}
    /\ pc = "idle" /\ arg = NoKey
    /\ newCapacity = 0 /\ moved = 0
    /\ newStates = [m \in Slots(0) |-> Free]
    /\ newKeys = [m \in Slots(0) |-> NoKey]

(* A new, free array of cap slots, to be filled by rehashing. *)
StartRehash(cap) ==
    /\ newCapacity' = cap
    /\ newStates' = [m \in Slots(cap) |-> Free]
    /\ newKeys' = [m \in Slots(cap) |-> NoKey]
    /\ moved' = 0

(* hash_set_insert up to its test for a full array. *)
InsertFull(k) ==
    /\ pc = "idle" /\ ~iterating
    /\ count = capacity /\ count < MaxCount
    /\ 2 * capacity <= MaxCapacity
    /\ pc' = "grow" /\ arg' = k
    /\ StartRehash(2 * capacity)
    /\ UNCHANGED <<table, foreach>>

InsertRoom(k) ==
    /\ pc = "idle" /\ ~iterating
    /\ count < capacity /\ count < MaxCount
    /\ pc' = "place" /\ arg' = k
    /\ UNCHANGED <<table, foreach, rehash>>

(* MUTANT: the loop runs over the slots of the new array only. *)
CopiesNewSlots(m) == m < newCapacity /\ states[m] = Occupied

(* One turn of a rehashing loop.  hash_set_insert copies every slot, its   *)
(* array being full; realloc_set copies the occupied ones.                 *)
Copies(m) == pc = "grow" \/ states[m] = Occupied

Move ==
    /\ pc \in {"grow", "shrink"}
    /\ moved < capacity
    /\ IF Copies(moved)
         THEN \E j \in Slots(newCapacity) :
                 /\ StopsAt(newCapacity, Home(keys[moved], newCapacity),
                            {m \in Slots(newCapacity) : newStates[m] # Free}, j)
                 /\ newStates' = [newStates EXCEPT ![j] = Occupied]
                 /\ newKeys' = [newKeys EXCEPT ![j] = keys[moved]]
         ELSE UNCHANGED <<newStates, newKeys>>
    /\ moved' = moved + 1
    /\ UNCHANGED <<table, foreach, pc, arg, newCapacity>>

(* MUTANT: set->capacity keeps its old value. *)
SwapKeepsCapacity ==
    /\ pc \in {"grow", "shrink"}
    /\ moved = capacity
    /\ states' = newStates
    /\ keys' = newKeys
    /\ StartRehash(0)
    /\ pc' = IF pc = "grow" THEN "place" ELSE "idle"
    /\ UNCHANGED <<capacity, cursor, count, arg, iterating, seen, targets>>

(* The new array replaces the old one; an insert goes on to place its entry. *)
Swap ==
    /\ pc \in {"grow", "shrink"}
    /\ moved = capacity
    /\ capacity' = newCapacity
    /\ states' = newStates
    /\ keys' = newKeys
    /\ StartRehash(0)
    /\ pc' = IF pc = "grow" THEN "place" ELSE "idle"
    /\ cursor' = IF iterating THEN cursor ELSE newCapacity
    /\ UNCHANGED <<count, arg, iterating, seen, targets>>

(* hash_set_insert after its test for a full array. *)
Place ==
    /\ pc = "place"
    /\ \E j \in Slots(capacity) :
          /\ StopsAt(capacity, Home(arg, capacity), Occ(states, capacity), j)
          /\ states' = [states EXCEPT ![j] = Occupied]
          /\ keys' = [keys EXCEPT ![j] = arg]
    /\ count' = count + 1
    /\ pc' = "idle" /\ arg' = NoKey
    /\ UNCHANGED <<capacity, foreach, rehash>>

(* MUTANT: the slot is marked as never used. *)
DeleteFrees(k) ==
    /\ Present(k)
    /\ \E j \in Slots(capacity) :
          /\ StopsAt(capacity, Home(k, capacity), NotMatching(k), j)
          /\ states' = [states EXCEPT ![j] = Free]
    /\ count' = count - 1
    /\ UNCHANGED <<capacity, keys>>

(* What hash_set_remove does to the array; the caller holds a present key. *)
Delete(k) ==
    /\ Present(k)
    /\ \E j \in Slots(capacity) :
          /\ StopsAt(capacity, Home(k, capacity), NotMatching(k), j)
          /\ states' = [states EXCEPT ![j] = Deleted]
    /\ count' = count - 1
    /\ UNCHANGED <<capacity, keys>>

(* The test before realloc_set, on the value count takes. *)
Sparse(n) == n < capacity \div 4

(* realloc_set, if wanted; it gives up without a word when memory is short. *)
MayShrink(wanted) ==
    \/ /\ wanted
       /\ pc' = "shrink"
       /\ StartRehash(capacity \div 2)
    \/ UNCHANGED <<pc, rehash>>

(* MUTANT: the array is resized under a running foreach. *)
RemoveEntryAlwaysShrinks(k) ==
    /\ Delete(k)
    /\ MayShrink(Sparse(count - 1))

(* hash_set_remove: no resizing under a running foreach. *)
RemoveEntry(k) ==
    /\ Delete(k)
    /\ MayShrink(~iterating /\ Sparse(count - 1))

Remove(k) ==
    /\ pc = "idle" /\ ~iterating
    /\ RemoveEntry(k)
    /\ UNCHANGED <<foreach, arg>>

Clear ==
    /\ pc = "idle" /\ ~iterating
    /\ capacity' = 1 /\ count' = 0
    /\ states' = [m \in Slots(1) |-> Free]
    /\ keys' = [m \in Slots(1) |-> keys[m]]
    /\ cursor' = 1
    /\ UNCHANGED <<iterating, seen, targets, pc, arg, rehash>>

----------------------------------------------------------------------------
(* hash_set_u32_foreach *)

ForeachBegin ==
    /\ pc = "idle" /\ ~iterating
    /\ iterating' = TRUE
    /\ cursor' = 0 /\ seen' = {}
    /\ targets' = {keys[m] : m \in Occ(states, capacity)}
    /\ UNCHANGED <<table, pc, arg, rehash>>

ForeachSkip ==
    /\ pc = "idle" /\ iterating /\ cursor < capacity
    /\ states[cursor] # Occupied
    /\ cursor' = cursor + 1
    /\ UNCHANGED <<table, iterating, seen, targets, pc, arg, rehash>>

Hand ==
    /\ pc = "idle" /\ iterating /\ cursor < capacity
    /\ states[cursor] = Occupied
    /\ seen' = seen \cup {keys[cursor]}
    /\ cursor' = cursor + 1
    /\ UNCHANGED <<iterating, targets, arg>>

(* A callback that leaves the set alone. *)
ForeachVisit == Hand /\ UNCHANGED <<table, pc, rehash>>

(* A callback that removes the entry it was handed, as do_kill_room does   *)
(* through destroy_room.                                                   *)
ForeachRemove == Hand /\ RemoveEntry(keys[cursor])

ForeachEnd ==
    /\ pc = "idle" /\ iterating /\ cursor >= capacity
    /\ iterating' = FALSE
    /\ cursor' = capacity
    /\ MayShrink(Sparse(count))
    /\ seen' = {} /\ targets' = {}
    /\ UNCHANGED <<table, arg>>

----------------------------------------------------------------------------
Next ==
    \/ \E k \in Key : InsertFull(k) \/ InsertRoom(k) \/ Remove(k)
    \/ Move \/ Swap \/ Place \/ Clear
    \/ ForeachBegin \/ ForeachSkip \/ ForeachVisit \/ ForeachRemove \/ ForeachEnd

Spec == Init /\ [][Next]_vars

----------------------------------------------------------------------------
(* Properties *)

(* Every variable keeps its type; the arrays always have capacity slots. *)
TypeOK ==
    /\ capacity \in 1 .. MaxCapacity /\ count \in Nat
    /\ states \in [Slots(capacity) -> {Free, Occupied, Deleted}]
    /\ keys \in [Slots(capacity) -> Key \cup {NoKey}]
    /\ iterating \in BOOLEAN /\ cursor \in Nat
    /\ seen \subseteq Key /\ targets \subseteq Key
    /\ pc \in {"idle", "place", "grow", "shrink"}
    /\ arg \in Key \cup {NoKey}
    /\ newCapacity \in 0 .. MaxCapacity /\ moved \in 0 .. capacity
    /\ newStates \in [Slots(newCapacity) -> {Free, Occupied}]
    /\ newKeys \in [Slots(newCapacity) -> Key \cup {NoKey}]

(* Occupied slots hold real keys, and no probe for the key of an occupied  *)
(* slot meets a free slot before it: what lets hash_set_get stop there.    *)
Chained(st, ks, cap) ==
    \A m \in Occ(st, cap) :
        /\ ks[m] \in Key
        /\ \A n \in Slots(cap) : Passed(Home(ks[m], cap), n, m) => st[n] # Free

KeysIn(st, ks, upto) == {ks[m] : m \in Occ(st, upto)}

(* The invariant behind the set: count is the number of occupied slots,    *)
(* probe chains are unbroken, an insert finds room, and a half-filled new  *)
(* array holds what the old one holds below `moved`.                       *)
IndInv ==
    /\ count = Cardinality(Occ(states, capacity))
    /\ Chained(states, keys, capacity)
    /\ pc = "place" => count < capacity /\ arg \in Key
    /\ pc = "grow" => count = capacity /\ arg \in Key /\ newCapacity = 2 * capacity
    /\ pc = "shrink" => count < capacity \div 4 /\ newCapacity = capacity \div 2
    /\ pc \in {"grow", "shrink"} =>
          /\ Chained(newStates, newKeys, newCapacity)
          /\ KeysIn(newStates, newKeys, newCapacity) = KeysIn(states, keys, moved)
          /\ Cardinality(Occ(newStates, newCapacity)) = Cardinality(Occ(states, moved))
    /\ pc \notin {"grow", "shrink"} => moved = 0 /\ newCapacity = 0
    /\ iterating => pc = "idle"

(* hash_set_get answers with an entry of the key it was asked for exactly  *)
(* when the set holds one, whatever inserts, removes, resizes and foreach  *)
(* loops came before.                                                      *)
GetFinds ==
    \A k \in Key : /\ Present(k) <=> Get(k) # {}
                   /\ \A j \in Get(k) : keys[j] = k

(* hash_set_u32_foreach hands every key that was in the set when it began  *)
(* to its callback, although the callback removes entries under it.        *)
ForeachComplete ==
    iterating => \A k \in targets : \/ k \in seen
                                    \/ \E m \in Occ(states, capacity) :
                                          cursor <= m /\ keys[m] = k

(* The entries of the set: a bag of keys that resizing never changes. *)
Bag == INSTANCE KeyBag WITH
    content <- [k \in Key |-> Cardinality({m \in Occ(states, capacity) : keys[m] = k})],
    busy <- IF pc = "shrink" THEN "tidying" ELSE arg

(* The table implements the bag: insert adds one entry, remove takes away  *)
(* one entry of the key it was given, and every other step, each step of a *)
(* resize included, leaves the entries alone.                              *)
ImplementsBag == Bag!Spec
============================================================================
