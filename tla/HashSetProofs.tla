--------------------------- MODULE HashSetProofs ---------------------------
(***************************************************************************)
(* Proofs about HashSet, for every key set, hash function and bound.       *)
(* Inv == TypeOK /\ IndInv is inductive; GetFinds follows from it, and     *)
(* ForeachComplete is inductive relative to it.  With BagInv, which        *)
(* follows the amounts through a rehash, every step is one of KeyBag or    *)
(* changes no amount.                                                      *)
(***************************************************************************)
EXTENDS HashSet, FiniteSetTheorems, WellFoundedInduction, TLAPS

Inv == TypeOK /\ IndInv

(* The home slot of a key is a slot. *)
LEMMA HomeType ==
    ASSUME NEW k \in Key, NEW cap \in Nat \ {0}
    PROVE  Home(k, cap) \in Slots(cap)
<1>1. Hash[k] \in Nat
  BY HashAssumption
<1>. QED  BY <1>1 DEF Home, Slots

(* Occupied slots form a finite set, no larger than the array. *)
LEMMA OccFinite ==
    ASSUME NEW cap \in Nat, NEW st
    PROVE  /\ IsFiniteSet(Slots(cap)) /\ Cardinality(Slots(cap)) = cap
           /\ IsFiniteSet(Occ(st, cap)) /\ Cardinality(Occ(st, cap)) \in Nat
           /\ Cardinality(Occ(st, cap)) <= cap
           /\ Cardinality(Occ(st, cap)) = cap => Occ(st, cap) = Slots(cap)
<1>1. IsFiniteSet(Slots(cap)) /\ Cardinality(Slots(cap)) = cap
  BY FS_Interval DEF Slots
<1>2. Occ(st, cap) \in SUBSET Slots(cap)
  BY DEF Occ
<1>. QED  BY <1>1, <1>2, FS_Subset, FS_CardinalityType

(* Writing an entry where its probe stops keeps every chain unbroken. *)
LEMMA PlaceChained ==
    ASSUME NEW cap \in Nat \ {0}, NEW k \in Key, NEW j, NEW skip,
           NEW st \in [Slots(cap) -> {Free, Occupied, Deleted}],
           NEW ks \in [Slots(cap) -> Key \cup {NoKey}],
           Chained(st, ks, cap),
           \A m \in skip : st[m] # Free,
           StopsAt(cap, Home(k, cap), skip, j),
           NEW st2, st2 = [st EXCEPT ![j] = Occupied],
           NEW ks2, ks2 = [ks EXCEPT ![j] = k]
    PROVE  Chained(st2, ks2, cap)
<1>0. j \in Slots(cap)
  BY DEF StopsAt
<1>1. \A n \in Slots(cap) : st[n] # Free => st2[n] # Free
  BY <1>0 DEF Free, Occupied, Deleted
<1>2. \A m \in Occ(st2, cap) : m # j => m \in Occ(st, cap) /\ ks2[m] = ks[m]
  BY <1>0 DEF Occ
<1>3. ks2[j] = k
  BY <1>0
<1>4. SUFFICES ASSUME NEW m \in Occ(st2, cap)
               PROVE  /\ ks2[m] \in Key
                      /\ \A n \in Slots(cap) :
                            Passed(Home(ks2[m], cap), n, m) => st2[n] # Free
  BY DEF Chained
<1>5. CASE m = j
  <2>1. \A n \in Slots(cap) : Passed(Home(k, cap), n, j) => n \in skip
    BY DEF StopsAt
  <2>. QED  BY <1>1, <1>3, <1>5, <2>1
<1>6. CASE m # j
  BY <1>1, <1>2, <1>6 DEF Chained
<1>. QED  BY <1>5, <1>6

(* Marking a slot deleted keeps every chain unbroken. *)
LEMMA DeleteChained ==
    ASSUME NEW cap \in Nat \ {0}, NEW j \in Slots(cap),
           NEW st \in [Slots(cap) -> {Free, Occupied, Deleted}], NEW ks,
           Chained(st, ks, cap),
           NEW st2, st2 = [st EXCEPT ![j] = Deleted]
    PROVE  Chained(st2, ks, cap)
<1>1. \A n \in Slots(cap) : st[n] # Free => st2[n] # Free
  BY DEF Free, Occupied, Deleted
<1>2. Occ(st2, cap) \subseteq Occ(st, cap)
  BY DEF Occ, Occupied, Deleted
<1>. QED  BY <1>1, <1>2 DEF Chained

(* Marking slots of st occupied or deleted changes the number of occupied  *)
(* slots by one.                                                           *)
LEMMA OccAdd ==
    ASSUME NEW cap \in Nat, NEW j \in Slots(cap),
           NEW st \in [Slots(cap) -> {Free, Occupied, Deleted}], st[j] # Occupied,
           NEW st2, st2 = [st EXCEPT ![j] = Occupied]
    PROVE  Cardinality(Occ(st2, cap)) = Cardinality(Occ(st, cap)) + 1
<1>1. Occ(st2, cap) = Occ(st, cap) \cup {j} /\ j \notin Occ(st, cap)
  BY DEF Occ, Occupied
<1>. QED  BY <1>1, OccFinite, FS_AddElement

(* Deleting the entry of a slot takes that slot, and no other, out of the  *)
(* occupied ones.                                                          *)
LEMMA OccDel ==
    ASSUME NEW cap \in Nat, NEW j \in Slots(cap),
           NEW st \in [Slots(cap) -> {Free, Occupied, Deleted}], st[j] = Occupied,
           NEW st2, st2 = [st EXCEPT ![j] = Deleted]
    PROVE  /\ Cardinality(Occ(st2, cap)) = Cardinality(Occ(st, cap)) - 1
           /\ Cardinality(Occ(st, cap)) > 0
<1>1. Occ(st2, cap) = Occ(st, cap) \ {j} /\ j \in Occ(st, cap)
  BY DEF Occ, Occupied, Deleted
<1>2. IsFiniteSet(Occ(st, cap)) /\ Cardinality(Occ(st, cap)) \in Nat
  BY OccFinite
<1>3. Cardinality(Occ(st, cap) \ {j}) = Cardinality(Occ(st, cap)) - 1
  BY <1>1, <1>2, FS_RemoveElement
<1>4. Cardinality(Occ(st, cap)) # 0
  BY <1>1, <1>2, FS_EmptySet
<1>5. Cardinality(Occ(st2, cap)) = Cardinality(Occ(st, cap) \ {j})
  BY <1>1, Zenon
<1>6. Cardinality(Occ(st, cap)) > 0
  BY <1>2, <1>4
<1>. QED  BY <1>1, <1>3, <1>5, <1>6, Zenon

(* A probe for a key that is present stops at an entry of that key. *)
LEMMA ProbeHits ==
    ASSUME TypeOK, Chained(states, keys, capacity), NEW k \in Key, Present(k),
           NEW j, StopsAt(capacity, Home(k, capacity), NotMatching(k), j)
    PROVE  j \in Slots(capacity) /\ states[j] = Occupied /\ keys[j] = k
<1>1. j \in Slots(capacity) /\ j \notin NotMatching(k)
  BY DEF StopsAt
<1>2. SUFFICES states[j] # Free
  BY <1>1 DEF NotMatching, TypeOK, Free, Occupied, Deleted
<1>3. PICK m \in Slots(capacity) : states[m] = Occupied /\ keys[m] = k
  BY DEF Present
<1>4. m \notin NotMatching(k)
  BY <1>3 DEF NotMatching, Occupied, Deleted
<1>5. ~Passed(Home(k, capacity), m, j)
  BY <1>4 DEF StopsAt
<1>6. j = m \/ Passed(Home(k, capacity), j, m)
  <2>1. Home(k, capacity) \in Nat /\ j \in Nat /\ m \in Nat
    BY <1>1, HomeType DEF TypeOK, Slots
  <2>. QED  BY <1>5, <2>1 DEF Passed
<1>7. \A n \in Slots(capacity) : Passed(Home(k, capacity), n, m) => states[n] # Free
  BY <1>3 DEF Chained, Occ
<1>. QED  BY <1>1, <1>3, <1>6, <1>7 DEF Free, Occupied

----------------------------------------------------------------------------
(* One lemma per action or group of actions: it keeps Inv. *)

(* The rehash part of a step that begins to fill a new array. *)
LEMMA FreshArray ==
    ASSUME NEW cap \in Nat,
           NEW st, st = [m \in Slots(cap) |-> Free],
           NEW ks, ks = [m \in Slots(cap) |-> NoKey]
    PROVE  /\ st \in [Slots(cap) -> {Free, Occupied}]
           /\ ks \in [Slots(cap) -> Key \cup {NoKey}]
           /\ Occ(st, cap) = {} /\ Cardinality(Occ(st, cap)) = 0
           /\ Chained(st, ks, cap) /\ KeysIn(st, ks, cap) = {}
<1>1. Occ(st, cap) = {}
  BY DEF Occ, Free, Occupied
<1>. QED  BY <1>1, FS_EmptySet DEF Chained, KeysIn

(* No slot lies below slot 0, so nothing has been moved when a rehash      *)
(* begins.                                                                 *)
LEMMA EmptyBelow ==
    ASSUME NEW st, NEW ks
    PROVE  KeysIn(st, ks, 0) = {} /\ Occ(st, 0) = {} /\ Cardinality(Occ(st, 0)) = 0
<1>1. Occ(st, 0) = {}
  BY DEF Occ, Slots
<1>. QED  BY <1>1, FS_EmptySet DEF KeysIn

(* The initial states satisfy the invariant. *)
LEMMA InitInv == Init => Inv
<1>. SUFFICES ASSUME Init PROVE Inv
  OBVIOUS
<1>1. TypeOK
  BY MaxAssumption DEF Init, TypeOK, Slots
<1>2. Occ(states, capacity) = {}
  BY DEF Init, Occ, Free, Occupied
<1>3. IndInv
  BY <1>2, FS_EmptySet DEF Init, IndInv, Chained
<1>. QED  BY <1>1, <1>3 DEF Inv

(* hash_set_insert up to its test for a full array keeps the invariant. *)
LEMMA InsertInv ==
    ASSUME Inv, NEW k \in Key, InsertFull(k) \/ InsertRoom(k)
    PROVE  Inv'
<1>1. CASE InsertFull(k)
  <2>1. TypeOK'
    BY <1>1, FreshArray DEF Inv, TypeOK, InsertFull, StartRehash, table, foreach
  <2>2. /\ Chained(newStates', newKeys', newCapacity')
        /\ KeysIn(newStates', newKeys', newCapacity') = {}
        /\ Cardinality(Occ(newStates', newCapacity')) = 0
    BY <1>1, FreshArray DEF InsertFull, StartRehash, Inv, TypeOK
  <2>3. IndInv'
    BY <1>1, <2>2, EmptyBelow DEF Inv, IndInv, InsertFull, StartRehash, table, foreach
  <2>. QED  BY <2>1, <2>3 DEF Inv
<1>2. CASE InsertRoom(k)
  BY <1>2 DEF Inv, TypeOK, IndInv, InsertRoom, table, foreach, rehash
<1>. QED  BY <1>1, <1>2

(* The slot an insert probes for keeps every chain unbroken. *)
LEMMA PlaceInv ==
    ASSUME Inv, Place
    PROVE  Inv'
<1>1. PICK j \in Slots(capacity) :
          /\ StopsAt(capacity, Home(arg, capacity), Occ(states, capacity), j)
          /\ states' = [states EXCEPT ![j] = Occupied]
          /\ keys' = [keys EXCEPT ![j] = arg]
  BY DEF Place
<1>2. arg \in Key /\ count < capacity
  BY DEF Place, Inv, IndInv
<1>3. states[j] # Occupied
  BY <1>1 DEF StopsAt, Occ
<1>4. TypeOK'
  BY <1>1, <1>2 DEF Inv, TypeOK, Place, foreach, rehash
<1>5. Chained(states', keys', capacity)
  <2>1. \A m \in Occ(states, capacity) : states[m] # Free
    BY DEF Occ, Occupied, Free
  <2>2. /\ capacity \in Nat \ {0}
        /\ states \in [Slots(capacity) -> {Free, Occupied, Deleted}]
        /\ keys \in [Slots(capacity) -> Key \cup {NoKey}]
        /\ Chained(states, keys, capacity)
    BY DEF Inv, TypeOK, IndInv
  <2>. QED  BY <1>1, <1>2, <2>1, <2>2, PlaceChained, Zenon
<1>6. Cardinality(Occ(states', capacity)) = count + 1
  <2>1. capacity \in Nat /\ states \in [Slots(capacity) -> {Free, Occupied, Deleted}]
    BY DEF Inv, TypeOK
  <2>2. Cardinality(Occ(states', capacity)) = Cardinality(Occ(states, capacity)) + 1
    BY <1>1, <1>3, <2>1, OccAdd, Zenon
  <2>. QED  BY <2>2 DEF Inv, IndInv
<1>7. IndInv'
  BY <1>5, <1>6 DEF Inv, IndInv, Place, foreach, rehash
<1>. QED  BY <1>4, <1>7 DEF Inv

(* What removing an entry does to the array. *)
LEMMA DeleteEffect ==
    ASSUME Inv, NEW k \in Key, Delete(k)
    PROVE  \E j \in Slots(capacity) :
              /\ states[j] = Occupied /\ keys[j] = k
              /\ states' = [states EXCEPT ![j] = Deleted]
              /\ states' \in [Slots(capacity) -> {Free, Occupied, Deleted}]
              /\ count' = count - 1 /\ count' \in Nat
              /\ keys' = keys /\ capacity' = capacity
              /\ count' = Cardinality(Occ(states', capacity))
              /\ Chained(states', keys, capacity)
<1>1. PICK j \in Slots(capacity) :
          /\ StopsAt(capacity, Home(k, capacity), NotMatching(k), j)
          /\ states' = [states EXCEPT ![j] = Deleted]
  BY DEF Delete
<1>2. states[j] = Occupied /\ keys[j] = k
  BY <1>1, ProbeHits DEF Inv, IndInv, Delete
<1>3. count' = count - 1 /\ keys' = keys /\ capacity' = capacity
  BY DEF Delete
<1>4. /\ capacity \in Nat /\ capacity \in Nat \ {0} /\ count \in Nat
      /\ states \in [Slots(capacity) -> {Free, Occupied, Deleted}]
      /\ Chained(states, keys, capacity)
      /\ count = Cardinality(Occ(states, capacity))
  BY DEF Inv, TypeOK, IndInv
<1>5. /\ Cardinality(Occ(states', capacity)) = Cardinality(Occ(states, capacity)) - 1
      /\ Cardinality(Occ(states, capacity)) > 0
  <2>. DEFINE st2 == states'
  <2>1. st2 = [states EXCEPT ![j] = Deleted]
    BY <1>1
  <2>. HIDE DEF st2
  <2>2. /\ Cardinality(Occ(st2, capacity)) = Cardinality(Occ(states, capacity)) - 1
        /\ Cardinality(Occ(states, capacity)) > 0
    BY ZenonT(40), <1>2, <1>4, <2>1, OccDel
  <2>. QED  BY <2>2, Zenon DEF st2
<1>6. Chained(states', keys, capacity)
  <2>. DEFINE st2 == states'
  <2>1. st2 = [states EXCEPT ![j] = Deleted]
    BY <1>1
  <2>. HIDE DEF st2
  <2>2. Chained(st2, keys, capacity)
    BY <1>4, <2>1, DeleteChained
  <2>. QED  BY <2>2 DEF st2
<1>7. states' \in [Slots(capacity) -> {Free, Occupied, Deleted}]
  BY <1>1, <1>4
<1>8. count' \in Nat
  BY <1>3, <1>4, <1>5
<1>9. count' = Cardinality(Occ(states', capacity))
  BY <1>3, <1>4, <1>5
<1>. QED  BY <1>1, <1>2, <1>3, <1>5, <1>6, <1>7, <1>8, <1>9, Zenon

(* The array part of Inv survives a step that leaves the array in order    *)
(* and may begin to shrink it.                                             *)
LEMMA ShrinkInv ==
    ASSUME Inv, NEW w \in BOOLEAN, MayShrink(w), pc = "idle",
           w => count' < capacity \div 4,
           capacity' = capacity, keys' = keys, arg' = arg,
           states' \in [Slots(capacity) -> {Free, Occupied, Deleted}],
           count' \in Nat, count' = Cardinality(Occ(states', capacity)),
           Chained(states', keys, capacity),
           iterating' \in BOOLEAN, cursor' \in Nat,
           seen' \subseteq Key, targets' \subseteq Key,
           iterating' => ~w
    PROVE  Inv'
<1>1. CASE w /\ pc' = "shrink" /\ StartRehash(capacity \div 2)
  <2>1. capacity \div 2 \in Nat /\ capacity \div 2 \in 0 .. MaxCapacity
    BY MaxAssumption DEF Inv, TypeOK
  <2>2. /\ newStates' \in [Slots(newCapacity') -> {Free, Occupied}]
        /\ newKeys' \in [Slots(newCapacity') -> Key \cup {NoKey}]
        /\ Chained(newStates', newKeys', newCapacity')
        /\ KeysIn(newStates', newKeys', newCapacity') = {}
        /\ Cardinality(Occ(newStates', newCapacity')) = 0
    BY <1>1, <2>1, FreshArray DEF StartRehash
  <2>3. TypeOK'
    BY <1>1, <2>1, <2>2 DEF Inv, TypeOK, StartRehash
  <2>4. moved' = 0 /\ newCapacity' = capacity \div 2
    BY <1>1 DEF StartRehash
  <2>5. KeysIn(states', keys', moved') = {} /\ Cardinality(Occ(states', moved')) = 0
    BY <2>4, EmptyBelow
  <2>6. IndInv'
    BY <1>1, <2>2, <2>4, <2>5 DEF IndInv
  <2>. QED  BY <2>3, <2>6 DEF Inv
<1>2. CASE UNCHANGED <<pc, rehash>>
  <2>1. TypeOK'
    BY <1>2 DEF Inv, TypeOK, rehash
  <2>2. IndInv'
    BY <1>2 DEF Inv, IndInv, rehash
  <2>. QED  BY <2>1, <2>2 DEF Inv
<1>. QED  BY <1>1, <1>2 DEF MayShrink

(* hash_set_remove keeps the invariant, whether or not it starts to shrink *)
(* the array.                                                              *)
LEMMA RemoveInv ==
    ASSUME Inv, NEW k \in Key, Remove(k)
    PROVE  Inv'
<1>1. Delete(k) /\ MayShrink(~iterating /\ Sparse(count - 1)) /\ pc = "idle"
  BY DEF Remove, RemoveEntry
<1>2. PICK j \in Slots(capacity) :
              /\ states' \in [Slots(capacity) -> {Free, Occupied, Deleted}]
              /\ count' = count - 1 /\ count' \in Nat
              /\ keys' = keys /\ capacity' = capacity
              /\ count' = Cardinality(Occ(states', capacity))
              /\ Chained(states', keys, capacity)
  BY <1>1, DeleteEffect
<1>3. /\ arg' = arg /\ iterating' = iterating /\ cursor' = cursor
      /\ seen' = seen /\ targets' = targets /\ ~iterating
  BY DEF Remove, foreach
<1>4. /\ iterating' \in BOOLEAN /\ cursor' \in Nat
      /\ seen' \subseteq Key /\ targets' \subseteq Key
  BY <1>3 DEF Inv, TypeOK
<1>. DEFINE w == ~iterating /\ Sparse(count - 1)
<1>5. w \in BOOLEAN /\ (w => count' < capacity \div 4) /\ (iterating' => ~w)
  BY <1>2, <1>3 DEF Sparse
<1>. HIDE DEF w
<1>6. MayShrink(w)
  BY <1>1 DEF w
<1>. QED  BY <1>1, <1>2, <1>3, <1>4, <1>5, <1>6, ShrinkInv

(* So does a removal by the callback of a foreach. *)
LEMMA ForeachRemoveInv ==
    ASSUME Inv, ForeachRemove
    PROVE  Inv'
<1>1. /\ pc = "idle" /\ iterating /\ cursor \in Slots(capacity)
      /\ states[cursor] = Occupied
      /\ Delete(keys[cursor]) /\ MayShrink(~iterating /\ Sparse(count - 1))
  BY DEF ForeachRemove, Hand, RemoveEntry, Inv, TypeOK, Slots
<1>2. keys[cursor] \in Key
  BY <1>1 DEF Inv, IndInv, Chained, Occ
<1>3. /\ states' \in [Slots(capacity) -> {Free, Occupied, Deleted}]
      /\ count' \in Nat /\ keys' = keys /\ capacity' = capacity
      /\ count' = Cardinality(Occ(states', capacity))
      /\ Chained(states', keys, capacity)
  BY <1>1, <1>2, DeleteEffect
<1>4. /\ arg' = arg /\ iterating' \in BOOLEAN /\ cursor' \in Nat
      /\ seen' \subseteq Key /\ targets' \subseteq Key
  BY <1>2 DEF ForeachRemove, Hand, Inv, TypeOK
<1>5. MayShrink(FALSE)
  BY <1>1 DEF MayShrink
<1>. QED  BY <1>1, <1>3, <1>4, <1>5, ShrinkInv

(* So does the end of a foreach, which may shrink the array. *)
LEMMA ForeachEndInv ==
    ASSUME Inv, ForeachEnd
    PROVE  Inv'
<1>. DEFINE w == Sparse(count)
<1>1. w \in BOOLEAN /\ MayShrink(w) /\ pc = "idle" /\ (w => count < capacity \div 4)
  BY DEF ForeachEnd, Sparse
<1>. HIDE DEF w
<1>2. /\ capacity' = capacity /\ count' = count /\ states' = states /\ keys' = keys
      /\ arg' = arg /\ iterating' = FALSE /\ cursor' = capacity
      /\ seen' = {} /\ targets' = {}
  BY DEF ForeachEnd, table
<1>3. /\ count' = Cardinality(Occ(states', capacity)) /\ Chained(states', keys, capacity)
      /\ states' \in [Slots(capacity) -> {Free, Occupied, Deleted}] /\ count' \in Nat
      /\ iterating' \in BOOLEAN /\ cursor' \in Nat
      /\ seen' \subseteq Key /\ targets' \subseteq Key
  <2>1. /\ count = Cardinality(Occ(states, capacity)) /\ Chained(states, keys, capacity)
    BY DEF Inv, IndInv
  <2>2. /\ count' = Cardinality(Occ(states', capacity)) /\ Chained(states', keys, capacity)
    BY <1>2, <2>1, Zenon
  <2>3. /\ states' \in [Slots(capacity) -> {Free, Occupied, Deleted}] /\ count' \in Nat
        /\ cursor' \in Nat
    BY <1>2 DEF Inv, TypeOK
  <2>4. iterating' \in BOOLEAN /\ seen' \subseteq Key /\ targets' \subseteq Key
    BY <1>2, Zenon
  <2>. QED  BY <2>2, <2>3, <2>4, Zenon
<1>. QED  BY <1>1, <1>2, <1>3, ShrinkInv

(* The occupied slots below n + 1 are those below n and perhaps n. *)
LEMMA OccBelow ==
    ASSUME NEW st, NEW n \in Nat
    PROVE  /\ st[n] = Occupied => Cardinality(Occ(st, n + 1)) = Cardinality(Occ(st, n)) + 1
           /\ st[n] # Occupied => Cardinality(Occ(st, n + 1)) = Cardinality(Occ(st, n))
<1>1. Slots(n + 1) = Slots(n) \cup {n} /\ n \notin Slots(n)
  BY DEF Slots
<1>2. CASE st[n] = Occupied
  <2>1. Occ(st, n + 1) = Occ(st, n) \cup {n} /\ n \notin Occ(st, n)
    BY <1>1, <1>2 DEF Occ
  <2>2. Cardinality(Occ(st, n) \cup {n}) = Cardinality(Occ(st, n)) + 1
    BY <2>1, OccFinite, FS_AddElement
  <2>3. Cardinality(Occ(st, n + 1)) = Cardinality(Occ(st, n)) + 1
    BY <2>1, <2>2, Zenon
  <2>. QED  BY <1>2, <2>3, Zenon
<1>3. CASE st[n] # Occupied
  <2>1. Occ(st, n + 1) = Occ(st, n)
    BY <1>1, <1>3 DEF Occ
  <2>. QED  BY <1>3, <2>1, Zenon
<1>. QED  BY <1>2, <1>3, Zenon

(* The keys below slot n + 1 are those below n and that of slot n. *)
LEMMA KeysBelow ==
    ASSUME NEW st, NEW ks, NEW n \in Nat, NEW x
    PROVE  x \in KeysIn(st, ks, n + 1) <=>
              x \in KeysIn(st, ks, n) \/ (st[n] = Occupied /\ x = ks[n])
BY DEF KeysIn, Occ, Slots

(* One turn of a rehashing loop keeps the new array in step with the old   *)
(* one.                                                                    *)
LEMMA MoveInv ==
    ASSUME Inv, Move
    PROVE  Inv'
<1>1. /\ capacity \in Nat /\ moved \in Slots(capacity) /\ moved \in Nat
      /\ moved' = moved + 1 /\ newCapacity \in Nat /\ pc \in {"grow", "shrink"}
      /\ capacity' = capacity /\ count' = count /\ states' = states /\ keys' = keys
      /\ iterating' = iterating /\ cursor' = cursor /\ seen' = seen /\ targets' = targets
      /\ pc' = pc /\ arg' = arg /\ newCapacity' = newCapacity
  BY DEF Move, table, foreach, Inv, TypeOK, Slots
<1>2. newCapacity \in Nat \ {0}
  BY <1>1 DEF Inv, TypeOK, IndInv
<1>3. /\ newStates \in [Slots(newCapacity) -> {Free, Occupied, Deleted}]
      /\ newKeys \in [Slots(newCapacity) -> Key \cup {NoKey}]
      /\ Chained(newStates, newKeys, newCapacity)
      /\ KeysIn(newStates, newKeys, newCapacity) = KeysIn(states, keys, moved)
      /\ Cardinality(Occ(newStates, newCapacity)) = Cardinality(Occ(states, moved))
  BY <1>1 DEF Inv, TypeOK, IndInv
<1>4. SUFFICES /\ newStates' \in [Slots(newCapacity) -> {Free, Occupied}]
               /\ newKeys' \in [Slots(newCapacity) -> Key \cup {NoKey}]
               /\ Chained(newStates', newKeys', newCapacity)
               /\ KeysIn(newStates', newKeys', newCapacity) = KeysIn(states, keys, moved + 1)
               /\ Cardinality(Occ(newStates', newCapacity)) = Cardinality(Occ(states, moved + 1))
  <2>1. TypeOK'
    BY <1>1, <1>4 DEF Inv, TypeOK, Slots
  <2>2. IndInv'
    BY <1>1, <1>4 DEF Inv, IndInv
  <2>. QED  BY <2>1, <2>2 DEF Inv
<1>5. CASE Copies(moved)
  <2>1. states[moved] = Occupied
    <3>1. CASE pc = "grow"
      <4>1. count = capacity /\ count = Cardinality(Occ(states, capacity))
        BY <3>1 DEF Inv, IndInv
      <4>2. Occ(states, capacity) = Slots(capacity)
        BY <1>1, <4>1, OccFinite
      <4>. QED  BY <1>1, <4>2 DEF Occ
    <3>. QED  BY <1>5, <3>1 DEF Copies
  <2>2. keys[moved] \in Key
    BY <1>1, <2>1 DEF Inv, IndInv, Chained, Occ
  <2>3. PICK j \in Slots(newCapacity) :
                 /\ StopsAt(newCapacity, Home(keys[moved], newCapacity),
                            {m \in Slots(newCapacity) : newStates[m] # Free}, j)
                 /\ newStates' = [newStates EXCEPT ![j] = Occupied]
                 /\ newKeys' = [newKeys EXCEPT ![j] = keys[moved]]
    BY <1>5 DEF Move
  <2>4. newStates[j] # Occupied
    BY <2>3 DEF StopsAt, Free, Occupied
  <2>5. /\ newStates' \in [Slots(newCapacity) -> {Free, Occupied}]
        /\ newKeys' \in [Slots(newCapacity) -> Key \cup {NoKey}]
    BY <2>2, <2>3 DEF Inv, TypeOK
  <2>. DEFINE st2 == newStates'
              ks2 == newKeys'
              k == keys[moved]
              skip == {m \in Slots(newCapacity) : newStates[m] # Free}
  <2>6. /\ StopsAt(newCapacity, Home(k, newCapacity), skip, j)
        /\ st2 = [newStates EXCEPT ![j] = Occupied]
        /\ ks2 = [newKeys EXCEPT ![j] = k]
        /\ \A m \in skip : newStates[m] # Free
        /\ k \in Key
    BY <2>2, <2>3
  <2>. HIDE DEF st2, ks2, k, skip
  <2>7. Chained(st2, ks2, newCapacity)
    BY <1>2, <1>3, <2>6, PlaceChained
  <2>8. \A x : x \in KeysIn(st2, ks2, newCapacity) <=>
              x \in KeysIn(newStates, newKeys, newCapacity) \/ x = k
    BY <1>1, <1>3, <2>4, <2>6 DEF KeysIn, Occ, Occupied
  <2>9. Cardinality(Occ(st2, newCapacity)) = Cardinality(Occ(newStates, newCapacity)) + 1
    BY <1>1, <1>3, <2>4, <2>6, OccAdd
  <2>10. Cardinality(Occ(states, moved + 1)) = Cardinality(Occ(states, moved)) + 1
    BY <1>1, <2>1, OccBelow
  <2>11. KeysIn(st2, ks2, newCapacity) = KeysIn(states, keys, moved + 1)
    <3>1. \A x : x \in KeysIn(states, keys, moved + 1) <=>
                   x \in KeysIn(states, keys, moved) \/ x = k
      BY <1>1, <2>1 DEF k, KeysIn, Occ, Slots
    <3>. QED  BY <1>3, <2>8, <3>1
  <2>12. Cardinality(Occ(st2, newCapacity)) = Cardinality(Occ(states, moved + 1))
    BY <1>3, <2>9, <2>10, Zenon
  <2>. QED  BY <2>5, <2>7, <2>11, <2>12, Zenon DEF st2, ks2
<1>6. CASE ~Copies(moved)
  <2>1. states[moved] # Occupied /\ newStates' = newStates /\ newKeys' = newKeys
    BY <1>6 DEF Move, Copies
  <2>2. KeysIn(states, keys, moved + 1) = KeysIn(states, keys, moved)
    BY <1>1, <2>1, KeysBelow
  <2>4. Cardinality(Occ(states, moved + 1)) = Cardinality(Occ(states, moved))
    BY <1>1, <2>1, OccBelow
  <2>3. /\ newStates' \in [Slots(newCapacity) -> {Free, Occupied}]
        /\ newKeys' \in [Slots(newCapacity) -> Key \cup {NoKey}]
    BY <2>1 DEF Inv, TypeOK
  <2>. QED  BY <1>3, <2>1, <2>2, <2>3, <2>4, Zenon
<1>. QED  BY <1>5, <1>6

(* When every slot has been moved the new array can replace the old one. *)
LEMMA SwapInv ==
    ASSUME Inv, Swap
    PROVE  Inv'
<1>1. /\ capacity' = newCapacity /\ states' = newStates /\ keys' = newKeys
      /\ count' = count /\ arg' = arg /\ moved = capacity
      /\ iterating' = iterating /\ seen' = seen /\ targets' = targets
      /\ cursor' \in {cursor, newCapacity}
      /\ pc' = IF pc = "grow" THEN "place" ELSE "idle"
      /\ pc \in {"grow", "shrink"} /\ ~iterating
  BY DEF Swap, Inv, IndInv
<1>2. /\ newCapacity' = 0 /\ moved' = 0
      /\ newStates' \in [Slots(0) -> {Free, Occupied}]
      /\ newKeys' \in [Slots(0) -> Key \cup {NoKey}]
  BY DEF Swap, StartRehash
<1>3. newCapacity \in 1 .. MaxCapacity /\ (pc = "grow" => count < newCapacity)
  BY <1>1 DEF Inv, TypeOK, IndInv
<1>4. TypeOK'
  <2>1. iterating' \in BOOLEAN /\ cursor' \in Nat
    BY <1>1, <1>3 DEF Inv, TypeOK
  <2>2. /\ states' \in [Slots(capacity') -> {Free, Occupied, Deleted}]
        /\ keys' \in [Slots(capacity') -> Key \cup {NoKey}]
    BY <1>1 DEF Inv, TypeOK
  <2>3. /\ pc' \in {"idle", "place", "grow", "shrink"}
        /\ newCapacity' \in 0 .. MaxCapacity /\ moved' \in 0 .. capacity'
        /\ capacity' \in 1 .. MaxCapacity /\ count' \in Nat
    BY <1>1, <1>2, <1>3, MaxAssumption DEF Inv, TypeOK
  <2>4. /\ newStates' \in [Slots(newCapacity') -> {Free, Occupied}]
        /\ newKeys' \in [Slots(newCapacity') -> Key \cup {NoKey}]
    BY <1>2, Zenon
  <2>5. seen' \subseteq Key /\ targets' \subseteq Key /\ arg' \in Key \cup {NoKey}
    BY <1>1 DEF Inv, TypeOK
  <2>. QED  BY <2>1, <2>2, <2>3, <2>4, <2>5, Zenon DEF TypeOK
<1>5. count = Cardinality(Occ(newStates, newCapacity)) /\ Chained(newStates, newKeys, newCapacity)
  BY <1>1 DEF Inv, IndInv
<1>6. count' = Cardinality(Occ(states', capacity')) /\ Chained(states', keys', capacity')
  BY <1>1, <1>5, Zenon
<1>7. pc = "grow" => arg \in Key
  BY DEF Inv, IndInv
<1>8. IndInv'
  BY <1>1, <1>2, <1>3, <1>6, <1>7 DEF IndInv
<1>. QED  BY <1>4, <1>8 DEF Inv

(* hash_set_clear keeps the invariant. *)
LEMMA ClearInv ==
    ASSUME Inv, Clear
    PROVE  Inv'
<1>1. TypeOK'
  BY MaxAssumption DEF Inv, TypeOK, IndInv, Clear, rehash, Slots
<1>2. Occ(states', capacity') = {}
  BY DEF Clear, Occ, Free, Occupied
<1>3. count' = Cardinality(Occ(states', capacity'))
  BY <1>2, FS_EmptySet DEF Clear
<1>4. Chained(states', keys', capacity')
  BY <1>2 DEF Chained
<1>5. IndInv'
  BY <1>3, <1>4 DEF Inv, IndInv, Clear, rehash
<1>. QED  BY <1>1, <1>5 DEF Inv

(* The other steps of a foreach do not touch the table. *)
LEMMA ForeachInv ==
    ASSUME Inv, ForeachBegin \/ ForeachSkip \/ ForeachVisit
    PROVE  Inv'
<1>1. /\ UNCHANGED <<table, pc, arg, rehash>> /\ pc = "idle"
      /\ iterating' \in BOOLEAN /\ cursor' \in Nat
  <2>1. UNCHANGED <<table, pc, arg, rehash>> /\ pc = "idle"
    BY Zenon DEF ForeachBegin, ForeachSkip, ForeachVisit, Hand
  <2>2. cursor' \in Nat
    BY DEF Inv, TypeOK, ForeachBegin, ForeachSkip, ForeachVisit, Hand
  <2>3. iterating' \in BOOLEAN
    BY Zenon DEF Inv, TypeOK, ForeachBegin, ForeachSkip, ForeachVisit, Hand
  <2>. QED  BY <2>1, <2>2, <2>3
<1>2. \A m \in Occ(states, capacity) : keys[m] \in Key
  BY DEF Inv, IndInv, Chained
<1>3. seen' \subseteq Key /\ targets' \subseteq Key
  BY <1>2 DEF Inv, TypeOK, ForeachBegin, ForeachSkip, ForeachVisit, Hand, Occ, Slots
<1>4. TypeOK'
  BY <1>1, <1>3 DEF Inv, TypeOK, table, rehash
<1>5. IndInv'
  BY <1>1 DEF Inv, IndInv, table, rehash
<1>. QED  BY <1>4, <1>5 DEF Inv

(* Every step keeps the inductive invariant. *)
LEMMA NextInv == Inv /\ [Next]_vars => Inv'
<1>. SUFFICES ASSUME Inv, [Next]_vars PROVE Inv'
  OBVIOUS
<1>1. ASSUME NEW k \in Key, InsertFull(k) \/ InsertRoom(k) \/ Remove(k) PROVE Inv'
  BY <1>1, InsertInv, RemoveInv
<1>2. CASE Move \/ Swap \/ Place \/ Clear
  BY <1>2, MoveInv, SwapInv, PlaceInv, ClearInv
<1>3. CASE ForeachBegin \/ ForeachSkip \/ ForeachVisit \/ ForeachRemove \/ ForeachEnd
  BY <1>3, ForeachInv, ForeachRemoveInv, ForeachEndInv
<1>4. CASE UNCHANGED vars
  BY <1>4 DEF Inv, TypeOK, IndInv, vars, table, foreach, rehash
<1>. QED  BY <1>1, <1>2, <1>3, <1>4 DEF Next

----------------------------------------------------------------------------
(* The table is always well formed: its arrays have the shape of TypeOK.   *)
THEOREM TypeCorrect == Spec => []TypeOK
<1>1. Inv => TypeOK
  BY DEF Inv
<1>. QED  BY <1>1, InitInv, NextInv, PTL DEF Spec

(* count is the number of occupied slots and no probe chain is broken, for *)
(* every hash function: what every loop of hash-map.c relies on.           *)
THEOREM InvariantHolds == Spec => []IndInv
<1>1. Inv => IndInv
  BY DEF Inv
<1>. QED  BY <1>1, InitInv, NextInv, PTL DEF Spec

(* A nonempty set of naturals has a least element. *)
LEMMA LeastNatural ==
    ASSUME NEW T \in SUBSET Nat, T # {}
    PROVE  \E x \in T : \A y \in T : x <= y
<1>1. PICK x \in T : \A y \in T : ~(<<y, x>> \in OpToRel(<, Nat))
  BY WFMin, NatLessThanWellFounded
<1>2. \A y \in T : ~(y < x)
  BY <1>1 DEF OpToRel
<1>. QED  BY <1>2

(* A probe stops unless it may step over every slot. *)
LEMMA ProbeStops ==
    ASSUME NEW cap \in Nat \ {0}, NEW h \in Slots(cap), NEW skip,
           NEW m \in Slots(cap) \ skip
    PROVE  \E j \in Slots(cap) : StopsAt(cap, h, skip, j)
<1>. DEFINE Dist(n) == IF h <= n THEN n - h ELSE n + cap - h
            T == {Dist(n) : n \in Slots(cap) \ skip}
<1>1. \A n \in Slots(cap) : Dist(n) \in Nat
  BY DEF Slots
<1>2. T \in SUBSET Nat /\ T # {}
  BY <1>1
<1>3. PICK x \in T : \A y \in T : x <= y
  BY <1>2, LeastNatural
<1>4. PICK j \in Slots(cap) \ skip : x = Dist(j)
  BY <1>3
<1>5. \A n \in Slots(cap) \ skip : Dist(j) <= Dist(n)
  BY <1>3, <1>4
<1>6. \A n \in Slots(cap) : Passed(h, n, j) => Dist(n) < Dist(j)
  BY DEF Passed, Slots
<1>7. \A n \in Slots(cap) : Dist(n) < Dist(j) => n \in skip
  BY <1>1, <1>5
<1>. QED  BY <1>4, <1>6, <1>7 DEF StopsAt

(* What hash_set_get answers follows from the invariant. *)
LEMMA InvGetFinds == Inv => GetFinds
<1>. SUFFICES ASSUME Inv, NEW k \in Key
              PROVE  /\ Present(k) <=> Get(k) # {}
                     /\ \A j \in Get(k) : keys[j] = k
  BY DEF GetFinds
<1>1. \A j \in Get(k) : j \in Slots(capacity) /\ states[j] = Occupied /\ keys[j] = k
  BY DEF Get, StopsAt, NotMatching, Slots
<1>2. Get(k) # {} => Present(k)
  BY <1>1 DEF Present
<1>3. ASSUME Present(k) PROVE Get(k) # {}
  <2>1. capacity \in Nat \ {0} /\ Home(k, capacity) \in Slots(capacity)
    BY HomeType DEF Inv, TypeOK
  <2>2. PICK m \in Slots(capacity) : m \notin NotMatching(k)
    BY <1>3 DEF Present, NotMatching, Occupied, Deleted
  <2>3. PICK j \in Slots(capacity) :
           StopsAt(capacity, Home(k, capacity), NotMatching(k), j)
    BY <2>1, <2>2, ProbeStops
  <2>4. states[j] = Occupied
    BY <1>3, <2>3, ProbeHits DEF Inv, IndInv
  <2>. QED  BY <2>3, <2>4 DEF Get
<1>. QED  BY <1>1, <1>2, <1>3

(* hash_set_get finds a key exactly when the set holds it. *)
THEOREM GetIsCorrect == Spec => []GetFinds
BY InvariantHolds, TypeCorrect, InvGetFinds, PTL DEF Inv

----------------------------------------------------------------------------
(* A step of the table that is not part of a foreach happens outside one. *)
LEMMA NextForeach == Inv /\ ForeachComplete /\ [Next]_vars => ForeachComplete'
<1>. SUFFICES ASSUME Inv, ForeachComplete, [Next]_vars, iterating', NEW k \in targets'
              PROVE  \/ k \in seen'
                     \/ \E m \in Slots(capacity') :
                           /\ states'[m] = Occupied
                           /\ cursor' <= m /\ keys'[m] = k
  BY DEF ForeachComplete, Occ
<1>1. CASE ForeachBegin
  BY <1>1 DEF ForeachBegin, table, Occ, Slots, Inv, TypeOK
<1>. DEFINE Later(m) == m \in Slots(capacity) /\ states[m] = Occupied
                        /\ cursor <= m /\ keys[m] = k
<1>2. CASE ForeachSkip
  <2>1. k \in seen \/ \E m \in Slots(capacity) : Later(m)
    BY <1>2 DEF ForeachSkip, ForeachComplete, Occ
  <2>2. \A m \in Slots(capacity) : Later(m) => cursor + 1 <= m
    BY <1>2 DEF ForeachSkip, Slots, Inv, TypeOK
  <2>. QED  BY <1>2, <2>1, <2>2 DEF ForeachSkip, table
<1>3. CASE ForeachVisit
  <2>1. k \in seen \/ \E m \in Slots(capacity) : Later(m)
    BY <1>3 DEF ForeachVisit, Hand, ForeachComplete, Occ
  <2>2. \A m \in Slots(capacity) : Later(m) => m = cursor \/ cursor + 1 <= m
    BY <1>3 DEF Slots, Inv, TypeOK
  <2>. QED  BY <1>3, <2>1, <2>2 DEF ForeachVisit, Hand, table
<1>4. CASE ForeachRemove
  <2>1. k \in seen \/ \E m \in Slots(capacity) : Later(m)
    BY <1>4 DEF ForeachRemove, Hand, ForeachComplete, Occ
  <2>2. /\ Delete(keys[cursor]) /\ iterating /\ cursor \in Slots(capacity)
        /\ states[cursor] = Occupied
        /\ seen' = seen \cup {keys[cursor]} /\ cursor' = cursor + 1
    BY <1>4 DEF ForeachRemove, Hand, RemoveEntry, Inv, TypeOK, Slots
  <2>3. keys[cursor] \in Key
    BY <2>2 DEF Inv, IndInv, Chained, Occ
  <2>4. PICK j \in Slots(capacity) :
              /\ keys[j] = keys[cursor]
              /\ states' = [states EXCEPT ![j] = Deleted]
              /\ keys' = keys /\ capacity' = capacity
    BY <2>2, <2>3, DeleteEffect
  <2>5. CASE k \in seen \/ k = keys[cursor]
    BY <2>2, <2>5
  <2>6. CASE k \notin seen /\ k # keys[cursor]
    <3>1. PICK m \in Slots(capacity) : Later(m)
      BY <2>1, <2>6
    <3>2. m # j /\ m # cursor
      BY <2>4, <2>6, <3>1
    <3>3. cursor + 1 <= m
      BY <3>1, <3>2 DEF Slots, Inv, TypeOK
    <3>4. states'[m] = Occupied
      BY <2>4, <3>1, <3>2 DEF Inv, TypeOK
    <3>. QED  BY <2>2, <2>4, <3>1, <3>3, <3>4
  <2>. QED  BY <2>5, <2>6
<1>5. CASE UNCHANGED vars
  BY <1>5 DEF ForeachComplete, Occ, vars, table, foreach
<1>6. ASSUME NEW x \in Key, InsertFull(x) \/ InsertRoom(x) \/ Remove(x)
      PROVE  FALSE
  BY <1>6 DEF InsertFull, InsertRoom, Remove, foreach
<1>7. CASE Move \/ Swap \/ Place \/ Clear \/ ForeachEnd
  BY <1>7 DEF Move, Swap, Place, Clear, ForeachEnd, foreach, Inv, IndInv
<1>. QED  BY <1>1, <1>2, <1>3, <1>4, <1>5, <1>6, <1>7 DEF Next

(* A foreach misses no key, whatever its callback removes. *)
THEOREM ForeachIsComplete == Spec => []ForeachComplete
<1>1. Init => ForeachComplete
  BY DEF Init, ForeachComplete
<1>2. Spec => []Inv
  BY InitInv, NextInv, PTL DEF Spec
<1>. QED  BY <1>1, <1>2, NextForeach, PTL DEF Spec

----------------------------------------------------------------------------
(* The table implements the bag of KeyBag *)

(* The entries of key k below slot cap. *)
EntriesOf(st, ks, cap, k) == {m \in Occ(st, cap) : ks[m] = k}

Amount(st, ks, cap, k) == Cardinality(EntriesOf(st, ks, cap, k))

(* What the refinement needs beside Inv: only an insert under way has a    *)
(* key, and a half-filled new array holds every key as often as the old    *)
(* one does below `moved`.                                                 *)
BagInv ==
    /\ pc \in {"idle", "shrink"} => arg = NoKey
    /\ pc \in {"grow", "shrink"} =>
          \A k \in Key : Amount(newStates, newKeys, newCapacity, k)
                           = Amount(states, keys, moved, k)

(* The entries of a key are finitely many. *)
LEMMA AmountType ==
    ASSUME NEW st, NEW ks, NEW cap \in Nat, NEW k
    PROVE  IsFiniteSet(EntriesOf(st, ks, cap, k)) /\ Amount(st, ks, cap, k) \in Nat
<1>1. IsFiniteSet(Occ(st, cap)) /\ EntriesOf(st, ks, cap, k) \in SUBSET Occ(st, cap)
  BY OccFinite DEF EntriesOf
<1>. QED  BY <1>1, FS_Subset, FS_CardinalityType DEF Amount

(* An array without occupied slots holds no key. *)
LEMMA AmountNone ==
    ASSUME NEW st, NEW ks, NEW cap, Occ(st, cap) = {}, NEW k
    PROVE  Amount(st, ks, cap, k) = 0
<1>1. EntriesOf(st, ks, cap, k) = {}
  BY DEF EntriesOf
<1>2. Cardinality({}) = 0
  BY FS_EmptySet
<1>. QED  BY <1>1, <1>2, Zenon DEF Amount

(* Writing an entry into a slot that is not occupied adds one to the       *)
(* amount of its key.                                                      *)
LEMMA AmountAdd ==
    ASSUME NEW cap \in Nat, NEW j \in Slots(cap), NEW k,
           NEW st \in [Slots(cap) -> {Free, Occupied, Deleted}], st[j] # Occupied,
           NEW ks \in [Slots(cap) -> Key \cup {NoKey}]
    PROVE  Amount([st EXCEPT ![j] = Occupied], [ks EXCEPT ![j] = k], cap, k)
             = Amount(st, ks, cap, k) + 1
<1>. DEFINE st2 == [st EXCEPT ![j] = Occupied]
            ks2 == [ks EXCEPT ![j] = k]
<1>1. /\ EntriesOf(st2, ks2, cap, k) = EntriesOf(st, ks, cap, k) \cup {j}
      /\ j \notin EntriesOf(st, ks, cap, k)
  BY DEF EntriesOf, Occ, Occupied
<1>2. Cardinality(EntriesOf(st, ks, cap, k) \cup {j})
        = Cardinality(EntriesOf(st, ks, cap, k)) + 1
  BY <1>1, AmountType, FS_AddElement
<1>. QED  BY <1>1, <1>2, Zenon DEF Amount

(* The amounts below slot n + 1 are those below n and slot n's own. *)
LEMMA AmountBelow ==
    ASSUME NEW st, NEW ks, NEW n \in Nat, NEW x
    PROVE  /\ st[n] = Occupied /\ ks[n] = x =>
                 Amount(st, ks, n + 1, x) = Amount(st, ks, n, x) + 1
           /\ ~(st[n] = Occupied /\ ks[n] = x) =>
                 Amount(st, ks, n + 1, x) = Amount(st, ks, n, x)
<1>1. Slots(n + 1) = Slots(n) \cup {n} /\ n \notin Slots(n)
  BY DEF Slots
<1>2. CASE st[n] = Occupied /\ ks[n] = x
  <2>1. /\ EntriesOf(st, ks, n + 1, x) = EntriesOf(st, ks, n, x) \cup {n}
        /\ n \notin EntriesOf(st, ks, n, x)
    BY <1>1, <1>2 DEF EntriesOf, Occ
  <2>2. Cardinality(EntriesOf(st, ks, n, x) \cup {n})
          = Cardinality(EntriesOf(st, ks, n, x)) + 1
    BY <2>1, AmountType, FS_AddElement
  <2>3. Amount(st, ks, n + 1, x) = Amount(st, ks, n, x) + 1
    BY <2>1, <2>2, Zenon DEF Amount
  <2>. QED  BY <1>2, <2>3, Zenon
<1>3. CASE ~(st[n] = Occupied /\ ks[n] = x)
  <2>1. EntriesOf(st, ks, n + 1, x) = EntriesOf(st, ks, n, x)
    BY <1>1, <1>3 DEF EntriesOf, Occ
  <2>. QED  BY <1>3, <2>1, Zenon DEF Amount
<1>. QED  BY <1>2, <1>3, Zenon

(* A rehash that begins has nothing to answer for. *)
LEMMA RehashBegins ==
    ASSUME NEW cap \in Nat, StartRehash(cap), NEW k
    PROVE  Amount(newStates', newKeys', newCapacity', k) = Amount(states', keys', moved', k)
<1>. DEFINE st2 == newStates'
            ks2 == newKeys'
<1>1. newCapacity' = cap /\ st2 = [m \in Slots(cap) |-> Free] /\ moved' = 0
  BY DEF StartRehash
<1>2. Occ(st2, cap) = {}
  BY <1>1 DEF Occ, Free, Occupied
<1>. HIDE DEF st2, ks2
<1>3. Amount(st2, ks2, cap, k) = 0
  BY <1>2, AmountNone
<1>4. Amount(states', keys', 0, k) = 0
  BY EmptyBelow, AmountNone
<1>. QED  BY <1>1, <1>3, <1>4, Zenon DEF st2, ks2

(* A removal or the end of a foreach, with or without a resize. *)
LEMMA ShrinkBag ==
    ASSUME Inv, BagInv, pc = "idle", NEW w, MayShrink(w), arg' = arg
    PROVE  BagInv' /\ pc' \in {"idle", "shrink"} /\ arg' = NoKey
<1>1. arg = NoKey /\ capacity \in Nat
  BY DEF BagInv, Inv, TypeOK
<1>2. CASE pc' = "shrink" /\ StartRehash(capacity \div 2)
  <2>1. capacity \div 2 \in Nat
    BY <1>1
  <2>2. \A k \in Key : Amount(newStates', newKeys', newCapacity', k)
                         = Amount(states', keys', moved', k)
    BY <1>2, <2>1, RehashBegins
  <2>. QED  BY <1>1, <1>2, <2>2 DEF BagInv
<1>3. CASE pc' = pc
  BY <1>1, <1>3 DEF BagInv
<1>. QED  BY <1>2, <1>3 DEF MayShrink

(* One turn of a rehashing loop keeps the amounts in step. *)
LEMMA MoveBag ==
    ASSUME Inv, BagInv, Move
    PROVE  BagInv'
<1>1. /\ capacity \in Nat /\ moved \in Slots(capacity) /\ moved \in Nat
      /\ moved' = moved + 1 /\ newCapacity \in Nat /\ pc \in {"grow", "shrink"}
      /\ states' = states /\ keys' = keys
      /\ pc' = pc /\ arg' = arg /\ newCapacity' = newCapacity
  BY DEF Move, table, foreach, Inv, TypeOK, Slots
<1>2. /\ newStates \in [Slots(newCapacity) -> {Free, Occupied, Deleted}]
      /\ newKeys \in [Slots(newCapacity) -> Key \cup {NoKey}]
  BY DEF Inv, TypeOK
<1>. SUFFICES ASSUME NEW x \in Key
              PROVE  Amount(newStates', newKeys', newCapacity, x)
                       = Amount(states, keys, moved + 1, x)
  BY <1>1 DEF BagInv
<1>3. Amount(newStates, newKeys, newCapacity, x) = Amount(states, keys, moved, x)
  BY <1>1 DEF BagInv
<1>5. CASE Copies(moved)
  <2>1. states[moved] = Occupied
    <3>1. CASE pc = "grow"
      <4>1. count = capacity /\ count = Cardinality(Occ(states, capacity))
        BY <3>1 DEF Inv, IndInv
      <4>2. Occ(states, capacity) = Slots(capacity)
        BY <1>1, <4>1, OccFinite
      <4>. QED  BY <1>1, <4>2 DEF Occ
    <3>. QED  BY <1>5, <3>1 DEF Copies
  <2>2. PICK j \in Slots(newCapacity) :
                 /\ StopsAt(newCapacity, Home(keys[moved], newCapacity),
                            {m \in Slots(newCapacity) : newStates[m] # Free}, j)
                 /\ newStates' = [newStates EXCEPT ![j] = Occupied]
                 /\ newKeys' = [newKeys EXCEPT ![j] = keys[moved]]
    BY <1>5 DEF Move
  <2>3. newStates[j] # Occupied
    BY <2>2 DEF StopsAt, Free, Occupied
  <2>. DEFINE st2 == newStates'
              ks2 == newKeys'
              k == keys[moved]
  <2>4. /\ st2 = [newStates EXCEPT ![j] = Occupied]
        /\ ks2 = [newKeys EXCEPT ![j] = k]
    BY <2>2
  <2>. HIDE DEF st2, ks2, k
  <2>8. newCapacity \in Nat
    BY <1>1
  <2>5. /\ x = k => Amount(st2, ks2, newCapacity, x)
                      = Amount(newStates, newKeys, newCapacity, x) + 1
        /\ x # k => Amount(st2, ks2, newCapacity, x)
                      = Amount(newStates, newKeys, newCapacity, x)
    <3>1. Amount([newStates EXCEPT ![j] = Occupied], [newKeys EXCEPT ![j] = k], newCapacity, k)
             = Amount(newStates, newKeys, newCapacity, k) + 1
      BY <2>8, <1>2, <2>3, AmountAdd, ZenonT(60)
    <3>2. ASSUME x # k
          PROVE  EntriesOf(st2, ks2, newCapacity, x)
                   = EntriesOf(newStates, newKeys, newCapacity, x)
      BY <1>2, <2>3, <2>4, <3>2 DEF EntriesOf, Occ, Occupied
    <3>. QED  BY <3>1, <3>2, <2>4, Zenon DEF Amount
  <2>6. /\ x = k => Amount(states, keys, moved + 1, x) = Amount(states, keys, moved, x) + 1
        /\ x # k => Amount(states, keys, moved + 1, x) = Amount(states, keys, moved, x)
    <3>1. keys[moved] = k
      BY DEF k
    <3>2. /\ states[moved] = Occupied /\ keys[moved] = x =>
               Amount(states, keys, moved + 1, x) = Amount(states, keys, moved, x) + 1
          /\ ~(states[moved] = Occupied /\ keys[moved] = x) =>
               Amount(states, keys, moved + 1, x) = Amount(states, keys, moved, x)
      BY <1>1, AmountBelow, ZenonT(60)
    <3>. QED  BY <2>1, <3>1, <3>2, ZenonT(60)
  <2>7. Amount(st2, ks2, newCapacity, x) = Amount(states, keys, moved + 1, x)
    BY <1>3, <2>5, <2>6, Zenon
  <2>. QED  BY <2>7, Zenon DEF st2, ks2
<1>6. CASE ~Copies(moved)
  <2>1. states[moved] # Occupied /\ newStates' = newStates /\ newKeys' = newKeys
    BY <1>6 DEF Move, Copies
  <2>2. Amount(states, keys, moved + 1, x) = Amount(states, keys, moved, x)
    BY <1>1, <2>1, AmountBelow
  <2>. QED  BY <1>3, <2>1, <2>2, Zenon
<1>. QED  BY <1>5, <1>6
(* An insert adds one entry of the key it brings. *)
LEMMA PlaceAmounts ==
    ASSUME Inv, Place
    PROVE  /\ arg \in Key
           /\ Amount(states', keys', capacity', arg) = Amount(states, keys, capacity, arg) + 1
           /\ \A x \in Key : x # arg =>
                 Amount(states', keys', capacity', x) = Amount(states, keys, capacity, x)
<1>1. PICK j \in Slots(capacity) :
          /\ StopsAt(capacity, Home(arg, capacity), Occ(states, capacity), j)
          /\ states' = [states EXCEPT ![j] = Occupied]
          /\ keys' = [keys EXCEPT ![j] = arg]
  BY DEF Place
<1>2. arg \in Key /\ capacity' = capacity
  BY DEF Place, Inv, IndInv
<1>3. states[j] # Occupied
  BY <1>1 DEF StopsAt, Occ
<1>4. /\ capacity \in Nat /\ states \in [Slots(capacity) -> {Free, Occupied, Deleted}]
      /\ keys \in [Slots(capacity) -> Key \cup {NoKey}]
  BY DEF Inv, TypeOK
<1>5. Amount([states EXCEPT ![j] = Occupied], [keys EXCEPT ![j] = arg], capacity, arg)
        = Amount(states, keys, capacity, arg) + 1
  BY <1>3, <1>4, AmountAdd, Zenon
<1>6. ASSUME NEW x \in Key, x # arg
      PROVE  EntriesOf(states', keys', capacity, x) = EntriesOf(states, keys, capacity, x)
  <2>. DEFINE st2 == states'
              ks2 == keys'
  <2>1. st2 = [states EXCEPT ![j] = Occupied] /\ ks2 = [keys EXCEPT ![j] = arg]
    BY <1>1
  <2>. HIDE DEF st2, ks2
  <2>2. EntriesOf(st2, ks2, capacity, x) = EntriesOf(states, keys, capacity, x)
    BY <1>3, <1>4, <1>6, <2>1 DEF EntriesOf, Occ, Occupied
  <2>. QED  BY <2>2, Zenon DEF st2, ks2
<1>. QED  BY <1>1, <1>2, <1>5, <1>6, Zenon DEF Amount

(* A removal takes one entry of the key it was given. *)
LEMMA DeleteAmounts ==
    ASSUME Inv, NEW k \in Key, Delete(k)
    PROVE  /\ Amount(states', keys', capacity', k) = Amount(states, keys, capacity, k) - 1
           /\ Amount(states, keys, capacity, k) > 0
           /\ \A x \in Key : x # k =>
                 Amount(states', keys', capacity', x) = Amount(states, keys, capacity, x)
<1>1. PICK j \in Slots(capacity) :
          /\ states[j] = Occupied /\ keys[j] = k
          /\ states' = [states EXCEPT ![j] = Deleted]
          /\ keys' = keys /\ capacity' = capacity
  BY DeleteEffect
<1>2. capacity \in Nat /\ states \in [Slots(capacity) -> {Free, Occupied, Deleted}]
  BY DEF Inv, TypeOK
<1>3. /\ Amount([states EXCEPT ![j] = Deleted], keys, capacity, k)
           = Amount(states, keys, capacity, k) - 1
      /\ Amount(states, keys, capacity, k) > 0
  <2>. DEFINE before == EntriesOf(states, keys, capacity, k)
              after == EntriesOf([states EXCEPT ![j] = Deleted], keys, capacity, k)
  <2>1. after = before \ {j} /\ j \in before
    BY <1>1, <1>2 DEF EntriesOf, Occ, Occupied, Deleted
  <2>2. IsFiniteSet(before) /\ Cardinality(before) \in Nat
    BY <1>2, AmountType DEF Amount
  <2>. HIDE DEF before, after
  <2>3. Cardinality(before \ {j}) = Cardinality(before) - 1
    BY <2>1, <2>2, FS_RemoveElement
  <2>4. Cardinality(before) # 0
    BY <2>1, <2>2, FS_EmptySet
  <2>5. Cardinality(before) > 0
    BY <2>2, <2>4
  <2>6. Cardinality(after) = Cardinality(before) - 1
    BY <2>1, <2>3, Zenon
  <2>. QED  BY <2>5, <2>6, Zenon DEF Amount, before, after
<1>4. ASSUME NEW x \in Key, x # k
      PROVE  EntriesOf(states', keys, capacity, x) = EntriesOf(states, keys, capacity, x)
  <2>. DEFINE st2 == states'
  <2>1. st2 = [states EXCEPT ![j] = Deleted]
    BY <1>1
  <2>. HIDE DEF st2
  <2>2. EntriesOf(st2, keys, capacity, x) = EntriesOf(states, keys, capacity, x)
    BY <1>1, <1>2, <1>4, <2>1 DEF EntriesOf, Occ, Occupied, Deleted
  <2>. QED  BY <2>2, Zenon DEF st2
<1>. QED  BY <1>1, <1>3, <1>4, Zenon DEF Amount

(* The second invariant is inductive beside the first. *)
LEMMA NextBagInv == Inv /\ BagInv /\ [Next]_vars => BagInv'
<1>. SUFFICES ASSUME Inv, BagInv, [Next]_vars PROVE BagInv'
  OBVIOUS
<1>1. ASSUME NEW k \in Key, InsertFull(k) PROVE BagInv'
  <2>1. 2 * capacity \in Nat /\ StartRehash(2 * capacity) /\ pc' = "grow"
    BY <1>1 DEF InsertFull, Inv, TypeOK
  <2>2. \A x \in Key : Amount(newStates', newKeys', newCapacity', x)
                         = Amount(states', keys', moved', x)
    BY <2>1, RehashBegins
  <2>. QED  BY <2>1, <2>2 DEF BagInv
<1>2. ASSUME NEW k \in Key, InsertRoom(k) PROVE BagInv'
  BY <1>2 DEF InsertRoom, BagInv
<1>3. ASSUME NEW k \in Key, Remove(k) PROVE BagInv'
  BY <1>3, ShrinkBag DEF Remove, RemoveEntry
<1>4. CASE Move
  BY <1>4, MoveBag
<1>5. CASE Swap
  BY <1>5 DEF Swap, BagInv
<1>6. CASE Place
  BY <1>6 DEF Place, BagInv
<1>7. CASE Clear
  BY <1>7 DEF Clear, BagInv
<1>8. CASE ForeachBegin \/ ForeachSkip \/ ForeachVisit
  BY <1>8 DEF ForeachBegin, ForeachSkip, ForeachVisit, Hand, BagInv
<1>9. CASE ForeachRemove
  BY <1>9, ShrinkBag DEF ForeachRemove, Hand, RemoveEntry
<1>10. CASE ForeachEnd
  BY <1>10, ShrinkBag DEF ForeachEnd
<1>11. CASE UNCHANGED vars
  BY <1>11 DEF vars, table, rehash, BagInv
<1>. QED  BY <1>1, <1>2, <1>3, <1>4, <1>5, <1>6, <1>7, <1>8, <1>9, <1>10, <1>11 DEF Next
(* The variables of the bag, as Bag takes them from the table. *)
Contents == [k \in Key |-> Amount(states, keys, capacity, k)]
BusyWith == IF pc = "shrink" THEN "tidying" ELSE arg

(* A step that leaves the table alone leaves the entries alone. *)
LEMMA SameContents ==
    ASSUME states' = states, keys' = keys, capacity' = capacity
    PROVE  Contents' = Contents
BY Zenon DEF Contents, Amount, EntriesOf, Occ, Slots

(* A removal is one of the bag. *)
LEMMA RemoveIsBag ==
    ASSUME Inv, BagInv, NEW k \in Key, pc = "idle", Delete(k), NEW w, MayShrink(w), arg' = arg
    PROVE  Bag!Remove(k)
<1>1. arg = NoKey /\ arg' = NoKey /\ pc' \in {"idle", "shrink"}
  BY ShrinkBag DEF BagInv
<1>2. BusyWith = NoKey /\ BusyWith' \in {NoKey, "tidying"}
  BY <1>1 DEF BusyWith
<1>3. Contents[k] > 0
  BY DeleteAmounts DEF Contents
<1>4. Contents' = [Contents EXCEPT ![k] = @ - 1]
  BY DeleteAmounts DEF Contents
<1>. QED  BY <1>2, <1>3, <1>4, Zenon DEF Bag!Remove, Contents, BusyWith, Amount, EntriesOf

(* A resize, or the end of a foreach, shows nothing of the entries. *)
LEMMA TidyIsBag ==
    ASSUME Contents' = Contents, BusyWith \in {NoKey, "tidying"}, BusyWith' \in {NoKey, "tidying"}
    PROVE  Bag!Tidy
BY Zenon DEF Bag!Tidy, Contents, BusyWith, Amount, EntriesOf

(* A step that changes neither variable of the bag is a stutter. *)
LEMMA StutterIsBag ==
    ASSUME Contents' = Contents, BusyWith' = BusyWith
    PROVE  UNCHANGED Bag!vars
BY Zenon DEF Bag!vars, Contents, BusyWith, Amount, EntriesOf

(* Every step of the table is a step of the bag or a stutter. *)
LEMMA NextIsBag == Inv /\ BagInv /\ [Next]_vars => [Bag!Next]_Bag!vars
<1>. SUFFICES ASSUME Inv, BagInv, [Next]_vars PROVE [Bag!Next]_Bag!vars
  OBVIOUS
<1>1. ASSUME NEW k \in Key, InsertFull(k) \/ InsertRoom(k) PROVE Bag!Request(k)
  <2>1. BusyWith = NoKey /\ BusyWith' = k
    BY <1>1 DEF InsertFull, InsertRoom, BagInv, BusyWith
  <2>2. Contents' = Contents
    BY <1>1, SameContents DEF InsertFull, InsertRoom, table
  <2>. QED  BY <2>1, <2>2, Zenon DEF Bag!Request, Contents, BusyWith, Amount, EntriesOf
<1>2. ASSUME NEW k \in Key, Remove(k) PROVE Bag!Remove(k)
  BY <1>2, RemoveIsBag DEF Remove, RemoveEntry
<1>3. CASE Move
  <2>1. Contents' = Contents /\ BusyWith' = BusyWith
    BY <1>3, SameContents DEF Move, table, BusyWith
  <2>. QED  BY <2>1, StutterIsBag
<1>4. CASE Swap
  <2>1. pc \in {"grow", "shrink"} /\ moved = capacity
    BY <1>4 DEF Swap
  <2>2. states' = newStates /\ keys' = newKeys /\ capacity' = newCapacity
    BY <1>4 DEF Swap
  <2>3. \A k \in Key : Amount(newStates, newKeys, newCapacity, k)
                         = Amount(states, keys, capacity, k)
    BY <2>1 DEF BagInv
  <2>4. Contents' = Contents
    BY <2>2, <2>3, Zenon DEF Contents
  <2>5. CASE pc = "grow"
    <3>1. BusyWith' = BusyWith
      BY <1>4, <2>5 DEF Swap, BusyWith
    <3>. QED  BY <2>4, <3>1, StutterIsBag
  <2>6. CASE pc = "shrink"
    <3>1. BusyWith = "tidying" /\ BusyWith' = NoKey
      BY <1>4, <2>6 DEF Swap, BagInv, BusyWith
    <3>. QED  BY <2>4, <3>1, TidyIsBag DEF Bag!Next
  <2>. QED  BY <2>1, <2>5, <2>6
<1>5. CASE Place
  <2>1. BusyWith = arg /\ BusyWith' = NoKey
    BY <1>5 DEF Place, BusyWith
  <2>2. arg \in Key /\ Contents' = [Contents EXCEPT ![arg] = @ + 1]
    BY <1>5, PlaceAmounts DEF Contents
  <2>3. Bag!Insert(arg)
    BY <2>1, <2>2, Zenon DEF Bag!Insert, Contents, BusyWith, Amount, EntriesOf
  <2>. QED  BY <2>2, <2>3, Zenon DEF Bag!Next
<1>6. CASE Clear
  <2>1. BusyWith = NoKey /\ BusyWith' = BusyWith
    BY <1>6 DEF Clear, BusyWith, BagInv
  <2>. DEFINE st2 == states'
              ks2 == keys'
  <2>2. Occ(st2, 1) = {}
    BY <1>6 DEF Clear, Occ, Slots, Free, Occupied
  <2>. HIDE DEF st2, ks2
  <2>3. \A k \in Key : Amount(st2, ks2, 1, k) = 0
    BY <2>2, AmountNone
  <2>4. Contents' = [k \in Key |-> 0]
    BY <1>6, <2>3, Zenon DEF Clear, Contents, st2, ks2
  <2>5. Bag!Clear
    BY <2>1, <2>4, Zenon DEF Bag!Clear, Bag!Empty, Contents, BusyWith, Amount, EntriesOf
  <2>. QED  BY <2>5 DEF Bag!Next
<1>7. CASE ForeachBegin \/ ForeachSkip \/ ForeachVisit
  <2>1. Contents' = Contents
    BY <1>7, SameContents DEF ForeachBegin, ForeachSkip, ForeachVisit, table
  <2>2. BusyWith' = BusyWith
    BY <1>7 DEF ForeachBegin, ForeachSkip, ForeachVisit, Hand, BusyWith
  <2>. QED  BY <2>1, <2>2, StutterIsBag
<1>8. CASE ForeachRemove
  <2>1. /\ pc = "idle" /\ arg' = arg /\ Delete(keys[cursor])
        /\ MayShrink(~iterating /\ Sparse(count - 1))
    BY <1>8 DEF ForeachRemove, Hand, RemoveEntry
  <2>2. keys[cursor] \in Key
    BY <1>8 DEF ForeachRemove, Hand, Inv, TypeOK, IndInv, Chained, Occ, Slots
  <2>3. Bag!Remove(keys[cursor])
    BY <2>1, <2>2, RemoveIsBag
  <2>. QED  BY <2>2, <2>3, Zenon DEF Bag!Next
<1>9. CASE ForeachEnd
  <2>1. pc' \in {"idle", "shrink"} /\ arg' = NoKey /\ arg = NoKey /\ pc = "idle"
    BY <1>9, ShrinkBag DEF ForeachEnd, BagInv
  <2>2. BusyWith \in {NoKey, "tidying"} /\ BusyWith' \in {NoKey, "tidying"}
    BY <2>1 DEF BusyWith
  <2>3. Contents' = Contents
    BY <1>9, SameContents DEF ForeachEnd, table
  <2>. QED  BY <2>2, <2>3, TidyIsBag DEF Bag!Next
<1>10. CASE UNCHANGED vars
  <2>1. Contents' = Contents /\ BusyWith' = BusyWith
    BY <1>10, SameContents DEF vars, table, BusyWith
  <2>. QED  BY <2>1, StutterIsBag
<1>11. ASSUME NEW k \in Key, Bag!Request(k) \/ Bag!Remove(k) PROVE Bag!Next
  BY <1>11, Zenon DEF Bag!Next
<1>. QED
  BY <1>1, <1>2, <1>3, <1>4, <1>5, <1>6, <1>7, <1>8, <1>9, <1>10, <1>11 DEF Next

(* The initial table is the empty bag. *)
LEMMA InitIsBag == Init => Bag!Init
<1>. SUFFICES ASSUME Init PROVE Bag!Init
  OBVIOUS
<1>1. Occ(states, capacity) = {}
  BY DEF Init, Occ, Free, Occupied
<1>2. \A k \in Key : Amount(states, keys, capacity, k) = 0
  BY <1>1, AmountNone
<1>3. Contents = [k \in Key |-> 0]
  BY <1>2, Zenon DEF Contents
<1>4. BusyWith = NoKey
  BY DEF Init, BusyWith
<1>. QED  BY <1>3, <1>4, Zenon DEF Bag!Init, Bag!Empty, Contents, BusyWith, Amount, EntriesOf

(* The open-addressing table of hash-map.c implements the bag its callers  *)
(* count on: an insert adds one entry of its key, a removal takes one of   *)
(* the key it was given, and no step of a resize or of a foreach changes   *)
(* the entries, for every key set, hash function and bound.                *)
THEOREM BagIsImplemented == Spec => ImplementsBag
<1>1. Init => BagInv
  BY DEF Init, BagInv
<1>2. Spec => []Inv
  BY InitInv, NextInv, PTL DEF Spec
<1>3. Spec => []BagInv
  BY <1>1, <1>2, NextBagInv, PTL DEF Spec
<1>. QED  BY <1>2, <1>3, InitIsBag, NextIsBag, PTL DEF Spec, ImplementsBag, Bag!Spec
============================================================================
