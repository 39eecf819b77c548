----------------------------- MODULE MCMapDrops -----------------------------
(* As long as the invariants hold, states that differ only in the ids of   *)
(* objects and timers are alike: TLC looks at one of them, and tells a     *)
(* state apart by its ids only when an invariant fails.                    *)
EXTENDS MapDrops

Shape ==
    [batches |-> [b \in 1 .. Len(map.batches) |->
                     IF map.batches[b] = Nil THEN Nil
                     ELSE [drops |-> Len(map.batches[b].drops), owner |-> map.batches[b].owner,
                           exclusive |-> map.batches[b].exclusive]],
     falling |-> [b \in 1 .. Len(map.dropping) |->
                     [drops |-> Len(map.dropping[b].drops), current |-> map.dropping[b].current,
                      owner |-> map.dropping[b].owner, dropper |-> map.dropping[b].dropper = ReactorOid]],
     monsters |-> [t \in {"monster", "remains"} |-> Cardinality({o \in DOMAIN map.objects : map.objects[o].type = t})],
     start |-> map.start, capacity |-> map.capacity, reactor |-> reactor]

(* (The comparison of map with itself makes TLC evaluate all of it.)         *)
View == IF map = map /\ DropsLead /\ TimersMatch THEN <<Shape>> ELSE <<map, reactor>>
=============================================================================
