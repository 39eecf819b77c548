------------------------------- MODULE KeyBag -------------------------------
(***************************************************************************)
(* What the sets of hash-map.c promise their callers, without slots,       *)
(* probing or arrays: a collection that counts how often each key was      *)
(* inserted and not yet removed.  It is a bag and not a set because        *)
(* hash_set_insert never looks for the key it inserts.                     *)
(***************************************************************************)
EXTENDS Naturals

CONSTANTS Key, NoKey

VARIABLES
    content,    \* content[k]: the number of entries with key k
    busy        \* the key an insert brings, "tidying" (a resize), or NoKey

vars == <<content, busy>>

Empty == [k \in Key |-> 0]

Init == content = Empty /\ busy = NoKey

Request(k) == /\ busy = NoKey
              /\ busy' = k
              /\ UNCHANGED content

(* The entry of a pending insert arrives; resizing on the way shows nothing. *)
Insert(k) == /\ busy = k
             /\ busy' = NoKey
             /\ content' = [content EXCEPT ![k] = @ + 1]

(* Only a key that is present may be removed; the set may tidy up after it. *)
Remove(k) == /\ busy = NoKey /\ content[k] > 0
             /\ busy' \in {NoKey, "tidying"}
             /\ content' = [content EXCEPT ![k] = @ - 1]

Tidy == /\ busy = NoKey \/ busy = "tidying"
        /\ busy' \in {NoKey, "tidying"}
        /\ UNCHANGED content

Clear == /\ busy = NoKey
         /\ content' = Empty
         /\ UNCHANGED busy

Next == \/ \E k \in Key : Request(k) \/ Insert(k) \/ Remove(k)
        \/ Tidy \/ Clear

Spec == Init /\ [][Next]_vars
=============================================================================
