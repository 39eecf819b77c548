------------------------------ MODULE MinQueue ------------------------------
(***************************************************************************)
(* What the heap of controllers promises (channel/map.c): it knows how     *)
(* many monsters each player was given, and new ones go to a player who    *)
(* was given no more than anybody else.                                    *)
(***************************************************************************)
EXTENDS Integers

CONSTANTS Player, Increments

VARIABLE given      \* for the players in the map: how many monsters

\* map_join() enters a player, map_leave() takes one out, on_respawn() gives n monsters.
Add(p, n) ==
  /\ p \notin DOMAIN given
  /\ given' = [q \in DOMAIN given \cup {p} |-> IF q = p THEN n ELSE given[q]]

Remove(p) ==
  /\ p \in DOMAIN given
  /\ given' = [q \in DOMAIN given \ {p} |-> given[q]]

Increase(p, n) ==
  /\ p \in DOMAIN given /\ \A q \in DOMAIN given : given[p] <= given[q]
  /\ given' = [given EXCEPT ![p] = @ + n]

Init == given = [p \in {} |-> 0]

Next ==
  \E p \in Player : Remove(p) \/ \E n \in Increments : Add(p, n) \/ Increase(p, n)

Spec == Init /\ [][Next]_given
=============================================================================
