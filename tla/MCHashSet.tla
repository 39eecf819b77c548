----------------------------- MODULE MCHashSet -----------------------------
(* A small instance of HashSet: two keys that collide while the array is   *)
(* small, and chains that wrap around its end.                             *)
EXTENDS HashSet, TLC

CONSTANTS k1, k2

MCHash == k1 :> 7 @@ k2 :> 3
============================================================================
