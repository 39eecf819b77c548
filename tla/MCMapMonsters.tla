--------------------------- MODULE MCMapMonsters ----------------------------
(***************************************************************************)
(* Instances of MapMonsters: a few players on a map with two spawners.     *)
(***************************************************************************)
EXTENDS MapMonsters, TLC

Players == Permutations(Player)
=============================================================================
