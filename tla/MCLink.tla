------------------------------- MODULE MCLink -------------------------------
(***************************************************************************)
(* Instances of Link: two players who sign in a few times.                 *)
(***************************************************************************)
EXTENDS Link, TLC

Players == Permutations(Client)
=============================================================================
