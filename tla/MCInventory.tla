---------------------------- MODULE MCInventory -----------------------------
(***************************************************************************)
(* An archer who may become a thief: arrows and throwing stars in three    *)
(* slots, a bow and a claw in either of two equipment slots.               *)
(***************************************************************************)
EXTENDS Inventory

CONSTANTS Arrow, Star, Bow, Claw

Ammunition == (Bow :> {Arrow}) @@ (Claw :> {Star})
StackSizes == (Arrow :> 2) @@ (Star :> 1)
=============================================================================
