------------------------------ MODULE MCRooms -------------------------------
(***************************************************************************)
(* Instances of Rooms: two characters and two rooms.                       *)
(***************************************************************************)
EXTENDS Rooms, TLC

=============================================================================
