----------------------------- MODULE MCDatabase -----------------------------
(* Two characters on two channel servers, and one character to be created. *)
EXTENDS Database, TLC

Scene(h, s, m, f) == [home |-> h, saves |-> s, moves |-> m, faults |-> f]

(* Together on one server, where things change hands; apart, where the     *)
(* statements of two saves interleave; one who saves while another is      *)
(* created.                                                                *)
MCScenes == {Scene("ann" :> "ch1" @@ "bob" :> "ch1", 3, 3, 0),
             Scene("ann" :> "ch1" @@ "bob" :> "ch1", 2, 3, 1),
             Scene("ann" :> "ch1" @@ "bob" :> "ch2", 2, 2, 1),
             Scene("ann" :> "ch1" @@ Newcomer :> "login", 1, 1, 1)}

MCOutfit == {<<"coat", "pants", "shoes", "sword">>, <<"overall", "shoes", "sword">>}

(* A thing moves in memory only while the connection of its server is      *)
(* idle.  Nothing is lost: a move during a save commutes with the save's   *)
(* statements, which read the copy, and whatever reads the moved thing     *)
(* next, a save or a logout, waits for that connection.                    *)
MovesBetweenSaves ==
    moves' # moves =>
        \A c \in Char : mem'[c].carried # mem[c].carried => job[mem[c].at] = NoJob
=============================================================================
