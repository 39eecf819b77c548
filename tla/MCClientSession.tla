-------------------------- MODULE MCClientSession --------------------------
(* Small instances of ClientSession: two characters that share both        *)
(* connections.                                                            *)
EXTENDS ClientSession, TLC

CONSTANTS c1, c2

Symmetry == Permutations(Client)
============================================================================
