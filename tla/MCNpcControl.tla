----------------------------- MODULE MCNpcControl -----------------------------
(* Small instances of NpcControl for TLC. *)
EXTENDS NpcControl, TLC

CONSTANTS u1, u2, n1, n2, n3

Symmetric == Permutations(Users) \cup Permutations(Clients)
=============================================================================
