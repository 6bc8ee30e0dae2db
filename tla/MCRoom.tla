------------------------------- MODULE MCRoom -------------------------------
(* Room with small sets of clients, task slots and instances.               *)
EXTENDS Room, TLC

Perms == Permutations(Client)
=============================================================================
