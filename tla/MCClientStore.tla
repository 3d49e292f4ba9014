---------------------------- MODULE MCClientStore ----------------------------
(* Two accounts and two clients, with rules that let only the owner write. *)
EXTENDS ClientStore, TLC

OwnersOnly == {<<u, u>> : u \in Users}
Interchangeable == Permutations(Users) \cup Permutations(Clients)
=============================================================================
