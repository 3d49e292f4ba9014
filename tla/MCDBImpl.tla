------------------------------- MODULE MCDBImpl -------------------------------
(* Instances of DBImpl: writers of the same kind are interchangeable. *)
EXTENDS DBImpl, TLC

Interchangeable == Permutations(Batches \ SyncWriters)
=============================================================================
