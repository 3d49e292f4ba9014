----------------------------- MODULE DurableStore -----------------------------
(***************************************************************************)
(* What a database promises of its writes when it may fail at any time.    *)
(*                                                                         *)
(* A batch is in the store as a whole or not at all.  An acknowledged      *)
(* batch is in the store.  The end of the process loses no acknowledged    *)
(* batch, the end of the machine none that was acknowledged as synced.     *)
(* Batches that were begun and not acknowledged may survive either.        *)
(***************************************************************************)
CONSTANT Batches

VARIABLES
  contents,  \* the batches in the store
  begun,     \* the batches handed to it
  acked,     \* the batches acknowledged
  synced     \* those acknowledged as synced

vars == <<contents, begun, acked, synced>>

Init == contents = {} /\ begun = {} /\ acked = {} /\ synced = {}

Begin(batch) ==
  /\ begun' = begun \cup {batch}
  /\ UNCHANGED <<contents, acked, synced>>

(* A group of batches is stored and acknowledged in one step. *)
Commit(group, safe) ==
  /\ group \subseteq begun
  /\ safe \subseteq group
  /\ contents' = contents \cup group
  /\ acked' = acked \cup group
  /\ synced' = synced \cup safe
  /\ UNCHANGED begun

(* What is kept is fixed by what was promised, and by what was tried. *)
Crash(promised, kept) ==
  /\ promised \subseteq kept
  /\ kept \subseteq contents \cup begun
  /\ contents' = kept
  /\ UNCHANGED <<begun, acked, synced>>

(* A machine that ends may break its word to the batches it has lost. *)
MachineCrash(kept) ==
  /\ synced \subseteq kept
  /\ kept \subseteq contents \cup begun
  /\ contents' = kept
  /\ acked' = acked \cap kept
  /\ UNCHANGED <<begun, synced>>

Next ==
  \/ \E batch \in Batches : Begin(batch)
  \/ \E group, safe \in SUBSET Batches : Commit(group, safe)
  \/ \E kept \in SUBSET Batches : Crash(acked, kept) \/ MachineCrash(kept)

Spec == Init /\ [][Next]_vars
=============================================================================
