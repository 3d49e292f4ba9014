------------------------------ MODULE SnapshotMap ------------------------------
(***************************************************************************)
(* What a store with snapshots promises its readers: a map from keys to    *)
(* values that nothing but a write changes, one key at a time, and         *)
(* snapshots that keep the map as it was when they were taken.  The value  *)
(* of a key is the time of the write that gave it.                         *)
(***************************************************************************)
EXTENDS Naturals

CONSTANTS Keys, Absent

VARIABLES
  time,    \* writes so far
  latest,  \* the value of every key
  kept     \* what the snapshots keep, by the time they were taken

Init ==
  /\ time = 0
  /\ latest = [k \in Keys |-> Absent]
  /\ kept = [t \in {} |-> latest]

Write(k, v) ==
  /\ time' = time + 1
  /\ latest' = [latest EXCEPT ![k] = v]
  /\ UNCHANGED kept

Take ==
  /\ DOMAIN kept' = DOMAIN kept \cup {time}
  /\ kept' = [t \in DOMAIN kept' |-> IF t = time THEN latest ELSE kept[t]]
  /\ UNCHANGED <<time, latest>>

Release(t) ==
  /\ DOMAIN kept' = DOMAIN kept \ {t}
  /\ kept' = [s \in DOMAIN kept' |-> kept[s]]
  /\ UNCHANGED <<time, latest>>

Next ==
  \/ \E k \in Keys, v \in {time + 1, Absent} : Write(k, v)
  \/ Take
  \/ \E t \in DOMAIN kept : Release(t)

Spec == Init /\ [][Next]_<<time, latest, kept>>
=============================================================================
