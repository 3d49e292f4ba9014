------------------------- MODULE DBImplSequenceProofs -------------------------
(***************************************************************************)
(* The sequence numbers of leveldb: what is written later has the larger   *)
(* number, whatever fails and however often the process or the machine     *)
(* ends.  Nothing here depends on which file operations may fail.          *)
(***************************************************************************)
EXTENDS DBImplDurabilityProofs

-----------------------------------------------------------------------------
(* The inductive invariant, in parts *)

(* Calls of Write that have no number yet: those that have not begun, and  *)
(* those in the queue behind the group under way                           *)
Unnumbered ==
  {w \in Writers : pc[w] = "idle" \/ \E i \in 1..Len(writers) : i > group /\ writers[i] = w}

Stored == InLogs \cup InFiles \cup mem \cup imm

(* What is stored anywhere has its number. *)
Fresh == Stored \cap Unnumbered = {}

(* No two batches have the same number, as long as both are stored, or in  *)
(* the group under way.                                                    *)
Distinct ==
  \A b, d \in Stored \cup BatchesOf(group) : seqOf[b] = seqOf[d] => b = d

(* While the database is open, the numbers of the group follow on those of *)
(* all that is stored, and only the log holds anything of the group.       *)
Ahead ==
  phase = "open" =>
    /\ \A b \in mem \cup imm \cup InFiles : seqOf[b] <= lastSequence
    /\ \A b \in InLogs : seqOf[b] <= lastSequence \/ b \in BatchesOf(group)
    /\ \A b \in BatchesOf(group) :
         lastSequence < seqOf[b] /\ seqOf[b] <= lastSequence + CountTo(group)

(* The counter of a MANIFEST is not behind the tables it names, and that   *)
(* of a database that is being opened not behind those it has so far.      *)
Recorded ==
  /\ \A m \in Kept : \A f \in FilesOf(m.version) : \A b \in tables[f] : seqOf[b] <= m.sequence
  /\ phase \in {"recovering", "logging", "installing"} =>
       \A f \in FilesOf(version) \cup edit : \A b \in tables[f] : seqOf[b] <= lastSequence

-----------------------------------------------------------------------------
(* The queue and its numbers *)

(* How a step may change the queue and the group at its front *)
Shorter ==
  /\ group' = 0
  /\ \E n \in group..Len(writers) : writers' = SubSeq(writers, n + 1, Len(writers))
  /\ group = 0 \/ \E w \in Writers : FinishGroup(w)
Grouped == \E w \in Writers : BeginGroup(w) /\ w \in Batches
QueueNext ==
  \/ UNCHANGED <<writers, group>>
  \/ \E w \in Writers : Enqueue(w)
  \/ Shorter
  \/ Grouped
  \/ phase' = "closed" /\ group' = 0 /\ writers' = <<>>

(* No step changes the queue otherwise. *)
LEMMA QueueStep ==
  ASSUME Typed, Queued, [Next]_vars
  PROVE  QueueNext
<1>1. ASSUME NEW w \in Writers, Enqueue(w) PROVE QueueNext
  BY <1>1 DEF QueueNext
<1>2. ASSUME NEW w \in Writers, WriteRefused(w) PROVE QueueNext
  <2>1. writers # <<>> /\ pc[w] \in {"ready", "switched"}
    BY <1>2 DEF WriteRefused, AtMakeRoom, Front
  <2>2. group = 0 /\ 1 \in group..Len(writers)
    BY <2>1, NoGroup DEF Typed, TypedCalls
  <2>3. group' = 0 /\ writers' = SubSeq(writers, 1 + 1, Len(writers))
    BY <1>2 DEF WriteRefused, Pop
  <2> QED
    BY <2>2, <2>3 DEF QueueNext, Shorter
<1>3. ASSUME NEW w \in Writers, BeginGroup(w) PROVE QueueNext
  <2>1. writers # <<>> /\ pc[w] \in {"ready", "switched"}
    BY <1>3 DEF BeginGroup, AtMakeRoom, Front
  <2>2. group = 0 /\ 1 \in group..Len(writers)
    BY <2>1, NoGroup DEF Typed, TypedCalls
  <2>3. CASE w \in NullWriters
    <3>1. group' = 0 /\ writers' = SubSeq(writers, 1 + 1, Len(writers))
      BY <1>3, <2>3 DEF BeginGroup, Pop
    <3> QED
      BY <2>2, <3>1 DEF QueueNext, Shorter
  <2>4. CASE w \notin NullWriters
    BY <1>3, <2>4 DEF QueueNext, Grouped, Batches
  <2> QED
    BY <2>3, <2>4
<1>4. ASSUME NEW w \in Writers, Stall(w) PROVE QueueNext
  <2>1. UNCHANGED <<writers, group>>
    BY <1>4 DEF Stall, queue
  <2> QED
    BY <2>1 DEF QueueNext
<1>5. ASSUME NEW w \in Writers, SwitchMemTable(w) PROVE QueueNext
  <2>1. writers # <<>> /\ pc[w] \in {"ready", "switched"}
    BY <1>5 DEF SwitchMemTable, AtMakeRoom, Front
  <2>2. group = 0 /\ 1 \in group..Len(writers)
    BY <2>1, NoGroup DEF Typed, TypedCalls
  <2>3. \/ UNCHANGED <<writers, group>>
        \/ group' = 0 /\ writers' = SubSeq(writers, 1 + 1, Len(writers))
    BY <1>5 DEF SwitchMemTable, Pop
  <2> QED
    BY <2>2, <2>3 DEF QueueNext, Shorter
<1>6. ASSUME NEW w \in Writers, AddRecord(w) PROVE QueueNext
  <2>1. UNCHANGED <<writers, group>>
    BY <1>6 DEF AddRecord, queue
  <2> QED
    BY <2>1 DEF QueueNext
<1>7. ASSUME NEW w \in Writers, SyncLog(w) PROVE QueueNext
  <2>1. UNCHANGED <<writers, group>>
    BY <1>7 DEF SyncLog, queue
  <2> QED
    BY <2>1 DEF QueueNext
<1>8. ASSUME NEW w \in Writers, FinishGroup(w) PROVE QueueNext
  <2>1. group' = 0 /\ writers' = SubSeq(writers, group + 1, Len(writers))
    BY <1>8 DEF FinishGroup
  <2>2. group \in group..Len(writers)
    BY DEF Typed, TypedCalls
  <2> QED
    BY <1>8, <2>1, <2>2 DEF QueueNext, Shorter
<1>9. ASSUME NEW w \in Writers, TEST_CompactMemTable(w) PROVE QueueNext
  <2>1. UNCHANGED <<writers, group>>
    BY <1>9 DEF TEST_CompactMemTable, queue
  <2> QED
    BY <2>1 DEF QueueNext
<1>10. ASSUME NEW c \in Compactors, TEST_CompactRange(c) PROVE QueueNext
  <2>1. UNCHANGED <<writers, group>>
    BY <1>10 DEF TEST_CompactRange, queue
  <2> QED
    BY <2>1 DEF QueueNext
<1>11. ASSUME BackgroundCall PROVE QueueNext
  <2>1. UNCHANGED <<writers, group>>
    BY <1>11 DEF BackgroundCall, queue
  <2> QED
    BY <2>1 DEF QueueNext
<1>12. ASSUME FlushDuringMerge PROVE QueueNext
  <2>1. UNCHANGED <<writers, group>>
    BY <1>12 DEF FlushDuringMerge, queue
  <2> QED
    BY <2>1 DEF QueueNext
<1>13. ASSUME BuildTable PROVE QueueNext
  <2>1. UNCHANGED <<writers, group>>
    BY <1>13 DEF BuildTable, queue
  <2> QED
    BY <2>1 DEF QueueNext
<1>14. ASSUME BuildTableFails PROVE QueueNext
  <2>1. UNCHANGED <<writers, group>>
    BY <1>14 DEF BuildTableFails, queue
  <2> QED
    BY <2>1 DEF QueueNext
<1>15. ASSUME LogFlush PROVE QueueNext
  <2>1. UNCHANGED <<writers, group>>
    BY <1>15 DEF LogFlush, queue
  <2> QED
    BY <2>1 DEF QueueNext
<1>16. ASSUME InstallFlush PROVE QueueNext
  <2>1. UNCHANGED <<writers, group>>
    BY <1>16 DEF InstallFlush, queue
  <2> QED
    BY <2>1 DEF QueueNext
<1>17. ASSUME InstallFlushFails PROVE QueueNext
  <2>1. UNCHANGED <<writers, group>>
    BY <1>17 DEF InstallFlushFails, queue
  <2> QED
    BY <2>1 DEF QueueNext
<1>18. ASSUME BuildMerge PROVE QueueNext
  <2>1. UNCHANGED <<writers, group>>
    BY <1>18 DEF BuildMerge, queue
  <2> QED
    BY <2>1 DEF QueueNext
<1>19. ASSUME LogMerge PROVE QueueNext
  <2>1. UNCHANGED <<writers, group>>
    BY <1>19 DEF LogMerge, queue
  <2> QED
    BY <2>1 DEF QueueNext
<1>20. ASSUME InstallMerge PROVE QueueNext
  <2>1. UNCHANGED <<writers, group>>
    BY <1>20 DEF InstallMerge, queue
  <2> QED
    BY <2>1 DEF QueueNext
<1>21. ASSUME MergeFails PROVE QueueNext
  <2>1. UNCHANGED <<writers, group>>
    BY <1>21 DEF MergeFails, queue
  <2> QED
    BY <2>1 DEF QueueNext
<1>22. ASSUME NullDereference PROVE QueueNext
  <2>1. phase' = "closed" /\ group' = 0 /\ writers' = <<>>
    BY <1>22 DEF NullDereference, EndProcess, LoseMemory
  <2> QED
    BY <2>1 DEF QueueNext
<1>23. ASSUME Recover PROVE QueueNext
  <2>1. UNCHANGED <<writers, group>>
    BY <1>23 DEF Recover, queue
  <2> QED
    BY <2>1 DEF QueueNext
<1>24. ASSUME RecoverLogFile PROVE QueueNext
  <2>1. UNCHANGED <<writers, group>>
    BY <1>24 DEF RecoverLogFile, queue
  <2> QED
    BY <2>1 DEF QueueNext
<1>25. ASSUME CreateLog PROVE QueueNext
  <2>1. UNCHANGED <<writers, group>>
    BY <1>25 DEF CreateLog, queue
  <2> QED
    BY <2>1 DEF QueueNext
<1>26. ASSUME LogRecovery PROVE QueueNext
  <2>1. UNCHANGED <<writers, group>>
    BY <1>26 DEF LogRecovery, queue
  <2> QED
    BY <2>1 DEF QueueNext
<1>27. ASSUME InstallRecovery PROVE QueueNext
  <2>1. UNCHANGED <<writers, group>>
    BY <1>27 DEF InstallRecovery, queue
  <2> QED
    BY <2>1 DEF QueueNext
<1>28. ASSUME BeginClose PROVE QueueNext
  <2>1. UNCHANGED <<writers, group>>
    BY <1>28 DEF BeginClose, queue
  <2> QED
    BY <2>1 DEF QueueNext
<1>29. ASSUME Close PROVE QueueNext
  <2>1. phase' = "closed" /\ group' = 0 /\ writers' = <<>>
    BY <1>29 DEF Close, EndProcess, LoseMemory
  <2> QED
    BY <2>1 DEF QueueNext
<1>30. ASSUME ProcessCrash PROVE QueueNext
  <2>1. phase' = "closed" /\ group' = 0 /\ writers' = <<>>
    BY <1>30 DEF ProcessCrash, EndProcess, LoseMemory
  <2> QED
    BY <2>1 DEF QueueNext
<1>31. ASSUME MachineCrash PROVE QueueNext
  <2>1. phase' = "closed" /\ group' = 0 /\ writers' = <<>>
    BY <1>31 DEF MachineCrash, EndProcess, LoseMemory
  <2> QED
    BY <2>1 DEF QueueNext
<1>32. CASE \/ UNCHANGED vars
  <2>1. UNCHANGED <<writers, group>>
    BY <1>32 DEF vars, queue
  <2> QED
    BY <2>1 DEF QueueNext
<1> QED
  BY <1>1, <1>2, <1>3, <1>4, <1>5, <1>6, <1>7, <1>8, <1>9, <1>10, <1>11,
     <1>12, <1>13, <1>14, <1>15, <1>16, <1>17, <1>18, <1>19, <1>20, <1>21,
     <1>22, <1>23, <1>24, <1>25, <1>26, <1>27, <1>28, <1>29, <1>30, <1>31,
     <1>32 DEF Next, Writing, Background, Opening


(* A call has its number for good. *)
LEMMA UnnumberedStep ==
  ASSUME Typed, Queued, [Next]_vars
  PROVE  Unnumbered' \subseteq Unnumbered
<1>1. /\ group \in Nat /\ Len(writers) \in Nat /\ group <= Len(writers)
      /\ writers \in Seq(Writers)
      /\ pc \in [Writers -> Answered \cup AtWork \cup {"asleep", "written", "waits"}]
  BY DEF Typed, TypedCalls
<1>2. ASSUME NEW u \in Writers, Enqueue(u) PROVE Unnumbered' \subseteq Unnumbered
  <2>1. /\ writers' = Append(writers, u) /\ group' = group /\ pc[u] = "idle"
        /\ \A x \in Writers : pc'[x] = "idle" => pc[x] = "idle"
    BY <1>1, <1>2 DEF Enqueue
  <2>2. Len(writers') = Len(writers) + 1 /\ \A i \in 1..Len(writers') :
          writers'[i] = u \/ (i \in 1..Len(writers) /\ writers'[i] = writers[i])
    BY <1>1, <2>1
  <2> QED
    BY <1>1, <2>1, <2>2 DEF Unnumbered
<1>3. CASE SameCalls /\ UNCHANGED <<writers, group>>
  BY <1>3 DEF SameCalls, Unnumbered
<1>4. CASE SameCalls /\ Shorter
  <2>1. PICK n \in group..Len(writers) : writers' = SubSeq(writers, n + 1, Len(writers))
    BY <1>4 DEF Shorter
  <2>2. n \in Nat /\ n <= Len(writers) /\ n >= group
    BY <1>1, <2>1
  <2>3. /\ Len(writers') = Len(writers) - n
        /\ \A i \in 1..Len(writers') : writers'[i] = writers[n + i]
    BY <1>1, <2>1, <2>2
  <2>4. \A i \in 1..Len(writers') : n + i \in 1..Len(writers) /\ n + i > group
    BY <1>1, <2>2, <2>3
  <2>5. \A x \in Writers : (\E i \in 1..Len(writers') : writers'[i] = x) =>
                           (\E i \in 1..Len(writers) : i > group /\ writers[i] = x)
    BY <2>3, <2>4
  <2> QED
    BY <1>4, <2>5 DEF SameCalls, Unnumbered
<1>5. CASE SameCalls /\ Grouped
  <2>1. group' \in Nat /\ writers' = writers
    BY <1>1, <1>5 DEF Grouped, BeginGroup, Batches
  <2>2. PICK w \in Writers : BeginGroup(w)
    BY <1>5 DEF Grouped
  <2>3. group = 0
    BY <2>2, NoGroup DEF BeginGroup, AtMakeRoom
  <2>4. \A i \in 1..Len(writers) : i > group
    BY <2>3
  <2> QED
    BY <1>5, <2>1, <2>4 DEF SameCalls, Unnumbered
<1>6. CASE SameCalls /\ group' = 0 /\ writers' = <<>>
  <2>1. 1..Len(writers') = {}
    BY <1>6
  <2> QED
    BY <1>6, <2>1 DEF SameCalls, Unnumbered
<1> QED
  BY <1>2, <1>3, <1>4, <1>5, <1>6, QueueStep, CallsStep DEF QueueNext

(* The group and those behind it are different calls. *)
LEMMA GroupNumbered ==
  ASSUME Typed, Queued
  PROVE  BatchesOf(group) \cap Unnumbered = {}
<1>1. /\ group \in Nat /\ Len(writers) \in Nat /\ group <= Len(writers)
  BY DEF Typed, TypedCalls
<1>2. \A i \in 1..group : \A j \in 1..Len(writers) : j > group => writers[i] # writers[j]
  BY <1>1 DEF Queued
<1>3. \A b \in BatchesOf(group) : b \in Batches /\ pc[b] # "idle"
  BY GroupBegun
<1>4. \A b \in BatchesOf(group) : \E i \in 1..group : writers[i] = b
  BY DEF BatchesOf
<1> QED
  BY <1>2, <1>3, <1>4 DEF Unnumbered

(* What is stored is in the step before, or in its group. *)
LEMMA StoredBefore ==
  ASSUME Typed, Numbered, Filed, [Next]_vars
  PROVE  Stored' \subseteq Stored \cup BatchesOf(group)
BY StoredStep DEF StoredNext, FromLogs, Stored

(* No step stores a batch that has no number yet. *)
LEMMA FreshStep ==
  ASSUME Typed, Queued, Numbered, Filed, Fresh, [Next]_vars
  PROVE  Fresh'
BY StoredBefore, GroupNumbered, UnnumberedStep DEF Fresh

(* How many batches a group holds up to one of them: each one counts. *)
LEMMA Counting ==
  ASSUME Typed, Queued, NEW n \in 1..Len(writers)
  PROVE  /\ \A i, j \in 1..n : i < j /\ writers[j] \in Batches => CountTo(i) < CountTo(j)
         /\ \A i \in 1..n : writers[i] \in Batches => 0 < CountTo(i)
         /\ \A i \in 1..n : CountTo(i) <= CountTo(n)
<1>1. n \in Nat /\ n <= Len(writers) /\ Len(writers) \in Nat
  BY DEF Typed, TypedCalls
<1>2. \A i : IsFiniteSet(BatchesOf(i)) /\ CountTo(i) \in Nat
  BY CountToTyped
<1>3. \A i, j \in 0..n : i <= j => BatchesOf(i) \subseteq BatchesOf(j)
  <2>1. \A i, j \in 0..n : i <= j => \A k \in 1..i : k \in 1..j
    BY <1>1
  <2> QED
    BY <2>1 DEF BatchesOf
<1>4. \A i, j \in 0..n : i <= j => CountTo(i) <= CountTo(j)
  BY <1>2, <1>3, FS_Subset DEF CountTo
<1>5. ASSUME NEW i \in 0..n, NEW j \in 0..n, i < j, writers[j] \in Batches
      PROVE  CountTo(i) < CountTo(j)
  <2>1. j \in 1..Len(writers) /\ j \in 1..j /\ i <= j /\ \A k \in 1..i : k \in 1..Len(writers) /\ k # j
    BY <1>1, <1>5
  <2>2. writers[j] \notin BatchesOf(i)
    BY <2>1 DEF BatchesOf, Queued
  <2>3. writers[j] \in BatchesOf(j)
    BY <1>5, <2>1 DEF BatchesOf
  <2>4. BatchesOf(i) \subseteq BatchesOf(j) /\ BatchesOf(i) # BatchesOf(j)
    BY <1>3, <2>1, <2>2, <2>3
  <2>5. IsFiniteSet(BatchesOf(j))
    BY <1>2
  <2>6. Cardinality(BatchesOf(i)) < Cardinality(BatchesOf(j))
    <3> DEFINE small == BatchesOf(i)
               large == BatchesOf(j)
    <3>1. IsFiniteSet(large) /\ small \in SUBSET large /\ small # large
      BY <2>4, <2>5
    <3> HIDE DEF small, large
    <3>2. /\ Cardinality(small) \in Nat /\ Cardinality(large) \in Nat
          /\ Cardinality(small) <= Cardinality(large)
          /\ Cardinality(small) = Cardinality(large) => small = large
      BY <3>1, FS_Subset, FS_CardinalityType
    <3>3. Cardinality(small) < Cardinality(large)
      BY <3>1, <3>2
    <3> QED
      BY <3>3 DEF small, large
  <2> QED
    BY <2>6 DEF CountTo
<1>6. ASSUME NEW i \in 1..n, writers[i] \in Batches PROVE 0 < CountTo(i)
  <2>1. 0 \in 0..n /\ i \in 0..n /\ 0 < i
    BY <1>1
  <2>2. CountTo(0) < CountTo(i)
    BY <1>5, <1>6, <2>1
  <2> QED
    BY <1>2, <2>2
<1>7. \A i \in 1..n : i \in 0..n /\ i <= n /\ n \in 0..n
  BY <1>1
<1> QED
  BY <1>4, <1>5, <1>6, <1>7

(* A new group: its calls had no number, and now have the next ones. *)
LEMMA NewGroup ==
  ASSUME Typed, Queued, Grouped
  PROVE  /\ phase = "open" /\ BatchesOf(group) = {} /\ BatchesOf(group)' \subseteq Unnumbered
         /\ UNCHANGED <<phase, lastSequence, version, opening, memory, logs, tables, manifest>>
         /\ \A b \in Writers : b \notin BatchesOf(group)' => seqOf'[b] = seqOf[b]
         /\ \A b \in BatchesOf(group)' :
              lastSequence < seqOf'[b] /\ seqOf'[b] <= lastSequence + CountTo(group)'
         /\ \A b, d \in BatchesOf(group)' : seqOf'[b] = seqOf'[d] => b = d
<1>1. PICK w \in Writers : BeginGroup(w) /\ w \in Batches
  BY DEF Grouped
<1>2. /\ phase = "open"
      /\ UNCHANGED <<phase, lastSequence, version, opening, memory, logs, tables, manifest>>
  BY <1>1 DEF BeginGroup, AtMakeRoom, MutexFree, numbers, disk
<1>3. group = 0
  BY <1>1, NoGroup DEF BeginGroup, AtMakeRoom
<1>4. PICK n \in 1..Len(writers) :
        /\ group' = n /\ writers' = writers
        /\ seqOf' = [b \in Writers |->
              IF b \in BatchesOf(n)
              THEN lastSequence + CountTo(CHOOSE i \in 1..n : writers[i] = b)
              ELSE seqOf[b]]
  BY <1>1 DEF BeginGroup, Batches
<1>5. BatchesOf(group)' = BatchesOf(n) /\ CountTo(group)' = CountTo(n)
  BY <1>4 DEF BatchesOf, CountTo
<1>6. lastSequence \in Nat /\ \A i : CountTo(i) \in Nat
  BY CountToTyped DEF Typed, TypedNumbers
<1> DEFINE place(b) == CHOOSE i \in 1..n : writers[i] = b
<1>7. \A b \in BatchesOf(n) : place(b) \in 1..n /\ writers[place(b)] = b /\ b \in Batches /\ b \in Writers
  BY DEF BatchesOf, Batches
<1>8. \A b \in BatchesOf(n) : seqOf'[b] = lastSequence + CountTo(place(b))
  BY <1>4, <1>7
<1> HIDE DEF place
<1>9. \A b \in BatchesOf(n) : 0 < CountTo(place(b)) /\ CountTo(place(b)) <= CountTo(n)
  BY <1>7, Counting
<1>10. ASSUME NEW b \in BatchesOf(n), NEW d \in BatchesOf(n), seqOf'[b] = seqOf'[d]
       PROVE  b = d
  <2>1. CountTo(place(b)) = CountTo(place(d))
    BY <1>6, <1>8, <1>10
  <2>2. place(b) \in Nat /\ place(d) \in Nat
    BY <1>7
  <2>3. ~(place(b) < place(d)) /\ ~(place(d) < place(b))
    BY <1>6, <1>7, <2>1, Counting
  <2>4. place(b) = place(d)
    BY <2>2, <2>3
  <2> QED
    BY <1>7, <2>4
<1>11. BatchesOf(n) \subseteq Unnumbered
  <2>1. \A i \in 1..n : i \in 1..Len(writers) /\ i > group
    BY <1>3 DEF Typed, TypedCalls
  <2> QED
    BY <1>7, <2>1 DEF Unnumbered
<1>12. BatchesOf(group) = {}
  BY <1>3 DEF BatchesOf
<1>13. \A b \in BatchesOf(n) : lastSequence < seqOf'[b] /\ seqOf'[b] <= lastSequence + CountTo(n)
  BY <1>6, <1>8, <1>9
<1>14. \A b \in Writers : b \notin BatchesOf(n) => seqOf'[b] = seqOf[b]
  BY <1>4
<1> QED
  BY <1>2, <1>5, <1>10, <1>11, <1>12, <1>13, <1>14

(* Only a new group is given numbers. *)
LEMMA NumbersStep ==
  ASSUME TRUE, [Next]_vars
  PROVE  UNCHANGED seqOf \/ Grouped
<1>1. ASSUME NEW w \in Writers, Enqueue(w) PROVE UNCHANGED seqOf \/ Grouped
  BY <1>1 DEF Enqueue, history
<1>2. ASSUME NEW w \in Writers, WriteRefused(w) PROVE UNCHANGED seqOf \/ Grouped
  BY <1>2 DEF WriteRefused, history
<1>3. ASSUME NEW w \in Writers, BeginGroup(w) PROVE UNCHANGED seqOf \/ Grouped
  <2>1. CASE w \in NullWriters
    BY <1>3, <2>1 DEF BeginGroup
  <2>2. CASE w \notin NullWriters
    BY <1>3, <2>2 DEF Grouped, Batches
  <2> QED
    BY <2>1, <2>2
<1>4. ASSUME NEW w \in Writers, Stall(w) PROVE UNCHANGED seqOf \/ Grouped
  BY <1>4 DEF Stall, history
<1>5. ASSUME NEW w \in Writers, SwitchMemTable(w) PROVE UNCHANGED seqOf \/ Grouped
  BY <1>5 DEF SwitchMemTable, history
<1>6. ASSUME NEW w \in Writers, AddRecord(w) PROVE UNCHANGED seqOf \/ Grouped
  BY <1>6 DEF AddRecord, history
<1>7. ASSUME NEW w \in Writers, SyncLog(w) PROVE UNCHANGED seqOf \/ Grouped
  BY <1>7 DEF SyncLog, history
<1>8. ASSUME NEW w \in Writers, FinishGroup(w) PROVE UNCHANGED seqOf \/ Grouped
  BY <1>8 DEF FinishGroup, history
<1>9. ASSUME NEW w \in Writers, TEST_CompactMemTable(w) PROVE UNCHANGED seqOf \/ Grouped
  BY <1>9 DEF TEST_CompactMemTable, history
<1>10. ASSUME NEW c \in Compactors, TEST_CompactRange(c) PROVE UNCHANGED seqOf \/ Grouped
  BY <1>10 DEF TEST_CompactRange, history
<1>11. ASSUME BackgroundCall PROVE UNCHANGED seqOf \/ Grouped
  BY <1>11 DEF BackgroundCall, history
<1>12. ASSUME FlushDuringMerge PROVE UNCHANGED seqOf \/ Grouped
  BY <1>12 DEF FlushDuringMerge, history
<1>13. ASSUME BuildTable PROVE UNCHANGED seqOf \/ Grouped
  BY <1>13 DEF BuildTable, history
<1>14. ASSUME BuildTableFails PROVE UNCHANGED seqOf \/ Grouped
  BY <1>14 DEF BuildTableFails, history
<1>15. ASSUME LogFlush PROVE UNCHANGED seqOf \/ Grouped
  BY <1>15 DEF LogFlush, history
<1>16. ASSUME InstallFlush PROVE UNCHANGED seqOf \/ Grouped
  BY <1>16 DEF InstallFlush, history
<1>17. ASSUME InstallFlushFails PROVE UNCHANGED seqOf \/ Grouped
  BY <1>17 DEF InstallFlushFails, history
<1>18. ASSUME BuildMerge PROVE UNCHANGED seqOf \/ Grouped
  BY <1>18 DEF BuildMerge, history
<1>19. ASSUME LogMerge PROVE UNCHANGED seqOf \/ Grouped
  BY <1>19 DEF LogMerge, history
<1>20. ASSUME InstallMerge PROVE UNCHANGED seqOf \/ Grouped
  BY <1>20 DEF InstallMerge, history
<1>21. ASSUME MergeFails PROVE UNCHANGED seqOf \/ Grouped
  BY <1>21 DEF MergeFails, history
<1>22. ASSUME NullDereference PROVE UNCHANGED seqOf \/ Grouped
  BY <1>22 DEF NullDereference, EndProcess, history
<1>23. ASSUME Recover PROVE UNCHANGED seqOf \/ Grouped
  BY <1>23 DEF Recover, history
<1>24. ASSUME RecoverLogFile PROVE UNCHANGED seqOf \/ Grouped
  BY <1>24 DEF RecoverLogFile, history
<1>25. ASSUME CreateLog PROVE UNCHANGED seqOf \/ Grouped
  BY <1>25 DEF CreateLog, history
<1>26. ASSUME LogRecovery PROVE UNCHANGED seqOf \/ Grouped
  BY <1>26 DEF LogRecovery, history
<1>27. ASSUME InstallRecovery PROVE UNCHANGED seqOf \/ Grouped
  BY <1>27 DEF InstallRecovery, history
<1>28. ASSUME BeginClose PROVE UNCHANGED seqOf \/ Grouped
  BY <1>28 DEF BeginClose, history
<1>29. ASSUME Close PROVE UNCHANGED seqOf \/ Grouped
  BY <1>29 DEF Close, history
<1>30. ASSUME ProcessCrash PROVE UNCHANGED seqOf \/ Grouped
  BY <1>30 DEF ProcessCrash, EndProcess, history
<1>31. ASSUME MachineCrash PROVE UNCHANGED seqOf \/ Grouped
  BY <1>31 DEF MachineCrash, history
<1>32. CASE \/ UNCHANGED vars
  BY <1>32 DEF vars, history
<1> QED
  BY <1>1, <1>2, <1>3, <1>4, <1>5, <1>6, <1>7, <1>8, <1>9, <1>10, <1>11,
     <1>12, <1>13, <1>14, <1>15, <1>16, <1>17, <1>18, <1>19, <1>20, <1>21,
     <1>22, <1>23, <1>24, <1>25, <1>26, <1>27, <1>28, <1>29, <1>30, <1>31,
     <1>32 DEF Next, Writing, Background, Opening


(* The group of a step that begins none is the same, or gone. *)
LEMMA SameGroupOrNone ==
  ASSUME Typed, Queued, [Next]_vars, ~Grouped
  PROVE  \/ BatchesOf(group)' = BatchesOf(group)
         \/ /\ BatchesOf(group)' = {}
            /\ phase' = "closed" \/ \E w \in Writers : FinishGroup(w)
<1>1. ASSUME NEW w \in Writers, Enqueue(w) PROVE BatchesOf(group)' = BatchesOf(group)
  <2>1. writers' = Append(writers, w) /\ group' = group
    BY <1>1 DEF Enqueue
  <2>2. writers \in Seq(Writers) /\ group \in 0..Len(writers) /\ Len(writers) \in Nat
    BY DEF Typed, TypedCalls
  <2>3. \A i \in 1..group : writers'[i] = writers[i]
    BY <2>1, <2>2
  <2> QED
    BY <2>1, <2>3 DEF BatchesOf
<1>2. group' = 0 => BatchesOf(group)' = {}
  BY DEF BatchesOf
<1>4. group = 0 => BatchesOf(group) = {}
  BY DEF BatchesOf
<1>3. CASE UNCHANGED <<writers, group>>
  BY <1>3 DEF BatchesOf
<1> QED
  BY <1>1, <1>2, <1>3, <1>4, QueueStep DEF QueueNext, Shorter

(* What is stored keeps its number. *)
LEMMA StoredKeepNumber ==
  ASSUME Typed, Queued, Fresh, [Next]_vars
  PROVE  \A b \in Stored : seqOf'[b] = seqOf[b]
<1>1. CASE UNCHANGED seqOf
  BY <1>1
<1>2. CASE Grouped
  <2>1. Stored \subseteq Writers
    BY DEF Stored, InLogs, InFiles, Batches, Typed, TypedBatches
  <2> QED
    BY <1>2, <2>1, NewGroup DEF Fresh
<1> QED
  BY <1>1, <1>2, NumbersStep

(* No step gives two stored batches one number. *)
LEMMA DistinctStep ==
  ASSUME Typed, Queued, Numbered, Filed, Fresh, Distinct, Ahead, [Next]_vars
  PROVE  Distinct'
<1>1. Stored' \subseteq Stored \cup BatchesOf(group)
  BY StoredBefore
<1>2. CASE ~Grouped
  <2>1. BatchesOf(group)' \subseteq BatchesOf(group)
    BY <1>2, SameGroupOrNone
  <2>2. seqOf' = seqOf
    BY <1>2, NumbersStep
  <2> QED
    BY <1>1, <2>1, <2>2 DEF Distinct
<1>3. CASE Grouped
  <2>1. Stored' \subseteq Stored
    BY <1>1, <1>3, NewGroup
  <2>2. \A b \in Stored : seqOf'[b] = seqOf[b] /\ seqOf[b] <= lastSequence /\ seqOf[b] \in Nat
    <3>1. \A b \in Stored : seqOf'[b] = seqOf[b] /\ seqOf[b] <= lastSequence
      BY <1>3, NewGroup, StoredKeepNumber DEF Ahead, Stored
    <3>2. \A b \in Stored : seqOf[b] \in Nat
      BY DEF Stored, InLogs, InFiles, Batches, Typed, TypedBatches, TypedNumbers
    <3> QED
      BY <3>1, <3>2
  <2>3. \A b \in BatchesOf(group)' : lastSequence < seqOf'[b]
    BY <1>3, NewGroup
  <2>4. \A b, d \in BatchesOf(group)' : seqOf'[b] = seqOf'[d] => b = d
    BY <1>3, NewGroup
  <2>5. \A b, d \in Stored : seqOf'[b] = seqOf'[d] => b = d
    BY <2>2 DEF Distinct
  <2>6. \A b \in Stored : \A d \in BatchesOf(group)' : seqOf'[b] # seqOf'[d]
    <3>1. lastSequence \in Nat
      BY DEF Typed, TypedNumbers
    <3> QED
      BY <2>2, <2>3, <3>1
  <2> DEFINE new == BatchesOf(group)'
  <2>7. \A b, d \in Stored' \cup new : seqOf'[b] = seqOf'[d] => b = d
    <3> HIDE DEF new
    <3>1. \A b, d \in new : seqOf'[b] = seqOf'[d] => b = d
      BY <2>4 DEF new
    <3>2. \A b \in Stored : \A d \in new : seqOf'[b] # seqOf'[d]
      BY <2>6 DEF new
    <3> QED
      BY <2>1, <2>5, <3>1, <3>2
  <2> QED
    BY <2>7 DEF Distinct
<1> QED
  BY <1>2, <1>3

-----------------------------------------------------------------------------
(* The counter and the MANIFEST *)

(* How a step may change the counter of an open database *)
CounterNext ==
  \/ phase' # "open"
  \/ phase = "open" /\ phase' = "open" /\ lastSequence' = lastSequence
  \/ \E w \in Writers : FinishGroup(w)
  \/ InstallRecovery

(* Only an answer, or an open, changes it. *)
LEMMA CounterStep ==
  ASSUME TRUE, [Next]_vars
  PROVE  CounterNext
<1>1. ASSUME NEW w \in Writers, Enqueue(w) PROVE CounterNext
  BY <1>1 DEF Enqueue, CounterNext, MutexFree, numbers
<1>2. ASSUME NEW w \in Writers, WriteRefused(w) PROVE CounterNext
  BY <1>2 DEF WriteRefused, AtMakeRoom, CounterNext, MutexFree, numbers
<1>3. ASSUME NEW w \in Writers, BeginGroup(w) PROVE CounterNext
  BY <1>3 DEF BeginGroup, AtMakeRoom, CounterNext, MutexFree, numbers
<1>4. ASSUME NEW w \in Writers, Stall(w) PROVE CounterNext
  BY <1>4 DEF Stall, AtMakeRoom, CounterNext, MutexFree, numbers
<1>5. ASSUME NEW w \in Writers, SwitchMemTable(w) PROVE CounterNext
  BY <1>5 DEF SwitchMemTable, AtMakeRoom, CounterNext, MutexFree, numbers
<1>6. ASSUME NEW w \in Writers, AddRecord(w) PROVE CounterNext
  BY <1>6 DEF AddRecord, CounterNext, MutexFree, numbers
<1>7. ASSUME NEW w \in Writers, SyncLog(w) PROVE CounterNext
  BY <1>7 DEF SyncLog, CounterNext, MutexFree, numbers
<1>8. ASSUME NEW w \in Writers, FinishGroup(w) PROVE CounterNext
  BY <1>8 DEF FinishGroup, CounterNext
<1>9. ASSUME NEW w \in Writers, TEST_CompactMemTable(w) PROVE CounterNext
  BY <1>9 DEF TEST_CompactMemTable, CounterNext, MutexFree, numbers
<1>10. ASSUME NEW c \in Compactors, TEST_CompactRange(c) PROVE CounterNext
  BY <1>10 DEF TEST_CompactRange, CounterNext, MutexFree, numbers
<1>11. ASSUME BackgroundCall PROVE CounterNext
  BY <1>11 DEF BackgroundCall, CounterNext, MutexFree, numbers
<1>12. ASSUME FlushDuringMerge PROVE CounterNext
  BY <1>12 DEF FlushDuringMerge, CounterNext, MutexFree, numbers
<1>13. ASSUME BuildTable PROVE CounterNext
  BY <1>13 DEF BuildTable, CounterNext, MutexFree, numbers
<1>14. ASSUME BuildTableFails PROVE CounterNext
  BY <1>14 DEF BuildTableFails, CounterNext, MutexFree, numbers
<1>15. ASSUME LogFlush PROVE CounterNext
  BY <1>15 DEF LogFlush, CounterNext, MutexFree, numbers
<1>16. ASSUME InstallFlush PROVE CounterNext
  BY <1>16 DEF InstallFlush, CounterNext, MutexFree, numbers
<1>17. ASSUME InstallFlushFails PROVE CounterNext
  BY <1>17 DEF InstallFlushFails, CounterNext, MutexFree, numbers
<1>18. ASSUME BuildMerge PROVE CounterNext
  BY <1>18 DEF BuildMerge, CounterNext, MutexFree, numbers
<1>19. ASSUME LogMerge PROVE CounterNext
  BY <1>19 DEF LogMerge, CounterNext, MutexFree, numbers
<1>20. ASSUME InstallMerge PROVE CounterNext
  BY <1>20 DEF InstallMerge, CounterNext, MutexFree, numbers
<1>21. ASSUME MergeFails PROVE CounterNext
  BY <1>21 DEF MergeFails, CounterNext, MutexFree, numbers
<1>22. ASSUME NullDereference PROVE CounterNext
  BY <1>22 DEF NullDereference, EndProcess, LoseMemory, CounterNext,
    MutexFree, numbers
<1>23. ASSUME Recover PROVE CounterNext
  BY <1>23 DEF Recover, CounterNext, MutexFree, numbers
<1>24. ASSUME RecoverLogFile PROVE CounterNext
  BY <1>24 DEF RecoverLogFile, CounterNext, MutexFree, numbers
<1>25. ASSUME CreateLog PROVE CounterNext
  BY <1>25 DEF CreateLog, CounterNext, MutexFree, numbers
<1>26. ASSUME LogRecovery PROVE CounterNext
  BY <1>26 DEF LogRecovery, CounterNext, MutexFree, numbers
<1>27. ASSUME InstallRecovery PROVE CounterNext
  BY <1>27 DEF InstallRecovery, CounterNext
<1>28. ASSUME BeginClose PROVE CounterNext
  BY <1>28 DEF BeginClose, CounterNext, MutexFree, numbers
<1>29. ASSUME Close PROVE CounterNext
  BY <1>29 DEF Close, LoseMemory, CounterNext, MutexFree, numbers
<1>30. ASSUME ProcessCrash PROVE CounterNext
  BY <1>30 DEF ProcessCrash, EndProcess, LoseMemory, CounterNext, MutexFree,
    numbers
<1>31. ASSUME MachineCrash PROVE CounterNext
  BY <1>31 DEF MachineCrash, LoseMemory, CounterNext, MutexFree, numbers
<1>32. CASE \/ UNCHANGED vars
  BY <1>32 DEF vars, numbers, CounterNext
<1> QED
  BY <1>1, <1>2, <1>3, <1>4, <1>5, <1>6, <1>7, <1>8, <1>9, <1>10, <1>11,
     <1>12, <1>13, <1>14, <1>15, <1>16, <1>17, <1>18, <1>19, <1>20, <1>21,
     <1>22, <1>23, <1>24, <1>25, <1>26, <1>27, <1>28, <1>29, <1>30, <1>31,
     <1>32 DEF Next, Writing, Background, Opening


(* What a step may write to the MANIFEST: the tables of the next version,  *)
(* with the counter as it is.                                              *)
ManifestNext ==
  \/ Kept' \subseteq Kept \/ EditsKept
  \/ /\ manifest'.synced \in Kept /\ manifest'.written.sequence = lastSequence
     /\ UNCHANGED <<tables, seqOf>>
     /\ phase = "open" \/ (LogRecovery /\ manifest'.written.version = Recovered)

(* Nothing else is written to it. *)
LEMMA ManifestStep ==
  ASSUME Typed, [Next]_vars
  PROVE  ManifestNext
<1>1. ASSUME NEW w \in Writers, Enqueue(w) PROVE ManifestNext
  <2>1. UNCHANGED manifest
    BY <1>1 DEF Enqueue, disk
  <2> QED
    BY <2>1 DEF ManifestNext, Kept
<1>2. ASSUME NEW w \in Writers, WriteRefused(w) PROVE ManifestNext
  <2>1. UNCHANGED manifest
    BY <1>2 DEF WriteRefused, disk
  <2> QED
    BY <2>1 DEF ManifestNext, Kept
<1>3. ASSUME NEW w \in Writers, BeginGroup(w) PROVE ManifestNext
  <2>1. UNCHANGED manifest
    BY <1>3 DEF BeginGroup, disk
  <2> QED
    BY <2>1 DEF ManifestNext, Kept
<1>4. ASSUME NEW w \in Writers, Stall(w) PROVE ManifestNext
  <2>1. UNCHANGED manifest
    BY <1>4 DEF Stall, disk
  <2> QED
    BY <2>1 DEF ManifestNext, Kept
<1>5. ASSUME NEW w \in Writers, SwitchMemTable(w) PROVE ManifestNext
  <2>1. UNCHANGED manifest
    BY <1>5 DEF SwitchMemTable, disk
  <2> QED
    BY <2>1 DEF ManifestNext, Kept
<1>6. ASSUME NEW w \in Writers, AddRecord(w) PROVE ManifestNext
  <2>1. UNCHANGED manifest
    BY <1>6 DEF AddRecord, disk
  <2> QED
    BY <2>1 DEF ManifestNext, Kept
<1>7. ASSUME NEW w \in Writers, SyncLog(w) PROVE ManifestNext
  <2>1. UNCHANGED manifest
    BY <1>7 DEF SyncLog, disk
  <2> QED
    BY <2>1 DEF ManifestNext, Kept
<1>8. ASSUME NEW w \in Writers, FinishGroup(w) PROVE ManifestNext
  <2>1. UNCHANGED manifest
    BY <1>8 DEF FinishGroup, disk
  <2> QED
    BY <2>1 DEF ManifestNext, Kept
<1>9. ASSUME NEW w \in Writers, TEST_CompactMemTable(w) PROVE ManifestNext
  <2>1. UNCHANGED manifest
    BY <1>9 DEF TEST_CompactMemTable, disk
  <2> QED
    BY <2>1 DEF ManifestNext, Kept
<1>10. ASSUME NEW c \in Compactors, TEST_CompactRange(c) PROVE ManifestNext
  <2>1. UNCHANGED manifest
    BY <1>10 DEF TEST_CompactRange, disk
  <2> QED
    BY <2>1 DEF ManifestNext, Kept
<1>11. ASSUME BackgroundCall PROVE ManifestNext
  <2>1. UNCHANGED manifest
    BY <1>11 DEF BackgroundCall, disk
  <2> QED
    BY <2>1 DEF ManifestNext, Kept
<1>12. ASSUME FlushDuringMerge PROVE ManifestNext
  <2>1. UNCHANGED manifest
    BY <1>12 DEF FlushDuringMerge, disk
  <2> QED
    BY <2>1 DEF ManifestNext, Kept
<1>13. ASSUME BuildTable PROVE ManifestNext
  <2>1. UNCHANGED manifest
    BY <1>13 DEF BuildTable, disk
  <2> QED
    BY <2>1 DEF ManifestNext, Kept
<1>14. ASSUME BuildTableFails PROVE ManifestNext
  <2>1. UNCHANGED manifest
    BY <1>14 DEF BuildTableFails, disk
  <2> QED
    BY <2>1 DEF ManifestNext, Kept
<1>15. ASSUME LogFlush PROVE ManifestNext
  <2>1. EditsKept \/ manifest' = [manifest EXCEPT !.written = Logged(Flushed(manifest.written.version))]
    BY <1>15, AddEditEffect DEF LogFlush, Typed
  <2>2. UNCHANGED <<tables, seqOf>> /\ (phase = "open" \/ LogRecovery)
    BY <1>15 DEF LogFlush, MutexFree, history
  <2>3. manifest \in [synced : Snapshots, written : Snapshots]
    BY DEF Typed, TypedVersions
  <2>4. CASE EditsKept
    BY <2>4 DEF ManifestNext
  <2>5. CASE manifest' = [manifest EXCEPT !.written = Logged(Flushed(manifest.written.version))]
    <3>1. manifest'.synced = manifest.synced /\ manifest'.written = Logged(Flushed(manifest.written.version))
      BY <2>3, <2>5
    <3>2. manifest'.written.sequence = lastSequence /\ manifest'.written.version = Flushed(manifest.written.version)
      BY <3>1 DEF Logged
    <3> QED
      BY <1>15, <2>2, <3>1, <3>2 DEF ManifestNext, Kept, LogFlush, MutexFree
  <2> QED
    BY <2>1, <2>4, <2>5
<1>16. ASSUME InstallFlush PROVE ManifestNext
  <2>1. manifest' = [manifest EXCEPT !.synced = manifest.written]
    BY <1>16 DEF InstallFlush
  <2>2. manifest \in [synced : Snapshots, written : Snapshots]
    BY DEF Typed, TypedVersions
  <2> QED
    BY <2>1, <2>2 DEF ManifestNext, Kept
<1>17. ASSUME InstallFlushFails PROVE ManifestNext
  BY <1>17, EditFailsEffect DEF InstallFlushFails, ManifestNext, Typed
<1>18. ASSUME BuildMerge PROVE ManifestNext
  <2>1. UNCHANGED manifest
    BY <1>18 DEF BuildMerge, disk
  <2> QED
    BY <2>1 DEF ManifestNext, Kept
<1>19. ASSUME LogMerge PROVE ManifestNext
  <2>1. EditsKept \/ manifest' = [manifest EXCEPT !.written = Logged(MergedInto(manifest.written.version))]
    BY <1>19, AddEditEffect DEF LogMerge, Typed
  <2>2. UNCHANGED <<tables, seqOf>> /\ (phase = "open" \/ LogRecovery)
    BY <1>19 DEF LogMerge, MutexFree, history
  <2>3. manifest \in [synced : Snapshots, written : Snapshots]
    BY DEF Typed, TypedVersions
  <2>4. CASE EditsKept
    BY <2>4 DEF ManifestNext
  <2>5. CASE manifest' = [manifest EXCEPT !.written = Logged(MergedInto(manifest.written.version))]
    <3>1. manifest'.synced = manifest.synced /\ manifest'.written = Logged(MergedInto(manifest.written.version))
      BY <2>3, <2>5
    <3>2. manifest'.written.sequence = lastSequence /\ manifest'.written.version = MergedInto(manifest.written.version)
      BY <3>1 DEF Logged
    <3> QED
      BY <1>19, <2>2, <3>1, <3>2 DEF ManifestNext, Kept, LogMerge, MutexFree
  <2> QED
    BY <2>1, <2>4, <2>5
<1>20. ASSUME InstallMerge PROVE ManifestNext
  <2>1. manifest' = [manifest EXCEPT !.synced = manifest.written]
    BY <1>20 DEF InstallMerge
  <2>2. manifest \in [synced : Snapshots, written : Snapshots]
    BY DEF Typed, TypedVersions
  <2> QED
    BY <2>1, <2>2 DEF ManifestNext, Kept
<1>21. ASSUME MergeFails PROVE ManifestNext
  <2>1. UNCHANGED manifest \/ EditsKept
    BY <1>21, EditFailsEffect DEF MergeFails, Typed
  <2> QED
    BY <2>1 DEF ManifestNext, Kept
<1>22. ASSUME NullDereference PROVE ManifestNext
  <2>1. UNCHANGED manifest \/ EditsKept
    BY <1>22, EditFailsEffect DEF NullDereference, Typed
  <2> QED
    BY <2>1 DEF ManifestNext, Kept
<1>23. ASSUME Recover PROVE ManifestNext
  <2>1. UNCHANGED manifest
    BY <1>23 DEF Recover, disk
  <2> QED
    BY <2>1 DEF ManifestNext, Kept
<1>24. ASSUME RecoverLogFile PROVE ManifestNext
  <2>1. UNCHANGED manifest
    BY <1>24 DEF RecoverLogFile, disk
  <2> QED
    BY <2>1 DEF ManifestNext, Kept
<1>25. ASSUME CreateLog PROVE ManifestNext
  <2>1. UNCHANGED manifest
    BY <1>25 DEF CreateLog, disk
  <2> QED
    BY <2>1 DEF ManifestNext, Kept
<1>26. ASSUME LogRecovery PROVE ManifestNext
  <2>1. UNCHANGED manifest \/ manifest' = [manifest EXCEPT !.written = Logged(Recovered)]
    BY <1>26 DEF LogRecovery
  <2>2. UNCHANGED <<tables, seqOf>> /\ (phase = "open" \/ LogRecovery)
    BY <1>26 DEF LogRecovery, MutexFree, history
  <2>3. manifest \in [synced : Snapshots, written : Snapshots]
    BY DEF Typed, TypedVersions
  <2>4. CASE UNCHANGED manifest
    BY <2>4 DEF ManifestNext, Kept
  <2>5. CASE manifest' = [manifest EXCEPT !.written = Logged(Recovered)]
    <3>1. manifest'.synced = manifest.synced /\ manifest'.written = Logged(Recovered)
      BY <2>3, <2>5
    <3>2. manifest'.written.sequence = lastSequence /\ manifest'.written.version = Recovered
      BY <3>1 DEF Logged
    <3> QED
      BY <1>26, <2>2, <3>1, <3>2 DEF ManifestNext, Kept
  <2> QED
    BY <2>1, <2>4, <2>5
<1>27. ASSUME InstallRecovery PROVE ManifestNext
  <2>1. manifest' = [manifest EXCEPT !.synced = manifest.written]
    BY <1>27 DEF InstallRecovery
  <2>2. manifest \in [synced : Snapshots, written : Snapshots]
    BY DEF Typed, TypedVersions
  <2> QED
    BY <2>1, <2>2 DEF ManifestNext, Kept
<1>28. ASSUME BeginClose PROVE ManifestNext
  <2>1. UNCHANGED manifest
    BY <1>28 DEF BeginClose, disk
  <2> QED
    BY <2>1 DEF ManifestNext, Kept
<1>29. ASSUME Close PROVE ManifestNext
  <2>1. \E m \in {manifest.synced, manifest.written} : manifest' = [manifest EXCEPT !.written = m]
    BY <1>29 DEF Close, EndProcess, MayLoseRecord
  <2>2. manifest \in [synced : Snapshots, written : Snapshots]
    BY DEF Typed, TypedVersions
  <2> QED
    BY <2>1, <2>2 DEF ManifestNext, Kept
<1>30. ASSUME ProcessCrash PROVE ManifestNext
  <2>1. \E m \in {manifest.synced, manifest.written} : manifest' = [manifest EXCEPT !.written = m]
    BY <1>30 DEF ProcessCrash, EndProcess, MayLoseRecord
  <2>2. manifest \in [synced : Snapshots, written : Snapshots]
    BY DEF Typed, TypedVersions
  <2> QED
    BY <2>1, <2>2 DEF ManifestNext, Kept
<1>31. ASSUME MachineCrash PROVE ManifestNext
  <2>1. \E m \in {manifest.synced, manifest.written} : manifest' = [synced |-> m, written |-> m]
    BY <1>31 DEF MachineCrash
  <2> QED
    BY <2>1 DEF ManifestNext, Kept
<1>32. CASE \/ UNCHANGED vars
  BY <1>32 DEF vars, disk, ManifestNext, Kept
<1> QED
  BY <1>1, <1>2, <1>3, <1>4, <1>5, <1>6, <1>7, <1>8, <1>9, <1>10, <1>11,
     <1>12, <1>13, <1>14, <1>15, <1>16, <1>17, <1>18, <1>19, <1>20, <1>21,
     <1>22, <1>23, <1>24, <1>25, <1>26, <1>27, <1>28, <1>29, <1>30, <1>31,
     <1>32 DEF Next, Writing, Background, Opening


(* No step puts a stored number ahead of the counter. *)
LEMMA AheadStep ==
  ASSUME Typed, Stopped, Queued, Numbered, Filed, Fresh, Ahead, Recorded, [Next]_vars,
         Stored \subseteq Batches
  PROVE  Ahead'
<1>1. /\ lastSequence \in Nat /\ CountTo(group) \in Nat
      /\ \A b \in Batches : seqOf[b] \in Nat
  BY CountToTyped DEF Typed, TypedNumbers, Batches
<1>2. StoredNext
  BY StoredStep
<1>3. CASE phase = "open" /\ phase' = "open" /\ lastSequence' = lastSequence /\ ~Grouped
           /\ ~\E w \in Writers : FinishGroup(w)
  <2>1. BatchesOf(group)' = BatchesOf(group) /\ CountTo(group)' = CountTo(group)
    BY <1>3, SameGroupOrNone DEF CountTo
  <2>2. seqOf' = seqOf
    BY <1>3, NumbersStep
  <2>3. /\ mem' \cup imm' \subseteq mem \cup imm
        /\ InFiles' \subseteq InFiles \cup imm
        /\ InLogs' \subseteq InLogs \cup BatchesOf(group)
    BY <1>2, <1>3 DEF StoredNext, FromLogs
  <2> QED
    BY <1>3, <2>1, <2>2, <2>3 DEF Ahead
<1>4. CASE Grouped
  <2>1. /\ phase = "open" /\ lastSequence' = lastSequence /\ BatchesOf(group) = {}
        /\ UNCHANGED <<memory, logs, tables>>
    BY <1>4, NewGroup
  <2>2. mem' = mem /\ imm' = imm /\ InFiles' = InFiles /\ InLogs' = InLogs
    BY <2>1 DEF memory, InFiles, InLogs
  <2>3. \A b \in Stored : seqOf'[b] = seqOf[b]
    BY StoredKeepNumber
  <2>4. \A b \in BatchesOf(group)' :
              lastSequence < seqOf'[b] /\ seqOf'[b] <= lastSequence + CountTo(group)'
    BY <1>4, NewGroup
  <2>5. \A b \in Stored : seqOf[b] <= lastSequence
    BY <2>1 DEF Ahead, Stored
  <2> QED
    BY <2>1, <2>2, <2>3, <2>4, <2>5 DEF Ahead, Stored
<1>5. ASSUME NEW w \in Writers, FinishGroup(w) PROVE Ahead'
  <2>1. /\ phase = "open" /\ seqOf' = seqOf /\ group' = 0
        /\ lastSequence' = lastSequence + CountTo(group)
    BY <1>5 DEF FinishGroup, MutexFree
  <2>2. BatchesOf(group)' = {}
    BY <2>1 DEF BatchesOf
  <2>3. \A b \in Stored \cup BatchesOf(group) :
          b \in Batches /\ (seqOf[b] <= lastSequence \/ seqOf[b] <= lastSequence + CountTo(group))
    BY <2>1 DEF Ahead, Stored, BatchesOf
  <2>4. \A b \in Stored \cup BatchesOf(group) : seqOf'[b] <= lastSequence'
    BY <1>1, <2>1, <2>3
  <2>5. Stored' \subseteq Stored \cup BatchesOf(group)
    BY StoredBefore
  <2> QED
    BY <2>2, <2>4, <2>5 DEF Ahead, Stored
<1>6. CASE InstallRecovery
  <2>1. /\ phase = "installing" /\ UNCHANGED <<mem, imm, lastSequence, seqOf, writers, group>>
        /\ DeleteObsoleteFiles(Recovered, {})
    BY <1>6 DEF InstallRecovery, queue, memory, numbers, history
  <2>2. mem' \cup imm' = {} /\ BatchesOf(group)' = {}
    BY <2>1 DEF Stopped, BatchesOf
  <2>3. /\ DOMAIN tables' \subseteq FilesOf(version) \cup edit
        /\ \A n \in DOMAIN tables' : tables'[n] = tables[n]
        /\ DOMAIN logs' \subseteq {n \in DOMAIN logs : n >= logNumber}
        /\ \A n \in DOMAIN logs' : logs'[n] = logs[n]
    <3>1. FilesOf(Recovered) = FilesOf(version) \cup edit /\ Recovered.log = logNumber
      BY FilesOfEdits DEF Recovered, Version
    <3>2. /\ DOMAIN logs' = {n \in DOMAIN logs : n >= Recovered.log}
          /\ \A n \in DOMAIN logs' : logs'[n] = logs[n]
          /\ DOMAIN tables' = DOMAIN tables \cap (FilesOf(Recovered) \cup {})
          /\ \A n \in DOMAIN tables' : tables'[n] = tables[n]
      BY <2>1, DeletedFiles
    <3> QED
      BY <3>1, <3>2
  <2>4. \A b \in InFiles' : seqOf'[b] <= lastSequence'
    BY <2>1, <2>3 DEF InFiles, Recorded
  <2>5. InLogs' = {}
    <3>1. /\ \A n \in DOMAIN logs : n <= logNumber
          /\ logs[logNumber] = EmptyLog
      BY <2>1 DEF Numbered
    <3>2. \A n \in DOMAIN logs' : n = logNumber
      BY <2>3, <3>1, NumberedTypes
    <3>3. \A n \in DOMAIN logs' : Len(logs'[n].records) = 0
      BY <2>3, <3>1, <3>2 DEF EmptyLog
    <3> QED
      BY <3>3 DEF InLogs
  <2> QED
    BY <2>2, <2>4, <2>5 DEF Ahead
<1>7. CASE phase' # "open"
  BY <1>7 DEF Ahead
<1> QED
  BY <1>3, <1>4, <1>5, <1>6, <1>7, CounterStep DEF CounterNext

(* The tables that a MANIFEST names keep what they hold, and its numbers. *)
LEMMA KeptTables ==
  ASSUME Typed, Stopped, Queued, Numbered, Filed, Filed', Fresh, [Next]_vars,
         NEW k \in Kept, NEW m \in Kept', m.version = k.version, NEW f \in FilesOf(m.version)
  PROVE  tables'[f] = tables[f] /\ \A b \in tables[f] : seqOf'[b] = seqOf[b]
<1>1. f \in DOMAIN tables /\ f \in DOMAIN tables'
  BY DEF Filed
<1>2. f \in InUse
  BY DEF InUse, Kept
<1>3. tables'[f] = tables[f]
  BY <1>1, <1>2, FilesNotOverwritten DEF FilesStep
<1>4. tables[f] \subseteq Stored
  BY <1>1, StoredTyped DEF Stored, InFiles
<1> QED
  BY <1>3, <1>4, StoredKeepNumber

(* A snapshot of the manifest knows a sequence as late as the batches of  *)
(* its tables.                                                            *)
LEMMA RecordedManifest ==
  ASSUME Typed, Stopped, Queued, Numbered, Filed, Filed', Fresh, Ahead, Recorded, [Next]_vars
  PROVE  \A m \in Kept' : \A f \in FilesOf(m.version) : \A b \in tables'[f] : seqOf'[b] <= m.sequence
<1>1. ASSUME NEW k \in Kept, NEW m \in Kept', m.version = k.version, m.sequence = k.sequence,
             NEW f \in FilesOf(m.version), NEW b \in tables'[f]
      PROVE  seqOf'[b] <= m.sequence
  BY <1>1, KeptTables DEF Recorded
<1>2. CASE Kept' \subseteq Kept \/ EditsKept
  <2>1. NothingNew
    BY <1>2, NoNewEdit DEF NothingNew
  <2> QED
    BY <1>1, <2>1 DEF NothingNew
<1>3. CASE /\ manifest'.synced \in Kept /\ manifest'.written.sequence = lastSequence
           /\ UNCHANGED <<tables, seqOf>>
           /\ phase = "open" \/ (LogRecovery /\ manifest'.written.version = Recovered)
  <2> DEFINE new == manifest'.written
  <2>1. new \in Kept' /\ new.sequence = lastSequence /\ manifest'.synced \in Kept'
    BY <1>3 DEF Kept
  <2>2. FilesOf(new.version) \subseteq DOMAIN tables
    BY <1>3, <2>1 DEF Filed
  <2>3. ASSUME NEW f \in FilesOf(new.version), NEW b \in tables'[f] PROVE seqOf'[b] <= new.sequence
    <3>1. b \in tables[f] /\ seqOf' = seqOf /\ f \in DOMAIN tables
      BY <1>3, <2>2
    <3>2. b \in InFiles
      BY <3>1, StoredTyped DEF InFiles
    <3>3. CASE phase = "open"
      BY <2>1, <3>1, <3>2, <3>3 DEF Ahead
    <3>4. CASE LogRecovery /\ new.version = Recovered
      <4>1. FilesOf(new.version) = FilesOf(version) \cup edit
        BY <3>4, FilesOfEdits
      <4>2. phase = "logging"
        BY <3>4 DEF LogRecovery
      <4> QED
        BY <2>1, <3>1, <4>1, <4>2 DEF Recorded
    <3> QED
      BY <1>3, <3>3, <3>4
  <2>4. \A m \in Kept' : m = manifest'.synced \/ m = new
    BY DEF Kept
  <2> HIDE DEF new
  <2>5. ASSUME NEW m \in Kept', NEW f \in FilesOf(m.version), NEW b \in tables'[f]
        PROVE  seqOf'[b] <= m.sequence
    <3>1. CASE m = manifest'.synced
      BY <1>1, <1>3, <3>1
    <3>2. CASE m = new
      BY <2>3, <3>2
    <3> QED
      BY <2>4, <3>1, <3>2
  <2> QED
    BY <2>5
<1> QED
  BY <1>2, <1>3, ManifestStep DEF ManifestNext

(* The tables a database has when it is opened, so far *)
Rebuilding ==
  phase \in {"recovering", "logging", "installing"} =>
    \A f \in FilesOf(version) \cup edit : \A b \in tables[f] : seqOf[b] <= lastSequence

(* Each table that is found or made raises the counter with it. *)
LEMMA RebuildingStep ==
  ASSUME Typed, Numbered, Filed, Recorded, [Next]_vars
  PROVE  Rebuilding'
<1>1. ASSUME NEW w \in Writers, Enqueue(w) PROVE Rebuilding'
  <2>1. phase' \in {"open", "closed"}
    BY <1>1 DEF Enqueue, MutexFree
  <2> QED
    BY <2>1 DEF Rebuilding
<1>2. ASSUME NEW w \in Writers, WriteRefused(w) PROVE Rebuilding'
  <2>1. phase' \in {"open", "closed"}
    BY <1>2 DEF WriteRefused, AtMakeRoom, MutexFree
  <2> QED
    BY <2>1 DEF Rebuilding
<1>3. ASSUME NEW w \in Writers, BeginGroup(w) PROVE Rebuilding'
  <2>1. phase' \in {"open", "closed"}
    BY <1>3 DEF BeginGroup, AtMakeRoom, MutexFree
  <2> QED
    BY <2>1 DEF Rebuilding
<1>4. ASSUME NEW w \in Writers, Stall(w) PROVE Rebuilding'
  <2>1. phase' \in {"open", "closed"}
    BY <1>4 DEF Stall, AtMakeRoom, MutexFree
  <2> QED
    BY <2>1 DEF Rebuilding
<1>5. ASSUME NEW w \in Writers, SwitchMemTable(w) PROVE Rebuilding'
  <2>1. phase' \in {"open", "closed"}
    BY <1>5 DEF SwitchMemTable, AtMakeRoom, MutexFree
  <2> QED
    BY <2>1 DEF Rebuilding
<1>6. ASSUME NEW w \in Writers, AddRecord(w) PROVE Rebuilding'
  <2>1. phase' \in {"open", "closed"}
    BY <1>6 DEF AddRecord, MutexFree
  <2> QED
    BY <2>1 DEF Rebuilding
<1>7. ASSUME NEW w \in Writers, SyncLog(w) PROVE Rebuilding'
  <2>1. phase' \in {"open", "closed"}
    BY <1>7 DEF SyncLog, MutexFree
  <2> QED
    BY <2>1 DEF Rebuilding
<1>8. ASSUME NEW w \in Writers, FinishGroup(w) PROVE Rebuilding'
  <2>1. phase' \in {"open", "closed"}
    BY <1>8 DEF FinishGroup, MutexFree
  <2> QED
    BY <2>1 DEF Rebuilding
<1>9. ASSUME NEW w \in Writers, TEST_CompactMemTable(w) PROVE Rebuilding'
  <2>1. phase' \in {"open", "closed"}
    BY <1>9 DEF TEST_CompactMemTable, MutexFree
  <2> QED
    BY <2>1 DEF Rebuilding
<1>10. ASSUME NEW c \in Compactors, TEST_CompactRange(c) PROVE Rebuilding'
  <2>1. phase' \in {"open", "closed"}
    BY <1>10 DEF TEST_CompactRange, MutexFree
  <2> QED
    BY <2>1 DEF Rebuilding
<1>11. ASSUME BackgroundCall PROVE Rebuilding'
  <2>1. phase' \in {"open", "closed"}
    BY <1>11 DEF BackgroundCall, MutexFree
  <2> QED
    BY <2>1 DEF Rebuilding
<1>12. ASSUME FlushDuringMerge PROVE Rebuilding'
  <2>1. phase' \in {"open", "closed"}
    BY <1>12 DEF FlushDuringMerge, MutexFree
  <2> QED
    BY <2>1 DEF Rebuilding
<1>13. ASSUME BuildTable PROVE Rebuilding'
  <2>1. phase' \in {"open", "closed"}
    BY <1>13 DEF BuildTable, MutexFree
  <2> QED
    BY <2>1 DEF Rebuilding
<1>14. ASSUME BuildTableFails PROVE Rebuilding'
  <2>1. phase' \in {"open", "closed"}
    BY <1>14 DEF BuildTableFails, MutexFree
  <2> QED
    BY <2>1 DEF Rebuilding
<1>15. ASSUME LogFlush PROVE Rebuilding'
  <2>1. phase' \in {"open", "closed"}
    BY <1>15 DEF LogFlush, MutexFree
  <2> QED
    BY <2>1 DEF Rebuilding
<1>16. ASSUME InstallFlush PROVE Rebuilding'
  <2>1. phase' \in {"open", "closed"}
    BY <1>16 DEF InstallFlush, MutexFree
  <2> QED
    BY <2>1 DEF Rebuilding
<1>17. ASSUME InstallFlushFails PROVE Rebuilding'
  <2>1. phase' \in {"open", "closed"}
    BY <1>17 DEF InstallFlushFails, MutexFree
  <2> QED
    BY <2>1 DEF Rebuilding
<1>18. ASSUME BuildMerge PROVE Rebuilding'
  <2>1. phase' \in {"open", "closed"}
    BY <1>18 DEF BuildMerge, MutexFree
  <2> QED
    BY <2>1 DEF Rebuilding
<1>19. ASSUME LogMerge PROVE Rebuilding'
  <2>1. phase' \in {"open", "closed"}
    BY <1>19 DEF LogMerge, MutexFree
  <2> QED
    BY <2>1 DEF Rebuilding
<1>20. ASSUME InstallMerge PROVE Rebuilding'
  <2>1. phase' \in {"open", "closed"}
    BY <1>20 DEF InstallMerge, MutexFree
  <2> QED
    BY <2>1 DEF Rebuilding
<1>21. ASSUME MergeFails PROVE Rebuilding'
  <2>1. phase' \in {"open", "closed"}
    BY <1>21 DEF MergeFails, MutexFree
  <2> QED
    BY <2>1 DEF Rebuilding
<1>22. ASSUME NullDereference PROVE Rebuilding'
  <2>1. phase' \in {"open", "closed"}
    BY <1>22 DEF NullDereference, EndProcess, LoseMemory
  <2> QED
    BY <2>1 DEF Rebuilding
<1>23. ASSUME Recover PROVE Rebuilding'
  <2>1. /\ version' = manifest.written.version /\ lastSequence' = manifest.written.sequence
        /\ edit' = {} /\ UNCHANGED <<tables, seqOf>>
    BY <1>23 DEF Recover, disk, history
  <2>2. \A f \in FilesOf(manifest.written.version) : \A b \in tables[f] : seqOf[b] <= manifest.written.sequence
    BY DEF Recorded, Kept
  <2>3. FilesOf(version') \cup edit' = FilesOf(manifest.written.version)
    BY <2>1
  <2> QED
    BY <2>1, <2>2, <2>3 DEF Rebuilding
<1>24. ASSUME RecoverLogFile PROVE Rebuilding'
  <2> DEFINE n == Smallest(toReplay)
             batches == Replay(logs[n])
             last == MaxSequence(batches)
  <2>1. phase = "recovering" /\ UNCHANGED <<version, seqOf>> /\ toReplay # {}
    BY <1>24 DEF RecoverLogFile, history
  <2>2. \/ phase' = "closed"
        \/ /\ lastSequence' = last
           /\ \/ UNCHANGED <<tables, edit>>
              \/ tables' = With(tables, nextFile, batches) /\ edit' = edit \cup {nextFile}
    BY <1>24 DEF RecoverLogFile
  <2>3. batches \in SUBSET Batches
    <3>1. n \in DOMAIN logs
      BY <2>1, SmallestExists, NumberedTypes DEF Typed, TypedFiles
    <3> QED
      BY <3>1, ReplayTyped DEF Typed, TypedFiles
  <2>4. /\ last \in Nat /\ last >= lastSequence /\ \A b \in batches : last >= seqOf[b]
        /\ \A b \in batches : seqOf[b] \in Nat
    BY <2>3, MaxSequenceIsMax DEF Typed, TypedNumbers, Batches
  <2> DEFINE S == FilesOf(version) \cup edit
  <2>5. /\ S \subseteq DOMAIN tables
        /\ \A f \in S : f # nextFile
    <3>1. FilesOf(version) \cup edit \subseteq DOMAIN tables
      BY <2>1 DEF Filed, Typed, TypedFiles
    <3>2. \A f \in FilesOf(version) \cup edit : f < nextFile
      BY <2>1 DEF Numbered, FilesBelow
    <3> QED
      BY <3>1, <3>2, NumberedTypes
  <2>6. \A f \in S : \A b \in tables[f] : seqOf[b] <= last
    <3>1. \A f \in S : \A b \in tables[f] : b \in Batches /\ seqOf[b] <= lastSequence
      BY <2>1, <2>5, StoredTyped DEF Recorded
    <3>2. lastSequence \in Nat /\ \A b \in Batches : seqOf[b] \in Nat
      BY DEF Typed, TypedNumbers, Batches
    <3> HIDE DEF last, S
    <3> QED
      BY <2>4, <3>1, <3>2
  <2>7. \A b \in batches : seqOf[b] <= last
    BY <2>4
  <2> HIDE DEF last, batches, n, S
  <2>8. CASE UNCHANGED <<tables, edit>> /\ lastSequence' = last
    BY <2>1, <2>6, <2>8 DEF Rebuilding, S
  <2>9. CASE tables' = With(tables, nextFile, batches) /\ edit' = edit \cup {nextFile} /\ lastSequence' = last
    <3>1. /\ tables'[nextFile] = batches
          /\ \A f \in DOMAIN tables : f # nextFile => tables'[f] = tables[f]
      BY <2>9, NewTable
    <3>2. \A f \in S \cup {nextFile} : \A b \in tables'[f] : seqOf[b] <= last
      BY <2>5, <2>6, <2>7, <3>1
    <3>3. FilesOf(version') \cup edit' = S \cup {nextFile}
      BY <2>1, <2>9 DEF S
    <3> QED
      BY <2>1, <2>9, <3>2, <3>3 DEF Rebuilding
  <2> QED
    BY <2>2, <2>8, <2>9 DEF Rebuilding
<1>25. ASSUME CreateLog PROVE Rebuilding'
  <2>1. /\ UNCHANGED <<version, tables, seqOf, lastSequence>> /\ phase = "recovering"
        /\ phase' = "closed" \/ edit' = edit
    BY <1>25 DEF CreateLog, numbers, history, opening
  <2> QED
    BY <2>1 DEF Rebuilding, Recorded
<1>26. ASSUME LogRecovery PROVE Rebuilding'
  <2>1. /\ UNCHANGED <<version, tables, seqOf, lastSequence>> /\ phase = "logging"
        /\ phase' = "closed" \/ edit' = edit
    BY <1>26 DEF LogRecovery, numbers, history, opening
  <2> QED
    BY <2>1 DEF Rebuilding, Recorded
<1>27. ASSUME InstallRecovery PROVE Rebuilding'
  <2>1. phase' \in {"open", "closed"}
    BY <1>27 DEF InstallRecovery
  <2> QED
    BY <2>1 DEF Rebuilding
<1>28. ASSUME BeginClose PROVE Rebuilding'
  <2>1. phase' \in {"open", "closed"}
    BY <1>28 DEF BeginClose, MutexFree
  <2> QED
    BY <2>1 DEF Rebuilding
<1>29. ASSUME Close PROVE Rebuilding'
  <2>1. phase' \in {"open", "closed"}
    BY <1>29 DEF Close, LoseMemory
  <2> QED
    BY <2>1 DEF Rebuilding
<1>30. ASSUME ProcessCrash PROVE Rebuilding'
  <2>1. phase' \in {"open", "closed"}
    BY <1>30 DEF ProcessCrash, EndProcess, LoseMemory
  <2> QED
    BY <2>1 DEF Rebuilding
<1>31. ASSUME MachineCrash PROVE Rebuilding'
  <2>1. phase' \in {"open", "closed"}
    BY <1>31 DEF MachineCrash, LoseMemory
  <2> QED
    BY <2>1 DEF Rebuilding
<1>32. CASE \/ UNCHANGED vars
  <2>1. UNCHANGED <<phase, version, edit, tables, seqOf, lastSequence>>
    BY <1>32 DEF vars, opening, disk, history, numbers
  <2> QED
    BY <2>1 DEF Rebuilding, Recorded
<1> QED
  BY <1>1, <1>2, <1>3, <1>4, <1>5, <1>6, <1>7, <1>8, <1>9, <1>10, <1>11,
     <1>12, <1>13, <1>14, <1>15, <1>16, <1>17, <1>18, <1>19, <1>20, <1>21,
     <1>22, <1>23, <1>24, <1>25, <1>26, <1>27, <1>28, <1>29, <1>30, <1>31,
     <1>32 DEF Next, Writing, Background, Opening


(* The counters of MANIFEST and recovery are never behind their tables. *)
LEMMA RecordedStep ==
  ASSUME Typed, Stopped, Queued, Numbered, Filed, Filed', Fresh, Ahead, Recorded, [Next]_vars
  PROVE  Recorded'
BY RecordedManifest, RebuildingStep DEF Recorded, Rebuilding

-----------------------------------------------------------------------------
(* The theorem *)

InOrder == Sound /\ Fresh /\ Distinct /\ Ahead /\ Recorded

(* In a new database the numbers are in order. *)
LEMMA InitInOrder == Init => InOrder
<1> SUFFICES ASSUME Init PROVE InOrder
  OBVIOUS
<1>1. Sound
  BY InitSound
<1>2. Stored = {}
  BY DEF Init, Stored, InLogs, InFiles, EmptyLog
<1>3. BatchesOf(group) = {}
  BY DEF Init, BatchesOf
<1>4. Fresh /\ Distinct /\ Ahead
  BY <1>2, <1>3 DEF Fresh, Distinct, Ahead, Stored
<1>5. \A m \in Kept : FilesOf(m.version) = {}
  BY DEF Init, Kept, FirstManifest, FirstVersion, Version, FilesOf
<1>6. Recorded
  BY <1>5 DEF Init, Recorded
<1> QED
  BY <1>1, <1>4, <1>6 DEF InOrder

(* Every step keeps the numbers in order, whatever fails. *)
LEMMA InOrderStep == InOrder /\ [Next]_vars => InOrder'
<1> SUFFICES ASSUME InOrder, [Next]_vars PROVE InOrder'
  OBVIOUS
<1>1. Sound /\ Sound'
  BY SoundStep DEF InOrder
<1>2. Typed /\ Stopped /\ Queued /\ Numbered /\ Filed /\ Filed'
  BY <1>1 DEF Sound
<1>3. Fresh /\ Distinct /\ Ahead /\ Recorded
  BY DEF InOrder
<1>4. Stored \subseteq Batches
  BY <1>2 DEF Stored, InLogs, InFiles, Typed, TypedBatches
<1>5. Fresh' /\ Distinct'
  BY <1>2, <1>3, FreshStep, DistinctStep
<1>6. Ahead' /\ Recorded'
  BY <1>2, <1>3, <1>4, AheadStep, RecordedStep
<1> QED
  BY <1>1, <1>5, <1>6 DEF InOrder

(* Whatever fails, the next write gets a number above all that the open    *)
(* database holds, and no two batches in it share one: a read that goes by *)
(* the largest number finds the last write.                                *)
THEOREM SequenceStaysAhead == Spec => []SequenceAhead
<1>1. InOrder => SequenceAhead
  <2> SUFFICES ASSUME InOrder, phase = "open" PROVE
        /\ \A b \in Visible : seqOf[b] <= lastSequence
        /\ \A b, d \in Visible : seqOf[b] = seqOf[d] => b = d
    BY DEF SequenceAhead
  <2>1. Typed /\ FilesOf(version) \subseteq DOMAIN tables
    BY DEF InOrder, Sound, Filed
  <2>2. Visible \subseteq mem \cup imm \cup InFiles
    BY <2>1, StoredTyped DEF Visible, InTables, InFiles
  <2> QED
    BY <2>2 DEF InOrder, Ahead, Distinct, Stored
<1> QED
  BY <1>1, InitInOrder, InOrderStep, PTL DEF Spec

=============================================================================
