----------------------------- MODULE DBImplProofs -----------------------------
(***************************************************************************)
(* What holds of the write path and the recovery of leveldb for any number *)
(* of writers, any sizes and any number of failures and ends.              *)
(***************************************************************************)
EXTENDS DBImpl, FiniteSetTheorems, SequenceTheorems, WellFoundedInduction, TLAPS

-----------------------------------------------------------------------------
(* The inductive invariant, in parts *)

Stages == {"none", "build", "built", "logged"}
NumberSets == {S \in SUBSET Nat : IsFiniteSet(S)}
Versions == [log : Nat, l0 : NumberSets, deep : SUBSET Nat]
Tails == {"whole", "torn", "corrupt"}
Snapshots == [version : Versions, sequence : Nat, next : Nat, tail : Tails]
Records == [batches : SUBSET Batches, whole : BOOLEAN]
LogFiles == [records : Seq(Records), synced : Nat]

(* The types, those of the records included *)
TypedCalls ==
  /\ phase \in {"open", "closed", "recovering", "logging", "installing"}
  /\ writers \in Seq(Writers)
  /\ pc \in [Writers -> Answered \cup AtWork \cup {"asleep", "written", "waits"}]
  /\ group \in 0..Len(writers)
  /\ outcome \in {"ok", "append", "sync"}
  /\ hasImm \in BOOLEAN /\ bgError \in BOOLEAN
  /\ bgScheduled \in BOOLEAN /\ shuttingDown \in BOOLEAN
  /\ manual \in Compactors \cup {NoOne}
  /\ cpc \in [Compactors -> {"idle", "ready", "stalled", "done", "lost"}]
  /\ cdone \in [Compactors -> BOOLEAN]

TypedBatches ==
  /\ mem \subseteq Batches /\ imm \subseteq Batches
  /\ acked \subseteq Batches /\ safe \subseteq Batches

TypedNumbers ==
  /\ lastSequence \in Nat /\ nextFile \in Nat /\ logNumber \in Nat
  /\ faults \in Nat /\ ends \in Nat
  /\ seqOf \in [Writers -> Nat]

TypedVersions ==
  /\ flush \in [stage : Stages, number : Nat]
  /\ merge \in [stage : Stages, number : Nat, inputs : SUBSET Nat, manual : BOOLEAN]
  /\ version \in Versions
  /\ manifest \in [synced : Snapshots, written : Snapshots]
  /\ edit \in NumberSets

TypedFiles ==
  /\ DOMAIN logs \subseteq Nat /\ logs \in [DOMAIN logs -> LogFiles]
  /\ DOMAIN tables \subseteq Nat /\ tables \in [DOMAIN tables -> SUBSET Batches]
  /\ toReplay \subseteq DOMAIN logs
  /\ edit \subseteq DOMAIN tables

Typed == TypedCalls /\ TypedBatches /\ TypedNumbers /\ TypedVersions /\ TypedFiles

(* Outside an open database there is nothing in memory, and the stages of  *)
(* DB::Open leave behind what they say.                                    *)
Stopped ==
  /\ phase # "open" =>
       /\ writers = <<>> /\ group = 0 /\ outcome = "ok"
       /\ mem = {} /\ imm = {} /\ ~hasImm
       /\ ~bgError /\ ~bgScheduled /\ ~shuttingDown
       /\ flush = NoFlush /\ merge = NoMerge /\ manual = NoOne
       /\ \A w \in Writers : pc[w] \in Answered
       /\ \A c \in Compactors : cpc[c] \in {"idle", "done", "lost"}
  /\ phase \in {"open", "logging", "installing"} => toReplay = {}
  /\ phase = "open" => edit = {}

(* The background thread: no stage without its number, a merge is not      *)
(* installed while a memtable is, and a memtable that is flushed is there. *)
Staged ==
  /\ flush.stage = "none" => flush = NoFlush
  /\ merge.stage = "none" => merge = NoMerge
  /\ merge.stage = "logged" => flush = NoFlush
  /\ flush # NoFlush => hasImm
  /\ ~hasImm => imm = {}

(* The queue: nobody is in it twice, its front is at work and the others   *)
(* sleep, and so does nobody else.  The front has a group from the time it *)
(* begins to write until the group has its answer.                         *)
Queued ==
  /\ \A i, j \in 1..Len(writers) : writers[i] = writers[j] => i = j
  /\ \A i \in 1..Len(writers) : pc[writers[i]] \in IF i = 1 THEN AtWork ELSE {"asleep"}
  /\ \A w \in Writers : pc[w] \in AtWork \cup {"asleep"} =>
       \E i \in 1..Len(writers) : writers[i] = w
  /\ \A w \in Writers : pc[w] \in {"append", "sync", "insert"} => group > 0
  /\ group > 0 => pc[writers[1]] \in {"append", "sync", "insert"}

(* Work to do is scheduled, and so is what somebody waits for. *)
Scheduled ==
  /\ (flush # NoFlush \/ merge # NoMerge) => bgScheduled
  /\ (phase = "open" /\ ~bgError /\ ~shuttingDown /\
      (hasImm \/ NeedsCompaction(version) \/ manual # NoOne)) => bgScheduled
  /\ (\E w \in Writers : pc[w] \in {"stalled", "waits"}) => bgScheduled
  /\ (\E c \in Compactors : cpc[c] = "stalled") => bgScheduled
  /\ shuttingDown =>
       /\ \A w \in Writers : pc[w] \in Answered
       /\ \A c \in Compactors : cpc[c] \in {"idle", "done", "lost"}

-----------------------------------------------------------------------------
(* Files *)

Kept == {manifest.synced, manifest.written}
FilesBelow(v, n) == v.log < n /\ \A f \in FilesOf(v) : f < n

(* File numbers are given out in order: those that a MANIFEST names are    *)
(* below its counter, those of an open database below its own.             *)
Numbered ==
  /\ \A m \in Kept : FilesBelow(m.version, m.next)
  /\ manifest.synced.next <= manifest.written.next
  /\ phase = "open" =>
       /\ logNumber \in DOMAIN logs /\ logNumber < nextFile
       /\ \A n \in DOMAIN logs : n <= logNumber
       /\ \A n \in DOMAIN tables : n < nextFile
       /\ version.log <= logNumber
       /\ \A m \in Kept : m.next <= nextFile /\ m.version.log <= logNumber
       /\ flush # NoFlush => flush.number < nextFile
       /\ merge # NoMerge => merge.number < nextFile
       /\ flush # NoFlush /\ merge # NoMerge => flush.number # merge.number
       /\ flush.stage = "build" => flush.number \notin DOMAIN tables
       /\ merge.stage = "build" => merge.number \notin DOMAIN tables
  /\ phase \in {"recovering", "logging", "installing"} =>
       /\ FilesBelow(version, nextFile)
       /\ \A n \in edit : n < nextFile
       /\ \A n \in DOMAIN logs : n < nextFile \/ n \in toReplay
       /\ \A m \in Kept : m.next <= nextFile
  /\ phase \in {"recovering", "logging"} => version = manifest.written.version
  /\ phase \in {"logging", "installing"} =>
       /\ logNumber \in DOMAIN logs /\ logNumber < nextFile
       /\ \A n \in DOMAIN logs : n <= logNumber
       /\ version.log <= logNumber /\ \A m \in Kept : m.version.log <= logNumber
       /\ logs[logNumber] = EmptyLog
  /\ phase = "installing" => manifest.written.version = Recovered

(* What a step of the background thread has written to the MANIFEST and    *)
(* not yet installed                                                       *)
Pending ==
  IF flush.stage = "logged" THEN Flushed(version)
  ELSE IF merge.stage = "logged" THEN MergedInto(version)
  ELSE version

(* Every table of a version is there, and without a background error the   *)
(* MANIFEST is whole and the current version's.                            *)
Filed ==
  /\ \A m \in Kept : FilesOf(m.version) \subseteq DOMAIN tables
  /\ phase # "closed" => FilesOf(version) \subseteq DOMAIN tables
  /\ phase = "open" /\ ~bgError =>
       /\ manifest.synced.version = version /\ manifest.written.version = Pending
       /\ manifest.written.tail = "whole"
  /\ phase = "installing" => manifest.written.tail = "whole"
  /\ flush.stage \in {"built", "logged"} =>
       flush.number \in DOMAIN tables /\ tables[flush.number] = imm
  /\ flush.stage = "logged" /\ imm # {} /\ manifest.written.tail = "whole" =>
       flush.number \in FilesOf(manifest.written.version)
  /\ merge # NoMerge => merge.inputs \subseteq FilesOf(version)
  /\ merge.stage \in {"built", "logged"} =>
       /\ merge.number \in DOMAIN tables
       /\ \A n \in merge.inputs : tables[n] \subseteq tables[merge.number]
  /\ merge.stage = "logged" /\ manifest.written.tail = "whole" =>
       merge.number \in FilesOf(manifest.written.version)

-----------------------------------------------------------------------------
(* The MANIFEST *)

(* A step that adds no edit to what the MANIFEST adds up to *)
EditsKept ==
  /\ manifest' \in [synced : Snapshots, written : Snapshots]
  /\ manifest'.synced = manifest.synced
  /\ manifest'.written.version = manifest.written.version
  /\ manifest'.written.sequence = manifest.written.sequence
  /\ manifest'.written.next = manifest.written.next
  /\ manifest'.written.tail = "whole" => manifest.written.tail = "whole"

(* The MANIFEST says nothing new. *)
NothingNew ==
  \A m \in Kept' : \E k \in Kept :
    m.version = k.version /\ m.sequence = k.sequence /\ m.next = k.next

LEMMA NoNewEdit == EditsKept => NothingNew
  BY DEF EditsKept, NothingNew, Kept

(* What is added behind a part of a record is not read. *)
LEMMA BehindKept ==
  ASSUME TypedVersions, NEW m \in Behind(manifest.written),
         manifest' = [manifest EXCEPT !.written = m], manifest.written.tail # "whole"
  PROVE  EditsKept /\ manifest'.written.tail # "whole"
<1>1. PICK t \in {manifest.written.tail, "corrupt"} : m = [manifest.written EXCEPT !.tail = t]
  BY DEF Behind
<1>2. manifest.written \in Snapshots /\ t \in Tails
  BY <1>1 DEF TypedVersions, Snapshots, Tails
<1>3. /\ m \in Snapshots /\ m.tail = t
      /\ m.version = manifest.written.version /\ m.sequence = manifest.written.sequence
      /\ m.next = manifest.written.next
  BY <1>1, <1>2 DEF Snapshots
<1>4. manifest' \in [synced : Snapshots, written : Snapshots]
      /\ manifest'.synced = manifest.synced /\ manifest'.written = m
  BY <1>3 DEF TypedVersions
<1> QED BY <1>1, <1>3, <1>4 DEF EditsKept

(* An edit is added, or the MANIFEST could not be read to its end before.  *)
LEMMA AddEditEffect ==
  ASSUME TypedVersions, NEW v, AddEdit(v)
  PROVE  \/ manifest' = [manifest EXCEPT !.written = Logged(v)] /\ manifest.written.tail = "whole"
         \/ EditsKept /\ manifest'.written.tail # "whole" /\ manifest.written.tail # "whole"
<1>1. CASE manifest.written.tail = "whole"
  BY <1>1 DEF AddEdit
<1>2. CASE manifest.written.tail # "whole"
  BY <1>2, BehindKept DEF AddEdit
<1> QED BY <1>1, <1>2

(* An edit of which a part is added is not read. *)
LEMMA AddPartEffect ==
  ASSUME TypedVersions, AddPartOfEdit
  PROVE  EditsKept /\ manifest'.written.tail # "whole"
<1>1. CASE manifest.written.tail = "whole"
  <2> DEFINE m == [manifest.written EXCEPT !.tail = "torn"]
  <2>1. manifest' = [manifest EXCEPT !.written = m]
    BY <1>1 DEF AddPartOfEdit
  <2>2. manifest.written \in Snapshots
    BY DEF TypedVersions
  <2>3. /\ m \in Snapshots /\ m.tail = "torn"
        /\ m.version = manifest.written.version /\ m.sequence = manifest.written.sequence
        /\ m.next = manifest.written.next
    BY <2>2 DEF Snapshots, Tails
  <2> HIDE DEF m
  <2>4. manifest' \in [synced : Snapshots, written : Snapshots]
        /\ manifest'.synced = manifest.synced /\ manifest'.written = m
    BY <2>1, <2>3 DEF TypedVersions
  <2> QED BY <2>3, <2>4 DEF EditsKept
<1>2. CASE manifest.written.tail # "whole"
  BY <1>2, BehindKept DEF AddPartOfEdit
<1> QED BY <1>1, <1>2

(* A LogAndApply that fails adds no edit. *)
LEMMA EditFailsEffect ==
  ASSUME TypedVersions, NEW stage, EditFails(stage)
  PROVE  /\ EditsKept /\ stage \in {"built", "logged"}
         /\ UNCHANGED manifest \/ "tornEdit" \in Faults
         /\ faults' = faults \/ faults' = faults + 1
<1>1. CASE UNCHANGED manifest
  BY <1>1 DEF EditsKept, TypedVersions, EditFails, Fails
<1>2. CASE AddPartOfEdit
  BY <1>2, AddPartEffect DEF EditFails, Fails
<1> QED BY <1>1, <1>2 DEF EditFails

-----------------------------------------------------------------------------
(* Numbers and finite sets *)

(* A set of numbers has a smallest one. *)
LEMMA SmallestExists ==
  ASSUME NEW S \in SUBSET Nat, S # {}
  PROVE  Smallest(S) \in S /\ \A m \in S : Smallest(S) <= m
<1>1. \E n \in S : \A m \in S : ~(<<m, n>> \in OpToRel(<, Nat))
  BY NatLessThanWellFounded, WFMin
<1>2. \A m, n \in Nat : <<m, n>> \in OpToRel(<, Nat) \/ n <= m
  <2>1. \A m, n \in Nat : m < n \/ n <= m
    OBVIOUS
  <2> QED
    BY <2>1, Zenon DEF OpToRel
<1>3. \E n \in S : \A m \in S : n <= m
  BY <1>1, <1>2, Zenon
<1> QED
  BY <1>3 DEF Smallest

(* A function with numbers for values is largest somewhere on a finite set. *)
LEMMA LargestExists ==
  ASSUME NEW S, IsFiniteSet(S), S # {}, NEW f, \A x \in S : f[x] \in Nat
  PROVE  \E x \in S : \A y \in S : f[y] <= f[x]
<1> DEFINE Without(T) == \A x \in T : \E y \in T : ~(f[y] <= f[x])
           Sizes == {Cardinality(T) : T \in {U \in SUBSET S : U # {} /\ Without(U)}}
<1> SUFFICES ASSUME Without(S) PROVE FALSE
  OBVIOUS
<1>1. Sizes # {} /\ Sizes \subseteq Nat
  <2>1. S \in {U \in SUBSET S : U # {} /\ Without(U)}
    OBVIOUS
  <2>2. \A T \in SUBSET S : Cardinality(T) \in Nat
    BY FS_Subset, FS_CardinalityType
  <2> QED
    BY <2>1, <2>2
<1>2. PICK n \in Sizes : \A m \in Sizes : n <= m
  <2> HIDE DEF Sizes
  <2> QED
    BY <1>1, SmallestExists
<1>3. PICK T \in SUBSET S : T # {} /\ Without(T) /\ n = Cardinality(T)
  BY <1>2
<1>4. PICK x \in T : TRUE
  BY <1>3
<1>5. IsFiniteSet(T) /\ Cardinality(T) \in Nat /\ Cardinality(T \ {x}) = Cardinality(T) - 1
  BY FS_Subset, FS_RemoveElement, FS_CardinalityType, <1>4
<1>6. T \ {x} # {}
  BY <1>3, <1>4
<1>7. ~Without(T \ {x})
  <2>1. SUFFICES ASSUME Without(T \ {x}) PROVE FALSE
    OBVIOUS
  <2>2. Cardinality(T \ {x}) \in Sizes
    BY <1>6, <2>1
  <2> HIDE DEF Sizes
  <2> QED
    BY <2>2, <1>2, <1>3, <1>5
<1>8. PICK z \in T \ {x} : \A y \in T \ {x} : f[y] <= f[z]
  BY <1>7
<1>9. CASE f[x] <= f[z]
  BY <1>9, <1>8, <1>3, <1>4
<1>10. CASE ~(f[x] <= f[z])
  <2>1. \A y \in T : f[y] <= f[x]
    BY <1>10, <1>8, <1>4
  <2> QED
    BY <2>1, <1>3, <1>4
<1> QED
  BY <1>9, <1>10

-----------------------------------------------------------------------------
(* Types *)

Places == Answered \cup AtWork \cup {"asleep", "written", "waits"}
CallPlaces == {"idle", "ready", "stalled", "done", "lost"}

(* Who is woken is at a place there is. *)
LEMMA WokenTyped ==
  ASSUME NEW places
  PROVE  /\ places \in [Writers -> Places] => Woken(places) \in [Writers -> Places]
         /\ places \in [Compactors -> CallPlaces] => Woken(places) \in [Compactors -> CallPlaces]
  BY DEF Woken, Places, CallPlaces, Answered, AtWork

(* SignalAll leaves everybody at a place there is. *)
LEMMA SignalAllTyped ==
  ASSUME TypedCalls, SignalAll
  PROVE  /\ pc' \in [Writers -> Answered \cup AtWork \cup {"asleep", "written", "waits"}]
         /\ cpc' \in [Compactors -> {"idle", "ready", "stalled", "done", "lost"}]
  BY WokenTyped DEF SignalAll, TypedCalls, Places, CallPlaces

(* So does the answer to the front of the queue, which leaves a queue. *)
LEMMA PoppedTyped ==
  ASSUME TypedCalls, NEW n \in 0..Len(writers), NEW status \in {"done", "failed"}
  PROVE  /\ Popped(n, status) \in [Writers -> Places]
         /\ SubSeq(writers, n + 1, Len(writers)) \in Seq(Writers)
<1>1. Popped(n, status) \in [Writers -> Places]
  BY DEF Popped, Answer, TypedCalls, Places, Answered, AtWork
<1>2. \A i \in (n + 1)..Len(writers) : writers[i] \in Writers
  BY DEF TypedCalls
<1> QED
  BY <1>1, <1>2, SubSeqProperties DEF TypedCalls

(* The end of the process leaves no call under way. *)
LEMMA LoseMemoryTyped ==
  ASSUME TypedCalls, LoseMemory, UNCHANGED cdone
  PROVE  TypedCalls'
<1>1. pc' \in [Writers -> Answered \cup AtWork \cup {"asleep", "written", "waits"}]
  BY DEF LoseMemory, TypedCalls, Answered
<1>2. cpc' \in [Compactors -> {"idle", "ready", "stalled", "done", "lost"}]
  BY DEF LoseMemory, TypedCalls
<1>3. /\ writers' = <<>> /\ group' = 0 /\ outcome' = "ok" /\ phase' = "closed"
      /\ hasImm' = FALSE /\ bgError' = FALSE /\ bgScheduled' = FALSE
      /\ shuttingDown' = FALSE /\ manual' = NoOne
  BY DEF LoseMemory
<1>4. writers' \in Seq(Writers) /\ group' \in 0..Len(writers')
  BY <1>3
<1> QED
  BY <1>1, <1>2, <1>3, <1>4 DEF TypedCalls

(* The calls keep their types. *)
LEMMA TypedCallsStep ==
  ASSUME Typed, [Next]_vars
  PROVE  TypedCalls'
<1>1. ASSUME NEW w \in Writers, Enqueue(w) PROVE TypedCalls'
  BY <1>1 DEF Enqueue, Typed, TypedCalls, Answered, AtWork, vars, queue,
    memory, numbers, bg, ranges, opening, disk, promises, history
<1>2. ASSUME NEW w \in Writers, WriteRefused(w) PROVE TypedCalls'
  BY <1>2, PoppedTyped DEF WriteRefused, Pop, Front, AtMakeRoom, Places,
    CallPlaces, Typed, TypedCalls, Answered, AtWork, vars, queue, memory,
    numbers, bg, ranges, opening, disk, promises, history
<1>3. ASSUME NEW w \in Writers, BeginGroup(w) PROVE TypedCalls'
  <2>1. writers # <<>> /\ Len(writers) >= 1
    BY <1>3 DEF BeginGroup, AtMakeRoom, Front, Typed, TypedCalls
  <2>2. CASE w \in NullWriters
    <3>1. /\ writers' = SubSeq(writers, 2, Len(writers)) /\ pc' = Popped(1, "done")
          /\ group' = 0 /\ outcome' = "ok"
      BY <1>3, <2>2 DEF BeginGroup, Pop
    <3>2. pc' \in [Writers -> Places] /\ writers' \in Seq(Writers)
      BY <2>1, <3>1, PoppedTyped DEF Typed, TypedCalls
    <3> QED
      BY <1>3, <3>1, <3>2 DEF BeginGroup, Typed, TypedCalls, Places, vars, bg, ranges, memory
  <2>3. CASE w \notin NullWriters
    <3>1. PICK n \in 1..Len(writers) : group' = n
      BY <1>3, <2>3 DEF BeginGroup
    <3>2. pc' = [pc EXCEPT ![w] = "append"] /\ UNCHANGED <<writers, outcome>>
      BY <1>3, <2>3 DEF BeginGroup
    <3> QED
      BY <1>3, <3>1, <3>2 DEF BeginGroup, Typed, TypedCalls, AtWork, vars, bg, ranges, memory
  <2> QED
    BY <2>2, <2>3
<1>4. ASSUME NEW w \in Writers, Stall(w) PROVE TypedCalls'
  BY <1>4 DEF Stall, Typed, TypedCalls, Answered, AtWork, vars, queue,
    memory, numbers, bg, ranges, opening, disk, promises, history
<1>5. ASSUME NEW w \in Writers, SwitchMemTable(w) PROVE TypedCalls'
  <2>1. writers # <<>> /\ Len(writers) >= 1
    BY <1>5 DEF SwitchMemTable, AtMakeRoom, Front, Typed, TypedCalls
  <2>2. CASE Pop(1, "failed") /\ UNCHANGED <<memory, bgScheduled>>
    <3>1. pc' \in [Writers -> Places] /\ writers' \in Seq(Writers) /\ group' = 0 /\ outcome' = "ok"
      BY <2>1, <2>2, PoppedTyped DEF Typed, TypedCalls, Pop
    <3> QED
      BY <1>5, <2>2, <3>1 DEF SwitchMemTable, Typed, TypedCalls, Places, ranges, memory
  <2>3. CASE /\ pc' = [pc EXCEPT ![w] = "switched"] /\ hasImm' = TRUE
             /\ MaybeScheduleCompaction(bgScheduled, bgError, TRUE, version)
             /\ UNCHANGED <<writers, group, outcome>>
    BY <1>5, <2>3 DEF SwitchMemTable, MaybeScheduleCompaction, Typed, TypedCalls, AtWork, ranges
  <2> QED
    BY <1>5, <2>2, <2>3 DEF SwitchMemTable
<1>6. ASSUME NEW w \in Writers, AddRecord(w) PROVE TypedCalls'
  BY <1>6 DEF AddRecord, Typed, TypedCalls, Answered, AtWork, vars, queue,
    memory, numbers, bg, ranges, opening, disk, promises, history
<1>7. ASSUME NEW w \in Writers, SyncLog(w) PROVE TypedCalls'
  BY <1>7 DEF SyncLog, Typed, TypedCalls, Answered, AtWork, vars, queue,
    memory, numbers, bg, ranges, opening, disk, promises, history
<1>8. ASSUME NEW w \in Writers, FinishGroup(w) PROVE TypedCalls'
  <2>1. /\ pc' \in {Popped(group, "done"), Popped(group, "failed"), Woken(Popped(group, "failed"))}
        /\ cpc' \in {cpc, Woken(cpc)} /\ bgError' \in BOOLEAN
    BY <1>8 DEF FinishGroup, Typed, TypedCalls
  <2>2. pc' \in [Writers -> Places] /\ SubSeq(writers, group + 1, Len(writers)) \in Seq(Writers)
    BY <2>1, PoppedTyped, WokenTyped DEF Typed, TypedCalls
  <2>3. cpc' \in [Compactors -> CallPlaces]
    BY <2>1, WokenTyped DEF Typed, TypedCalls, CallPlaces
  <2> QED
    BY <1>8, <2>1, <2>2, <2>3 DEF FinishGroup, Typed, TypedCalls, Places, CallPlaces
<1>9. ASSUME NEW w \in Writers, TEST_CompactMemTable(w) PROVE TypedCalls'
  BY <1>9 DEF TEST_CompactMemTable, Typed, TypedCalls, Answered, AtWork,
    vars, queue, memory, numbers, bg, ranges, opening, disk, promises,
    history
<1>10. ASSUME NEW c \in Compactors, TEST_CompactRange(c) PROVE TypedCalls'
  BY <1>10 DEF TEST_CompactRange, MaybeScheduleCompaction, Typed, TypedCalls,
    Answered, AtWork, vars, queue, memory, numbers, bg, ranges, opening,
    disk, promises, history
<1>11. ASSUME BackgroundCall PROVE TypedCalls'
  BY <1>11, SignalAllTyped DEF BackgroundCall, EndCall,
    MaybeScheduleCompaction, Places, CallPlaces, Typed, TypedCalls, Answered,
    AtWork, vars, queue, memory, numbers, bg, ranges, opening, disk,
    promises, history
<1>12. ASSUME BuildTableFails PROVE TypedCalls'
  BY <1>12, SignalAllTyped DEF BuildTableFails, CallGoesOn, BackgroundError,
    EndCall, MaybeScheduleCompaction, Places, CallPlaces, Typed, TypedCalls,
    Answered, AtWork, vars, queue, memory, numbers, bg, ranges, opening,
    disk, promises, history
<1>13. ASSUME LogFlush PROVE TypedCalls'
  BY <1>13 DEF LogFlush, Typed, TypedCalls, memory, queue, ranges
<1>14. ASSUME InstallFlush PROVE TypedCalls'
  BY <1>14, SignalAllTyped DEF InstallFlush, CallGoesOn, BackgroundError,
    EndCall, MaybeScheduleCompaction, Places, CallPlaces, Typed, TypedCalls,
    Answered, AtWork, vars, queue, memory, numbers, bg, ranges, opening,
    disk, promises, history
<1>15. ASSUME InstallFlushFails PROVE TypedCalls'
  BY <1>15, SignalAllTyped DEF InstallFlushFails, CallGoesOn,
    BackgroundError, EndCall, MaybeScheduleCompaction, Places, CallPlaces,
    Typed, TypedCalls, Answered, AtWork, vars, queue, memory, numbers, bg,
    ranges, opening, disk, promises, history
<1>16. ASSUME LogMerge PROVE TypedCalls'
  BY <1>16 DEF LogMerge, Typed, TypedCalls, memory, queue, ranges
<1>17. ASSUME InstallMerge PROVE TypedCalls'
  BY <1>17, SignalAllTyped DEF InstallMerge, EndMerge, BackgroundError,
    EndCall, MaybeScheduleCompaction, Places, CallPlaces, Typed, TypedCalls,
    Answered, AtWork, vars, queue, memory, numbers, bg, ranges, opening,
    disk, promises, history
<1>18. ASSUME MergeFails PROVE TypedCalls'
  BY <1>18, SignalAllTyped DEF MergeFails, EndMerge, BackgroundError,
    EndCall, MaybeScheduleCompaction, Places, CallPlaces, Typed, TypedCalls,
    Answered, AtWork, vars, queue, memory, numbers, bg, ranges, opening,
    disk, promises, history
<1>19. ASSUME NullDereference PROVE TypedCalls'
  BY <1>19, LoseMemoryTyped DEF NullDereference, EndProcess, Typed
<1>20. ASSUME Recover PROVE TypedCalls'
  BY <1>20 DEF Recover, Typed, TypedCalls, Answered, AtWork, vars, queue,
    memory, numbers, bg, ranges, opening, disk, promises, history
<1>21. ASSUME RecoverLogFile PROVE TypedCalls'
  BY <1>21 DEF RecoverLogFile, Typed, TypedCalls, Answered, AtWork, vars,
    queue, memory, numbers, bg, ranges, opening, disk, promises, history
<1>22. ASSUME CreateLog PROVE TypedCalls'
  BY <1>22 DEF CreateLog, Typed, TypedCalls, Answered, AtWork, vars, queue,
    memory, numbers, bg, ranges, opening, disk, promises, history
<1>23. ASSUME LogRecovery PROVE TypedCalls'
  BY <1>23 DEF LogRecovery, Typed, TypedCalls, Answered, AtWork, vars, queue,
    memory, numbers, bg, ranges, opening, disk, promises, history
<1>24. ASSUME InstallRecovery PROVE TypedCalls'
  BY <1>24 DEF InstallRecovery, MaybeScheduleCompaction, Typed, TypedCalls,
    Answered, AtWork, vars, queue, memory, numbers, bg, ranges, opening,
    disk, promises, history
<1>25. ASSUME BeginClose PROVE TypedCalls'
  BY <1>25 DEF BeginClose, Typed, TypedCalls, Answered, AtWork, vars, queue,
    memory, numbers, bg, ranges, opening, disk, promises, history
<1>26. ASSUME Close PROVE TypedCalls'
  BY <1>26, LoseMemoryTyped DEF Close, Typed
<1>27. ASSUME ProcessCrash PROVE TypedCalls'
  BY <1>27, LoseMemoryTyped DEF ProcessCrash, EndProcess, Typed
<1>28. ASSUME MachineCrash PROVE TypedCalls'
  BY <1>28, LoseMemoryTyped DEF MachineCrash, Typed
<1>29. CASE \/ FlushDuringMerge \/ BuildTable \/ BuildMerge \/ UNCHANGED vars
  BY <1>29 DEF FlushDuringMerge, BuildTable, BuildMerge, Typed, TypedCalls,
    Answered, AtWork, vars, queue, memory, numbers, bg, ranges, opening,
    disk, promises, history
<1> QED
  BY <1>1, <1>2, <1>3, <1>4, <1>5, <1>6, <1>7, <1>8, <1>9, <1>10, <1>11,
     <1>12, <1>13, <1>14, <1>15, <1>16, <1>17, <1>18, <1>19, <1>20, <1>21,
     <1>22, <1>23, <1>24, <1>25, <1>26, <1>27, <1>28, <1>29 DEF Next, Writing, Background, Opening


(* A group has a number of batches. *)
LEMMA CountToTyped ==
  ASSUME NEW i
  PROVE  BatchesOf(i) \subseteq Writers /\ IsFiniteSet(BatchesOf(i)) /\ CountTo(i) \in Nat
<1>1. BatchesOf(i) \in SUBSET Writers
  BY DEF BatchesOf, Batches
<1> QED
  BY <1>1, CallAssumption, FS_Subset, FS_CardinalityType DEF CountTo

(* A log has batches. *)
LEMMA ReplayTyped ==
  ASSUME NEW log \in LogFiles
  PROVE  Replay(log) \subseteq Batches
<1>1. log.records \in Seq(Records)
  BY DEF LogFiles
<1>2. \A i \in 1..Len(log.records) : log.records[i] \in Records
  BY <1>1
<1>3. \A i \in 1..Len(log.records) : log.records[i].batches \subseteq Batches
  BY <1>2 DEF Records
<1> QED
  BY <1>3 DEF Replay

(* The sequence number that recovery goes on with is no smaller than any   *)
(* it has met.                                                             *)
LEMMA MaxSequenceIsMax ==
  ASSUME TypedNumbers, NEW batches \in SUBSET Batches
  PROVE  /\ MaxSequence(batches) \in Nat
         /\ MaxSequence(batches) >= lastSequence
         /\ \A b \in batches : MaxSequence(batches) >= seqOf[b]
<1> DEFINE Candidates == {lastSequence} \cup {seqOf[b] : b \in batches}
           Largest(last) == last >= lastSequence /\ \A b \in batches : last >= seqOf[b]
<1>1. \A b \in batches : seqOf[b] \in Nat
  BY DEF TypedNumbers, Batches
<1>2. \E last \in Candidates : Largest(last)
  <2>1. CASE batches = {}
    BY <2>1 DEF TypedNumbers
  <2>2. CASE batches # {}
    <3>1. IsFiniteSet(batches)
      BY CallAssumption, FS_Subset DEF Batches
    <3>2. PICK x \in batches : \A y \in batches : seqOf[y] <= seqOf[x]
      BY <3>1, <2>2, <1>1, LargestExists
    <3>3. CASE seqOf[x] >= lastSequence
      BY <3>2, <3>3, <1>1 DEF TypedNumbers
    <3>4. CASE ~(seqOf[x] >= lastSequence)
      BY <3>2, <3>4, <1>1 DEF TypedNumbers
    <3> QED
      BY <3>3, <3>4
  <2> QED
    BY <2>1, <2>2
<1>3. MaxSequence(batches) \in Candidates /\ Largest(MaxSequence(batches))
  BY <1>2 DEF MaxSequence
<1> QED
  BY <1>1, <1>3 DEF TypedNumbers

(* The memtables and the promises are of batches. *)
LEMMA TypedBatchesStep ==
  ASSUME Typed, [Next]_vars
  PROVE  TypedBatches'
<1>1. ASSUME NEW w \in Writers, SwitchMemTable(w) PROVE TypedBatches'
  BY <1>1 DEF SwitchMemTable, Typed, TypedBatches, vars, queue, memory,
    numbers, bg, ranges, opening, disk, promises, history
<1>2. ASSUME NEW w \in Writers, FinishGroup(w) PROVE TypedBatches'
  BY <1>2 DEF FinishGroup, BatchesOf, Typed, TypedBatches, vars, queue,
    memory, numbers, bg, ranges, opening, disk, promises, history
<1>3. ASSUME BuildTableFails PROVE TypedBatches'
  BY <1>3 DEF BuildTableFails, BackgroundError, Typed, TypedBatches, vars,
    queue, memory, numbers, bg, ranges, opening, disk, promises, history
<1>4. ASSUME LogFlush PROVE TypedBatches'
  BY <1>4 DEF LogFlush, BackgroundError, Typed, TypedBatches, vars, queue,
    memory, numbers, bg, ranges, opening, disk, promises, history
<1>5. ASSUME InstallFlush PROVE TypedBatches'
  BY <1>5 DEF InstallFlush, Typed, TypedBatches, vars, queue, memory,
    numbers, bg, ranges, opening, disk, promises, history
<1>6. ASSUME InstallFlushFails PROVE TypedBatches'
  BY <1>6 DEF InstallFlushFails, BackgroundError, Typed, TypedBatches, vars,
    queue, memory, numbers, bg, ranges, opening, disk, promises, history
<1>7. ASSUME LogMerge PROVE TypedBatches'
  BY <1>7 DEF LogMerge, BackgroundError, Typed, TypedBatches, vars, queue,
    memory, numbers, bg, ranges, opening, disk, promises, history
<1>8. ASSUME MergeFails PROVE TypedBatches'
  BY <1>8 DEF MergeFails, BackgroundError, Typed, TypedBatches, vars, queue,
    memory, numbers, bg, ranges, opening, disk, promises, history
<1>9. ASSUME NullDereference PROVE TypedBatches'
  BY <1>9 DEF NullDereference, LoseMemory, EndProcess, Typed, TypedBatches,
    vars, queue, memory, numbers, bg, ranges, opening, disk, promises,
    history
<1>10. ASSUME Close PROVE TypedBatches'
  BY <1>10 DEF Close, LoseMemory, Typed, TypedBatches, vars, queue, memory,
    numbers, bg, ranges, opening, disk, promises, history
<1>11. ASSUME ProcessCrash PROVE TypedBatches'
  BY <1>11 DEF ProcessCrash, LoseMemory, EndProcess, Typed, TypedBatches,
    vars, queue, memory, numbers, bg, ranges, opening, disk, promises,
    history
<1>12. ASSUME MachineCrash PROVE TypedBatches'
  BY <1>12 DEF MachineCrash, LoseMemory, Typed, TypedBatches, vars, queue,
    memory, numbers, bg, ranges, opening, disk, promises, history
<1>13. CASE \/ (\E w \in Writers : Enqueue(w))
            \/ (\E w \in Writers : WriteRefused(w))
            \/ (\E w \in Writers : BeginGroup(w))
            \/ (\E w \in Writers : Stall(w))
            \/ (\E w \in Writers : AddRecord(w))
            \/ (\E w \in Writers : SyncLog(w))
            \/ (\E w \in Writers : TEST_CompactMemTable(w))
            \/ (\E c \in Compactors : TEST_CompactRange(c)) \/ BackgroundCall
            \/ FlushDuringMerge \/ BuildTable \/ BuildMerge \/ InstallMerge
            \/ Recover \/ RecoverLogFile \/ CreateLog \/ LogRecovery
            \/ InstallRecovery \/ BeginClose \/ UNCHANGED vars
  BY <1>13 DEF Enqueue, WriteRefused, BeginGroup, Stall, AddRecord, SyncLog,
    TEST_CompactMemTable, TEST_CompactRange, BackgroundCall,
    FlushDuringMerge, BuildTable, BuildMerge, InstallMerge, Recover,
    RecoverLogFile, CreateLog, LogRecovery, InstallRecovery, BeginClose,
    Typed, TypedBatches, vars, queue, memory, numbers, bg, ranges, opening,
    disk, promises, history
<1> QED
  BY <1>1, <1>2, <1>3, <1>4, <1>5, <1>6, <1>7, <1>8, <1>9, <1>10, <1>11,
     <1>12, <1>13 DEF Next, Writing, Background, Opening


(* The counters stay numbers. *)
LEMMA TypedNumbersStep ==
  ASSUME Typed, [Next]_vars
  PROVE  TypedNumbers'
<1>1. ASSUME NEW w \in Writers, BeginGroup(w) PROVE TypedNumbers'
  <2>1. seqOf' \in [Writers -> Nat]
    <3>1. CASE w \in NullWriters
      BY <1>1, <3>1 DEF BeginGroup, Typed, TypedNumbers
    <3>2. CASE w \notin NullWriters
      <4> DEFINE Numbers(n) == [b \in Writers |->
                    IF b \in BatchesOf(n)
                    THEN lastSequence + CountTo(CHOOSE i \in 1..n : writers[i] = b)
                    ELSE seqOf[b]]
      <4>1. PICK n \in 1..Len(writers) : seqOf' = Numbers(n)
        BY <1>1, <3>2 DEF BeginGroup
      <4>2. \A i : CountTo(i) \in Nat
        BY CountToTyped
      <4>3. Numbers(n) \in [Writers -> Nat]
        BY <4>2 DEF Typed, TypedNumbers
      <4> QED
        BY <4>1, <4>3
    <3> QED
      BY <3>1, <3>2
  <2> QED
    BY <1>1, <2>1 DEF BeginGroup, Typed, TypedNumbers, numbers
<1>2. ASSUME NEW w \in Writers, SwitchMemTable(w) PROVE TypedNumbers'
  <2>1. /\ nextFile' \in {nextFile, nextFile + 1} /\ logNumber' \in {logNumber, nextFile}
        /\ faults' \in {faults, faults + 1}
        /\ UNCHANGED <<lastSequence, seqOf, ends>>
    BY <1>2 DEF SwitchMemTable, Fails, history
  <2> QED
    BY <2>1 DEF Typed, TypedNumbers
<1>3. ASSUME NEW w \in Writers, AddRecord(w) PROVE TypedNumbers'
  <2>1. faults' \in {faults, faults + 1} /\ UNCHANGED <<numbers, seqOf, ends>>
    BY <1>3 DEF AddRecord, Fails, history
  <2> QED
    BY <2>1 DEF Typed, TypedNumbers, numbers
<1>4. ASSUME NEW w \in Writers, SyncLog(w) PROVE TypedNumbers'
  BY <1>4 DEF SyncLog, Fails, Typed, TypedNumbers, vars, queue, memory,
    numbers, bg, ranges, opening, disk, promises, history
<1>5. ASSUME NEW w \in Writers, FinishGroup(w) PROVE TypedNumbers'
  BY <1>5, CountToTyped DEF FinishGroup, Typed, TypedNumbers, vars, queue,
    memory, numbers, bg, ranges, opening, disk, promises, history
<1>6. ASSUME BackgroundCall PROVE TypedNumbers'
  <2>1. CASE nextFile' = nextFile
    BY <1>6, <2>1 DEF BackgroundCall, Typed, TypedNumbers, history
  <2>2. CASE \E outputs \in 1..MaxOutputs : nextFile' = nextFile + outputs
    BY <1>6, <2>2, SizeAssumption DEF BackgroundCall, Typed, TypedNumbers, history
  <2>3. CASE nextFile' = nextFile + 1
    BY <1>6, <2>3 DEF BackgroundCall, Typed, TypedNumbers, history
  <2> QED
    BY <1>6, <2>1, <2>2, <2>3 DEF BackgroundCall
<1>7. ASSUME FlushDuringMerge PROVE TypedNumbers'
  BY <1>7 DEF FlushDuringMerge, Typed, TypedNumbers, vars, queue, memory,
    numbers, bg, ranges, opening, disk, promises, history
<1>8. ASSUME BuildTableFails PROVE TypedNumbers'
  BY <1>8 DEF BuildTableFails, Fails, Typed, TypedNumbers, vars, queue,
    memory, numbers, bg, ranges, opening, disk, promises, history
<1>9. ASSUME InstallFlushFails PROVE TypedNumbers'
  BY <1>9, EditFailsEffect DEF InstallFlushFails, Fails, Typed, TypedNumbers, vars, queue,
    memory, numbers, bg, ranges, opening, disk, promises, history
<1>10. ASSUME MergeFails PROVE TypedNumbers'
  BY <1>10, EditFailsEffect DEF MergeFails, Fails, Typed, TypedNumbers, vars, queue, memory,
    numbers, bg, ranges, opening, disk, promises, history
<1>11. ASSUME NullDereference PROVE TypedNumbers'
  BY <1>11, EditFailsEffect DEF NullDereference, Fails, EndProcess, Typed, TypedNumbers, vars,
    queue, memory, numbers, bg, ranges, opening, disk, promises, history
<1>12. ASSUME Recover PROVE TypedNumbers'
  BY <1>12 DEF Recover, TypedVersions, Snapshots, Typed, TypedNumbers, vars,
    queue, memory, numbers, bg, ranges, opening, disk, promises, history
<1>13. ASSUME RecoverLogFile PROVE TypedNumbers'
  <2> DEFINE n == Smallest(toReplay)
  <2>1. n \in DOMAIN logs /\ n \in Nat
    BY <1>13, SmallestExists DEF RecoverLogFile, Typed, TypedFiles
  <2>2. Replay(logs[n]) \in SUBSET Batches
    BY <2>1, ReplayTyped DEF Typed, TypedFiles
  <2>3. MaxSequence(Replay(logs[n])) \in Nat
    BY <2>2, MaxSequenceIsMax DEF Typed
  <2> HIDE DEF n
  <2>4. /\ lastSequence' \in {lastSequence, MaxSequence(Replay(logs[n]))}
        /\ nextFile' \in {nextFile, MarkFileNumberUsed(nextFile, n), MarkFileNumberUsed(nextFile + 1, n)}
        /\ faults' \in {faults, faults + 1}
        /\ UNCHANGED <<logNumber, seqOf, ends>>
    BY <1>13 DEF RecoverLogFile, Fails, history, n
  <2> QED
    BY <2>1, <2>3, <2>4 DEF Typed, TypedNumbers, MarkFileNumberUsed
<1>14. ASSUME CreateLog PROVE TypedNumbers'
  BY <1>14 DEF CreateLog, Fails, Typed, TypedNumbers, vars, queue, memory,
    numbers, bg, ranges, opening, disk, promises, history
<1>15. ASSUME LogRecovery PROVE TypedNumbers'
  BY <1>15 DEF LogRecovery, Fails, Typed, TypedNumbers, vars, queue, memory,
    numbers, bg, ranges, opening, disk, promises, history
<1>16. ASSUME Close PROVE TypedNumbers'
  BY <1>16 DEF Close, Ending, Typed, TypedNumbers, vars, queue, memory,
    numbers, bg, ranges, opening, disk, promises, history
<1>17. ASSUME ProcessCrash PROVE TypedNumbers'
  BY <1>17 DEF ProcessCrash, Ending, EndProcess, Typed, TypedNumbers, vars,
    queue, memory, numbers, bg, ranges, opening, disk, promises, history
<1>18. ASSUME MachineCrash PROVE TypedNumbers'
  BY <1>18 DEF MachineCrash, Ending, Typed, TypedNumbers, vars, queue,
    memory, numbers, bg, ranges, opening, disk, promises, history
<1>19. CASE \/ (\E w \in Writers : Enqueue(w))
            \/ (\E w \in Writers : WriteRefused(w))
            \/ (\E w \in Writers : Stall(w))
            \/ (\E w \in Writers : TEST_CompactMemTable(w))
            \/ (\E c \in Compactors : TEST_CompactRange(c)) \/ BuildTable
            \/ LogFlush \/ InstallFlush \/ BuildMerge \/ LogMerge
            \/ InstallMerge \/ InstallRecovery \/ BeginClose
            \/ UNCHANGED vars
  BY <1>19 DEF Enqueue, WriteRefused, Stall, TEST_CompactMemTable,
    TEST_CompactRange, BuildTable, LogFlush, InstallFlush, BuildMerge,
    LogMerge, InstallMerge, InstallRecovery, BeginClose, Typed, TypedNumbers,
    vars, queue, memory, numbers, bg, ranges, opening, disk, promises,
    history
<1> QED
  BY <1>1, <1>2, <1>3, <1>4, <1>5, <1>6, <1>7, <1>8, <1>9, <1>10, <1>11,
     <1>12, <1>13, <1>14, <1>15, <1>16, <1>17, <1>18, <1>19 DEF Next, Writing, Background, Opening


(* A version has a log and tables, however it comes about. *)
LEMMA VersionTyped ==
  ASSUME NEW log \in Nat, NEW l0 \in NumberSets, NEW deep \in SUBSET Nat
  PROVE  Version(log, l0, deep) \in Versions
  BY DEF Version, Versions

(* What LogAndApply writes of a version is a snapshot. *)
LEMMA LoggedTyped ==
  ASSUME TypedNumbers, NEW v \in Versions
  PROVE  Logged(v) \in Snapshots
  BY DEF Logged, Snapshots, Tails, TypedNumbers

(* A version with the table of a flush is a version. *)
LEMMA FlushedTyped ==
  ASSUME Typed, NEW v \in Versions
  PROVE  Flushed(v) \in Versions
<1>1. v.l0 \in NumberSets /\ v.deep \in SUBSET Nat /\ flush.number \in Nat
  BY DEF Versions, Typed, TypedVersions
<1>2. v.l0 \cup {flush.number} \in NumberSets
  BY <1>1, FS_AddElement DEF NumberSets
<1>3. logNumber \in Nat
  BY DEF Typed, TypedNumbers
<1>4. v.l0 \cup (IF imm = {} THEN {} ELSE {flush.number}) \in NumberSets
  BY <1>1, <1>2
<1> QED
  BY <1>1, <1>3, <1>4, VersionTyped DEF Flushed

(* A version with the output of a merge is a version. *)
LEMMA MergedTyped ==
  ASSUME Typed, NEW v \in Versions
  PROVE  MergedInto(v) \in Versions
<1>1. v.l0 \in NumberSets /\ v.deep \in SUBSET Nat /\ version.log \in Nat /\ merge.number \in Nat
  BY DEF Versions, Typed, TypedVersions
<1>2. v.l0 \ merge.inputs \in NumberSets
  BY <1>1, FS_Subset DEF NumberSets
<1> QED
  BY <1>1, <1>2, VersionTyped DEF MergedInto

(* The version a recovery builds is a version. *)
LEMMA RecoveredTyped ==
  ASSUME Typed
  PROVE  Recovered \in Versions
<1>1. /\ version.l0 \in NumberSets /\ version.deep \in SUBSET Nat /\ edit \in NumberSets
      /\ logNumber \in Nat
  BY DEF Versions, Typed, TypedVersions, TypedNumbers
<1>2. version.l0 \cup edit \in NumberSets
  BY <1>1, FS_Union DEF NumberSets
<1> QED
  BY <1>1, <1>2, VersionTyped DEF Recovered

(* The versions, in memory and in the MANIFEST, keep their types. *)
LEMMA TypedVersionsStep ==
  ASSUME Typed, [Next]_vars
  PROVE  TypedVersions'
<1>1. ASSUME NEW w \in Writers, SwitchMemTable(w) PROVE TypedVersions'
  BY <1>1 DEF SwitchMemTable, Typed, TypedVersions, vars, queue, memory,
    numbers, bg, ranges, opening, disk, promises, history
<1>2. ASSUME BackgroundCall PROVE TypedVersions'
  <2>1. nextFile \in Nat
    BY DEF Typed, TypedNumbers
  <2>2. version.l0 \subseteq Nat /\ version.deep \subseteq Nat
    BY DEF Typed, TypedVersions, Versions, NumberSets
  <2>3. flush' \in {flush, [stage |-> "build", number |-> nextFile]}
    BY <1>2 DEF BackgroundCall
  <2>4. CASE UNCHANGED merge
    BY <1>2, <2>1, <2>3, <2>4 DEF BackgroundCall, Typed, TypedVersions, Stages, disk, opening
  <2>5. CASE \E outputs \in 1..MaxOutputs :
               merge' = [stage |-> "build", number |-> nextFile + outputs - 1,
                         inputs |-> FilesOf(version), manual |-> manual # NoOne]
    <3>1. PICK outputs \in 1..MaxOutputs :
               merge' = [stage |-> "build", number |-> nextFile + outputs - 1,
                         inputs |-> FilesOf(version), manual |-> manual # NoOne]
      BY <2>5
    <3>2. nextFile + outputs - 1 \in Nat
      BY <2>1, SizeAssumption
    <3>3. merge' \in [stage : Stages, number : Nat, inputs : SUBSET Nat, manual : BOOLEAN]
      BY <2>2, <3>1, <3>2 DEF Stages, FilesOf
    <3> QED
      BY <1>2, <2>1, <2>3, <3>3 DEF BackgroundCall, Typed, TypedVersions, Stages, disk, opening
  <2> QED
    BY <1>2, <2>4, <2>5 DEF BackgroundCall
<1>3. ASSUME FlushDuringMerge PROVE TypedVersions'
  BY <1>3 DEF FlushDuringMerge, Stages, TypedNumbers, Typed, TypedVersions,
    vars, queue, memory, numbers, bg, ranges, opening, disk, promises,
    history
<1>4. ASSUME BuildTable PROVE TypedVersions'
  BY <1>4 DEF BuildTable, Stages, Typed, TypedVersions, vars, queue, memory,
    numbers, bg, ranges, opening, disk, promises, history
<1>5. ASSUME BuildTableFails PROVE TypedVersions'
  BY <1>5 DEF BuildTableFails, BackgroundError, NoFlush, Stages, Typed,
    TypedVersions, vars, queue, memory, numbers, bg, ranges, opening, disk,
    promises, history
<1>6. ASSUME LogFlush PROVE TypedVersions'
  <2>1. manifest.written.version \in Versions
    BY DEF Typed, TypedVersions, Snapshots
  <2>2. Logged(Flushed(manifest.written.version)) \in Snapshots
    BY <2>1, FlushedTyped, LoggedTyped DEF Typed
  <2>3. manifest' \in [synced : Snapshots, written : Snapshots]
    BY <1>6, <2>2, AddEditEffect DEF LogFlush, EditsKept, Typed, TypedVersions
  <2> QED
    BY <1>6, <2>3 DEF LogFlush, Stages, Typed, TypedVersions, opening
<1>7. ASSUME InstallFlush PROVE TypedVersions'
  <2>1. version' \in Versions
    BY <1>7, FlushedTyped DEF InstallFlush, Typed, TypedVersions
  <2> QED
    BY <1>7, <2>1 DEF InstallFlush, NoFlush, Stages, Typed, TypedVersions, opening
<1>8. ASSUME InstallFlushFails PROVE TypedVersions'
  <2>1. EditsKept
    BY <1>8, EditFailsEffect DEF InstallFlushFails, Typed
  <2> QED
    BY <1>8, <2>1 DEF InstallFlushFails, EditsKept, BackgroundError, NoFlush, Stages, Typed,
      TypedVersions, opening
<1>9. ASSUME BuildMerge PROVE TypedVersions'
  BY <1>9 DEF BuildMerge, Stages, Typed, TypedVersions, vars, queue, memory,
    numbers, bg, ranges, opening, disk, promises, history
<1>10. ASSUME LogMerge PROVE TypedVersions'
  <2>1. manifest.written.version \in Versions
    BY DEF Typed, TypedVersions, Snapshots
  <2>2. Logged(MergedInto(manifest.written.version)) \in Snapshots
    BY <2>1, MergedTyped, LoggedTyped DEF Typed
  <2>3. manifest' \in [synced : Snapshots, written : Snapshots]
    BY <1>10, <2>2, AddEditEffect DEF LogMerge, EditsKept, Typed, TypedVersions
  <2>4. merge' = [merge EXCEPT !.stage = "logged"] /\ UNCHANGED <<flush, version, edit>>
    BY <1>10 DEF LogMerge, opening
  <2> QED
    BY <2>3, <2>4 DEF Stages, Typed, TypedVersions
<1>11. ASSUME InstallMerge PROVE TypedVersions'
  <2>1. version' \in Versions
    BY <1>11, MergedTyped DEF InstallMerge, Typed, TypedVersions
  <2> QED
    BY <1>11, <2>1 DEF InstallMerge, EndMerge, NoMerge, Stages, Typed, TypedVersions, opening
<1>12. ASSUME MergeFails PROVE TypedVersions'
  <2>1. manifest' \in [synced : Snapshots, written : Snapshots]
    BY <1>12, EditFailsEffect DEF MergeFails, EditsKept, Typed, TypedVersions
  <2> QED
    BY <1>12, <2>1 DEF MergeFails, BackgroundError, EndMerge, NoMerge, Stages, Typed,
      TypedVersions, opening
<1>13. ASSUME NullDereference PROVE TypedVersions'
  <2>1. manifest' \in [synced : Snapshots, written : Snapshots]
    BY <1>13, EditFailsEffect DEF NullDereference, EditsKept, Typed, TypedVersions
  <2> QED
    BY <1>13, <2>1, FS_EmptySet DEF NullDereference, EndProcess, LoseMemory, NoFlush, NoMerge,
      Stages, NumberSets, Typed, TypedVersions
<1>14. ASSUME Recover PROVE TypedVersions'
  BY <1>14, FS_EmptySet DEF Recover, Snapshots, NumberSets, Typed,
    TypedVersions, vars, queue, memory, numbers, bg, ranges, opening, disk,
    promises, history
<1>15. ASSUME RecoverLogFile PROVE TypedVersions'
  <2>1. edit \cup {nextFile} \in NumberSets
    BY FS_AddElement DEF NumberSets, Typed, TypedVersions, TypedNumbers
  <2>2. edit' \in {edit, edit \cup {nextFile}}
    BY <1>15 DEF RecoverLogFile
  <2> QED
    BY <1>15, <2>1, <2>2 DEF RecoverLogFile, Typed, TypedVersions, bg
<1>16. ASSUME LogRecovery PROVE TypedVersions'
  <2>1. Logged(Recovered) \in Snapshots /\ {} \in NumberSets
    BY RecoveredTyped, LoggedTyped, FS_EmptySet DEF Typed, NumberSets
  <2> QED
    BY <1>16, <2>1 DEF LogRecovery, Typed, TypedVersions, bg
<1>17. ASSUME InstallRecovery PROVE TypedVersions'
  <2>1. Recovered \in Versions /\ {} \in NumberSets
    BY RecoveredTyped, FS_EmptySet DEF NumberSets
  <2> QED
    BY <1>17, <2>1 DEF InstallRecovery, Typed, TypedVersions
<1>18. ASSUME Close PROVE TypedVersions'
  BY <1>18, FS_EmptySet DEF Close, LoseMemory, MayLoseRecord, NoFlush,
    NoMerge, Stages, NumberSets, Typed, TypedVersions, vars, queue, memory,
    numbers, bg, ranges, opening, disk, promises, history
<1>19. ASSUME ProcessCrash PROVE TypedVersions'
  BY <1>19, FS_EmptySet DEF ProcessCrash, EndProcess, LoseMemory,
    MayLoseRecord, NoFlush, NoMerge, Stages, NumberSets, Typed,
    TypedVersions, vars, queue, memory, numbers, bg, ranges, opening, disk,
    promises, history
<1>20. ASSUME MachineCrash PROVE TypedVersions'
  BY <1>20, FS_EmptySet DEF MachineCrash, LoseMemory, MayLoseRecord, NoFlush,
    NoMerge, Stages, NumberSets, Typed, TypedVersions, vars, queue, memory,
    numbers, bg, ranges, opening, disk, promises, history
<1>21. CASE \/ (\E w \in Writers : Enqueue(w))
            \/ (\E w \in Writers : WriteRefused(w))
            \/ (\E w \in Writers : BeginGroup(w))
            \/ (\E w \in Writers : Stall(w))
            \/ (\E w \in Writers : AddRecord(w))
            \/ (\E w \in Writers : SyncLog(w))
            \/ (\E w \in Writers : FinishGroup(w))
            \/ (\E w \in Writers : TEST_CompactMemTable(w))
            \/ (\E c \in Compactors : TEST_CompactRange(c)) \/ CreateLog
            \/ BeginClose \/ UNCHANGED vars
  BY <1>21 DEF Enqueue, WriteRefused, BeginGroup, Stall, AddRecord, SyncLog,
    FinishGroup, TEST_CompactMemTable, TEST_CompactRange, CreateLog,
    BeginClose, Typed, TypedVersions, vars, queue, memory, numbers, bg,
    ranges, opening, disk, promises, history
<1> QED
  BY <1>1, <1>2, <1>3, <1>4, <1>5, <1>6, <1>7, <1>8, <1>9, <1>10, <1>11,
     <1>12, <1>13, <1>14, <1>15, <1>16, <1>17, <1>18, <1>19, <1>20, <1>21 DEF Next, Writing, Background, Opening


(* The files after one has been added, and after some have been deleted *)
LEMMA WithFile ==
  ASSUME NEW files, NEW n, NEW file
  PROVE  /\ DOMAIN With(files, n, file) = DOMAIN files \cup {n}
         /\ With(files, n, file)[n] = file
         /\ \A k \in DOMAIN files : k # n => With(files, n, file)[k] = files[k]
  BY DEF With

(* A directory with one more file *)
LEMMA WithFileTyped ==
  ASSUME NEW S, NEW files, NEW n \in Nat, NEW file \in S,
         DOMAIN files \subseteq Nat, files \in [DOMAIN files -> S]
  PROVE  /\ DOMAIN With(files, n, file) \subseteq Nat
         /\ With(files, n, file) \in [DOMAIN With(files, n, file) -> S]
         /\ DOMAIN files \subseteq DOMAIN With(files, n, file)
  BY DEF With

(* A directory of which only some files are kept *)
LEMMA KeepFiles ==
  ASSUME NEW files, NEW S
  PROVE  /\ DOMAIN Keep(files, S) = DOMAIN files \cap S
         /\ \A k \in DOMAIN files \cap S : Keep(files, S)[k] = files[k]
         /\ \A T : DOMAIN files \subseteq Nat /\ files \in [DOMAIN files -> T] =>
              /\ DOMAIN Keep(files, S) \subseteq Nat
              /\ Keep(files, S) \in [DOMAIN Keep(files, S) -> T]
  BY DEF Keep

(* The types of the files that are left of a deletion *)
DeletedTyped ==
  /\ DOMAIN logs' \subseteq Nat /\ logs' \in [DOMAIN logs' -> LogFiles]
  /\ DOMAIN tables' \subseteq Nat /\ tables' \in [DOMAIN tables' -> SUBSET Batches]

(* A log with other records *)
LEMMA NewRecords ==
  ASSUME NEW log \in LogFiles, NEW records
  PROVE  [log EXCEPT !.records = records] = [records |-> records, synced |-> log.synced]
  BY DEF LogFiles

(* A record goes to the end of the current log. *)
LEMMA AppendsRecord ==
  ASSUME Typed, logNumber \in DOMAIN logs, NEW whole \in BOOLEAN, AppendRecord(whole)
  PROVE  /\ DOMAIN logs' = DOMAIN logs /\ logs' \in [DOMAIN logs -> LogFiles]
         /\ \A n \in DOMAIN logs : n # logNumber => logs'[n] = logs[n]
         /\ logs'[logNumber].records = Append(logs[logNumber].records, Record(whole))
         /\ logs'[logNumber].synced = logs[logNumber].synced
<1> DEFINE file == [records |-> Append(logs[logNumber].records, Record(whole)),
                    synced |-> logs[logNumber].synced]
<1>1. logs[logNumber] \in LogFiles
  BY DEF Typed, TypedFiles
<1>2. Record(whole) \in Records
  BY DEF Record, Records, BatchesOf
<1>3. logs[logNumber].records \in Seq(Records) /\ logs[logNumber].synced \in Nat
  BY <1>1 DEF LogFiles
<1>4. Append(logs[logNumber].records, Record(whole)) \in Seq(Records)
  BY <1>2, <1>3, AppendProperties
<1>5. file \in LogFiles
  BY <1>3, <1>4 DEF LogFiles
<1>6. logs' = [logs EXCEPT ![logNumber] =
                 [logs[logNumber] EXCEPT !.records = Append(logs[logNumber].records, Record(whole))]]
  BY DEF AppendRecord
<1>7. [logs[logNumber] EXCEPT !.records = Append(logs[logNumber].records, Record(whole))] = file
  BY <1>1, NewRecords
<1>8. logs' = [logs EXCEPT ![logNumber] = file]
  BY <1>6, <1>7
<1> HIDE DEF file
<1>9. /\ DOMAIN logs' = DOMAIN logs /\ logs' \in [DOMAIN logs -> LogFiles]
      /\ \A n \in DOMAIN logs : n # logNumber => logs'[n] = logs[n]
      /\ logs'[logNumber] = file
  BY <1>5, <1>8 DEF Typed, TypedFiles
<1> QED
  BY <1>9 DEF file

(* A sync reaches the end of the current log. *)
LEMMA SyncsLog ==
  ASSUME Typed, logNumber \in DOMAIN logs,
         logs' = [logs EXCEPT ![logNumber].synced = Len(logs[logNumber].records)]
  PROVE  /\ DOMAIN logs' = DOMAIN logs /\ logs' \in [DOMAIN logs -> LogFiles]
         /\ \A n \in DOMAIN logs : n # logNumber => logs'[n] = logs[n]
         /\ logs'[logNumber].records = logs[logNumber].records
         /\ logs'[logNumber].synced = Len(logs[logNumber].records)
<1> DEFINE file == [records |-> logs[logNumber].records, synced |-> Len(logs[logNumber].records)]
<1>1. logs[logNumber] \in LogFiles
  BY DEF Typed, TypedFiles
<1>2. logs[logNumber].records \in Seq(Records) /\ Len(logs[logNumber].records) \in Nat
  BY <1>1 DEF LogFiles
<1>3. file \in LogFiles
  BY <1>2 DEF LogFiles
<1>4. [logs[logNumber] EXCEPT !.synced = Len(logs[logNumber].records)] = file
  BY <1>1 DEF LogFiles
<1>5. logs' = [logs EXCEPT ![logNumber] = file]
  BY <1>4
<1> HIDE DEF file
<1>6. /\ DOMAIN logs' = DOMAIN logs /\ logs' \in [DOMAIN logs -> LogFiles]
      /\ \A n \in DOMAIN logs : n # logNumber => logs'[n] = logs[n]
      /\ logs'[logNumber] = file
  BY <1>3, <1>5 DEF Typed, TypedFiles
<1> QED
  BY <1>6 DEF file

(* What a machine leaves of a log is a log. *)
LEMMA CutTyped ==
  ASSUME NEW log \in LogFiles, NEW kept \in 0..Len(log.records)
  PROVE  /\ Cut(log, kept) \in LogFiles
         /\ Len(Cut(log, kept).records) = kept /\ Cut(log, kept).synced = kept
         /\ \A i \in 1..kept : Cut(log, kept).records[i] = log.records[i]
<1>1. log.records \in Seq(Records) /\ Len(log.records) \in Nat
  BY DEF LogFiles
<1>2. \A i \in 1..kept : log.records[i] \in Records
  BY <1>1
<1>3. /\ SubSeq(log.records, 1, kept) \in Seq(Records)
      /\ Len(SubSeq(log.records, 1, kept)) = kept
      /\ \A i \in 1..kept : SubSeq(log.records, 1, kept)[i] = log.records[i]
  BY <1>1, <1>2, SubSeqProperties
<1> QED
  BY <1>1, <1>3 DEF Cut, LogFiles

(* The files keep their types, and the files of a recovery are there. *)
LEMMA TypedFilesStep ==
  ASSUME Typed, Stopped, Numbered, Filed, [Next]_vars
  PROVE  TypedFiles'
<1>1. ASSUME NEW w \in Writers, SwitchMemTable(w) PROVE TypedFiles'
  <2>1. EmptyLog \in LogFiles
    BY DEF EmptyLog, LogFiles
  <2>2. CASE UNCHANGED logs
    BY <1>1, <2>2 DEF SwitchMemTable, Typed, TypedFiles, opening
  <2>3. CASE logs' = With(logs, nextFile, EmptyLog)
    <3>1. DOMAIN logs' \subseteq Nat /\ logs' \in [DOMAIN logs' -> LogFiles] /\ DOMAIN logs \subseteq DOMAIN logs'
      BY <2>1, <2>3, WithFileTyped DEF Typed, TypedFiles, TypedNumbers
    <3> QED
      BY <1>1, <3>1 DEF SwitchMemTable, Typed, TypedFiles, opening
  <2> QED
    BY <1>1, <2>2, <2>3 DEF SwitchMemTable
<1>2. ASSUME NEW w \in Writers, AddRecord(w) PROVE TypedFiles'
  <2>1. CASE UNCHANGED logs
    BY <1>2, <2>1 DEF AddRecord, Typed, TypedFiles, opening
  <2>2. CASE \E whole \in BOOLEAN : AppendRecord(whole)
    <3>1. logNumber \in DOMAIN logs
      BY <1>2 DEF AddRecord, Numbered
    <3>2. DOMAIN logs' = DOMAIN logs /\ logs' \in [DOMAIN logs -> LogFiles]
      BY <2>2, <3>1, AppendsRecord
    <3> QED
      BY <1>2, <3>2 DEF AddRecord, Typed, TypedFiles, opening
  <2> QED
    BY <1>2, <2>1, <2>2 DEF AddRecord
<1>3. ASSUME NEW w \in Writers, SyncLog(w) PROVE TypedFiles'
  <2>1. CASE UNCHANGED logs
    BY <1>3, <2>1 DEF SyncLog, Typed, TypedFiles, opening
  <2>2. CASE logs' = [logs EXCEPT ![logNumber].synced = Len(logs[logNumber].records)]
    <3>1. logNumber \in DOMAIN logs
      BY <1>3 DEF SyncLog, Numbered
    <3>2. DOMAIN logs' = DOMAIN logs /\ logs' \in [DOMAIN logs -> LogFiles]
      BY <2>2, <3>1, SyncsLog
    <3> QED
      BY <1>3, <3>2 DEF SyncLog, Typed, TypedFiles, opening
  <2> QED
    BY <1>3, <2>1, <2>2 DEF SyncLog
<1>4. ASSUME BuildTable PROVE TypedFiles'
  <2>1. flush.number \in Nat
    BY DEF Typed, TypedVersions
  <2>2. imm \in SUBSET Batches
    BY DEF Typed, TypedBatches
  <2>3. /\ DOMAIN tables' \subseteq Nat /\ tables' \in [DOMAIN tables' -> SUBSET Batches]
        /\ DOMAIN tables \subseteq DOMAIN tables'
    BY <1>4, <2>1, <2>2, WithFileTyped DEF BuildTable, Typed, TypedFiles
  <2> QED
    BY <1>4, <2>3 DEF BuildTable, Typed, TypedFiles, opening
<1>5. ASSUME InstallFlush PROVE TypedFiles'
  <2>1. toReplay = {} /\ edit = {}
    BY <1>5 DEF InstallFlush, MutexFree, Stopped
  <2>2. CASE bgError
    BY <1>5, <2>2 DEF InstallFlush, Typed, TypedFiles, opening
  <2>3. CASE ~bgError
    <3>1. DeleteObsoleteFiles(Flushed(version), {merge.number})
      BY <1>5, <2>3 DEF InstallFlush
    <3>2. DeletedTyped
      BY <3>1, KeepFiles DEF DeleteObsoleteFiles, Typed, TypedFiles, DeletedTyped
    <3> QED
      BY <1>5, <2>1, <3>2 DEF InstallFlush, TypedFiles, DeletedTyped, opening
  <2> QED
    BY <2>2, <2>3
<1>6. ASSUME BuildMerge PROVE TypedFiles'
  <2>1. merge.number \in Nat
    BY DEF Typed, TypedVersions
  <2>2. Merged \in SUBSET Batches
    <3>1. merge.inputs \subseteq DOMAIN tables
      BY <1>6 DEF BuildMerge, Filed, NoMerge
    <3> QED
      BY <3>1 DEF Merged, Typed, TypedFiles
  <2>3. /\ DOMAIN tables' \subseteq Nat /\ tables' \in [DOMAIN tables' -> SUBSET Batches]
        /\ DOMAIN tables \subseteq DOMAIN tables'
    BY <1>6, <2>1, <2>2, WithFileTyped DEF BuildMerge, Typed, TypedFiles
  <2> QED
    BY <1>6, <2>3 DEF BuildMerge, Typed, TypedFiles, opening
<1>7. ASSUME InstallMerge PROVE TypedFiles'
  <2>1. toReplay = {} /\ edit = {}
    BY <1>7 DEF InstallMerge, MutexFree, Stopped
  <2>2. CASE bgError
    BY <1>7, <2>2 DEF InstallMerge, Typed, TypedFiles, opening
  <2>3. CASE ~bgError
    <3>1. DeleteObsoleteFiles(MergedInto(version), {})
      BY <1>7, <2>3 DEF InstallMerge
    <3>2. DeletedTyped
      BY <3>1, KeepFiles DEF DeleteObsoleteFiles, Typed, TypedFiles, DeletedTyped
    <3> QED
      BY <1>7, <2>1, <3>2 DEF InstallMerge, TypedFiles, DeletedTyped, opening
  <2> QED
    BY <2>2, <2>3
<1>8. ASSUME NullDereference PROVE TypedFiles'
  BY <1>8 DEF NullDereference, EndProcess, LoseMemory, Typed, TypedFiles,
    vars, queue, memory, numbers, bg, ranges, opening, disk, promises,
    history
<1>9. ASSUME Recover PROVE TypedFiles'
  BY <1>9 DEF Recover, LogsToReplay, Typed, TypedFiles, vars, queue, memory,
    numbers, bg, ranges, opening, disk, promises, history
<1>10. ASSUME RecoverLogFile PROVE TypedFiles'
  <2> DEFINE n == Smallest(toReplay)
  <2>1. n \in DOMAIN logs
    BY <1>10, SmallestExists DEF RecoverLogFile, Typed, TypedFiles
  <2>2. Replay(logs[n]) \in SUBSET Batches
    BY <2>1, ReplayTyped DEF Typed, TypedFiles
  <2>3. toReplay' \subseteq toReplay /\ UNCHANGED logs
    BY <1>10 DEF RecoverLogFile
  <2>4. CASE UNCHANGED <<tables, edit>>
    BY <1>10, <2>3, <2>4 DEF Typed, TypedFiles
  <2>5. CASE tables' = With(tables, nextFile, Replay(logs[n])) /\ edit' = edit \cup {nextFile}
    <3> HIDE DEF n
    <3>1. /\ DOMAIN tables' \subseteq Nat /\ tables' \in [DOMAIN tables' -> SUBSET Batches]
          /\ DOMAIN tables' = DOMAIN tables \cup {nextFile}
      BY <2>2, <2>5, WithFile, WithFileTyped DEF Typed, TypedFiles, TypedNumbers
    <3> QED
      BY <2>3, <2>5, <3>1 DEF Typed, TypedFiles
  <2> QED
    BY <1>10, <2>4, <2>5 DEF RecoverLogFile
<1>11. ASSUME CreateLog PROVE TypedFiles'
  <2>1. EmptyLog \in LogFiles
    BY DEF EmptyLog, LogFiles
  <2>2. CASE UNCHANGED logs
    BY <1>11, <2>2 DEF CreateLog, Typed, TypedFiles, opening
  <2>3. CASE logs' = With(logs, nextFile, EmptyLog)
    <3>1. DOMAIN logs' \subseteq Nat /\ logs' \in [DOMAIN logs' -> LogFiles] /\ DOMAIN logs \subseteq DOMAIN logs'
      BY <2>1, <2>3, WithFileTyped DEF Typed, TypedFiles, TypedNumbers
    <3> QED
      BY <1>11, <3>1 DEF CreateLog, Typed, TypedFiles, opening
  <2> QED
    BY <1>11, <2>2, <2>3 DEF CreateLog
<1>12. ASSUME LogRecovery PROVE TypedFiles'
  BY <1>12 DEF LogRecovery, Typed, TypedFiles, vars, queue, memory, numbers,
    bg, ranges, opening, disk, promises, history
<1>13. ASSUME InstallRecovery PROVE TypedFiles'
  <2>1. toReplay = {} /\ edit' = {}
    BY <1>13 DEF InstallRecovery, Stopped
  <2>2. DeletedTyped
    BY <1>13, KeepFiles DEF InstallRecovery, DeleteObsoleteFiles, Typed, TypedFiles, DeletedTyped
  <2> QED
    BY <1>13, <2>1, <2>2 DEF InstallRecovery, TypedFiles, DeletedTyped
<1>14. ASSUME Close PROVE TypedFiles'
  BY <1>14 DEF Close, LoseMemory, Typed, TypedFiles, vars, queue, memory,
    numbers, bg, ranges, opening, disk, promises, history
<1>15. ASSUME ProcessCrash PROVE TypedFiles'
  BY <1>15 DEF ProcessCrash, EndProcess, LoseMemory, Typed, TypedFiles, vars,
    queue, memory, numbers, bg, ranges, opening, disk, promises, history
<1>16. ASSUME MachineCrash PROVE TypedFiles'
  <2>1. PICK kept \in [DOMAIN logs -> 0..Cardinality(Writers)] :
          /\ \A n \in DOMAIN logs : kept[n] \in logs[n].synced..Len(logs[n].records)
          /\ logs' = [n \in DOMAIN logs |-> Cut(logs[n], kept[n])]
    BY <1>16 DEF MachineCrash
  <2>2. \A n \in DOMAIN logs : logs[n] \in LogFiles /\ kept[n] \in 0..Len(logs[n].records)
    <3>1. \A n \in DOMAIN logs : logs[n] \in LogFiles
      BY DEF Typed, TypedFiles
    <3>2. \A n \in DOMAIN logs : logs[n].synced \in Nat
      BY <3>1 DEF LogFiles
    <3> QED
      BY <2>1, <3>1, <3>2
  <2>3. \A n \in DOMAIN logs : Cut(logs[n], kept[n]) \in LogFiles
    BY <2>2, CutTyped
  <2> QED
    BY <1>16, <2>1, <2>3 DEF MachineCrash, LoseMemory, Typed, TypedFiles
<1>17. CASE \/ (\E w \in Writers : Enqueue(w))
            \/ (\E w \in Writers : WriteRefused(w))
            \/ (\E w \in Writers : BeginGroup(w))
            \/ (\E w \in Writers : Stall(w))
            \/ (\E w \in Writers : FinishGroup(w))
            \/ (\E w \in Writers : TEST_CompactMemTable(w))
            \/ (\E c \in Compactors : TEST_CompactRange(c)) \/ BackgroundCall
            \/ FlushDuringMerge \/ BuildTableFails \/ LogFlush
            \/ InstallFlushFails \/ LogMerge \/ MergeFails \/ BeginClose
            \/ UNCHANGED vars
  BY <1>17 DEF Enqueue, WriteRefused, BeginGroup, Stall, FinishGroup,
    TEST_CompactMemTable, TEST_CompactRange, BackgroundCall,
    FlushDuringMerge, BuildTableFails, LogFlush, InstallFlushFails, LogMerge,
    MergeFails, BeginClose, Typed, TypedFiles, vars, queue, memory, numbers,
    bg, ranges, opening, disk, promises, history
<1> QED
  BY <1>1, <1>2, <1>3, <1>4, <1>5, <1>6, <1>7, <1>8, <1>9, <1>10, <1>11,
     <1>12, <1>13, <1>14, <1>15, <1>16, <1>17 DEF Next, Writing, Background, Opening


-----------------------------------------------------------------------------
(* The calls and the background thread *)

(* Nothing is in memory unless the database is open. *)
LEMMA StoppedStep ==
  ASSUME Typed, Stopped, [Next]_vars
  PROVE  Stopped'
<1>1. ASSUME NEW w \in Writers, Enqueue(w) PROVE Stopped'
  BY <1>1 DEF Enqueue, MutexFree, AtMakeRoom, Stopped, vars, queue, memory,
    numbers, bg, ranges, opening, disk, promises, history
<1>2. ASSUME NEW w \in Writers, WriteRefused(w) PROVE Stopped'
  BY <1>2 DEF WriteRefused, MutexFree, AtMakeRoom, Stopped, vars, queue,
    memory, numbers, bg, ranges, opening, disk, promises, history
<1>3. ASSUME NEW w \in Writers, BeginGroup(w) PROVE Stopped'
  BY <1>3 DEF BeginGroup, MutexFree, AtMakeRoom, Stopped, vars, queue,
    memory, numbers, bg, ranges, opening, disk, promises, history
<1>4. ASSUME NEW w \in Writers, Stall(w) PROVE Stopped'
  BY <1>4 DEF Stall, MutexFree, AtMakeRoom, Stopped, vars, queue, memory,
    numbers, bg, ranges, opening, disk, promises, history
<1>5. ASSUME NEW w \in Writers, SwitchMemTable(w) PROVE Stopped'
  BY <1>5 DEF SwitchMemTable, MutexFree, AtMakeRoom, Stopped, vars, queue,
    memory, numbers, bg, ranges, opening, disk, promises, history
<1>6. ASSUME NEW w \in Writers, AddRecord(w) PROVE Stopped'
  BY <1>6 DEF AddRecord, MutexFree, AtMakeRoom, Stopped, vars, queue, memory,
    numbers, bg, ranges, opening, disk, promises, history
<1>7. ASSUME NEW w \in Writers, SyncLog(w) PROVE Stopped'
  BY <1>7 DEF SyncLog, MutexFree, AtMakeRoom, Stopped, vars, queue, memory,
    numbers, bg, ranges, opening, disk, promises, history
<1>8. ASSUME NEW w \in Writers, FinishGroup(w) PROVE Stopped'
  BY <1>8 DEF FinishGroup, MutexFree, AtMakeRoom, Stopped, vars, queue,
    memory, numbers, bg, ranges, opening, disk, promises, history
<1>9. ASSUME NEW w \in Writers, TEST_CompactMemTable(w) PROVE Stopped'
  BY <1>9 DEF TEST_CompactMemTable, MutexFree, AtMakeRoom, Stopped, vars,
    queue, memory, numbers, bg, ranges, opening, disk, promises, history
<1>10. ASSUME NEW c \in Compactors, TEST_CompactRange(c) PROVE Stopped'
  BY <1>10 DEF TEST_CompactRange, MutexFree, AtMakeRoom, Stopped, vars,
    queue, memory, numbers, bg, ranges, opening, disk, promises, history
<1>11. ASSUME BackgroundCall PROVE Stopped'
  BY <1>11 DEF BackgroundCall, MutexFree, Stopped, vars, queue, memory,
    numbers, bg, ranges, opening, disk, promises, history
<1>12. ASSUME FlushDuringMerge PROVE Stopped'
  BY <1>12 DEF FlushDuringMerge, MutexFree, Stopped, vars, queue, memory,
    numbers, bg, ranges, opening, disk, promises, history
<1>13. ASSUME BuildTable PROVE Stopped'
  BY <1>13 DEF BuildTable, MutexFree, Stopped, vars, queue, memory, numbers,
    bg, ranges, opening, disk, promises, history
<1>14. ASSUME BuildTableFails PROVE Stopped'
  BY <1>14 DEF BuildTableFails, MutexFree, Stopped, vars, queue, memory,
    numbers, bg, ranges, opening, disk, promises, history
<1>15. ASSUME LogFlush PROVE Stopped'
  BY <1>15 DEF LogFlush, MutexFree, Stopped, vars, queue, memory, numbers,
    bg, ranges, opening, disk, promises, history
<1>16. ASSUME InstallFlush PROVE Stopped'
  BY <1>16 DEF InstallFlush, MutexFree, Stopped, vars, queue, memory,
    numbers, bg, ranges, opening, disk, promises, history
<1>17. ASSUME InstallFlushFails PROVE Stopped'
  BY <1>17 DEF InstallFlushFails, MutexFree, Stopped, vars, queue, memory,
    numbers, bg, ranges, opening, disk, promises, history
<1>18. ASSUME BuildMerge PROVE Stopped'
  BY <1>18 DEF BuildMerge, MutexFree, Stopped, vars, queue, memory, numbers,
    bg, ranges, opening, disk, promises, history
<1>19. ASSUME LogMerge PROVE Stopped'
  BY <1>19 DEF LogMerge, MutexFree, Stopped, vars, queue, memory, numbers,
    bg, ranges, opening, disk, promises, history
<1>20. ASSUME InstallMerge PROVE Stopped'
  BY <1>20 DEF InstallMerge, MutexFree, Stopped, vars, queue, memory,
    numbers, bg, ranges, opening, disk, promises, history
<1>21. ASSUME MergeFails PROVE Stopped'
  BY <1>21 DEF MergeFails, MutexFree, Stopped, vars, queue, memory, numbers,
    bg, ranges, opening, disk, promises, history
<1>22. ASSUME NullDereference PROVE Stopped'
  BY <1>22 DEF NullDereference, EndProcess, LoseMemory, MutexFree, NoFlush,
    NoMerge, Answered, Stopped, vars, queue, memory, numbers, bg, ranges,
    opening, disk, promises, history
<1>23. ASSUME Recover PROVE Stopped'
  BY <1>23 DEF Recover, Answered, Stopped, vars, queue, memory, numbers, bg,
    ranges, opening, disk, promises, history
<1>24. ASSUME RecoverLogFile PROVE Stopped'
  BY <1>24 DEF RecoverLogFile, Stopped, vars, queue, memory, numbers, bg,
    ranges, opening, disk, promises, history
<1>25. ASSUME CreateLog PROVE Stopped'
  BY <1>25 DEF CreateLog, Stopped, vars, queue, memory, numbers, bg, ranges,
    opening, disk, promises, history
<1>26. ASSUME LogRecovery PROVE Stopped'
  BY <1>26 DEF LogRecovery, Stopped, vars, queue, memory, numbers, bg,
    ranges, opening, disk, promises, history
<1>27. ASSUME InstallRecovery PROVE Stopped'
  BY <1>27 DEF InstallRecovery, Stopped, vars, queue, memory, numbers, bg,
    ranges, opening, disk, promises, history
<1>28. ASSUME BeginClose PROVE Stopped'
  BY <1>28 DEF BeginClose, MutexFree, Stopped, vars, queue, memory, numbers,
    bg, ranges, opening, disk, promises, history
<1>29. ASSUME Close PROVE Stopped'
  BY <1>29 DEF Close, LoseMemory, MutexFree, NoFlush, NoMerge, Answered,
    Stopped, vars, queue, memory, numbers, bg, ranges, opening, disk,
    promises, history
<1>30. ASSUME ProcessCrash PROVE Stopped'
  BY <1>30 DEF ProcessCrash, EndProcess, LoseMemory, MutexFree, NoFlush,
    NoMerge, Answered, Stopped, vars, queue, memory, numbers, bg, ranges,
    opening, disk, promises, history
<1>31. ASSUME MachineCrash PROVE Stopped'
  BY <1>31 DEF MachineCrash, LoseMemory, MutexFree, NoFlush, NoMerge,
    Answered, Stopped, vars, queue, memory, numbers, bg, ranges, opening,
    disk, promises, history
<1>32. CASE \/ UNCHANGED vars
  BY <1>32 DEF Stopped, vars, queue, memory, numbers, bg, ranges, opening,
    disk, promises, history
<1> QED
  BY <1>1, <1>2, <1>3, <1>4, <1>5, <1>6, <1>7, <1>8, <1>9, <1>10, <1>11,
     <1>12, <1>13, <1>14, <1>15, <1>16, <1>17, <1>18, <1>19, <1>20, <1>21,
     <1>22, <1>23, <1>24, <1>25, <1>26, <1>27, <1>28, <1>29, <1>30, <1>31,
     <1>32 DEF Next, Writing, Background, Opening


(* The stages of the background thread follow each other. *)
LEMMA StagedStep ==
  ASSUME Typed, Staged, [Next]_vars
  PROVE  Staged'
<1>1. ASSUME NEW w \in Writers, SwitchMemTable(w) PROVE Staged'
  BY <1>1 DEF SwitchMemTable, NoFlush, NoMerge, Typed, TypedVersions,
    TypedCalls, Staged, vars, queue, memory, numbers, bg, ranges, opening,
    disk, promises, history
<1>2. ASSUME BackgroundCall PROVE Staged'
  <2>1. flush = NoFlush /\ merge = NoMerge /\ UNCHANGED memory
    BY <1>2 DEF BackgroundCall
  <2>2. CASE UNCHANGED <<flush, merge>>
    BY <2>1, <2>2 DEF Staged, memory
  <2>3. CASE hasImm /\ flush' = [stage |-> "build", number |-> nextFile] /\ UNCHANGED merge
    BY <2>1, <2>3 DEF Staged, memory, NoFlush, NoMerge
  <2>4. CASE /\ UNCHANGED flush
             /\ \E outputs \in 1..MaxOutputs :
                  merge' = [stage |-> "build", number |-> nextFile + outputs - 1,
                            inputs |-> FilesOf(version), manual |-> manual # NoOne]
    <3>1. merge'.stage = "build"
      BY <2>4
    <3> QED
      BY <2>1, <2>4, <3>1 DEF Staged, memory
  <2> QED
    BY <1>2, <2>2, <2>3, <2>4 DEF BackgroundCall
<1>3. ASSUME FlushDuringMerge PROVE Staged'
  BY <1>3 DEF FlushDuringMerge, NoFlush, NoMerge, Typed, TypedVersions,
    TypedCalls, Staged, vars, queue, memory, numbers, bg, ranges, opening,
    disk, promises, history
<1>4. ASSUME BuildTable PROVE Staged'
  BY <1>4 DEF BuildTable, NoFlush, NoMerge, Typed, TypedVersions, TypedCalls,
    Staged, vars, queue, memory, numbers, bg, ranges, opening, disk,
    promises, history
<1>5. ASSUME BuildTableFails PROVE Staged'
  BY <1>5 DEF BuildTableFails, BackgroundError, NoFlush, NoMerge, Typed,
    TypedVersions, TypedCalls, Staged, vars, queue, memory, numbers, bg,
    ranges, opening, disk, promises, history
<1>6. ASSUME LogFlush PROVE Staged'
  <2>1. CASE shuttingDown
    BY <1>6, <2>1 DEF LogFlush, BackgroundError, Staged, memory, NoFlush
  <2>2. CASE ~shuttingDown
    <3>1. flush' = [flush EXCEPT !.stage = "logged"] /\ flush.stage = "built" /\ UNCHANGED <<memory, merge>>
      BY <1>6, <2>2 DEF LogFlush
    <3>2. flush'.stage = "logged" /\ flush # NoFlush
      BY <3>1 DEF Typed, TypedVersions, NoFlush
    <3> QED
      BY <3>1, <3>2 DEF Staged, memory, NoFlush
  <2> QED
    BY <2>1, <2>2
<1>7. ASSUME InstallFlush PROVE Staged'
  BY <1>7 DEF InstallFlush, NoFlush, NoMerge, Typed, TypedVersions,
    TypedCalls, Staged, vars, queue, memory, numbers, bg, ranges, opening,
    disk, promises, history
<1>8. ASSUME InstallFlushFails PROVE Staged'
  BY <1>8 DEF InstallFlushFails, BackgroundError, NoFlush, NoMerge, Typed,
    TypedVersions, TypedCalls, Staged, vars, queue, memory, numbers, bg,
    ranges, opening, disk, promises, history
<1>9. ASSUME BuildMerge PROVE Staged'
  BY <1>9 DEF BuildMerge, NoFlush, NoMerge, Typed, TypedVersions, TypedCalls,
    Staged, vars, queue, memory, numbers, bg, ranges, opening, disk,
    promises, history
<1>10. ASSUME LogMerge PROVE Staged'
  BY <1>10 DEF LogMerge, EndMerge, BackgroundError, NoFlush, NoMerge, Typed,
    TypedVersions, TypedCalls, Staged, vars, queue, memory, numbers, bg,
    ranges, opening, disk, promises, history
<1>11. ASSUME InstallMerge PROVE Staged'
  BY <1>11 DEF InstallMerge, EndMerge, NoFlush, NoMerge, Typed,
    TypedVersions, TypedCalls, Staged, vars, queue, memory, numbers, bg,
    ranges, opening, disk, promises, history
<1>12. ASSUME MergeFails PROVE Staged'
  BY <1>12 DEF MergeFails, EndMerge, BackgroundError, NoFlush, NoMerge,
    Typed, TypedVersions, TypedCalls, Staged, vars, queue, memory, numbers,
    bg, ranges, opening, disk, promises, history
<1>13. ASSUME NullDereference PROVE Staged'
  BY <1>13 DEF NullDereference, EndProcess, LoseMemory, NoFlush, NoMerge,
    Typed, TypedVersions, TypedCalls, Staged, vars, queue, memory, numbers,
    bg, ranges, opening, disk, promises, history
<1>14. ASSUME Close PROVE Staged'
  BY <1>14 DEF Close, LoseMemory, NoFlush, NoMerge, Typed, TypedVersions,
    TypedCalls, Staged, vars, queue, memory, numbers, bg, ranges, opening,
    disk, promises, history
<1>15. ASSUME ProcessCrash PROVE Staged'
  BY <1>15 DEF ProcessCrash, EndProcess, LoseMemory, NoFlush, NoMerge, Typed,
    TypedVersions, TypedCalls, Staged, vars, queue, memory, numbers, bg,
    ranges, opening, disk, promises, history
<1>16. ASSUME MachineCrash PROVE Staged'
  BY <1>16 DEF MachineCrash, LoseMemory, NoFlush, NoMerge, Typed,
    TypedVersions, TypedCalls, Staged, vars, queue, memory, numbers, bg,
    ranges, opening, disk, promises, history
<1>17. CASE \/ (\E w \in Writers : Enqueue(w))
            \/ (\E w \in Writers : WriteRefused(w))
            \/ (\E w \in Writers : BeginGroup(w))
            \/ (\E w \in Writers : Stall(w))
            \/ (\E w \in Writers : AddRecord(w))
            \/ (\E w \in Writers : SyncLog(w))
            \/ (\E w \in Writers : FinishGroup(w))
            \/ (\E w \in Writers : TEST_CompactMemTable(w))
            \/ (\E c \in Compactors : TEST_CompactRange(c)) \/ Recover
            \/ RecoverLogFile \/ CreateLog \/ LogRecovery \/ InstallRecovery
            \/ BeginClose \/ UNCHANGED vars
  BY <1>17 DEF Enqueue, WriteRefused, BeginGroup, Stall, AddRecord, SyncLog,
    FinishGroup, TEST_CompactMemTable, TEST_CompactRange, Recover,
    RecoverLogFile, CreateLog, LogRecovery, InstallRecovery, BeginClose,
    Staged, vars, queue, memory, numbers, bg, ranges, opening, disk,
    promises, history
<1> QED
  BY <1>1, <1>2, <1>3, <1>4, <1>5, <1>6, <1>7, <1>8, <1>9, <1>10, <1>11,
     <1>12, <1>13, <1>14, <1>15, <1>16, <1>17 DEF Next, Writing, Background, Opening


(* The queue after Pop(n): the first n writers have left it, and the next  *)
(* is at work.                                                             *)
LEMMA PoppedQueued ==
  ASSUME Typed, Queued, writers # <<>>, NEW n \in 1..Len(writers), NEW status \in {"done", "failed"},
         \A i \in 2..Len(writers) : pc[writers[i]] = "asleep",
         writers' = SubSeq(writers, n + 1, Len(writers)), group' = 0,
         pc' = Popped(n, status) \/ pc' = Woken(Popped(n, status))
  PROVE  Queued'
<1>1. /\ writers \in Seq(Writers) /\ Len(writers) \in Nat /\ n \in Nat /\ 1 <= n /\ n <= Len(writers)
      /\ \A i \in 1..Len(writers) : writers[i] \in Writers
  BY DEF Typed, TypedCalls
<1>2. /\ writers' \in Seq(Writers) /\ Len(writers') = Len(writers) - n
      /\ \A i \in 1..Len(writers') : writers'[i] = writers[n + i]
  <2>1. \A i \in (n + 1)..Len(writers) : writers[i] \in Writers
    BY <1>1
  <2>2. /\ writers' \in Seq(Writers)
        /\ Len(writers') = IF n + 1 <= Len(writers) THEN Len(writers) - (n + 1) + 1 ELSE 0
        /\ \A i \in 1..(Len(writers) - (n + 1) + 1) : writers'[i] = writers[(n + 1) + i - 1]
    BY <1>1, <2>1, SubSeqProperties
  <2> QED
    BY <1>1, <2>2
<1>3. \A w \in Writers : (\E i \in 1..n : writers[i] = w) =>
        pc'[w] \in {"done", "failed", "written"}
  BY DEF Popped, Answer, Woken
<1>4. \A w \in Writers : ~(\E i \in 1..n : writers[i] = w) =>
        /\ (n < Len(writers) /\ w = writers[n + 1]) => pc'[w] = "ready"
        /\ ~(n < Len(writers) /\ w = writers[n + 1]) =>
             \/ pc'[w] = pc[w]
             \/ pc[w] = "stalled" /\ pc'[w] = "ready"
             \/ pc'[w] = "written"
  BY DEF Popped, Answer, Woken
<1>5. \A i \in 1..Len(writers') : ~(\E j \in 1..n : writers[j] = writers'[i])
  BY <1>1, <1>2 DEF Queued
<1>6. \A i, j \in 1..Len(writers') : writers'[i] = writers'[j] => i = j
  BY <1>1, <1>2 DEF Queued
<1>7. \A i \in 1..Len(writers') : pc'[writers'[i]] \in IF i = 1 THEN AtWork ELSE {"asleep"}
  <2> SUFFICES ASSUME NEW i \in 1..Len(writers')
               PROVE  pc'[writers'[i]] \in IF i = 1 THEN AtWork ELSE {"asleep"}
    OBVIOUS
  <2>1. writers'[i] \in Writers /\ writers'[i] = writers[n + i] /\ n + i \in 2..Len(writers)
    BY <1>1, <1>2
  <2>2. pc[writers'[i]] = "asleep"
    BY <2>1
  <2>3. CASE i = 1
    BY <2>1, <2>3, <1>1, <1>2, <1>4, <1>5 DEF AtWork
  <2>4. CASE i # 1
    <3>1. ~(n < Len(writers) /\ writers'[i] = writers[n + 1])
      BY <2>1, <2>4, <1>1, <1>2 DEF Queued
    <3>2. ~(\E j \in 1..n : writers[j] = writers'[i])
      BY <1>5
    <3>3. pc'[writers'[i]] = "asleep" \/ pc'[writers'[i]] = "written"
      BY <3>1, <3>2, <2>1, <2>2, <1>4
    <3>4. pc'[writers'[i]] # "written"
      BY <3>1, <3>2, <2>1, <2>2 DEF Popped, Woken
    <3> QED
      BY <3>3, <3>4, <2>4
  <2> QED
    BY <2>3, <2>4
<1>8. ASSUME NEW w \in Writers, pc'[w] \in AtWork \cup {"asleep"}
      PROVE  \E i \in 1..Len(writers') : writers'[i] = w
  <2>1. ~(\E i \in 1..n : writers[i] = w)
    BY <1>3, <1>8 DEF AtWork
  <2>2. PICK j \in 1..Len(writers) : writers[j] = w
    <3>1. CASE n < Len(writers) /\ w = writers[n + 1]
      BY <3>1, <1>1
    <3>2. CASE ~(n < Len(writers) /\ w = writers[n + 1])
      <4>1. pc[w] \in AtWork \cup {"asleep"}
        BY <3>2, <2>1, <1>4, <1>8 DEF AtWork
      <4> QED
        BY <4>1 DEF Queued
    <3> QED
      BY <3>1, <3>2
  <2>3. j > n /\ j - n \in 1..Len(writers') /\ j = n + (j - n)
    BY <2>1, <2>2, <1>1, <1>2
  <2> QED
    BY <2>2, <2>3, <1>2
<1>9. \A w \in Writers : pc'[w] \notin {"append", "sync", "insert"}
  <2> SUFFICES ASSUME NEW w \in Writers, pc'[w] \in {"append", "sync", "insert"} PROVE FALSE
    OBVIOUS
  <2>1. PICK i \in 1..Len(writers') : writers'[i] = w
    BY <1>8 DEF AtWork
  <2>2. pc'[w] \in {"ready", "asleep"}
    <3>1. w = writers[n + i] /\ n + i \in 2..Len(writers) /\ pc[w] = "asleep"
      BY <2>1, <1>1, <1>2
    <3> QED
      BY <3>1, <2>1, <1>4, <1>5
  <2> QED
    BY <2>2
<1>10. ~(group' > 0)
  OBVIOUS
<1> QED
  BY <1>6, <1>7, <1>8, <1>9, <1>10, Zenon DEF Queued

(* The front of the queue is the only writer at work. *)
LEMMA FrontAlone ==
  ASSUME Typed, Queued, NEW w \in Writers, pc[w] \in AtWork
  PROVE  /\ Len(writers) \in Nat /\ Len(writers) >= 1 /\ writers # <<>>
         /\ writers[1] = w /\ Head(writers) = w
         /\ \A x \in Writers : x # w => pc[x] \notin AtWork
<1>1. PICK i \in 1..Len(writers) : writers[i] = w
  BY DEF Queued
<1>2. i = 1
  BY <1>1 DEF Queued, AtWork
<1>3. writers \in Seq(Writers) /\ Len(writers) \in Nat /\ Len(writers) >= 1 /\ writers # <<>>
  BY <1>1, <1>2 DEF Typed, TypedCalls
<1>4. ASSUME NEW x \in Writers, x # w PROVE pc[x] \notin AtWork
  <2>1. SUFFICES ASSUME pc[x] \in AtWork PROVE FALSE
    OBVIOUS
  <2>2. PICK j \in 1..Len(writers) : writers[j] = x
    BY <2>1 DEF Queued
  <2>3. j # 1
    BY <1>1, <1>2, <1>4, <2>2
  <2> QED
    BY <2>1, <2>2, <2>3 DEF Queued, AtWork
<1> QED
  BY <1>1, <1>2, <1>3, <1>4

(* Signals move nobody in the queue but a front that was stalled. *)
LEMMA WokenQueued ==
  ASSUME Typed, Queued, UNCHANGED <<writers, group>>, pc' = Woken(pc)
  PROVE  Queued'
<1>1. /\ \A w \in Writers : pc'[w] \in AtWork <=> pc[w] \in AtWork
      /\ \A w \in Writers : pc'[w] = "asleep" <=> pc[w] = "asleep"
      /\ \A w \in Writers, s \in {"append", "sync", "insert"} : pc'[w] = s <=> pc[w] = s
  BY DEF Woken, Typed, TypedCalls, AtWork
<1>2. \A i \in 1..Len(writers) : writers[i] \in Writers
  BY DEF Typed, TypedCalls
<1>3. group > 0 => 1 \in 1..Len(writers)
  BY DEF Typed, TypedCalls
<1> QED
  BY <1>1, <1>2, <1>3 DEF Queued

(* The front goes from one place of work to another. *)
LEMMA FrontMoves ==
  ASSUME Typed, Queued, UNCHANGED writers, group' \in 0..Len(writers),
         NEW w \in Writers, pc[w] \in AtWork, NEW place \in AtWork,
         pc' = [pc EXCEPT ![w] = place],
         group' > 0 <=> place \in {"append", "sync", "insert"}
  PROVE  Queued'
<1>1. \A x \in Writers : pc'[x] = IF x = w THEN place ELSE pc[x]
  BY DEF Typed, TypedCalls
<1>2. writers[1] = w /\ Len(writers) >= 1 /\ \A x \in Writers : x # w => pc[x] \notin AtWork
  BY FrontAlone
<1>3. \A i \in 1..Len(writers) : writers[i] \in Writers /\ (writers[i] = w => i = 1)
  BY <1>2 DEF Typed, TypedCalls, Queued
<1>4. \A i \in 1..Len(writers) : pc'[writers[i]] \in IF i = 1 THEN AtWork ELSE {"asleep"}
  BY <1>1, <1>2, <1>3 DEF Queued
<1>5. \A x \in Writers : pc'[x] \in AtWork \cup {"asleep"} =>
        \E i \in 1..Len(writers) : writers[i] = x
  BY <1>1 DEF Queued
<1>6. \A x \in Writers : pc'[x] \in {"append", "sync", "insert"} => group' > 0
  BY <1>1, <1>2 DEF AtWork
<1>7. group' > 0 => pc'[writers[1]] \in {"append", "sync", "insert"}
  BY <1>1, <1>2
<1> QED
  BY <1>4, <1>5, <1>6, <1>7 DEF Queued

(* A front that has no group yet has none. *)
LEMMA NoGroup ==
  ASSUME Typed, Queued, NEW w \in Writers, pc[w] \in {"ready", "switched", "stalled"}
  PROVE  group = 0
<1>1. writers[1] = w
  BY FrontAlone DEF AtWork
<1> QED
  BY <1>1 DEF Queued, Typed, TypedCalls


(* The queue is kept. *)
LEMMA QueuedStep ==
  ASSUME Typed, Queued, [Next]_vars
  PROVE  Queued'
<1>1. ASSUME NEW w \in Writers, Enqueue(w) PROVE Queued'
  <2>1. writers \in Seq(Writers) /\ Len(writers) \in Nat /\ pc[w] = "idle"
    BY <1>1 DEF Enqueue, Typed, TypedCalls
  <2>2. /\ Len(writers') = Len(writers) + 1 /\ writers'[Len(writers) + 1] = w
        /\ \A i \in 1..Len(writers) : writers'[i] = writers[i] /\ writers[i] \in Writers
    BY <1>1, <2>1 DEF Enqueue
  <2>3. \A i \in 1..Len(writers) : writers[i] # w
    BY <2>1 DEF Queued, AtWork
  <2>4. \A x \in Writers : pc'[x] = IF x = w THEN (IF writers = <<>> THEN "ready" ELSE "asleep") ELSE pc[x]
    BY <1>1 DEF Enqueue, Typed, TypedCalls
  <2>5. group' = group /\ group \in 0..Len(writers) /\ (writers = <<>> <=> Len(writers) = 0)
    BY <1>1, <2>1 DEF Enqueue, Typed, TypedCalls
  <2>6. \A i, j \in 1..Len(writers') : writers'[i] = writers'[j] => i = j
    BY <2>1, <2>2, <2>3 DEF Queued
  <2>7. \A i \in 1..Len(writers') : pc'[writers'[i]] \in IF i = 1 THEN AtWork ELSE {"asleep"}
    <3> SUFFICES ASSUME NEW i \in 1..Len(writers')
                 PROVE  pc'[writers'[i]] \in IF i = 1 THEN AtWork ELSE {"asleep"}
      OBVIOUS
    <3>1. CASE i \in 1..Len(writers)
      BY <3>1, <2>2, <2>3, <2>4 DEF Queued
    <3>2. CASE i = Len(writers) + 1
      BY <3>2, <2>1, <2>2, <2>4, <2>5 DEF AtWork
    <3> QED
      BY <3>1, <3>2, <2>1, <2>2
  <2>8. \A x \in Writers : pc'[x] \in AtWork \cup {"asleep"} =>
          \E i \in 1..Len(writers') : writers'[i] = x
    <3> SUFFICES ASSUME NEW x \in Writers, pc'[x] \in AtWork \cup {"asleep"}
                 PROVE  \E i \in 1..Len(writers') : writers'[i] = x
      OBVIOUS
    <3>1. CASE x = w
      BY <3>1, <2>1, <2>2
    <3>2. CASE x # w
      <4>1. PICK i \in 1..Len(writers) : writers[i] = x
        BY <3>2, <2>4 DEF Queued
      <4> QED
        BY <4>1, <2>1, <2>2
    <3> QED
      BY <3>1, <3>2
  <2>9. \A x \in Writers : pc'[x] \in {"append", "sync", "insert"} => group' > 0
    BY <2>4, <2>5 DEF Queued
  <2>10. group' > 0 => pc'[writers'[1]] \in {"append", "sync", "insert"}
    BY <2>1, <2>2, <2>3, <2>4, <2>5 DEF Queued
  <2> QED
    BY <2>6, <2>7, <2>8, <2>9, <2>10 DEF Queued
<1>2. ASSUME NEW w \in Writers, WriteRefused(w) PROVE Queued'
  <2>1. pc[w] \in AtWork
    BY <1>2 DEF WriteRefused, AtMakeRoom, AtWork
  <2>2. writers # <<>> /\ 1 \in 1..Len(writers)
    BY <2>1, FrontAlone
  <2>3. \A i \in 2..Len(writers) : pc[writers[i]] = "asleep"
    BY DEF Queued
  <2> QED
    BY <1>2, <2>2, <2>3, PoppedQueued DEF WriteRefused, Pop
<1>3. ASSUME NEW w \in Writers, BeginGroup(w) PROVE Queued'
  <2>1. pc[w] \in AtWork
    BY <1>3 DEF BeginGroup, AtMakeRoom, AtWork
  <2>2. writers # <<>> /\ 1 \in 1..Len(writers)
    BY <2>1, FrontAlone
  <2>3. \A i \in 2..Len(writers) : pc[writers[i]] = "asleep"
    BY DEF Queued
  <2>4. CASE w \in NullWriters
    BY <1>3, <2>2, <2>3, <2>4, PoppedQueued DEF BeginGroup, Pop
  <2>5. CASE w \notin NullWriters
    <3>1. /\ pc' = [pc EXCEPT ![w] = "append"] /\ UNCHANGED writers
          /\ group' \in 1..Len(writers)
      BY <1>3, <2>5 DEF BeginGroup
    <3>2. group' \in 0..Len(writers) /\ group' > 0
      BY <3>1
    <3> QED
      BY <2>1, <3>1, <3>2, FrontMoves DEF AtWork
  <2> QED
    BY <2>4, <2>5
<1>4. ASSUME NEW w \in Writers, Stall(w) PROVE Queued'
  <2>1. pc[w] \in {"ready", "switched"}
    BY <1>4 DEF Stall, AtMakeRoom
  <2>2. group = 0 /\ group' = 0 /\ 0 \in 0..Len(writers)
    BY <1>4, <2>1, NoGroup DEF Stall, Typed, TypedCalls
  <2>3. pc' = [pc EXCEPT ![w] = "stalled"] /\ UNCHANGED writers
    BY <1>4 DEF Stall
  <2>4. pc[w] \in AtWork /\ "stalled" \in AtWork /\ ~(group' > 0)
    BY <2>1, <2>2 DEF AtWork
  <2> QED
    BY <2>2, <2>3, <2>4, FrontMoves
<1>5. ASSUME NEW w \in Writers, SwitchMemTable(w) PROVE Queued'
  <2>1. pc[w] \in AtWork
    BY <1>5 DEF SwitchMemTable, AtMakeRoom, AtWork
  <2>2. writers # <<>> /\ 1 \in 1..Len(writers)
    BY <2>1, FrontAlone
  <2>3. \A i \in 2..Len(writers) : pc[writers[i]] = "asleep"
    BY DEF Queued
  <2>4. CASE Pop(1, "failed")
    BY <2>2, <2>3, <2>4, PoppedQueued DEF Pop
  <2>5. CASE pc' = [pc EXCEPT ![w] = "switched"] /\ UNCHANGED <<writers, group>>
    <3>1. group = 0 /\ 0 \in 0..Len(writers)
      BY <1>5, NoGroup DEF SwitchMemTable, AtMakeRoom, Typed, TypedCalls
    <3>2. "switched" \in AtWork /\ ~(group' > 0) /\ group' \in 0..Len(writers)
      BY <2>5, <3>1 DEF AtWork
    <3> QED
      BY <2>1, <2>5, <3>2, FrontMoves
  <2> QED
    BY <1>5, <2>4, <2>5 DEF SwitchMemTable
<1>6. ASSUME NEW w \in Writers, AddRecord(w) PROVE Queued'
  <2>1. PICK place \in {"sync", "insert"} : pc' = [pc EXCEPT ![w] = place]
    BY <1>6 DEF AddRecord
  <2>2. /\ pc[w] \in {"append", "sync"} /\ group > 0 /\ group' = group /\ UNCHANGED writers
        /\ group \in 0..Len(writers)
    BY <1>6 DEF AddRecord, Queued, Typed, TypedCalls
  <2> QED
    BY <2>1, <2>2, FrontMoves DEF AtWork
<1>7. ASSUME NEW w \in Writers, SyncLog(w) PROVE Queued'
  <2>1. PICK place \in {"sync", "insert"} : pc' = [pc EXCEPT ![w] = place]
    BY <1>7 DEF SyncLog
  <2>2. /\ pc[w] \in {"append", "sync"} /\ group > 0 /\ group' = group /\ UNCHANGED writers
        /\ group \in 0..Len(writers)
    BY <1>7 DEF SyncLog, Queued, Typed, TypedCalls
  <2> QED
    BY <2>1, <2>2, FrontMoves DEF AtWork
<1>8. ASSUME NEW w \in Writers, FinishGroup(w) PROVE Queued'
  <2>1. pc[w] \in AtWork /\ group > 0 /\ group \in 0..Len(writers)
    BY <1>8 DEF FinishGroup, AtWork, Queued, Typed, TypedCalls
  <2>2. writers # <<>> /\ group \in 1..Len(writers)
    BY <2>1, FrontAlone
  <2>3. \A i \in 2..Len(writers) : pc[writers[i]] = "asleep"
    BY DEF Queued
  <2>4. \E status \in {"done", "failed"} :
          pc' = Popped(group, status) \/ pc' = Woken(Popped(group, status))
    BY <1>8 DEF FinishGroup
  <2>5. writers' = SubSeq(writers, group + 1, Len(writers)) /\ group' = 0
    BY <1>8 DEF FinishGroup
  <2> QED
    BY <2>2, <2>3, <2>4, <2>5, PoppedQueued
<1>9. ASSUME NEW w \in Writers, TEST_CompactMemTable(w) PROVE Queued'
  <2>1. /\ pc[w] = "written" /\ UNCHANGED <<writers, group>>
        /\ \A x \in Writers : pc'[x] = pc[x] \/ (x = w /\ pc'[x] \in {"done", "failed", "waits"})
    BY <1>9 DEF TEST_CompactMemTable, Typed, TypedCalls, queue
  <2>2. \A i \in 1..Len(writers) : writers[i] \in Writers /\ writers[i] # w
    BY <2>1 DEF Typed, TypedCalls, Queued, AtWork
  <2>3. group > 0 => 1 \in 1..Len(writers)
    BY DEF Typed, TypedCalls
  <2> QED
    BY <2>1, <2>2, <2>3 DEF Queued, AtWork
<1>10. ASSUME BackgroundCall PROVE Queued'
  <2>1. UNCHANGED <<writers, group>> /\ (pc' = pc \/ pc' = Woken(pc))
    BY <1>10 DEF BackgroundCall, EndCall, SignalAll
  <2> QED
    BY <2>1, WokenQueued DEF Queued
<1>11. ASSUME BuildTableFails PROVE Queued'
  <2>1. UNCHANGED <<writers, group>> /\ (pc' = pc \/ pc' = Woken(pc))
    BY <1>11 DEF BuildTableFails, CallGoesOn, EndCall, SignalAll
  <2> QED
    BY <2>1, WokenQueued DEF Queued
<1>12. ASSUME LogFlush PROVE Queued'
  <2>1. UNCHANGED <<writers, group>> /\ (pc' = pc \/ pc' = Woken(pc))
    BY <1>12 DEF LogFlush, queue
  <2> QED
    BY <2>1, WokenQueued DEF Queued
<1>13. ASSUME InstallFlush PROVE Queued'
  <2>1. UNCHANGED <<writers, group>> /\ (pc' = pc \/ pc' = Woken(pc))
    BY <1>13 DEF InstallFlush, CallGoesOn, EndCall, SignalAll
  <2> QED
    BY <2>1, WokenQueued DEF Queued
<1>14. ASSUME InstallFlushFails PROVE Queued'
  <2>1. UNCHANGED <<writers, group>> /\ (pc' = pc \/ pc' = Woken(pc))
    BY <1>14 DEF InstallFlushFails, CallGoesOn, EndCall, SignalAll
  <2> QED
    BY <2>1, WokenQueued DEF Queued
<1>15. ASSUME LogMerge PROVE Queued'
  <2>1. UNCHANGED <<writers, group>> /\ (pc' = pc \/ pc' = Woken(pc))
    BY <1>15 DEF LogMerge, queue
  <2> QED
    BY <2>1, WokenQueued DEF Queued
<1>16. ASSUME InstallMerge PROVE Queued'
  <2>1. UNCHANGED <<writers, group>> /\ (pc' = pc \/ pc' = Woken(pc))
    BY <1>16 DEF InstallMerge, EndMerge, EndCall, SignalAll
  <2> QED
    BY <2>1, WokenQueued DEF Queued
<1>17. ASSUME MergeFails PROVE Queued'
  <2>1. UNCHANGED <<writers, group>> /\ (pc' = pc \/ pc' = Woken(pc))
    BY <1>17 DEF MergeFails, EndMerge, EndCall, SignalAll
  <2> QED
    BY <2>1, WokenQueued DEF Queued
<1>18. ASSUME NullDereference PROVE Queued'
  <2>1. writers' = <<>> /\ group' = 0 /\ \A x \in Writers : pc'[x] \in Answered
    BY <1>18 DEF NullDereference, EndProcess, LoseMemory, Answered
  <2> QED
    BY <2>1 DEF Queued, AtWork, Answered
<1>19. ASSUME Close PROVE Queued'
  <2>1. writers' = <<>> /\ group' = 0 /\ \A x \in Writers : pc'[x] \in Answered
    BY <1>19 DEF Close, LoseMemory, Answered
  <2> QED
    BY <2>1 DEF Queued, AtWork, Answered
<1>20. ASSUME ProcessCrash PROVE Queued'
  <2>1. writers' = <<>> /\ group' = 0 /\ \A x \in Writers : pc'[x] \in Answered
    BY <1>20 DEF ProcessCrash, EndProcess, LoseMemory, Answered
  <2> QED
    BY <2>1 DEF Queued, AtWork, Answered
<1>21. ASSUME MachineCrash PROVE Queued'
  <2>1. writers' = <<>> /\ group' = 0 /\ \A x \in Writers : pc'[x] \in Answered
    BY <1>21 DEF MachineCrash, LoseMemory, Answered
  <2> QED
    BY <2>1 DEF Queued, AtWork, Answered
<1>22. CASE \/ (\E c \in Compactors : TEST_CompactRange(c))
            \/ FlushDuringMerge \/ BuildTable \/ BuildMerge \/ Recover
            \/ RecoverLogFile \/ CreateLog \/ LogRecovery \/ InstallRecovery
            \/ BeginClose \/ UNCHANGED vars
  BY <1>22 DEF TEST_CompactRange, FlushDuringMerge, BuildTable, BuildMerge,
    Recover, RecoverLogFile, CreateLog, LogRecovery, InstallRecovery,
    BeginClose, Queued, vars, queue, memory, numbers, bg, ranges, opening,
    disk, promises, history
<1> QED
  BY <1>1, <1>2, <1>3, <1>4, <1>5, <1>6, <1>7, <1>8, <1>9, <1>10, <1>11,
     <1>12, <1>13, <1>14, <1>15, <1>16, <1>17, <1>18, <1>19, <1>20, <1>21,
     <1>22 DEF Next, Writing, Background, Opening


(* After a signal nobody waits. *)
LEMMA NobodyWaits ==
  ASSUME Typed
  PROVE  /\ \A w \in Writers : Woken(pc)[w] \notin {"stalled", "waits"}
         /\ \A c \in Compactors : Woken(cpc)[c] # "stalled"
         /\ \A w \in Writers : pc[w] \in Answered => Woken(pc)[w] = pc[w]
         /\ \A c \in Compactors : cpc[c] \in {"idle", "done", "lost"} => Woken(cpc)[c] = cpc[c]
  BY DEF Woken, Typed, TypedCalls, Answered

(* Who leaves the queue waits for nothing. *)
LEMMA NobodyWaitsAfterPop ==
  ASSUME Typed, NEW n, NEW status \in {"done", "failed"}, NEW w \in Writers
  PROVE  /\ Popped(n, status)[w] \in {"stalled", "waits"} => pc[w] \in {"stalled", "waits"}
         /\ Woken(Popped(n, status))[w] \notin {"stalled", "waits"}
  BY DEF Popped, Woken, Answer

(* Nobody is at work in a database that is being closed. *)
LEMMA NotClosing ==
  ASSUME Scheduled, NEW w \in Writers, pc[w] \notin Answered
  PROVE  ~shuttingDown
  BY DEF Scheduled

(* A call that ends has scheduled what there is to do. *)
LEMMA EndCallScheduled ==
  ASSUME Typed, Scheduled, NEW error \in BOOLEAN, NEW work \in BOOLEAN, NEW v,
         EndCall(error, work, v), flush' = NoFlush, merge' = NoMerge,
         UNCHANGED shuttingDown, version' = v,
         ~bgError' => ~error,
         (hasImm' \/ manual' # NoOne) => work
  PROVE  Scheduled'
<1>1. /\ \A w \in Writers : pc'[w] \notin {"stalled", "waits"}
      /\ \A c \in Compactors : cpc'[c] # "stalled"
      /\ \A w \in Writers : pc[w] \in Answered => pc'[w] = pc[w]
      /\ \A c \in Compactors : cpc[c] \in {"idle", "done", "lost"} => cpc'[c] = cpc[c]
  BY NobodyWaits DEF EndCall, SignalAll
<1>2. bgScheduled' = (~shuttingDown /\ ~error /\ (work \/ NeedsCompaction(v)))
  BY DEF EndCall, MaybeScheduleCompaction
<1>3. (phase' = "open" /\ ~bgError' /\ ~shuttingDown' /\
       (hasImm' \/ NeedsCompaction(version') \/ manual' # NoOne)) => bgScheduled'
  BY <1>2
<1>4. (shuttingDown =>
        /\ \A w \in Writers : pc[w] \in Answered
        /\ \A c \in Compactors : cpc[c] \in {"idle", "done", "lost"})
  BY DEF Scheduled
<1> QED
  BY <1>1, <1>3, <1>4 DEF Scheduled, NeedsCompaction

(* A call that goes on stays scheduled. *)
LEMMA SignalScheduled ==
  ASSUME Typed, Scheduled, SignalAll, bgScheduled, bgScheduled', UNCHANGED shuttingDown
  PROVE  Scheduled'
<1>1. /\ \A w \in Writers : pc[w] \in Answered => pc'[w] = pc[w]
      /\ \A c \in Compactors : cpc[c] \in {"idle", "done", "lost"} => cpc'[c] = cpc[c]
  BY NobodyWaits DEF SignalAll
<1> QED
  BY <1>1 DEF Scheduled

(* The end of a merge schedules the next one when there is work. *)
LEMMA EndMergeScheduled ==
  ASSUME Typed, Scheduled, NEW failed \in BOOLEAN, EndMerge(failed, version'),
         flush' = NoFlush, UNCHANGED <<hasImm, shuttingDown>>,
         ~bgError' => ~failed /\ ~bgError
  PROVE  Scheduled'
<1> DEFINE error == failed \/ bgError
           work == hasImm \/ (~merge.manual /\ manual # NoOne)
<1>1. error \in BOOLEAN /\ work \in BOOLEAN
  BY DEF Typed, TypedCalls
<1>2. EndCall(error, work, version') /\ merge' = NoMerge
  BY DEF EndMerge
<1>3. (hasImm' \/ manual' # NoOne) => work
  BY DEF EndMerge
<1>4. ~bgError' => ~error
  BY DEF Typed, TypedCalls
<1> HIDE DEF error, work
<1> QED
  BY <1>1, <1>2, <1>3, <1>4, EndCallScheduled

(* Work to do stays scheduled. *)
LEMMA ScheduledStep ==
  ASSUME Typed, Stopped, Staged, Scheduled, [Next]_vars
  PROVE  Scheduled'
<1>1. ASSUME NEW w \in Writers, Enqueue(w) PROVE Scheduled'
  BY <1>1 DEF Enqueue, Typed, TypedCalls, Scheduled, NeedsCompaction, vars,
    queue, memory, numbers, bg, ranges, opening, disk, promises, history
<1>2. ASSUME NEW w \in Writers, WriteRefused(w) PROVE Scheduled'
  <2>1. ~shuttingDown
    BY <1>2, NotClosing DEF WriteRefused, AtMakeRoom, Answered
  <2>2. \A x \in Writers : pc'[x] \in {"stalled", "waits"} => pc[x] \in {"stalled", "waits"}
    BY <1>2, NobodyWaitsAfterPop DEF WriteRefused, Pop
  <2> QED
    BY <1>2, <2>1, <2>2 DEF WriteRefused, Scheduled, NeedsCompaction, memory, bg, ranges
<1>3. ASSUME NEW w \in Writers, BeginGroup(w) PROVE Scheduled'
  <2>1. ~shuttingDown
    BY <1>3, NotClosing DEF BeginGroup, AtMakeRoom, Answered
  <2>2. \A x \in Writers : pc'[x] \in {"stalled", "waits"} => pc[x] \in {"stalled", "waits"}
    <3>1. CASE w \in NullWriters
      BY <1>3, <3>1, NobodyWaitsAfterPop DEF BeginGroup, Pop
    <3>2. CASE w \notin NullWriters
      BY <1>3, <3>2 DEF BeginGroup, Typed, TypedCalls
    <3> QED
      BY <3>1, <3>2
  <2> QED
    BY <1>3, <2>1, <2>2 DEF BeginGroup, Scheduled, NeedsCompaction, memory, bg, ranges
<1>4. ASSUME NEW w \in Writers, Stall(w) PROVE Scheduled'
  <2>1. ~shuttingDown
    BY <1>4, NotClosing DEF Stall, AtMakeRoom, Answered
  <2>2. hasImm \/ NeedsCompaction(version)
    <3>1. Cardinality(version.l0) \in Nat
      BY FS_CardinalityType DEF Typed, TypedVersions, Versions, NumberSets
    <3> QED
      BY <1>4, <3>1, SizeAssumption DEF Stall, NeedsCompaction
  <2>3. bgScheduled
    BY <1>4, <2>1, <2>2 DEF Scheduled, Stall, AtMakeRoom, MutexFree
  <2> QED
    BY <1>4, <2>1, <2>3 DEF Stall, Scheduled, bg
<1>5. ASSUME NEW w \in Writers, SwitchMemTable(w) PROVE Scheduled'
  <2>1. ~shuttingDown /\ ~bgError
    BY <1>5, NotClosing DEF SwitchMemTable, AtMakeRoom, Answered
  <2>2. CASE Pop(1, "failed") /\ UNCHANGED <<memory, bgScheduled>>
    <3>1. \A x \in Writers : pc'[x] \in {"stalled", "waits"} => pc[x] \in {"stalled", "waits"}
      BY <2>2, NobodyWaitsAfterPop DEF Pop
    <3> QED
      BY <1>5, <2>1, <2>2, <3>1 DEF SwitchMemTable, Scheduled, NeedsCompaction, memory, ranges
  <2>3. CASE MaybeScheduleCompaction(bgScheduled, bgError, TRUE, version)
    <3>1. bgScheduled'
      BY <2>1, <2>3 DEF MaybeScheduleCompaction
    <3> QED
      BY <1>5, <2>1, <3>1 DEF SwitchMemTable, Scheduled
  <2> QED
    BY <1>5, <2>2, <2>3 DEF SwitchMemTable
<1>6. ASSUME NEW w \in Writers, AddRecord(w) PROVE Scheduled'
  <2>1. ~shuttingDown
    BY <1>6, NotClosing DEF AddRecord, Answered
  <2>2. \A x \in Writers : pc'[x] \in {"stalled", "waits"} => pc[x] \in {"stalled", "waits"}
    BY <1>6 DEF AddRecord, Typed, TypedCalls
  <2> QED
    BY <1>6, <2>1, <2>2 DEF AddRecord, Scheduled, NeedsCompaction, memory, bg, ranges
<1>7. ASSUME NEW w \in Writers, SyncLog(w) PROVE Scheduled'
  <2>1. ~shuttingDown
    BY <1>7, NotClosing DEF SyncLog, Answered
  <2>2. \A x \in Writers : pc'[x] \in {"stalled", "waits"} => pc[x] \in {"stalled", "waits"}
    BY <1>7 DEF SyncLog, Typed, TypedCalls
  <2> QED
    BY <1>7, <2>1, <2>2 DEF SyncLog, Scheduled, NeedsCompaction, memory, bg, ranges
<1>8. ASSUME NEW w \in Writers, FinishGroup(w) PROVE Scheduled'
  <2>1. ~shuttingDown
    BY <1>8, NotClosing DEF FinishGroup, Answered
  <2>2. \A x \in Writers : pc'[x] \in {"stalled", "waits"} => pc[x] \in {"stalled", "waits"}
    BY <1>8, NobodyWaitsAfterPop DEF FinishGroup
  <2>3. \A c \in Compactors : cpc'[c] = "stalled" => cpc[c] = "stalled"
    BY <1>8, NobodyWaits DEF FinishGroup
  <2>4. /\ ~bgError' => ~bgError
        /\ UNCHANGED <<phase, hasImm, version, bgScheduled, shuttingDown, flush, merge, manual>>
    BY <1>8 DEF FinishGroup, Typed, TypedCalls
  <2> QED
    BY <2>1, <2>2, <2>3, <2>4 DEF Scheduled, NeedsCompaction
<1>9. ASSUME NEW w \in Writers, TEST_CompactMemTable(w) PROVE Scheduled'
  <2>1. ~shuttingDown
    BY <1>9, NotClosing DEF TEST_CompactMemTable, Answered
  <2>2. \A x \in Writers : pc'[x] = "stalled" => pc[x] = "stalled"
    BY <1>9 DEF TEST_CompactMemTable, Typed, TypedCalls
  <2>3. \A x \in Writers : pc'[x] = "waits" => pc[x] = "waits" \/ (hasImm /\ ~bgError)
    BY <1>9 DEF TEST_CompactMemTable, Typed, TypedCalls
  <2>4. hasImm /\ ~bgError => bgScheduled
    BY <1>9, <2>1 DEF TEST_CompactMemTable, MutexFree, Scheduled
  <2> QED
    BY <1>9, <2>1, <2>2, <2>3, <2>4 DEF TEST_CompactMemTable, Scheduled, NeedsCompaction, memory, bg, ranges
<1>10. ASSUME NEW c \in Compactors, TEST_CompactRange(c) PROVE Scheduled'
  <2>1. CASE cdone[c] \/ shuttingDown \/ bgError
    <3>1. /\ \A x \in Compactors : cpc'[x] = "stalled" => cpc[x] = "stalled"
          /\ \A x \in Compactors : cpc[x] \in {"idle", "done", "lost"} =>
               cpc'[x] \in {"idle", "done", "lost"}
          /\ manual' # NoOne => manual # NoOne
      BY <1>10, <2>1 DEF TEST_CompactRange, Typed, TypedCalls
    <3>2. UNCHANGED <<phase, pc, memory, version, bgError, bgScheduled, shuttingDown, flush, merge>>
      BY <1>10, <2>1 DEF TEST_CompactRange, queue
    <3> QED
      BY <3>1, <3>2 DEF Scheduled, NeedsCompaction, memory
  <2>2. CASE ~(cdone[c] \/ shuttingDown \/ bgError)
    <3>1. bgScheduled'
      BY <1>10, <2>2 DEF TEST_CompactRange, MaybeScheduleCompaction
    <3> QED
      BY <1>10, <2>2, <3>1 DEF TEST_CompactRange, Scheduled
  <2> QED
    BY <2>1, <2>2
<1>11. ASSUME BackgroundCall PROVE Scheduled'
  <2>1. bgScheduled /\ flush = NoFlush /\ merge = NoMerge /\ UNCHANGED <<shuttingDown, version, memory, bgError>>
    BY <1>11 DEF BackgroundCall
  <2>2. CASE UNCHANGED <<pc, bgScheduled, ranges>>
    BY <1>11, <2>1, <2>2 DEF Scheduled, ranges
  <2>3. CASE EndCall(FALSE, FALSE, version) /\ ~hasImm /\ manual' = NoOne /\ UNCHANGED <<flush, merge>>
    BY <2>1, <2>3, EndCallScheduled DEF memory
  <2>4. CASE EndCall(bgError, hasImm \/ manual # NoOne, version) /\ UNCHANGED <<flush, merge, manual>>
    <3>1. bgError \in BOOLEAN /\ (hasImm \/ manual # NoOne) \in BOOLEAN
      BY DEF Typed, TypedCalls
    <3> QED
      BY <2>1, <2>4, <3>1, EndCallScheduled DEF memory
  <2> QED
    BY <1>11, <2>2, <2>3, <2>4 DEF BackgroundCall
<1>12. ASSUME FlushDuringMerge PROVE Scheduled'
  <2>1. bgScheduled
    BY <1>12 DEF FlushDuringMerge, Scheduled, NoMerge
  <2> QED
    BY <1>12, <2>1 DEF FlushDuringMerge, Scheduled, NeedsCompaction, queue, memory, ranges
<1>13. ASSUME BuildTable PROVE Scheduled'
  <2>1. bgScheduled
    BY <1>13 DEF BuildTable, Scheduled, NoFlush, NoMerge
  <2> QED
    BY <1>13, <2>1 DEF BuildTable, Scheduled, NeedsCompaction, queue, memory, ranges
<1>14. ASSUME BuildTableFails PROVE Scheduled'
  <2>1. /\ CallGoesOn(TRUE, hasImm, version) /\ flush' = NoFlush /\ bgError' = TRUE
        /\ UNCHANGED <<merge, manual, shuttingDown, version, hasImm>>
    BY <1>14 DEF BuildTableFails, BackgroundError, memory
  <2> QED
    <3>1. CASE merge = NoMerge
      <4>1. EndCall(TRUE, hasImm \/ manual # NoOne, version)
        BY <2>1, <3>1 DEF CallGoesOn
      <4>2. TRUE \in BOOLEAN /\ (hasImm \/ manual # NoOne) \in BOOLEAN
        BY DEF Typed, TypedCalls
      <4> QED
        BY <2>1, <3>1, <4>1, <4>2, EndCallScheduled
    <3>2. CASE merge # NoMerge
      <4>1. bgScheduled /\ bgScheduled' /\ SignalAll
        BY <2>1, <3>2 DEF CallGoesOn, Scheduled
      <4> QED
        BY <2>1, <4>1, SignalScheduled
    <3> QED
      BY <3>1, <3>2
<1>15. ASSUME LogFlush PROVE Scheduled'
  <2>1. bgScheduled /\ bgScheduled'
    BY <1>15 DEF LogFlush, Scheduled, NoFlush
  <2> QED
    BY <1>15, <2>1 DEF LogFlush, Scheduled, queue, ranges
<1>16. ASSUME InstallFlush PROVE Scheduled'
  <2>1. /\ CallGoesOn(bgError, FALSE, version') /\ flush' = NoFlush /\ hasImm' = FALSE
        /\ UNCHANGED <<merge, manual, shuttingDown, bgError>>
    BY <1>16 DEF InstallFlush
  <2> QED
    <3>1. CASE merge = NoMerge
      <4>1. EndCall(bgError, FALSE \/ manual # NoOne, version')
        BY <2>1, <3>1 DEF CallGoesOn
      <4>2. bgError \in BOOLEAN /\ (FALSE \/ manual # NoOne) \in BOOLEAN
        BY DEF Typed, TypedCalls
      <4> QED
        BY <2>1, <3>1, <4>1, <4>2, EndCallScheduled
    <3>2. CASE merge # NoMerge
      <4>1. bgScheduled /\ bgScheduled' /\ SignalAll
        BY <2>1, <3>2 DEF CallGoesOn, Scheduled
      <4> QED
        BY <2>1, <4>1, SignalScheduled
    <3> QED
      BY <3>1, <3>2
<1>17. ASSUME InstallFlushFails PROVE Scheduled'
  <2>1. /\ CallGoesOn(TRUE, hasImm, version) /\ flush' = NoFlush /\ bgError' = TRUE
        /\ UNCHANGED <<merge, manual, shuttingDown, version, hasImm>>
    BY <1>17 DEF InstallFlushFails, BackgroundError, memory
  <2> QED
    <3>1. CASE merge = NoMerge
      <4>1. EndCall(TRUE, hasImm \/ manual # NoOne, version)
        BY <2>1, <3>1 DEF CallGoesOn
      <4>2. TRUE \in BOOLEAN /\ (hasImm \/ manual # NoOne) \in BOOLEAN
        BY DEF Typed, TypedCalls
      <4> QED
        BY <2>1, <3>1, <4>1, <4>2, EndCallScheduled
    <3>2. CASE merge # NoMerge
      <4>1. bgScheduled /\ bgScheduled' /\ SignalAll
        BY <2>1, <3>2 DEF CallGoesOn, Scheduled
      <4> QED
        BY <2>1, <4>1, SignalScheduled
    <3> QED
      BY <3>1, <3>2
<1>18. ASSUME BuildMerge PROVE Scheduled'
  <2>1. bgScheduled
    BY <1>18 DEF BuildMerge, Scheduled, NoFlush, NoMerge
  <2> QED
    BY <1>18, <2>1 DEF BuildMerge, Scheduled, NeedsCompaction, queue, memory, ranges
<1>19. ASSUME LogMerge PROVE Scheduled'
  <2>1. bgScheduled /\ bgScheduled'
    BY <1>19 DEF LogMerge, Scheduled, NoMerge
  <2> QED
    BY <1>19, <2>1 DEF LogMerge, Scheduled, queue, ranges
<1>20. ASSUME InstallMerge PROVE Scheduled'
  <2>1. /\ EndMerge(FALSE, version') /\ flush' = flush /\ UNCHANGED <<hasImm, shuttingDown>>
        /\ bgError' = bgError
    BY <1>20 DEF InstallMerge, memory
  <2>2. flush = NoFlush
    BY <1>20 DEF InstallMerge, Staged
  <2> QED
    BY <2>1, <2>2, EndMergeScheduled
<1>21. ASSUME MergeFails PROVE Scheduled'
  <2>1. /\ EndMerge(TRUE, version') /\ flush' = flush /\ UNCHANGED <<hasImm, shuttingDown>>
        /\ bgError' = TRUE
    BY <1>21 DEF MergeFails, BackgroundError, memory
  <2>2. flush = NoFlush
    BY <1>21 DEF MergeFails, Staged
  <2> QED
    BY <2>1, <2>2, EndMergeScheduled
<1>22. ASSUME NullDereference PROVE Scheduled'
  <2>1. /\ phase' = "closed" /\ ~shuttingDown' /\ flush' = NoFlush /\ merge' = NoMerge
        /\ \A x \in Writers : pc'[x] \in Answered
        /\ \A x \in Compactors : cpc'[x] \in {"idle", "done", "lost"}
    BY <1>22 DEF NullDereference, EndProcess, LoseMemory, Answered
  <2> QED
    BY <2>1 DEF Scheduled, Answered
<1>23. ASSUME Recover PROVE Scheduled'
  BY <1>23 DEF Recover, NeedsCompaction, Scheduled, NeedsCompaction, vars,
    queue, memory, numbers, bg, ranges, opening, disk, promises, history
<1>24. ASSUME RecoverLogFile PROVE Scheduled'
  BY <1>24 DEF RecoverLogFile, NeedsCompaction, Scheduled, NeedsCompaction,
    vars, queue, memory, numbers, bg, ranges, opening, disk, promises,
    history
<1>25. ASSUME CreateLog PROVE Scheduled'
  BY <1>25 DEF CreateLog, NeedsCompaction, Scheduled, NeedsCompaction, vars,
    queue, memory, numbers, bg, ranges, opening, disk, promises, history
<1>26. ASSUME LogRecovery PROVE Scheduled'
  BY <1>26 DEF LogRecovery, NeedsCompaction, Scheduled, NeedsCompaction,
    vars, queue, memory, numbers, bg, ranges, opening, disk, promises,
    history
<1>27. ASSUME InstallRecovery PROVE Scheduled'
  <2>1. bgScheduled' = (FALSE \/ (~shuttingDown /\ ~FALSE /\ (FALSE \/ NeedsCompaction(Recovered))))
    BY <1>27 DEF InstallRecovery, MaybeScheduleCompaction
  <2>2. ~shuttingDown /\ version' = Recovered
    BY <1>27 DEF InstallRecovery, Stopped
  <2>3. NeedsCompaction(version') => bgScheduled'
    BY <2>1, <2>2
  <2> QED
    BY <1>27, <2>3 DEF InstallRecovery, Scheduled, Stopped, Answered, queue, memory, ranges
<1>28. ASSUME BeginClose PROVE Scheduled'
  BY <1>28 DEF BeginClose, Answered, Scheduled, NeedsCompaction, vars, queue,
    memory, numbers, bg, ranges, opening, disk, promises, history
<1>29. ASSUME Close PROVE Scheduled'
  <2>1. /\ phase' = "closed" /\ ~shuttingDown' /\ flush' = NoFlush /\ merge' = NoMerge
        /\ \A x \in Writers : pc'[x] \in Answered
        /\ \A x \in Compactors : cpc'[x] \in {"idle", "done", "lost"}
    BY <1>29 DEF Close, LoseMemory, Answered
  <2> QED
    BY <2>1 DEF Scheduled, Answered
<1>30. ASSUME ProcessCrash PROVE Scheduled'
  <2>1. /\ phase' = "closed" /\ ~shuttingDown' /\ flush' = NoFlush /\ merge' = NoMerge
        /\ \A x \in Writers : pc'[x] \in Answered
        /\ \A x \in Compactors : cpc'[x] \in {"idle", "done", "lost"}
    BY <1>30 DEF ProcessCrash, EndProcess, LoseMemory, Answered
  <2> QED
    BY <2>1 DEF Scheduled, Answered
<1>31. ASSUME MachineCrash PROVE Scheduled'
  <2>1. /\ phase' = "closed" /\ ~shuttingDown' /\ flush' = NoFlush /\ merge' = NoMerge
        /\ \A x \in Writers : pc'[x] \in Answered
        /\ \A x \in Compactors : cpc'[x] \in {"idle", "done", "lost"}
    BY <1>31 DEF MachineCrash, LoseMemory, Answered
  <2> QED
    BY <2>1 DEF Scheduled, Answered
<1>32. CASE \/ UNCHANGED vars
  BY <1>32 DEF Scheduled, NeedsCompaction, vars, queue, memory, numbers, bg,
    ranges, opening, disk, promises, history
<1> QED
  BY <1>1, <1>2, <1>3, <1>4, <1>5, <1>6, <1>7, <1>8, <1>9, <1>10, <1>11,
     <1>12, <1>13, <1>14, <1>15, <1>16, <1>17, <1>18, <1>19, <1>20, <1>21,
     <1>22, <1>23, <1>24, <1>25, <1>26, <1>27, <1>28, <1>29, <1>30, <1>31,
     <1>32 DEF Next, Writing, Background, Opening


-----------------------------------------------------------------------------
(* File numbers *)

(* The numbers that Numbered is about are numbers. *)
LEMMA NumberedTypes ==
  ASSUME Typed
  PROVE  /\ DOMAIN logs \subseteq Nat /\ DOMAIN tables \subseteq Nat /\ toReplay \subseteq Nat
         /\ nextFile \in Nat /\ logNumber \in Nat /\ version.log \in Nat
         /\ FilesOf(version) \subseteq Nat /\ edit \subseteq Nat
         /\ flush.number \in Nat /\ merge.number \in Nat
         /\ \A m \in Kept : m \in Snapshots /\ m.next \in Nat /\ m.version \in Versions
         /\ \A m \in Kept : m.version.log \in Nat /\ FilesOf(m.version) \subseteq Nat
<1>1. \A m \in Kept : m \in Snapshots /\ m.next \in Nat /\ m.version \in Versions
  BY DEF Kept, Typed, TypedVersions, Snapshots
<1>2. \A v \in Versions : v.log \in Nat /\ FilesOf(v) \subseteq Nat
  BY DEF Versions, NumberSets, FilesOf
<1>3. version \in Versions /\ edit \subseteq Nat /\ flush.number \in Nat /\ merge.number \in Nat
  BY DEF Typed, TypedVersions, NumberSets
<1> QED
  BY <1>1, <1>2, <1>3 DEF Typed, TypedFiles, TypedNumbers

(* The new table of a flush and the log that begins behind it have numbers *)
(* below the counter, and so do the output of a merge and the files of a   *)
(* recovery.                                                               *)
LEMMA FlushedBelow ==
  ASSUME Typed, Numbered, phase = "open", flush # NoFlush, NEW v \in Versions, FilesBelow(v, nextFile)
  PROVE  FilesBelow(Flushed(v), nextFile)
<1>1. flush.number < nextFile /\ logNumber < nextFile
  BY DEF Numbered
<1>2. /\ Flushed(v).log = logNumber
      /\ FilesOf(Flushed(v)) \subseteq FilesOf(v) \cup {flush.number}
  BY DEF Flushed, Version, FilesOf
<1> QED
  BY <1>1, <1>2 DEF FilesBelow

(* The files of a version after a merge have been numbered. *)
LEMMA MergedBelow ==
  ASSUME Typed, Numbered, phase = "open", merge # NoMerge, NEW v \in Versions, FilesBelow(v, nextFile)
  PROVE  FilesBelow(MergedInto(v), nextFile)
<1>1. merge.number < nextFile /\ logNumber < nextFile /\ version.log <= logNumber
  BY DEF Numbered
<1>2. /\ MergedInto(v).log = version.log
      /\ FilesOf(MergedInto(v)) \subseteq FilesOf(v) \cup {merge.number}
  BY DEF MergedInto, Version, FilesOf
<1> QED
  BY <1>1, <1>2, NumberedTypes DEF FilesBelow

(* The files of a recovered version have been numbered. *)
LEMMA RecoveredBelow ==
  ASSUME Typed, Numbered, phase \in {"logging", "installing"}
  PROVE  FilesBelow(Recovered, nextFile)
<1>1. /\ logNumber < nextFile /\ FilesBelow(version, nextFile)
      /\ \A n \in edit : n < nextFile
  BY DEF Numbered
<1>2. /\ Recovered.log = logNumber
      /\ FilesOf(Recovered) \subseteq FilesOf(version) \cup edit
  BY DEF Recovered, Version, FilesOf
<1> QED
  BY <1>1, <1>2 DEF FilesBelow

(* Counters only grow, so what was below them stays below. *)
LEMMA StillBelow ==
  ASSUME NEW m \in Nat, NEW n \in Nat, m <= n, NEW v \in Versions, FilesBelow(v, m)
  PROVE  FilesBelow(v, n)
  BY DEF FilesBelow, Versions, NumberSets, FilesOf

(* What a deletion leaves of the files *)
LEMMA DeletedFiles ==
  ASSUME NEW v, NEW outputs, DeleteObsoleteFiles(v, outputs)
  PROVE  /\ DOMAIN logs' = {n \in DOMAIN logs : n >= v.log}
         /\ \A n \in DOMAIN logs' : logs'[n] = logs[n]
         /\ DOMAIN tables' = DOMAIN tables \cap (FilesOf(v) \cup outputs)
         /\ \A n \in DOMAIN tables' : tables'[n] = tables[n]
<1>1. logs' = Keep(logs, {n \in DOMAIN logs : n >= v.log})
  BY DEF DeleteObsoleteFiles
<1>2. tables' = Keep(tables, FilesOf(v) \cup outputs)
  BY DEF DeleteObsoleteFiles
<1>3. /\ DOMAIN logs' = DOMAIN logs \cap {n \in DOMAIN logs : n >= v.log}
      /\ \A n \in DOMAIN logs' : logs'[n] = logs[n]
  BY <1>1 DEF Keep
<1>4. /\ DOMAIN tables' = DOMAIN tables \cap (FilesOf(v) \cup outputs)
      /\ \A n \in DOMAIN tables' : tables'[n] = tables[n]
  BY <1>2 DEF Keep
<1> QED
  BY <1>3, <1>4

(* File numbers are given out in order. *)
LEMMA NumberedStep ==
  ASSUME Typed, Stopped, Staged, Numbered, [Next]_vars
  PROVE  Numbered'
<1>1. ASSUME NEW w \in Writers, Enqueue(w) PROVE Numbered'
  <2>1. UNCHANGED <<phase, logs, tables, manifest, version, nextFile, logNumber, flush, merge,
                    toReplay, edit>>
    BY <1>1 DEF Enqueue, numbers, disk, bg, opening
  <2> QED
    BY <2>1 DEF Numbered, Kept, Recovered
<1>2. ASSUME NEW w \in Writers, WriteRefused(w) PROVE Numbered'
  <2>1. UNCHANGED <<phase, logs, tables, manifest, version, nextFile, logNumber, flush, merge,
                    toReplay, edit>>
    BY <1>2 DEF WriteRefused, numbers, disk, bg, opening
  <2> QED
    BY <2>1 DEF Numbered, Kept, Recovered
<1>3. ASSUME NEW w \in Writers, BeginGroup(w) PROVE Numbered'
  <2>1. UNCHANGED <<phase, logs, tables, manifest, version, nextFile, logNumber, flush, merge,
                    toReplay, edit>>
    BY <1>3 DEF BeginGroup, numbers, disk, bg, opening
  <2> QED
    BY <2>1 DEF Numbered, Kept, Recovered
<1>4. ASSUME NEW w \in Writers, Stall(w) PROVE Numbered'
  <2>1. UNCHANGED <<phase, logs, tables, manifest, version, nextFile, logNumber, flush, merge,
                    toReplay, edit>>
    BY <1>4 DEF Stall, numbers, disk, bg, opening
  <2> QED
    BY <2>1 DEF Numbered, Kept, Recovered
<1>5. ASSUME NEW w \in Writers, SwitchMemTable(w) PROVE Numbered'
  <2>1. phase = "open" /\ phase' = "open" /\ nextFile \in Nat /\ logNumber \in Nat
    BY <1>5 DEF SwitchMemTable, AtMakeRoom, MutexFree, Typed, TypedNumbers
  <2>2. UNCHANGED <<tables, version, manifest, flush, merge>>
    BY <1>5 DEF SwitchMemTable
  <2>3. CASE UNCHANGED <<logs, nextFile, logNumber>>
    BY <2>1, <2>2, <2>3 DEF Numbered, Kept
  <2>4. CASE logs' = With(logs, nextFile, EmptyLog) /\ logNumber' = nextFile /\ nextFile' = nextFile + 1
    <3>1. DOMAIN logs' = DOMAIN logs \cup {nextFile}
      BY <2>4 DEF With
    <3> QED
      BY <2>1, <2>2, <2>4, <3>1, NumberedTypes DEF Numbered, Kept
  <2> QED
    BY <1>5, <2>3, <2>4 DEF SwitchMemTable
<1>6. ASSUME NEW w \in Writers, AddRecord(w) PROVE Numbered'
  <2>1. phase = "open" /\ phase' = "open" /\ DOMAIN logs' = DOMAIN logs
    <3>1. phase = "open" /\ phase' = "open" /\ logNumber \in DOMAIN logs
      BY <1>6 DEF AddRecord, Numbered
    <3>2. UNCHANGED logs \/ \E whole \in BOOLEAN : AppendRecord(whole)
      BY <1>6 DEF AddRecord
    <3> QED
      BY <3>1, <3>2, AppendsRecord
  <2> QED
    BY <1>6, <2>1 DEF AddRecord, Numbered, Kept, numbers, bg, opening
<1>7. ASSUME NEW w \in Writers, SyncLog(w) PROVE Numbered'
  <2>1. phase = "open" /\ phase' = "open" /\ DOMAIN logs' = DOMAIN logs
    <3>1. phase = "open" /\ phase' = "open" /\ logNumber \in DOMAIN logs
      BY <1>7 DEF SyncLog, Numbered
    <3>2. UNCHANGED logs \/ logs' = [logs EXCEPT ![logNumber].synced = Len(logs[logNumber].records)]
      BY <1>7 DEF SyncLog
    <3> QED
      BY <3>1, <3>2, SyncsLog
  <2> QED
    BY <1>7, <2>1 DEF SyncLog, Numbered, Kept, numbers, bg, opening
<1>8. ASSUME NEW w \in Writers, FinishGroup(w) PROVE Numbered'
  <2>1. UNCHANGED <<phase, logs, tables, manifest, version, nextFile, logNumber, flush, merge,
                    toReplay, edit>>
    BY <1>8 DEF FinishGroup, numbers, disk, bg, opening
  <2> QED
    BY <2>1 DEF Numbered, Kept, Recovered
<1>9. ASSUME NEW w \in Writers, TEST_CompactMemTable(w) PROVE Numbered'
  <2>1. UNCHANGED <<phase, logs, tables, manifest, version, nextFile, logNumber, flush, merge,
                    toReplay, edit>>
    BY <1>9 DEF TEST_CompactMemTable, numbers, disk, bg, opening
  <2> QED
    BY <2>1 DEF Numbered, Kept, Recovered
<1>10. ASSUME NEW c \in Compactors, TEST_CompactRange(c) PROVE Numbered'
  <2>1. UNCHANGED <<phase, logs, tables, manifest, version, nextFile, logNumber, flush, merge,
                    toReplay, edit>>
    BY <1>10 DEF TEST_CompactRange, numbers, disk, bg, opening
  <2> QED
    BY <2>1 DEF Numbered, Kept, Recovered
<1>11. ASSUME BackgroundCall PROVE Numbered'
  <2>1. /\ phase = "open" /\ phase' = "open" /\ flush = NoFlush /\ merge = NoMerge
        /\ UNCHANGED <<logs, tables, manifest, version, logNumber>>
    BY <1>11 DEF BackgroundCall, MutexFree, disk
  <2>2. CASE UNCHANGED <<nextFile, flush, merge>>
    BY <2>1, <2>2 DEF Numbered, Kept
  <2>3. CASE flush' = [stage |-> "build", number |-> nextFile] /\ nextFile' = nextFile + 1 /\ UNCHANGED merge
    BY <2>1, <2>3, NumberedTypes DEF Numbered, Kept, NoMerge
  <2>4. CASE \E outputs \in 1..MaxOutputs :
               /\ merge' = [stage |-> "build", number |-> nextFile + outputs - 1,
                            inputs |-> FilesOf(version), manual |-> manual # NoOne]
               /\ nextFile' = nextFile + outputs /\ UNCHANGED flush
    <3>1. PICK outputs \in 1..MaxOutputs :
               /\ merge' = [stage |-> "build", number |-> nextFile + outputs - 1,
                            inputs |-> FilesOf(version), manual |-> manual # NoOne]
               /\ nextFile' = nextFile + outputs /\ UNCHANGED flush
      BY <2>4
    <3>2. /\ nextFile <= nextFile' /\ nextFile' \in Nat
          /\ merge'.number \in Nat /\ merge'.number >= nextFile /\ merge'.number < nextFile'
      BY <3>1, NumberedTypes, SizeAssumption
    <3> QED
      BY <2>1, <3>1, <3>2, NumberedTypes DEF Numbered, Kept, NoFlush
  <2> QED
    BY <1>11, <2>2, <2>3, <2>4 DEF BackgroundCall
<1>12. ASSUME FlushDuringMerge PROVE Numbered'
  <2>1. /\ phase = "open" /\ phase' = "open" /\ merge # NoMerge
        /\ flush' = [stage |-> "build", number |-> nextFile] /\ nextFile' = nextFile + 1
        /\ UNCHANGED <<logs, tables, manifest, version, logNumber, merge>>
    BY <1>12 DEF FlushDuringMerge, MutexFree, disk, NoMerge
  <2> QED
    BY <2>1, NumberedTypes DEF Numbered, Kept
<1>13. ASSUME BuildTable PROVE Numbered'
  <2>1. /\ phase = "open" /\ phase' = "open" /\ flush # NoFlush
        /\ flush.stage = "build" /\ flush' = [flush EXCEPT !.stage = "built"]
        /\ UNCHANGED <<logs, manifest, version, logNumber, nextFile, merge>>
    BY <1>13 DEF BuildTable, NoFlush, numbers
  <2>2. flush'.number = flush.number /\ flush'.stage = "built"
    BY <2>1 DEF Typed, TypedVersions
  <2>3. DOMAIN tables' = DOMAIN tables \cup {flush.number}
    <3>1. tables' = With(tables, flush.number, imm)
      BY <1>13 DEF BuildTable
    <3> QED
      BY <3>1 DEF With
  <2>4. merge.stage = "build" => merge # NoMerge
    BY DEF NoMerge
  <2> QED
    BY <2>1, <2>2, <2>3, <2>4 DEF Numbered, Kept
<1>14. ASSUME BuildTableFails PROVE Numbered'
  <2>1. /\ phase = "open" /\ phase' = "open" /\ flush' = NoFlush
        /\ UNCHANGED <<logs, tables, manifest, version, logNumber, nextFile, merge>>
    BY <1>14 DEF BuildTableFails, MutexFree, BackgroundError, numbers, disk
  <2> QED
    BY <2>1 DEF Numbered, Kept, NoFlush
<1>15. ASSUME LogFlush PROVE Numbered'
  <2>1. /\ phase = "open" /\ phase' = "open" /\ flush # NoFlush
        /\ flush' = [flush EXCEPT !.stage = "logged"]
        /\ UNCHANGED <<logs, tables, version, logNumber, nextFile, merge>>
    BY <1>15 DEF LogFlush, MutexFree, NoFlush, numbers
  <2>2. CASE EditsKept
    <3>1. flush'.number = flush.number /\ flush'.stage = "logged"
      BY <2>1 DEF Typed, TypedVersions
    <3>2. NothingNew /\ manifest'.synced.next <= manifest'.written.next
      BY <2>2, NoNewEdit DEF EditsKept, Numbered
    <3>3. \A m \in Kept' : /\ FilesBelow(m.version, m.next) /\ m.next <= nextFile
                          /\ m.version.log <= logNumber
      BY <2>1, <3>2 DEF NothingNew, Numbered
    <3> QED
      BY <2>1, <3>1, <3>2, <3>3 DEF Numbered
  <2>3. CASE manifest' = [manifest EXCEPT !.written = Logged(Flushed(manifest.written.version))]
    <3>1. /\ flush' = [flush EXCEPT !.stage = "logged"]
          /\ manifest' = [manifest EXCEPT !.written = Logged(Flushed(manifest.written.version))]
      BY <2>1, <2>3
    <3>2. flush'.number = flush.number /\ flush'.stage = "logged"
      BY <3>1 DEF Typed, TypedVersions
    <3>3. /\ manifest'.synced = manifest.synced
          /\ manifest'.written.version = Flushed(manifest.written.version)
          /\ manifest'.written.next = nextFile
      BY <3>1 DEF Logged, Typed, TypedVersions
    <3>4. FilesBelow(manifest.written.version, nextFile)
      BY <2>1, NumberedTypes, StillBelow DEF Numbered, Kept
    <3>5. FilesBelow(Flushed(manifest.written.version), nextFile)
      BY <2>1, <3>4, FlushedBelow, NumberedTypes DEF Kept
    <3>6. Flushed(manifest.written.version).log <= logNumber
      BY <2>1, NumberedTypes DEF Flushed, Version, Numbered
    <3>7. manifest.synced.next <= nextFile
      BY <2>1 DEF Numbered, Kept
    <3>8. Kept' = {manifest.synced, manifest'.written}
      BY <3>3 DEF Kept
    <3>9. \A m \in Kept' : /\ FilesBelow(m.version, m.next) /\ m.next <= nextFile
                         /\ m.version.log <= logNumber
      BY <2>1, <3>3, <3>5, <3>6, <3>7, <3>8, NumberedTypes DEF Numbered, Kept
    <3>10. manifest'.synced.next <= manifest'.written.next
      BY <3>3, <3>7
    <3>11. /\ logNumber \in DOMAIN logs /\ logNumber < nextFile
           /\ \A n \in DOMAIN logs : n <= logNumber
           /\ \A n \in DOMAIN tables : n < nextFile
           /\ version.log <= logNumber
           /\ flush.number < nextFile
           /\ merge # NoMerge => merge.number < nextFile /\ flush.number # merge.number
           /\ merge.stage = "build" => merge.number \notin DOMAIN tables
      BY <2>1 DEF Numbered
    <3> QED
      BY <2>1, <3>2, <3>9, <3>10, <3>11 DEF Numbered
  <2> QED
    BY <1>15, <2>2, <2>3, AddEditEffect DEF LogFlush, Typed
<1>16. ASSUME InstallFlush PROVE Numbered'
  <2>1. /\ phase = "open" /\ phase' = "open" /\ flush # NoFlush /\ flush' = NoFlush
        /\ manifest' = [manifest EXCEPT !.synced = manifest.written]
        /\ version' = Flushed(version)
        /\ UNCHANGED <<logNumber, nextFile, merge>>
    BY <1>16 DEF InstallFlush, MutexFree, NoFlush, numbers
  <2>2. version'.log <= logNumber
    BY <2>1, NumberedTypes DEF Flushed, Version, Numbered
  <2>3. manifest'.synced = manifest.written /\ manifest'.written = manifest.written
    BY <2>1 DEF Typed, TypedVersions
  <2>4. /\ DOMAIN logs' \subseteq DOMAIN logs /\ logNumber \in DOMAIN logs'
        /\ DOMAIN tables' \subseteq DOMAIN tables
    <3>1. CASE bgError
      BY <1>16, <2>1, <3>1 DEF InstallFlush, Numbered
    <3>2. CASE ~bgError
      <4>1. DeleteObsoleteFiles(version', {merge.number})
        BY <1>16, <2>1, <3>2 DEF InstallFlush
      <4>2. /\ DOMAIN logs' = {n \in DOMAIN logs : n >= version'.log}
            /\ DOMAIN tables' \subseteq DOMAIN tables
        BY <4>1, DeletedFiles
      <4>3. logNumber \in DOMAIN logs /\ logNumber >= version'.log
        BY <2>1, <2>2, NumberedTypes DEF Numbered, Flushed, Version
      <4> QED
        BY <4>2, <4>3
    <3> QED
      BY <3>1, <3>2
  <2> QED
    BY <2>1, <2>2, <2>3, <2>4, NumberedTypes DEF Numbered, Kept, NoFlush
<1>17. ASSUME InstallFlushFails PROVE Numbered'
  <2>1. /\ phase = "open" /\ phase' = "open" /\ flush' = NoFlush
        /\ UNCHANGED <<logs, tables, version, logNumber, nextFile, merge>>
    BY <1>17 DEF InstallFlushFails, MutexFree, BackgroundError, numbers
  <2>2. EditsKept /\ NothingNew
    BY <1>17, EditFailsEffect, NoNewEdit DEF InstallFlushFails, Typed
  <2>3. \A m \in Kept' : /\ FilesBelow(m.version, m.next) /\ m.next <= nextFile
                        /\ m.version.log <= logNumber
    BY <2>1, <2>2 DEF NothingNew, Numbered
  <2> QED
    BY <2>1, <2>2, <2>3 DEF Numbered, EditsKept, NoFlush
<1>18. ASSUME BuildMerge PROVE Numbered'
  <2>1. /\ phase = "open" /\ phase' = "open" /\ merge # NoMerge
        /\ merge.stage = "build" /\ merge' = [merge EXCEPT !.stage = "built"]
        /\ UNCHANGED <<logs, manifest, version, logNumber, nextFile, flush>>
    BY <1>18 DEF BuildMerge, NoMerge, numbers
  <2>2. merge'.number = merge.number /\ merge'.stage = "built"
    BY <2>1 DEF Typed, TypedVersions
  <2>3. DOMAIN tables' = DOMAIN tables \cup {merge.number}
    <3>1. tables' = With(tables, merge.number, Merged)
      BY <1>18 DEF BuildMerge
    <3> QED
      BY <3>1 DEF With
  <2>4. flush.stage = "build" => flush # NoFlush
    BY DEF NoFlush
  <2> QED
    BY <2>1, <2>2, <2>3, <2>4 DEF Numbered, Kept
<1>19. ASSUME LogMerge PROVE Numbered'
  <2>1. /\ phase = "open" /\ phase' = "open" /\ merge # NoMerge
        /\ merge' = [merge EXCEPT !.stage = "logged"]
        /\ UNCHANGED <<logs, tables, version, logNumber, nextFile, flush>>
    BY <1>19 DEF LogMerge, MutexFree, NoMerge, numbers
  <2>2. CASE EditsKept
    <3>1. merge'.number = merge.number /\ merge'.stage = "logged"
      BY <2>1 DEF Typed, TypedVersions
    <3>2. NothingNew /\ manifest'.synced.next <= manifest'.written.next
      BY <2>2, NoNewEdit DEF EditsKept, Numbered
    <3>3. \A m \in Kept' : /\ FilesBelow(m.version, m.next) /\ m.next <= nextFile
                          /\ m.version.log <= logNumber
      BY <2>1, <3>2 DEF NothingNew, Numbered
    <3> QED
      BY <2>1, <3>1, <3>2, <3>3 DEF Numbered
  <2>3. CASE manifest' = [manifest EXCEPT !.written = Logged(MergedInto(manifest.written.version))]
    <3>1. /\ merge' = [merge EXCEPT !.stage = "logged"]
          /\ manifest' = [manifest EXCEPT !.written = Logged(MergedInto(manifest.written.version))]
      BY <2>1, <2>3
    <3>2. merge'.number = merge.number /\ merge'.stage = "logged"
      BY <3>1 DEF Typed, TypedVersions
    <3>3. /\ manifest'.synced = manifest.synced
          /\ manifest'.written.version = MergedInto(manifest.written.version)
          /\ manifest'.written.next = nextFile
      BY <3>1 DEF Logged, Typed, TypedVersions
    <3>4. FilesBelow(manifest.written.version, nextFile)
      BY <2>1, NumberedTypes, StillBelow DEF Numbered, Kept
    <3>5. FilesBelow(MergedInto(manifest.written.version), nextFile)
      BY <2>1, <3>4, MergedBelow, NumberedTypes DEF Kept
    <3>6. MergedInto(manifest.written.version).log <= logNumber
      BY <2>1, NumberedTypes DEF MergedInto, Version, Numbered
    <3>7. manifest.synced.next <= nextFile
      BY <2>1 DEF Numbered, Kept
    <3>8. Kept' = {manifest.synced, manifest'.written}
      BY <3>3 DEF Kept
    <3>9. \A m \in Kept' : /\ FilesBelow(m.version, m.next) /\ m.next <= nextFile
                         /\ m.version.log <= logNumber
      BY <2>1, <3>3, <3>5, <3>6, <3>7, <3>8, NumberedTypes DEF Numbered, Kept
    <3>10. manifest'.synced.next <= manifest'.written.next
      BY <3>3, <3>7
    <3>11. /\ logNumber \in DOMAIN logs /\ logNumber < nextFile
           /\ \A n \in DOMAIN logs : n <= logNumber
           /\ \A n \in DOMAIN tables : n < nextFile
           /\ version.log <= logNumber
           /\ merge.number < nextFile
           /\ flush # NoFlush => flush.number < nextFile /\ merge.number # flush.number
           /\ flush.stage = "build" => flush.number \notin DOMAIN tables
      BY <2>1 DEF Numbered
    <3> QED
      BY <2>1, <3>2, <3>9, <3>10, <3>11 DEF Numbered
  <2> QED
    BY <1>19, <2>2, <2>3, AddEditEffect DEF LogMerge, Typed
<1>20. ASSUME InstallMerge PROVE Numbered'
  <2>1. /\ phase = "open" /\ phase' = "open" /\ merge # NoMerge /\ merge' = NoMerge
        /\ manifest' = [manifest EXCEPT !.synced = manifest.written]
        /\ version' = MergedInto(version)
        /\ UNCHANGED <<logNumber, nextFile, flush>>
    BY <1>20 DEF InstallMerge, MutexFree, EndMerge, NoMerge, numbers
  <2>2. version'.log <= logNumber
    BY <2>1, NumberedTypes DEF MergedInto, Version, Numbered
  <2>3. manifest'.synced = manifest.written /\ manifest'.written = manifest.written
    BY <2>1 DEF Typed, TypedVersions
  <2>4. /\ DOMAIN logs' \subseteq DOMAIN logs /\ logNumber \in DOMAIN logs'
        /\ DOMAIN tables' \subseteq DOMAIN tables
    <3>1. CASE bgError
      BY <1>20, <2>1, <3>1 DEF InstallMerge, Numbered
    <3>2. CASE ~bgError
      <4>1. DeleteObsoleteFiles(version', {})
        BY <1>20, <2>1, <3>2 DEF InstallMerge
      <4>2. /\ DOMAIN logs' = {n \in DOMAIN logs : n >= version'.log}
            /\ DOMAIN tables' \subseteq DOMAIN tables
        BY <4>1, DeletedFiles
      <4>3. logNumber \in DOMAIN logs /\ logNumber >= version'.log
        BY <2>1, <2>2, NumberedTypes DEF Numbered, MergedInto, Version
      <4> QED
        BY <4>2, <4>3
    <3> QED
      BY <3>1, <3>2
  <2> QED
    BY <2>1, <2>2, <2>3, <2>4, NumberedTypes DEF Numbered, Kept, NoMerge
<1>21. ASSUME MergeFails PROVE Numbered'
  <2>1. /\ phase = "open" /\ phase' = "open" /\ merge' = NoMerge
        /\ UNCHANGED <<logs, tables, version, logNumber, nextFile, flush>>
    BY <1>21 DEF MergeFails, EndMerge, MutexFree, BackgroundError, numbers
  <2>2. CASE UNCHANGED manifest
    BY <2>1, <2>2 DEF Numbered, Kept, NoMerge
  <2>3. CASE EditsKept
    <3>1. \A m \in Kept' : /\ FilesBelow(m.version, m.next) /\ m.next <= nextFile
                          /\ m.version.log <= logNumber
      BY <2>1, <2>3, NoNewEdit DEF NothingNew, Numbered
    <3> QED
      BY <2>1, <2>3, <3>1 DEF Numbered, EditsKept, NoMerge
  <2> QED
    BY <1>21, <2>2, <2>3, EditFailsEffect DEF MergeFails, Typed
<1>22. ASSUME NullDereference PROVE Numbered'
  <2>1. phase' = "closed"
    BY <1>22 DEF NullDereference, EndProcess, LoseMemory
  <2>2. UNCHANGED manifest \/ EditsKept
    BY <1>22, EditFailsEffect DEF NullDereference, Typed
  <2>3. NothingNew /\ manifest'.synced.next <= manifest'.written.next
    BY <2>2, NoNewEdit DEF EditsKept, NothingNew, Kept, Numbered
  <2> QED
    BY <2>1, <2>3 DEF Numbered, NothingNew
<1>23. ASSUME Recover PROVE Numbered'
  <2> DEFINE m == manifest.written
  <2>1. /\ phase' = "recovering" /\ version' = m.version /\ nextFile' = m.next + 1 /\ edit' = {}
        /\ toReplay' = {n \in DOMAIN logs : n >= m.version.log}
        /\ UNCHANGED <<manifest, logs, logNumber>>
    BY <1>23 DEF Recover, LogsToReplay, disk
  <2>2. /\ FilesBelow(m.version, m.next) /\ m.version.log < m.next
        /\ m.next \in Nat /\ m.version \in Versions /\ m.version.log \in Nat
    BY NumberedTypes DEF Numbered, Kept, FilesBelow
  <2>3. FilesBelow(version', nextFile')
    BY <2>1, <2>2, StillBelow
  <2>4. \A k \in Kept : k.next <= nextFile'
    BY <2>1, <2>2, NumberedTypes DEF Numbered, Kept
  <2>5. \A n \in DOMAIN logs : n < nextFile' \/ n \in toReplay'
    BY <2>1, <2>2, NumberedTypes
  <2> QED
    BY <2>1, <2>3, <2>4, <2>5 DEF Numbered, Kept
<1>24. ASSUME RecoverLogFile PROVE Numbered'
  <2> DEFINE n == Smallest(toReplay)
  <2>1. n \in Nat /\ phase = "recovering"
    BY <1>24, SmallestExists, NumberedTypes DEF RecoverLogFile
  <2>2. UNCHANGED <<manifest, logs, version, logNumber>>
    BY <1>24 DEF RecoverLogFile
  <2> HIDE DEF n
  <2>3. CASE phase' = "closed"
    BY <2>2, <2>3 DEF Numbered, Kept
  <2>4. CASE /\ phase' = phase /\ toReplay' = toReplay \ {n}
             /\ \/ edit' = edit /\ nextFile' = MarkFileNumberUsed(nextFile, n)
                \/ edit' = edit \cup {nextFile} /\ nextFile' = MarkFileNumberUsed(nextFile + 1, n)
    <3>1. nextFile' \in Nat /\ nextFile <= nextFile' /\ n < nextFile'
      BY <2>1, <2>4, NumberedTypes DEF MarkFileNumberUsed
    <3>2. edit' = edit \/ (edit' = edit \cup {nextFile} /\ nextFile < nextFile')
      BY <2>1, <2>4, NumberedTypes DEF MarkFileNumberUsed
    <3>3. FilesBelow(version, nextFile')
      BY <2>1, <3>1, NumberedTypes, StillBelow DEF Numbered, Typed, TypedVersions
    <3>4. \A k \in edit' : k < nextFile'
      BY <2>1, <3>1, <3>2, NumberedTypes DEF Numbered
    <3>5. \A k \in DOMAIN logs : k < nextFile' \/ k \in toReplay'
      BY <2>1, <2>4, <3>1, NumberedTypes DEF Numbered
    <3>6. \A m \in Kept : m.next <= nextFile'
      BY <2>1, <3>1, NumberedTypes DEF Numbered
    <3> QED
      BY <2>1, <2>2, <2>4, <3>3, <3>4, <3>5, <3>6 DEF Numbered, Kept
  <2> QED
    BY <1>24, <2>3, <2>4 DEF RecoverLogFile, n
<1>25. ASSUME CreateLog PROVE Numbered'
  <2>1. phase = "recovering" /\ toReplay = {} /\ UNCHANGED <<manifest, version, edit, toReplay>>
    BY <1>25 DEF CreateLog, opening
  <2>2. CASE phase' = "closed" /\ UNCHANGED <<logs, logNumber, nextFile>>
    BY <2>1, <2>2 DEF Numbered, Kept
  <2>3. CASE /\ phase' = "logging" /\ logs' = With(logs, nextFile, EmptyLog)
             /\ logNumber' = nextFile /\ nextFile' = nextFile + 1
    <3>1. DOMAIN logs' = DOMAIN logs \cup {nextFile} /\ logs'[nextFile] = EmptyLog
      BY <2>3 DEF With
    <3>2. FilesBelow(version, nextFile') /\ version.log <= nextFile
      BY <2>1, <2>3, NumberedTypes, StillBelow DEF Numbered, Typed, TypedVersions, FilesBelow
    <3>3. \A m \in Kept : m.next <= nextFile /\ m.version.log <= nextFile
      BY <2>1, NumberedTypes DEF Numbered, FilesBelow
    <3>4. \A n \in DOMAIN logs : n < nextFile
      BY <2>1 DEF Numbered
    <3>5. \A n \in edit : n < nextFile'
      BY <2>1, <2>3, NumberedTypes DEF Numbered
    <3>6. \A m \in Kept : m.next <= nextFile'
      BY <2>3, <3>3, NumberedTypes
    <3>7. /\ nextFile < nextFile' /\ \A n \in DOMAIN logs' : n <= nextFile /\ n < nextFile'
      BY <2>3, <3>1, <3>4, NumberedTypes
    <3> QED
      BY <2>1, <2>3, <3>1, <3>2, <3>3, <3>5, <3>6, <3>7 DEF Numbered, Kept
  <2> QED
    BY <1>25, <2>2, <2>3 DEF CreateLog
<1>26. ASSUME LogRecovery PROVE Numbered'
  <2>1. phase = "logging" /\ UNCHANGED <<logs, version, toReplay, nextFile, logNumber>>
    BY <1>26 DEF LogRecovery, numbers
  <2>2. CASE phase' = "closed" /\ UNCHANGED manifest
    BY <2>1, <2>2 DEF Numbered, Kept
  <2>3. CASE /\ phase' = "installing" /\ UNCHANGED edit
             /\ manifest' = [manifest EXCEPT !.written = Logged(Recovered)]
    <3>1. /\ manifest'.synced = manifest.synced
          /\ manifest'.written.version = Recovered
          /\ manifest'.written.next = nextFile
      BY <2>3 DEF Logged, Typed, TypedVersions
    <3>2. FilesBelow(Recovered, nextFile)
      BY <2>1, RecoveredBelow
    <3>3. Recovered' = Recovered /\ Recovered.log = logNumber
      BY <2>1, <2>3 DEF Recovered, Version
    <3>4. manifest.synced.next <= nextFile
      BY <2>1 DEF Numbered, Kept
    <3>5. logNumber <= logNumber /\ nextFile <= nextFile
      BY NumberedTypes
    <3> QED
      BY <2>1, <2>3, <3>1, <3>2, <3>3, <3>4, <3>5 DEF Numbered, Kept
  <2> QED
    BY <1>26, <2>2, <2>3 DEF LogRecovery
<1>27. ASSUME InstallRecovery PROVE Numbered'
  <2>1. /\ phase = "installing" /\ phase' = "open" /\ version' = Recovered
        /\ manifest' = [manifest EXCEPT !.synced = manifest.written]
        /\ DeleteObsoleteFiles(Recovered, {})
        /\ flush' = NoFlush /\ merge' = NoMerge /\ UNCHANGED <<nextFile, logNumber>>
    BY <1>27 DEF InstallRecovery, Stopped, numbers
  <2>2. manifest'.synced = manifest.written /\ manifest'.written = manifest.written
    BY <2>1 DEF Typed, TypedVersions
  <2>3. FilesBelow(Recovered, nextFile) /\ Recovered.log = logNumber
    BY <2>1, RecoveredBelow DEF Recovered, Version
  <2>4. /\ DOMAIN logs' \subseteq DOMAIN logs /\ logNumber \in DOMAIN logs'
        /\ \A n \in DOMAIN tables' : n < nextFile
    <3>1. /\ DOMAIN logs' = {n \in DOMAIN logs : n >= Recovered.log}
          /\ DOMAIN tables' = DOMAIN tables \cap (FilesOf(Recovered) \cup {})
      BY <2>1, DeletedFiles
    <3>2. logNumber \in DOMAIN logs /\ logNumber >= Recovered.log
      BY <2>1, <2>3, NumberedTypes DEF Numbered
    <3> QED
      BY <3>1, <3>2, <2>3 DEF FilesBelow
  <2>5. version'.log <= logNumber
    BY <2>1, <2>3, NumberedTypes
  <2>6. Kept' = {manifest.written} /\ manifest.written \in Kept
    BY <2>2 DEF Kept
  <2>7. \A m \in Kept' : /\ FilesBelow(m.version, m.next) /\ m.next <= nextFile
                       /\ m.version.log <= logNumber
    BY <2>1, <2>6 DEF Numbered
  <2>8. manifest'.synced.next <= manifest'.written.next
    BY <2>2, <2>6, NumberedTypes
  <2>9. logNumber < nextFile /\ \A n \in DOMAIN logs' : n <= logNumber
    BY <2>1, <2>4 DEF Numbered
  <2> QED
    BY <2>1, <2>4, <2>5, <2>7, <2>8, <2>9 DEF Numbered, NoFlush, NoMerge
<1>28. ASSUME BeginClose PROVE Numbered'
  <2>1. UNCHANGED <<phase, logs, tables, manifest, version, nextFile, logNumber, flush, merge,
                    toReplay, edit>>
    BY <1>28 DEF BeginClose, numbers, disk, bg, opening
  <2> QED
    BY <2>1 DEF Numbered, Kept, Recovered
<1>29. ASSUME Close PROVE Numbered'
  <2>1. phase' = "closed"
    BY <1>29 DEF Close, LoseMemory
  <2>2. /\ manifest'.synced \in Kept /\ manifest'.written \in Kept
        /\ manifest'.synced.next <= manifest'.written.next
    BY <1>29, NumberedTypes DEF Close, MayLoseRecord, Kept, Numbered, Typed, TypedVersions
  <2> QED
    BY <2>1, <2>2 DEF Numbered, Kept
<1>30. ASSUME ProcessCrash PROVE Numbered'
  <2>1. phase' = "closed"
    BY <1>30 DEF ProcessCrash, EndProcess, LoseMemory
  <2>2. /\ manifest'.synced \in Kept /\ manifest'.written \in Kept
        /\ manifest'.synced.next <= manifest'.written.next
    BY <1>30, NumberedTypes DEF ProcessCrash, EndProcess, MayLoseRecord, Kept, Numbered, Typed, TypedVersions
  <2> QED
    BY <2>1, <2>2 DEF Numbered, Kept
<1>31. ASSUME MachineCrash PROVE Numbered'
  <2>1. phase' = "closed"
    BY <1>31 DEF MachineCrash, LoseMemory
  <2>2. /\ manifest'.synced \in Kept /\ manifest'.written \in Kept
        /\ manifest'.synced.next <= manifest'.written.next
    BY <1>31, NumberedTypes DEF MachineCrash, Kept, Numbered, Typed, TypedVersions
  <2> QED
    BY <2>1, <2>2 DEF Numbered, Kept
<1>32. CASE \/ UNCHANGED vars
  BY <1>32 DEF Numbered, Kept, Recovered, vars, queue, memory, numbers, bg,
    ranges, opening, disk, promises, history
<1> QED
  BY <1>1, <1>2, <1>3, <1>4, <1>5, <1>6, <1>7, <1>8, <1>9, <1>10, <1>11,
     <1>12, <1>13, <1>14, <1>15, <1>16, <1>17, <1>18, <1>19, <1>20, <1>21,
     <1>22, <1>23, <1>24, <1>25, <1>26, <1>27, <1>28, <1>29, <1>30, <1>31,
     <1>32 DEF Next, Writing, Background, Opening


-----------------------------------------------------------------------------
(* Tables *)

(* The tables that the edits of a flush, of a merge and of a recovery name *)
LEMMA FilesOfEdits ==
  ASSUME NEW v
  PROVE  /\ FilesOf(Flushed(v)) = FilesOf(v) \cup (IF imm = {} THEN {} ELSE {flush.number})
         /\ FilesOf(MergedInto(v)) = (FilesOf(v) \ merge.inputs) \cup {merge.number}
         /\ FilesOf(Recovered) = FilesOf(version) \cup edit
BY DEF FilesOf, Flushed, MergedInto, Recovered, Version

(* A new table has a new number. *)
LEMMA NewTable ==
  ASSUME NEW n, NEW batches, tables' = With(tables, n, batches)
  PROVE  /\ DOMAIN tables' = DOMAIN tables \cup {n} /\ tables'[n] = batches
         /\ \A k \in DOMAIN tables : k # n => tables'[k] = tables[k]
BY DEF With

(* An end adds nothing to the MANIFEST. *)
EndedFiles ==
  /\ phase' = "closed" /\ flush' = NoFlush /\ merge' = NoMerge
  /\ NothingNew /\ UNCHANGED tables

(* However the process ends, the tables stay and the MANIFEST says        *)
(* nothing new.                                                           *)
LEMMA EndFiles ==
  ASSUME Typed, Close \/ ProcessCrash \/ NullDereference \/ MachineCrash
  PROVE  EndedFiles
<1>1. phase' = "closed" /\ flush' = NoFlush /\ merge' = NoMerge /\ UNCHANGED tables
  BY DEF Close, ProcessCrash, NullDereference, MachineCrash, EndProcess, LoseMemory
<1>2. MayLoseRecord => NothingNew
  BY DEF MayLoseRecord, NothingNew, Kept, Typed, TypedVersions
<1>3. MachineCrash => NothingNew
  BY DEF MachineCrash, NothingNew, Kept
<1>4. NullDereference => NothingNew
  <2>1. UNCHANGED manifest => NothingNew
    BY DEF NothingNew, Kept
  <2> QED BY <2>1, NoNewEdit, EditFailsEffect DEF NullDereference, Typed
<1> QED
  BY <1>1, <1>2, <1>3, <1>4 DEF Close, ProcessCrash, EndedFiles

(* No step loses a table that a version needs. *)
LEMMA FiledStep ==
  ASSUME Typed, Stopped, Staged, Numbered, Filed, [Next]_vars
  PROVE  Filed'
<1>1. ASSUME NEW w \in Writers, Enqueue(w) PROVE Filed'
  <2>1. UNCHANGED <<phase, tables, manifest, version, bgError, flush, merge, imm, logNumber>>
    BY <1>1 DEF Enqueue, numbers, disk, bg, memory
  <2>2. Pending' = Pending
    BY <2>1 DEF Pending, Flushed, MergedInto
  <2> QED
    BY <2>1, <2>2 DEF Filed, Kept
<1>2. ASSUME NEW w \in Writers, WriteRefused(w) PROVE Filed'
  <2>1. UNCHANGED <<phase, tables, manifest, version, bgError, flush, merge, imm, logNumber>>
    BY <1>2 DEF WriteRefused, numbers, disk, bg, memory
  <2>2. Pending' = Pending
    BY <2>1 DEF Pending, Flushed, MergedInto
  <2> QED
    BY <2>1, <2>2 DEF Filed, Kept
<1>3. ASSUME NEW w \in Writers, BeginGroup(w) PROVE Filed'
  <2>1. UNCHANGED <<phase, tables, manifest, version, bgError, flush, merge, imm, logNumber>>
    BY <1>3 DEF BeginGroup, numbers, disk, bg, memory
  <2>2. Pending' = Pending
    BY <2>1 DEF Pending, Flushed, MergedInto
  <2> QED
    BY <2>1, <2>2 DEF Filed, Kept
<1>4. ASSUME NEW w \in Writers, Stall(w) PROVE Filed'
  <2>1. UNCHANGED <<phase, tables, manifest, version, bgError, flush, merge, imm, logNumber>>
    BY <1>4 DEF Stall, numbers, disk, bg, memory
  <2>2. Pending' = Pending
    BY <2>1 DEF Pending, Flushed, MergedInto
  <2> QED
    BY <2>1, <2>2 DEF Filed, Kept
<1>5. ASSUME NEW w \in Writers, SwitchMemTable(w) PROVE Filed'
  <2>1. /\ UNCHANGED <<phase, tables, manifest, version, flush, merge, bgError>>
        /\ phase = "open" /\ ~hasImm
    BY <1>5 DEF SwitchMemTable, AtMakeRoom, MutexFree
  <2>2. flush.stage \notin {"built", "logged"}
    BY <2>1 DEF Staged, NoFlush
  <2>3. Pending = IF merge.stage = "logged" THEN MergedInto(version) ELSE version
    BY <2>2 DEF Pending
  <2>4. Pending' = IF merge.stage = "logged" THEN MergedInto(version) ELSE version
    BY <2>1, <2>2 DEF Pending, MergedInto
  <2> QED
    BY <2>1, <2>2, <2>3, <2>4 DEF Filed, Kept
<1>6. ASSUME NEW w \in Writers, AddRecord(w) PROVE Filed'
  <2>1. UNCHANGED <<phase, tables, manifest, version, bgError, flush, merge, imm, logNumber>>
    BY <1>6 DEF AddRecord, numbers, disk, bg, memory
  <2>2. Pending' = Pending
    BY <2>1 DEF Pending, Flushed, MergedInto
  <2> QED
    BY <2>1, <2>2 DEF Filed, Kept
<1>7. ASSUME NEW w \in Writers, SyncLog(w) PROVE Filed'
  <2>1. UNCHANGED <<phase, tables, manifest, version, bgError, flush, merge, imm, logNumber>>
    BY <1>7 DEF SyncLog, numbers, disk, bg, memory
  <2>2. Pending' = Pending
    BY <2>1 DEF Pending, Flushed, MergedInto
  <2> QED
    BY <2>1, <2>2 DEF Filed, Kept
<1>8. ASSUME NEW w \in Writers, FinishGroup(w) PROVE Filed'
  <2>1. /\ UNCHANGED <<phase, tables, manifest, version, flush, merge, logNumber, imm>>
        /\ bgError => bgError'
    BY <1>8 DEF FinishGroup, disk
  <2>2. Pending' = Pending
    BY <2>1 DEF Pending, Flushed, MergedInto
  <2> QED
    BY <2>1, <2>2 DEF Filed, Kept
<1>9. ASSUME NEW w \in Writers, TEST_CompactMemTable(w) PROVE Filed'
  <2>1. UNCHANGED <<phase, tables, manifest, version, bgError, flush, merge, imm, logNumber>>
    BY <1>9 DEF TEST_CompactMemTable, numbers, disk, bg, memory
  <2>2. Pending' = Pending
    BY <2>1 DEF Pending, Flushed, MergedInto
  <2> QED
    BY <2>1, <2>2 DEF Filed, Kept
<1>10. ASSUME NEW c \in Compactors, TEST_CompactRange(c) PROVE Filed'
  <2>1. UNCHANGED <<phase, tables, manifest, version, bgError, flush, merge, imm, logNumber>>
    BY <1>10 DEF TEST_CompactRange, numbers, disk, bg, memory
  <2>2. Pending' = Pending
    BY <2>1 DEF Pending, Flushed, MergedInto
  <2> QED
    BY <2>1, <2>2 DEF Filed, Kept
<1>11. ASSUME BackgroundCall PROVE Filed'
  <2>1. /\ phase = "open" /\ flush = NoFlush /\ merge = NoMerge
        /\ UNCHANGED <<phase, tables, manifest, version, bgError>>
    BY <1>11 DEF BackgroundCall, MutexFree, disk
  <2>2. /\ flush' = flush \/ flush'.stage = "build"
        /\ merge' = merge \/ (merge'.stage = "build" /\ merge'.inputs = FilesOf(version))
    <3>1. \/ UNCHANGED <<flush, merge>>
          \/ flush' = [stage |-> "build", number |-> nextFile] /\ UNCHANGED merge
          \/ /\ UNCHANGED flush
             /\ \E number, m : merge' = [stage |-> "build", number |-> number,
                                         inputs |-> FilesOf(version), manual |-> m]
      BY <1>11 DEF BackgroundCall
    <3> QED
      BY <3>1
  <2>3. Pending = version /\ Pending' = version
    BY <2>1, <2>2 DEF Pending, NoFlush, NoMerge
  <2>4. flush'.stage \notin {"built", "logged"} /\ merge'.stage \notin {"built", "logged"}
    BY <2>1, <2>2 DEF NoFlush, NoMerge
  <2>5. merge' # NoMerge => merge'.inputs \subseteq FilesOf(version)
    BY <2>1, <2>2
  <2> QED
    BY <2>1, <2>3, <2>4, <2>5 DEF Filed, Kept
<1>12. ASSUME FlushDuringMerge PROVE Filed'
  <2>1. /\ flush = NoFlush /\ flush'.stage = "build" /\ merge.stage \in {"build", "built"}
        /\ UNCHANGED <<phase, tables, manifest, version, bgError, merge>>
    BY <1>12 DEF FlushDuringMerge, disk
  <2>3. Pending = version /\ Pending' = version
    BY <2>1 DEF Pending, NoFlush
  <2> QED
    BY <2>1, <2>3 DEF Filed, Kept
<1>13. ASSUME BuildTable PROVE Filed'
  <2>1. /\ phase = "open" /\ flush.stage = "build" /\ tables' = With(tables, flush.number, imm)
        /\ flush'.stage = "built" /\ flush'.number = flush.number
        /\ UNCHANGED <<phase, manifest, version, bgError, merge, imm>>
    BY <1>13 DEF BuildTable, memory, Typed, TypedVersions
  <2>2. flush.number \notin DOMAIN tables /\ flush # NoFlush
    BY <2>1 DEF Numbered, NoFlush
  <2>3. /\ DOMAIN tables' = DOMAIN tables \cup {flush.number} /\ tables'[flush.number] = imm
        /\ \A k \in DOMAIN tables : tables'[k] = tables[k]
    BY <2>1, <2>2, NewTable
  <2>4. Pending = version /\ Pending' = version
    BY <2>1, <2>2 DEF Pending, Staged
  <2>5. merge # NoMerge => merge.inputs \subseteq DOMAIN tables
    BY <2>1 DEF Filed
  <2>6. merge.stage \in {"built", "logged"} =>
          /\ merge.number \in DOMAIN tables'
          /\ \A n \in merge.inputs : tables'[n] \subseteq tables'[merge.number]
    BY <2>3, <2>5 DEF Filed, NoMerge
  <2> QED
    BY <2>1, <2>3, <2>4, <2>6 DEF Filed, Kept
<1>14. ASSUME BuildTableFails PROVE Filed'
  <2>1. /\ flush' = NoFlush /\ bgError' /\ flush # NoFlush
        /\ UNCHANGED <<phase, tables, manifest, version, merge>>
    BY <1>14 DEF BuildTableFails, BackgroundError, disk, NoFlush
  <2> QED
    BY <2>1 DEF Filed, Kept, NoFlush
<1>15. ASSUME LogFlush PROVE Filed'
  <2>1. /\ phase = "open" /\ flush.stage = "built" /\ flush' = [flush EXCEPT !.stage = "logged"]
        /\ UNCHANGED <<phase, tables, merge, logNumber, version, imm, bgError>>
    BY <1>15 DEF LogFlush, MutexFree, numbers, memory
  <2>2. CASE EditsKept /\ manifest'.written.tail # "whole" /\ manifest.written.tail # "whole"
    <3>1. /\ flush'.number = flush.number /\ flush'.stage = "logged"
      BY <2>1 DEF Typed, TypedVersions
    <3>2. \A m \in Kept' : FilesOf(m.version) \subseteq DOMAIN tables
      BY <2>2, NoNewEdit DEF NothingNew, Filed
    <3>3. bgError
      BY <2>1, <2>2 DEF Filed
    <3>4. flush # NoFlush
      BY <2>1 DEF NoFlush
    <3> QED
      BY <2>1, <2>2, <3>1, <3>2, <3>3, <3>4 DEF Filed
  <2>3. CASE manifest' = [manifest EXCEPT !.written = Logged(Flushed(manifest.written.version))]
               /\ manifest.written.tail = "whole"
    <3>1. /\ flush' = [flush EXCEPT !.stage = "logged"]
          /\ manifest' = [manifest EXCEPT !.written = Logged(Flushed(manifest.written.version))]
          /\ UNCHANGED <<version, imm, bgError>>
      BY <2>1, <2>3
    <3>2. /\ flush'.number = flush.number /\ flush'.stage = "logged"
      BY <3>1 DEF Typed, TypedVersions
    <3>3. /\ manifest'.synced = manifest.synced
          /\ manifest'.written.version = Flushed(manifest.written.version)
          /\ manifest'.written.tail = "whole"
      BY <3>1 DEF Logged, Typed, TypedVersions
    <3>4. merge.stage # "logged"
      BY <1>15, <2>1 DEF LogFlush, Staged, NoFlush
    <3>5. Pending = version
      BY <2>1, <3>4 DEF Pending
    <3>6. Pending' = Flushed(version)
      BY <2>1, <3>1, <3>2, <3>4 DEF Pending, Flushed
    <3>7. flush.number \in DOMAIN tables /\ flush # NoFlush
      BY <2>1 DEF Filed, NoFlush
    <3>8. FilesOf(manifest'.written.version) \subseteq DOMAIN tables
      BY <3>3, <3>7, FilesOfEdits DEF Filed, Kept
    <3>9. imm # {} => flush.number \in FilesOf(manifest'.written.version)
      BY <3>3, FilesOfEdits
    <3>10. Kept' = {manifest.synced, manifest'.written} /\ manifest.synced \in Kept
      BY <3>3 DEF Kept
    <3>11. phase = "open" /\ ~bgError =>
             manifest'.synced.version = version /\ manifest'.written.version = Pending'
      BY <3>3, <3>5, <3>6 DEF Filed
    <3>12. \A m \in Kept' : FilesOf(m.version) \subseteq DOMAIN tables
      BY <3>8, <3>10 DEF Filed
    <3> QED
      BY <2>1, <3>1, <3>2, <3>3, <3>4, <3>7, <3>9, <3>11, <3>12 DEF Filed
  <2> QED
    BY <1>15, <2>2, <2>3, AddEditEffect DEF LogFlush, Typed
<1>16. ASSUME InstallFlush PROVE Filed'
  <2>1. /\ phase = "open" /\ flush.stage = "logged" /\ flush' = NoFlush /\ version' = Flushed(version)
        /\ manifest' = [manifest EXCEPT !.synced = manifest.written]
        /\ UNCHANGED <<phase, merge, bgError>>
    BY <1>16 DEF InstallFlush, MutexFree
  <2>2. manifest'.synced = manifest.written /\ manifest'.written = manifest.written
    BY <2>1 DEF Typed, TypedVersions
  <2>3. Kept' = {manifest.written} /\ manifest.written \in Kept
    BY <2>2 DEF Kept
  <2>4. FilesOf(version) \subseteq FilesOf(version') /\ FilesOf(version') \subseteq DOMAIN tables
    BY <2>1, FilesOfEdits DEF Filed
  <2>5. merge.stage # "logged"
    BY <2>1 DEF Staged, NoFlush
  <2>6. ~bgError => manifest.written.version = version'
    BY <2>1 DEF Filed, Pending
  <2>7. /\ FilesOf(version') \subseteq DOMAIN tables'
        /\ FilesOf(manifest.written.version) \subseteq DOMAIN tables'
        /\ merge.number \in DOMAIN tables => merge.number \in DOMAIN tables'
        /\ \A n \in DOMAIN tables' : tables'[n] = tables[n]
    <3>1. CASE bgError
      BY <1>16, <2>3, <2>4, <3>1 DEF InstallFlush, Filed
    <3>2. CASE ~bgError
      <4>1. DeleteObsoleteFiles(version', {merge.number})
        BY <1>16, <2>1, <3>2 DEF InstallFlush
      <4>2. /\ DOMAIN tables' = DOMAIN tables \cap (FilesOf(version') \cup {merge.number})
            /\ \A n \in DOMAIN tables' : tables'[n] = tables[n]
        BY <4>1, DeletedFiles
      <4> QED
        BY <2>4, <2>6, <3>2, <4>2
    <3> QED
      BY <3>1, <3>2
  <2>8. merge # NoMerge => merge.inputs \subseteq FilesOf(version')
    BY <2>4 DEF Filed
  <2>9. merge.stage \in {"built", "logged"} =>
          /\ merge.number \in DOMAIN tables'
          /\ \A n \in merge.inputs : tables'[n] \subseteq tables'[merge.number]
    BY <2>7, <2>8 DEF Filed, NoMerge
  <2>10. Pending' = version'
    BY <2>1, <2>5 DEF Pending, NoFlush
  <2> QED
    BY <2>1, <2>2, <2>3, <2>5, <2>6, <2>7, <2>8, <2>9, <2>10 DEF Filed, NoFlush
<1>17. ASSUME InstallFlushFails PROVE Filed'
  <2>1. /\ flush' = NoFlush /\ bgError' /\ phase = "open" /\ flush # NoFlush
        /\ UNCHANGED <<phase, tables, version, merge>>
    BY <1>17, EditFailsEffect DEF InstallFlushFails, BackgroundError, MutexFree, NoFlush, Typed
  <2>2. EditsKept /\ NothingNew
    BY <1>17, EditFailsEffect, NoNewEdit DEF InstallFlushFails, Typed
  <2>3. \A m \in Kept' : FilesOf(m.version) \subseteq DOMAIN tables
    BY <2>2 DEF NothingNew, Filed
  <2>4. merge.stage # "logged"
    BY <2>1 DEF Staged
  <2> QED
    BY <2>1, <2>3, <2>4 DEF Filed, NoFlush
<1>18. ASSUME BuildMerge PROVE Filed'
  <2>1. /\ phase = "open" /\ merge.stage = "build" /\ tables' = With(tables, merge.number, Merged)
        /\ merge'.stage = "built" /\ merge'.number = merge.number /\ merge'.inputs = merge.inputs
        /\ flush = NoFlush
        /\ UNCHANGED <<phase, manifest, version, bgError, flush>>
    BY <1>18 DEF BuildMerge, Typed, TypedVersions
  <2>2. merge.number \notin DOMAIN tables /\ merge # NoMerge
    BY <2>1 DEF Numbered, NoMerge
  <2>3. /\ DOMAIN tables' = DOMAIN tables \cup {merge.number} /\ tables'[merge.number] = Merged
        /\ \A k \in DOMAIN tables : tables'[k] = tables[k]
    BY <2>1, <2>2, NewTable
  <2>4. Pending = version /\ Pending' = version
    BY <2>1 DEF Pending, NoFlush
  <2>5. merge.inputs \subseteq FilesOf(version) /\ merge.inputs \subseteq DOMAIN tables
    BY <2>1, <2>2 DEF Filed
  <2>6. \A n \in merge'.inputs : tables'[n] \subseteq tables'[merge.number]
    BY <2>1, <2>3, <2>5 DEF Merged
  <2> QED
    BY <2>1, <2>3, <2>4, <2>5, <2>6 DEF Filed, Kept, NoFlush
<1>19. ASSUME LogMerge PROVE Filed'
  <2>1. /\ phase = "open" /\ merge.stage = "built" /\ merge' = [merge EXCEPT !.stage = "logged"]
        /\ UNCHANGED <<phase, tables, flush, logNumber, version, imm, bgError>>
    BY <1>19 DEF LogMerge, MutexFree, numbers, memory
  <2>2. CASE EditsKept /\ manifest'.written.tail # "whole" /\ manifest.written.tail # "whole"
    <3>1. /\ merge'.number = merge.number /\ merge'.stage = "logged" /\ merge'.inputs = merge.inputs
      BY <2>1 DEF Typed, TypedVersions
    <3>2. \A m \in Kept' : FilesOf(m.version) \subseteq DOMAIN tables
      BY <2>2, NoNewEdit DEF NothingNew, Filed
    <3>3. bgError
      BY <2>1, <2>2 DEF Filed
    <3>4. merge # NoMerge
      BY <2>1 DEF NoMerge
    <3> QED
      BY <2>1, <2>2, <3>1, <3>2, <3>3, <3>4 DEF Filed
  <2>3. CASE manifest' = [manifest EXCEPT !.written = Logged(MergedInto(manifest.written.version))]
               /\ manifest.written.tail = "whole"
    <3>1. /\ merge' = [merge EXCEPT !.stage = "logged"]
          /\ manifest' = [manifest EXCEPT !.written = Logged(MergedInto(manifest.written.version))]
          /\ UNCHANGED <<version, imm, bgError>>
      BY <2>1, <2>3
    <3>2. /\ merge'.number = merge.number /\ merge'.stage = "logged" /\ merge'.inputs = merge.inputs
      BY <3>1 DEF Typed, TypedVersions
    <3>3. /\ manifest'.synced = manifest.synced
          /\ manifest'.written.version = MergedInto(manifest.written.version)
          /\ manifest'.written.tail = "whole"
      BY <3>1 DEF Logged, Typed, TypedVersions
    <3>4. flush.stage # "logged"
      BY <1>19, <2>1 DEF LogMerge, Staged, NoFlush
    <3>5. Pending = version
      BY <2>1, <3>4 DEF Pending
    <3>6. Pending' = MergedInto(version)
      BY <2>1, <3>1, <3>2, <3>4 DEF Pending, MergedInto
    <3>7. merge.number \in DOMAIN tables /\ merge # NoMerge
      BY <2>1 DEF Filed, NoMerge
    <3>8. FilesOf(manifest'.written.version) \subseteq DOMAIN tables
      BY <3>3, <3>7, FilesOfEdits DEF Filed, Kept
    <3>9. merge.number \in FilesOf(manifest'.written.version)
      BY <3>3, FilesOfEdits
    <3>10. Kept' = {manifest.synced, manifest'.written} /\ manifest.synced \in Kept
      BY <3>3 DEF Kept
    <3>11. phase = "open" /\ ~bgError =>
             manifest'.synced.version = version /\ manifest'.written.version = Pending'
      BY <3>3, <3>5, <3>6 DEF Filed
    <3>12. \A m \in Kept' : FilesOf(m.version) \subseteq DOMAIN tables
      BY <3>8, <3>10 DEF Filed
    <3> QED
      BY <2>1, <3>1, <3>2, <3>3, <3>4, <3>7, <3>9, <3>11, <3>12 DEF Filed
  <2> QED
    BY <1>19, <2>2, <2>3, AddEditEffect DEF LogMerge, Typed
<1>20. ASSUME InstallMerge PROVE Filed'
  <2>1. /\ phase = "open" /\ merge.stage = "logged" /\ merge' = NoMerge /\ version' = MergedInto(version)
        /\ manifest' = [manifest EXCEPT !.synced = manifest.written]
        /\ UNCHANGED <<phase, flush, bgError>>
    BY <1>20 DEF InstallMerge, MutexFree, EndMerge
  <2>2. manifest'.synced = manifest.written /\ manifest'.written = manifest.written
    BY <2>1 DEF Typed, TypedVersions
  <2>3. Kept' = {manifest.written} /\ manifest.written \in Kept
    BY <2>2 DEF Kept
  <2>4. FilesOf(version') \subseteq DOMAIN tables
    BY <2>1, FilesOfEdits DEF Filed
  <2>5. flush = NoFlush
    BY <2>1 DEF Staged
  <2>6. ~bgError => manifest.written.version = version'
    BY <2>1, <2>5 DEF Filed, Pending, NoFlush
  <2>7. /\ FilesOf(version') \subseteq DOMAIN tables'
        /\ FilesOf(manifest.written.version) \subseteq DOMAIN tables'
    <3>1. CASE bgError
      BY <1>20, <2>3, <2>4, <3>1 DEF InstallMerge, Filed
    <3>2. CASE ~bgError
      <4>1. DeleteObsoleteFiles(version', {})
        BY <1>20, <2>1, <3>2 DEF InstallMerge
      <4>2. DOMAIN tables' = DOMAIN tables \cap (FilesOf(version') \cup {})
        BY <4>1, DeletedFiles
      <4> QED
        BY <2>4, <2>6, <3>2, <4>2
    <3> QED
      BY <3>1, <3>2
  <2>10. Pending' = version'
    BY <2>1, <2>5 DEF Pending, NoFlush, NoMerge
  <2> QED
    BY <2>1, <2>2, <2>3, <2>5, <2>6, <2>7, <2>10 DEF Filed, NoFlush, NoMerge
<1>21. ASSUME MergeFails PROVE Filed'
  <2>1. /\ merge' = NoMerge /\ bgError' /\ phase = "open" /\ flush = NoFlush
        /\ UNCHANGED <<phase, tables, version, flush>>
    BY <1>21 DEF MergeFails, EndMerge, BackgroundError, MutexFree
  <2>2. UNCHANGED manifest \/ EditsKept
    BY <1>21, EditFailsEffect DEF MergeFails, Typed
  <2>3. \A m \in Kept' : FilesOf(m.version) \subseteq DOMAIN tables
    BY <2>2, NoNewEdit DEF NothingNew, Filed, Kept
  <2> QED
    BY <2>1, <2>3 DEF Filed, NoFlush, NoMerge
<1>22. ASSUME NullDereference PROVE Filed'
  <2>1. EndedFiles
    BY <1>22, EndFiles
  <2> QED
    BY <2>1 DEF EndedFiles, NothingNew, Filed, NoFlush, NoMerge
<1>23. ASSUME Recover PROVE Filed'
  <2>1. /\ phase' \notin {"open", "installing"} /\ version' = manifest.written.version
        /\ flush = NoFlush /\ merge = NoMerge
        /\ UNCHANGED <<tables, manifest, flush, merge>>
    BY <1>23 DEF Recover, Stopped, disk, bg
  <2> QED
    BY <2>1 DEF Filed, Kept, NoFlush, NoMerge
<1>24. ASSUME RecoverLogFile PROVE Filed'
  <2>1. /\ phase = "recovering" /\ phase' \notin {"open", "installing"} /\ flush = NoFlush /\ merge = NoMerge
        /\ UNCHANGED <<manifest, version, flush, merge>>
    BY <1>24 DEF RecoverLogFile, Stopped, bg
  <2>2. DOMAIN tables \subseteq DOMAIN tables'
    <3>1. UNCHANGED tables \/ \E batches : tables' = With(tables, nextFile, batches)
      BY <1>24 DEF RecoverLogFile
    <3> QED
      BY <3>1, NewTable
  <2> QED
    BY <2>1, <2>2 DEF Filed, Kept, NoFlush, NoMerge
<1>25. ASSUME CreateLog PROVE Filed'
  <2>1. /\ phase = "recovering" /\ phase' \notin {"open", "installing"} /\ flush = NoFlush /\ merge = NoMerge
        /\ UNCHANGED <<manifest, version, flush, merge, tables>>
    BY <1>25 DEF CreateLog, Stopped, bg
  <2> QED
    BY <2>1 DEF Filed, Kept, NoFlush, NoMerge
<1>26. ASSUME LogRecovery PROVE Filed'
  <2>1. /\ phase = "logging" /\ phase' # "open" /\ flush = NoFlush /\ merge = NoMerge
        /\ UNCHANGED <<version, flush, merge, tables>>
    BY <1>26 DEF LogRecovery, Stopped, bg
  <2>2. FilesOf(Recovered) \subseteq DOMAIN tables
    BY <2>1, FilesOfEdits DEF Filed, Typed, TypedFiles
  <2>3. \A m \in Kept' : FilesOf(m.version) \subseteq DOMAIN tables
    <3>1. CASE UNCHANGED manifest
      BY <3>1 DEF Filed, Kept
    <3>2. CASE manifest' = [manifest EXCEPT !.written = Logged(Recovered)]
      <4>1. manifest'.synced = manifest.synced /\ manifest'.written.version = Recovered
        BY <3>2 DEF Logged, Typed, TypedVersions
      <4> QED
        BY <2>2, <4>1 DEF Filed, Kept
    <3> QED
      BY <1>26, <3>1, <3>2 DEF LogRecovery
  <2>4. phase' = "installing" => manifest'.written.tail = "whole"
    BY <1>26 DEF LogRecovery, Logged, Typed, TypedVersions
  <2> QED
    BY <2>1, <2>3, <2>4 DEF Filed, NoFlush, NoMerge
<1>27. ASSUME InstallRecovery PROVE Filed'
  <2>1. /\ phase = "installing" /\ phase' = "open" /\ flush' = NoFlush /\ merge' = NoMerge
        /\ version' = Recovered /\ manifest' = [manifest EXCEPT !.synced = manifest.written]
        /\ DeleteObsoleteFiles(Recovered, {})
    BY <1>27 DEF InstallRecovery, Stopped, bg
  <2>2. FilesOf(Recovered) \subseteq DOMAIN tables
    BY <2>1, FilesOfEdits DEF Filed, Typed, TypedFiles
  <2>3. manifest'.synced = manifest.written /\ manifest'.written = manifest.written
    BY <2>1 DEF Typed, TypedVersions
  <2>4. manifest.written.version = Recovered
    BY <2>1 DEF Numbered
  <2>5. DOMAIN tables' = DOMAIN tables \cap (FilesOf(Recovered) \cup {})
    BY <2>1, DeletedFiles
  <2>6. FilesOf(Recovered) \subseteq DOMAIN tables'
    BY <2>2, <2>5
  <2>7. Pending' = version'
    BY <2>1 DEF Pending, NoFlush, NoMerge
  <2> QED
    BY <2>1, <2>3, <2>4, <2>6, <2>7 DEF Filed, Kept, NoFlush, NoMerge
<1>28. ASSUME BeginClose PROVE Filed'
  <2>1. UNCHANGED <<phase, tables, manifest, version, bgError, flush, merge, imm, logNumber>>
    BY <1>28 DEF BeginClose, numbers, disk, bg, memory
  <2>2. Pending' = Pending
    BY <2>1 DEF Pending, Flushed, MergedInto
  <2> QED
    BY <2>1, <2>2 DEF Filed, Kept
<1>29. ASSUME Close PROVE Filed'
  <2>1. EndedFiles
    BY <1>29, EndFiles
  <2> QED
    BY <2>1 DEF EndedFiles, NothingNew, Filed, NoFlush, NoMerge
<1>30. ASSUME ProcessCrash PROVE Filed'
  <2>1. EndedFiles
    BY <1>30, EndFiles
  <2> QED
    BY <2>1 DEF EndedFiles, NothingNew, Filed, NoFlush, NoMerge
<1>31. ASSUME MachineCrash PROVE Filed'
  <2>1. EndedFiles
    BY <1>31, EndFiles
  <2> QED
    BY <2>1 DEF EndedFiles, NothingNew, Filed, NoFlush, NoMerge
<1>32. CASE \/ UNCHANGED vars
  BY <1>32 DEF Filed, Kept, Pending, Flushed, MergedInto, vars, queue,
    memory, numbers, bg, ranges, opening, disk, promises, history
<1> QED
  BY <1>1, <1>2, <1>3, <1>4, <1>5, <1>6, <1>7, <1>8, <1>9, <1>10, <1>11,
     <1>12, <1>13, <1>14, <1>15, <1>16, <1>17, <1>18, <1>19, <1>20, <1>21,
     <1>22, <1>23, <1>24, <1>25, <1>26, <1>27, <1>28, <1>29, <1>30, <1>31,
     <1>32 DEF Next, Writing, Background, Opening


-----------------------------------------------------------------------------
(* What holds whatever fails *)

Sound == Typed /\ Stopped /\ Staged /\ Queued /\ Scheduled /\ Numbered /\ Filed

(* A new database is sound ... *)
LEMMA InitSound == Init => Sound
<1> SUFFICES ASSUME Init PROVE Sound
  OBVIOUS
<1> USE DEF Init
<1>1. TypedCalls /\ TypedBatches /\ TypedNumbers
  <2>1. writers \in Seq(Writers) /\ group \in 0..Len(writers)
    OBVIOUS
  <2>2. /\ pc \in [Writers -> Answered \cup AtWork \cup {"asleep", "written", "waits"}]
        /\ cpc \in [Compactors -> {"idle", "ready", "stalled", "done", "lost"}]
        /\ cdone \in [Compactors -> BOOLEAN]
    BY DEF Answered
  <2>3. TypedCalls
    BY <2>1, <2>2 DEF TypedCalls
  <2> QED
    BY <2>3 DEF TypedBatches, TypedNumbers
<1>2. FirstVersion \in Versions /\ FirstManifest \in Snapshots
  <2>1. {} \in NumberSets
    BY FS_EmptySet DEF NumberSets
  <2> QED
    BY <2>1 DEF FirstVersion, FirstManifest, Version, Versions, Snapshots, Tails
<1>3. TypedVersions
  BY <1>2, FS_EmptySet DEF TypedVersions, NoFlush, NoMerge, Stages, NumberSets
<1>4. TypedFiles
  BY DEF TypedFiles, EmptyLog, LogFiles
<1>5. Stopped /\ Staged /\ Queued
  BY DEF Stopped, Staged, Queued, NoFlush, NoMerge, AtWork
<1>6. Scheduled
  <2>1. ~NeedsCompaction(version)
    BY FS_EmptySet, SizeAssumption DEF NeedsCompaction, FirstVersion, Version
  <2> QED
    BY <2>1 DEF Scheduled
<1>7. Numbered
  BY DEF Numbered, Kept, FirstManifest, FirstVersion, Version, FilesBelow, FilesOf, NoFlush, NoMerge
<1>8. Filed
  <2>1. flush.stage = "none" /\ merge.stage = "none" /\ merge = NoMerge
    BY DEF NoFlush, NoMerge
  <2>2. Pending = version
    BY <2>1 DEF Pending
  <2>3. FilesOf(version) = {} /\ \A m \in Kept : m.version = version
    BY DEF Kept, FirstManifest, FirstVersion, Version, FilesOf
  <2>4. /\ manifest.synced.version = version /\ manifest.written.version = version
        /\ manifest.written.tail = "whole"
    BY <2>3 DEF Kept, FirstManifest
  <2> HIDE DEF Init
  <2> QED
    BY <2>1, <2>2, <2>3, <2>4 DEF Filed
<1> QED
  BY <1>1, <1>3, <1>4, <1>5, <1>6, <1>7, <1>8 DEF Sound, Typed

(* ... and stays so, whichever thread takes a step and whatever fails. *)
LEMMA SoundStep == Sound /\ [Next]_vars => Sound'
BY TypedCallsStep, TypedBatchesStep, TypedNumbersStep, TypedVersionsStep, TypedFilesStep,
   StoppedStep, StagedStep, QueuedStep, ScheduledStep, NumberedStep, FiledStep
   DEF Sound, Typed

(* The inductive invariant always holds. *)
LEMMA AlwaysSound == Spec => []Sound
BY InitSound, SoundStep, PTL DEF Spec

(* Every variable of DBImpl has its type, in every state. *)
THEOREM TypeCorrect == Spec => []TypeOK
<1>1. Sound => TypeOK
  BY DEF Sound, Typed, TypedCalls, TypedBatches, TypedNumbers, TypedVersions, TypedFiles, Stages,
    TypeOK
<1> QED
  BY <1>1, AlwaysSound, PTL

(* Nobody sleeps whom nobody will wake: the front of the queue is at work  *)
(* while others sleep in Write, and a background call is scheduled while a *)
(* writer waits for room, TEST_CompactMemTable for a memtable, or          *)
(* TEST_CompactRange for its turn.                                         *)
THEOREM NobodyIsForgotten == Spec => []NobodyForgotten
<1>1. Sound => NobodyForgotten
  <2> SUFFICES ASSUME Sound PROVE NobodyForgotten
    OBVIOUS
  <2>1. Queued /\ Scheduled /\ writers \in Seq(Writers)
    BY DEF Sound, Typed, TypedCalls
  <2>2. ASSUME NEW w \in Writers, pc[w] = "asleep"
        PROVE  writers # <<>> /\ pc[Head(writers)] \in AtWork
    <3>1. PICK i \in 1..Len(writers) : writers[i] = w
      BY <2>1, <2>2 DEF Queued
    <3>2. 1 \in 1..Len(writers) /\ writers # <<>>
      BY <2>1, <3>1
    <3> QED
      BY <2>1, <3>2 DEF Queued
  <2> QED
    BY <2>1, <2>2 DEF NobodyForgotten, Scheduled
<1> QED
  BY <1>1, AlwaysSound, PTL

(* DeleteObsoleteFiles deletes no table that a MANIFEST found after an end *)
(* of the process or of the machine names.                                 *)
THEOREM FilesAreThere == Spec => []NoFileMissing
<1>1. Sound => NoFileMissing
  BY DEF Sound, Filed, Kept, NoFileMissing
<1> QED
  BY <1>1, AlwaysSound, PTL

(* What a step may do to the files *)
FilesStep ==
  /\ \A n \in InUse \cap DOMAIN tables' : tables'[n] = tables[n]
  /\ \A n \in DOMAIN logs \cap DOMAIN logs' :
       ends' # ends \/ IsPrefixOf(logs[n].records, logs'[n].records)

(* A log whose records are the same is a prefix of itself. *)
LEMMA LogsKept ==
  ASSUME Typed
  PROVE  \A n \in DOMAIN logs : logs'[n].records = logs[n].records =>
           IsPrefixOf(logs[n].records, logs'[n].records)
<1> SUFFICES ASSUME NEW n \in DOMAIN logs, logs'[n].records = logs[n].records
             PROVE  IsPrefixOf(logs[n].records, logs'[n].records)
  OBVIOUS
<1>1. logs[n].records \in Seq(Records)
  BY DEF Typed, TypedFiles, LogFiles
<1> QED
  BY <1>1 DEF IsPrefixOf

(* No step writes over a table in use, or over a log. *)
LEMMA FilesNotOverwritten ==
  ASSUME Typed, Stopped, Numbered, Filed, [Next]_vars
  PROVE  FilesStep
<1>1. ASSUME NEW w \in Writers, Enqueue(w) PROVE FilesStep
  <2>1. UNCHANGED <<tables, logs>>
    BY <1>1 DEF Enqueue, disk
  <2> QED
    BY <2>1, LogsKept DEF FilesStep
<1>2. ASSUME NEW w \in Writers, WriteRefused(w) PROVE FilesStep
  <2>1. UNCHANGED <<tables, logs>>
    BY <1>2 DEF WriteRefused, disk
  <2> QED
    BY <2>1, LogsKept DEF FilesStep
<1>3. ASSUME NEW w \in Writers, BeginGroup(w) PROVE FilesStep
  <2>1. UNCHANGED <<tables, logs>>
    BY <1>3 DEF BeginGroup, disk
  <2> QED
    BY <2>1, LogsKept DEF FilesStep
<1>4. ASSUME NEW w \in Writers, Stall(w) PROVE FilesStep
  <2>1. UNCHANGED <<tables, logs>>
    BY <1>4 DEF Stall, disk
  <2> QED
    BY <2>1, LogsKept DEF FilesStep
<1>5. ASSUME NEW w \in Writers, SwitchMemTable(w) PROVE FilesStep
  <2>1. UNCHANGED tables /\ phase = "open"
    BY <1>5 DEF SwitchMemTable, AtMakeRoom, MutexFree
  <2>2. UNCHANGED logs \/ logs' = With(logs, nextFile, EmptyLog)
    BY <1>5 DEF SwitchMemTable
  <2>3. nextFile \notin DOMAIN logs
    BY <2>1, NumberedTypes DEF Numbered
  <2>4. \A n \in DOMAIN logs \cap DOMAIN logs' : logs'[n] = logs[n]
    BY <2>2, <2>3 DEF With
  <2> QED
    BY <2>1, <2>4, LogsKept DEF FilesStep
<1>6. ASSUME NEW w \in Writers, AddRecord(w) PROVE FilesStep
  <2>1. UNCHANGED tables /\ logNumber \in DOMAIN logs
    BY <1>6 DEF AddRecord, Numbered
  <2>2. UNCHANGED logs \/ \E whole \in BOOLEAN : AppendRecord(whole)
    BY <1>6 DEF AddRecord
  <2>3. CASE UNCHANGED logs
    BY <2>1, <2>3, LogsKept DEF FilesStep
  <2>4. ASSUME NEW whole \in BOOLEAN, AppendRecord(whole) PROVE FilesStep
    <3>1. /\ DOMAIN logs' = DOMAIN logs
          /\ \A n \in DOMAIN logs : n # logNumber => logs'[n] = logs[n]
          /\ logs'[logNumber].records = Append(logs[logNumber].records, Record(whole))
      BY <2>1, <2>4, AppendsRecord
    <3>2. logs[logNumber].records \in Seq(Records)
      BY <2>1 DEF Typed, TypedFiles, LogFiles
    <3>3. IsPrefixOf(logs[logNumber].records, logs'[logNumber].records)
      <4> HIDE DEF Records
      <4> QED
        BY <3>1, <3>2 DEF IsPrefixOf
    <3> QED
      BY <2>1, <3>1, <3>3, LogsKept DEF FilesStep
  <2> QED
    BY <2>2, <2>3, <2>4
<1>7. ASSUME NEW w \in Writers, SyncLog(w) PROVE FilesStep
  <2>1. UNCHANGED tables /\ logNumber \in DOMAIN logs
    BY <1>7 DEF SyncLog, Numbered
  <2>2. UNCHANGED logs \/ logs' = [logs EXCEPT ![logNumber].synced = Len(logs[logNumber].records)]
    BY <1>7 DEF SyncLog
  <2>3. \A n \in DOMAIN logs \cap DOMAIN logs' : logs'[n].records = logs[n].records
    BY <2>1, <2>2, SyncsLog
  <2> QED
    BY <2>1, <2>3, LogsKept DEF FilesStep
<1>8. ASSUME NEW w \in Writers, FinishGroup(w) PROVE FilesStep
  <2>1. UNCHANGED <<tables, logs>>
    BY <1>8 DEF FinishGroup, disk
  <2> QED
    BY <2>1, LogsKept DEF FilesStep
<1>9. ASSUME NEW w \in Writers, TEST_CompactMemTable(w) PROVE FilesStep
  <2>1. UNCHANGED <<tables, logs>>
    BY <1>9 DEF TEST_CompactMemTable, disk
  <2> QED
    BY <2>1, LogsKept DEF FilesStep
<1>10. ASSUME NEW c \in Compactors, TEST_CompactRange(c) PROVE FilesStep
  <2>1. UNCHANGED <<tables, logs>>
    BY <1>10 DEF TEST_CompactRange, disk
  <2> QED
    BY <2>1, LogsKept DEF FilesStep
<1>11. ASSUME BackgroundCall PROVE FilesStep
  <2>1. UNCHANGED <<tables, logs>>
    BY <1>11 DEF BackgroundCall, disk
  <2> QED
    BY <2>1, LogsKept DEF FilesStep
<1>12. ASSUME FlushDuringMerge PROVE FilesStep
  <2>1. UNCHANGED <<tables, logs>>
    BY <1>12 DEF FlushDuringMerge, disk
  <2> QED
    BY <2>1, LogsKept DEF FilesStep
<1>13. ASSUME BuildTable PROVE FilesStep
  <2>1. UNCHANGED logs /\ phase = "open" /\ flush.stage = "build" /\ tables' = With(tables, flush.number, imm)
    BY <1>13 DEF BuildTable
  <2>2. flush.number \notin DOMAIN tables
    BY <2>1 DEF Numbered
  <2>3. \A n \in DOMAIN tables : tables'[n] = tables[n]
    BY <2>1, <2>2, NewTable
  <2>4. InUse \subseteq DOMAIN tables
    BY DEF InUse, Filed, Kept
  <2> QED
    BY <2>1, <2>3, <2>4, LogsKept DEF FilesStep
<1>14. ASSUME BuildTableFails PROVE FilesStep
  <2>1. UNCHANGED <<tables, logs>>
    BY <1>14 DEF BuildTableFails, disk
  <2> QED
    BY <2>1, LogsKept DEF FilesStep
<1>15. ASSUME LogFlush PROVE FilesStep
  <2>1. UNCHANGED <<tables, logs>>
    BY <1>15 DEF LogFlush, disk
  <2> QED
    BY <2>1, LogsKept DEF FilesStep
<1>16. ASSUME InstallFlush PROVE FilesStep
  <2>1. UNCHANGED <<logs, tables>> \/ \E v, outputs : DeleteObsoleteFiles(v, outputs)
    BY <1>16 DEF InstallFlush
  <2>2. /\ \A n \in DOMAIN logs' : logs'[n] = logs[n]
        /\ \A n \in DOMAIN tables' : tables'[n] = tables[n]
    BY <2>1, DeletedFiles
  <2> QED
    BY <2>2, LogsKept DEF FilesStep
<1>17. ASSUME InstallFlushFails PROVE FilesStep
  <2>1. UNCHANGED <<tables, logs>>
    BY <1>17 DEF InstallFlushFails, disk
  <2> QED
    BY <2>1, LogsKept DEF FilesStep
<1>18. ASSUME BuildMerge PROVE FilesStep
  <2>1. UNCHANGED logs /\ phase = "open" /\ merge.stage = "build" /\ tables' = With(tables, merge.number, Merged)
    BY <1>18 DEF BuildMerge
  <2>2. merge.number \notin DOMAIN tables
    BY <2>1 DEF Numbered
  <2>3. \A n \in DOMAIN tables : tables'[n] = tables[n]
    BY <2>1, <2>2, NewTable
  <2>4. InUse \subseteq DOMAIN tables
    BY DEF InUse, Filed, Kept
  <2> QED
    BY <2>1, <2>3, <2>4, LogsKept DEF FilesStep
<1>19. ASSUME LogMerge PROVE FilesStep
  <2>1. UNCHANGED <<tables, logs>>
    BY <1>19 DEF LogMerge, disk
  <2> QED
    BY <2>1, LogsKept DEF FilesStep
<1>20. ASSUME InstallMerge PROVE FilesStep
  <2>1. UNCHANGED <<logs, tables>> \/ \E v, outputs : DeleteObsoleteFiles(v, outputs)
    BY <1>20 DEF InstallMerge
  <2>2. /\ \A n \in DOMAIN logs' : logs'[n] = logs[n]
        /\ \A n \in DOMAIN tables' : tables'[n] = tables[n]
    BY <2>1, DeletedFiles
  <2> QED
    BY <2>2, LogsKept DEF FilesStep
<1>21. ASSUME MergeFails PROVE FilesStep
  <2>1. UNCHANGED <<tables, logs>>
    BY <1>21 DEF MergeFails, disk
  <2> QED
    BY <2>1, LogsKept DEF FilesStep
<1>22. ASSUME NullDereference PROVE FilesStep
  <2>1. UNCHANGED <<tables, logs>>
    BY <1>22 DEF NullDereference, EndProcess
  <2> QED
    BY <2>1, LogsKept DEF FilesStep
<1>23. ASSUME Recover PROVE FilesStep
  <2>1. UNCHANGED <<tables, logs>>
    BY <1>23 DEF Recover, disk
  <2> QED
    BY <2>1, LogsKept DEF FilesStep
<1>24. ASSUME RecoverLogFile PROVE FilesStep
  <2>1. UNCHANGED logs /\ phase = "recovering"
    BY <1>24 DEF RecoverLogFile
  <2>2. UNCHANGED tables \/ \E batches : tables' = With(tables, nextFile, batches)
    BY <1>24 DEF RecoverLogFile
  <2>3. nextFile \notin InUse
    <3>1. \A m \in Kept : nextFile \notin FilesOf(m.version)
      BY <2>1, NumberedTypes DEF Numbered, FilesBelow
    <3> QED
      BY <3>1 DEF InUse, Kept
  <2>4. InUse \subseteq DOMAIN tables
    BY DEF InUse, Filed, Kept
  <2>5. \A n \in InUse : tables'[n] = tables[n]
    BY <2>2, <2>3, <2>4, NewTable
  <2> QED
    BY <2>1, <2>5, LogsKept DEF FilesStep
<1>25. ASSUME CreateLog PROVE FilesStep
  <2>1. UNCHANGED tables /\ phase = "recovering" /\ toReplay = {}
    BY <1>25 DEF CreateLog
  <2>2. UNCHANGED logs \/ logs' = With(logs, nextFile, EmptyLog)
    BY <1>25 DEF CreateLog
  <2>3. nextFile \notin DOMAIN logs
    BY <2>1, NumberedTypes DEF Numbered
  <2>4. \A n \in DOMAIN logs \cap DOMAIN logs' : logs'[n] = logs[n]
    BY <2>2, <2>3 DEF With
  <2> QED
    BY <2>1, <2>4, LogsKept DEF FilesStep
<1>26. ASSUME LogRecovery PROVE FilesStep
  <2>1. UNCHANGED <<tables, logs>>
    BY <1>26 DEF LogRecovery, disk
  <2> QED
    BY <2>1, LogsKept DEF FilesStep
<1>27. ASSUME InstallRecovery PROVE FilesStep
  <2>1. UNCHANGED <<logs, tables>> \/ \E v, outputs : DeleteObsoleteFiles(v, outputs)
    BY <1>27 DEF InstallRecovery
  <2>2. /\ \A n \in DOMAIN logs' : logs'[n] = logs[n]
        /\ \A n \in DOMAIN tables' : tables'[n] = tables[n]
    BY <2>1, DeletedFiles
  <2> QED
    BY <2>2, LogsKept DEF FilesStep
<1>28. ASSUME BeginClose PROVE FilesStep
  <2>1. UNCHANGED <<tables, logs>>
    BY <1>28 DEF BeginClose, disk
  <2> QED
    BY <2>1, LogsKept DEF FilesStep
<1>29. ASSUME Close PROVE FilesStep
  <2>1. UNCHANGED <<tables, logs>>
    BY <1>29 DEF Close
  <2> QED
    BY <2>1, LogsKept DEF FilesStep
<1>30. ASSUME ProcessCrash PROVE FilesStep
  <2>1. UNCHANGED <<tables, logs>>
    BY <1>30 DEF ProcessCrash, EndProcess
  <2> QED
    BY <2>1, LogsKept DEF FilesStep
<1>31. ASSUME MachineCrash PROVE FilesStep
  <2>1. UNCHANGED tables /\ ends' # ends
    BY <1>31 DEF MachineCrash, Ending, Typed, TypedNumbers
  <2> QED
    BY <2>1 DEF FilesStep
<1>32. CASE \/ UNCHANGED vars
  BY <1>32, LogsKept DEF FilesStep, vars, disk
<1> QED
  BY <1>1, <1>2, <1>3, <1>4, <1>5, <1>6, <1>7, <1>8, <1>9, <1>10, <1>11,
     <1>12, <1>13, <1>14, <1>15, <1>16, <1>17, <1>18, <1>19, <1>20, <1>21,
     <1>22, <1>23, <1>24, <1>25, <1>26, <1>27, <1>28, <1>29, <1>30, <1>31,
     <1>32 DEF Next, Writing, Background, Opening


(* A file number is never given out again while its file is in use, not    *)
(* even by a recovery from a MANIFEST that has lost its last records.      *)
THEOREM NumbersNotReused == Spec => FilesNotReused
<1>1. Sound /\ [Next]_vars => FilesStep
  BY FilesNotOverwritten DEF Sound
<1>2. FilesStep =>
        /\ \A n \in InUse \cap DOMAIN tables' : tables'[n] = tables[n]
        /\ \A n \in DOMAIN logs \cap DOMAIN logs' :
             ends' # ends \/ IsPrefixOf(logs[n].records, logs'[n].records)
  BY DEF FilesStep
<1> QED
  BY <1>1, <1>2, AlwaysSound, PTL DEF Spec, FilesNotReused

=============================================================================
