------------------------ MODULE DBImplDurabilityProofs ------------------------
(***************************************************************************)
(* What the files of leveldb keep, for any number of writers, any sizes    *)
(* and any number of failures and ends: no promise is broken while no      *)
(* append to a log or to the MANIFEST fails halfway.                       *)
(***************************************************************************)
EXTENDS DBImplProofs

-----------------------------------------------------------------------------
(* The inductive invariant, in parts *)

(* The failures that leave a part of a record behind, which hides what is  *)
(* appended after it                                                       *)
NoPartWritten == "torn" \notin Faults /\ "tornEdit" \notin Faults

(* Whatever of the MANIFEST a crash leaves can be read to its end. *)
Readable == \A m \in Kept : m.tail = "whole"

(* A log of which every record is whole, and no more synced than written *)
IntactLog(log) ==
  /\ \A i \in 1..Len(log.records) : log.records[i].whole
  /\ log.synced <= Len(log.records)

Intact == \A n \in DOMAIN logs : IntactLog(logs[n])

(* The logs after a machine has ended that kept no more than it had to *)
Saved(files) == [n \in DOMAIN files |-> Cut(files[n], files[n].synced)]

(* The batches of the group under way are in the log when they are to be   *)
(* inserted, and synced if any of them asked for it.                       *)
GroupLogged ==
  /\ group = 0 => outcome = "ok"
  /\ group > 0 /\ writers[1] \notin SyncWriters => BatchesOf(group) \cap SyncWriters = {}
  /\ \A w \in Writers :
       /\ pc[w] = "sync" \/ (pc[w] = "insert" /\ outcome = "ok") =>
            BatchesOf(group) \subseteq Replay(logs[logNumber])
       /\ pc[w] = "insert" /\ outcome = "ok" =>
            BatchesOf(group) \cap SyncWriters \subseteq Replay(Saved(logs)[logNumber])
       /\ pc[w] \in {"append", "sync"} => outcome = "ok"

(* The batches in tables, and what is on disk, under a version *)
TablesOf(v, files) == UNION {files[n] : n \in FilesOf(v)}
LogsOf(first, files) == UNION {Replay(files[n]) : n \in {k \in DOMAIN files : k >= first}}
Held(v, files, logFiles) == TablesOf(v, files) \cup LogsOf(v.log, logFiles)

(* The tables of a recovery under way *)
Rebuilt(v, new) == Version(0, FilesOf(v), new)

(* The batches in A are kept by the logs in files: an open database has    *)
(* them in memory, which the logs can restore, or in its tables; otherwise *)
(* they are on disk under each version that a crash may leave, and those   *)
(* that a recovery has not read yet are in the logs it has still to read.  *)
Promise(A, files) ==
  /\ phase = "open" =>
       /\ A \subseteq mem \cup imm \cup TablesOf(version, tables)
       /\ mem \cap A \subseteq Replay(files[logNumber])
       /\ \A v \in {version, manifest.synced.version, manifest.written.version} :
            imm \cap A \subseteq Held(v, tables, files)
  /\ phase # "open" => \A m \in Kept : A \subseteq Held(m.version, tables, files)
  /\ phase \in {"recovering", "logging", "installing"} =>
       A \subseteq TablesOf(Rebuilt(version, edit), tables) \cup
                   UNION {Replay(files[n]) : n \in toReplay}

(* No promise is broken: what was answered survives the process, what was  *)
(* synced the machine.                                                     *)
Durable ==
  /\ mem \cup imm \subseteq acked
  /\ safe \subseteq acked \cap SyncWriters
  /\ phase = "open" =>
       \A m \in Kept : TablesOf(version, tables) \subseteq TablesOf(m.version, tables)
  /\ Promise(acked, logs)
  /\ Promise(safe, Saved(logs))

(* The batches in the logs and in the tables, those that no version names  *)
(* included                                                                *)
InLogs ==
  {b \in Batches : \E n \in DOMAIN logs : \E i \in 1..Len(logs[n].records) :
                     b \in logs[n].records[i].batches}
InFiles == {b \in Batches : \E n \in DOMAIN tables : b \in tables[n]}

(* No batch is anywhere before its call has begun. *)
Begun == \A b \in InLogs \cup InFiles \cup mem \cup imm : pc[b] # "idle"

-----------------------------------------------------------------------------
(* Logs and tables as sets of batches *)

(* What is on disk under a version is in its tables or in its logs. *)
LEMMA OnDiskIs ==
  /\ \A v : InTables(v) = TablesOf(v, tables)
  /\ \A v, files : OnDisk(v, files) = Held(v, tables, files)
BY DEF OnDisk, InTables, LogsToReplay, TablesOf, LogsOf, Held


(* A version whose tables are all in another, or merged into some of it,   *)
(* holds no more than that one.                                            *)
LEMMA TablesMono ==
  ASSUME NEW v, NEW u, NEW files, NEW files2,
         \A n \in FilesOf(v) : \E k \in FilesOf(u) : files[n] \subseteq files2[k]
  PROVE  TablesOf(v, files) \subseteq TablesOf(u, files2)
BY DEF TablesOf

(* Logs that are all there, and no shorter, hold no less. *)
LEMMA LogsMono ==
  ASSUME NEW first, NEW first2, NEW files, NEW files2,
         \A n \in DOMAIN files : n >= first =>
           n \in DOMAIN files2 /\ n >= first2 /\ Replay(files[n]) \subseteq Replay(files2[n])
  PROVE  LogsOf(first, files) \subseteq LogsOf(first2, files2)
BY DEF LogsOf

(* An intact log is replayed as a whole, and a part of it up to its end. *)
LEMMA ReplayIs ==
  ASSUME NEW log \in LogFiles, IntactLog(log), NEW kept \in 0..Len(log.records)
  PROVE  /\ Replay(log) = UNION {log.records[i].batches : i \in 1..Len(log.records)}
         /\ Replay(Cut(log, kept)) = UNION {log.records[i].batches : i \in 1..kept}
         /\ IntactLog(Cut(log, kept))
<1>1. Len(log.records) \in Nat
  BY DEF LogFiles
<1>2. {j \in 1..Len(log.records) : \A k \in 1..j : log.records[k].whole} = 1..Len(log.records)
  <2>1. \A j \in 1..Len(log.records) : \A k \in 1..j : k \in 1..Len(log.records)
    BY <1>1
  <2> QED
    BY <2>1 DEF IntactLog
<1>3. Replay(log) = UNION {log.records[i].batches : i \in 1..Len(log.records)}
  BY <1>2 DEF Replay
<1> DEFINE cut == Cut(log, kept)
<1>4. Len(cut.records) = kept /\ cut.synced = kept /\ \A i \in 1..kept : cut.records[i] = log.records[i]
  BY CutTyped
<1> HIDE DEF cut
<1>5. \A j \in 1..kept : \A k \in 1..j : k \in 1..kept /\ k \in 1..Len(log.records)
  BY <1>1
<1>6. {j \in 1..Len(cut.records) : \A k \in 1..j : cut.records[k].whole} = 1..kept
  BY <1>4, <1>5 DEF IntactLog
<1>7. Replay(cut) = UNION {log.records[i].batches : i \in 1..kept}
  BY <1>4, <1>6 DEF Replay
<1>8. IntactLog(cut)
  BY <1>1, <1>4, <1>5 DEF IntactLog
<1> QED
  BY <1>3, <1>7, <1>8 DEF cut

(* The more of a log is kept, the more is replayed. *)
LEMMA ReplayMono ==
  ASSUME NEW log \in LogFiles, IntactLog(log), NEW k \in 0..Len(log.records), NEW m \in 0..k
  PROVE  Replay(Cut(log, m)) \subseteq Replay(Cut(log, k)) /\ Replay(Cut(log, k)) \subseteq Replay(log)
<1>1. Len(log.records) \in Nat /\ m \in 0..Len(log.records)
  BY DEF LogFiles
<1>2. 1..m \subseteq 1..k /\ 1..k \subseteq 1..Len(log.records)
  BY <1>1
<1>3. /\ Replay(log) = UNION {log.records[i].batches : i \in 1..Len(log.records)}
      /\ Replay(Cut(log, k)) = UNION {log.records[i].batches : i \in 1..k}
  BY ReplayIs
<1>4. Replay(Cut(log, m)) = UNION {log.records[i].batches : i \in 1..m}
  BY <1>1, ReplayIs
<1> QED
  BY <1>2, <1>3, <1>4

(* A record appended adds its batches, none of which is synced. *)
LEMMA ReplayAppended ==
  ASSUME NEW log \in LogFiles, IntactLog(log), NEW r \in Records, r.whole,
         NEW log2 \in LogFiles, log2.records = Append(log.records, r), log2.synced = log.synced
  PROVE  /\ IntactLog(log2)
         /\ Replay(log2) = Replay(log) \cup r.batches
         /\ Replay(Cut(log2, log2.synced)) = Replay(Cut(log, log.synced))
<1>1. log.records \in Seq(Records) /\ Len(log.records) \in Nat /\ log.synced \in 0..Len(log.records)
  BY DEF LogFiles, IntactLog
<1>2. /\ Len(log2.records) = Len(log.records) + 1
      /\ \A i \in 1..Len(log.records) : log2.records[i] = log.records[i]
      /\ log2.records[Len(log.records) + 1] = r
  BY <1>1, AppendProperties
<1>3. \A i \in 1..Len(log2.records) : i \in 1..Len(log.records) \/ i = Len(log.records) + 1
  BY <1>1, <1>2
<1>4. IntactLog(log2) /\ log2.synced \in 0..Len(log2.records)
  BY <1>1, <1>2, <1>3 DEF IntactLog
<1>5. /\ Replay(log) = UNION {log.records[i].batches : i \in 1..Len(log.records)}
      /\ Replay(Cut(log, log.synced)) = UNION {log.records[i].batches : i \in 1..log.synced}
  BY <1>1, ReplayIs
<1>6. /\ Replay(log2) = UNION {log2.records[i].batches : i \in 1..Len(log2.records)}
      /\ Replay(Cut(log2, log2.synced)) = UNION {log2.records[i].batches : i \in 1..log2.synced}
  BY <1>4, ReplayIs
<1>7. 1..Len(log2.records) = 1..Len(log.records) \cup {Len(log.records) + 1}
  BY <1>1, <1>2
<1>8. Replay(log2) = Replay(log) \cup r.batches
  BY <1>2, <1>5, <1>6, <1>7
<1>9. \A i \in 1..log.synced : log2.records[i] = log.records[i]
  BY <1>1, <1>2
<1> QED
  BY <1>4, <1>5, <1>6, <1>8, <1>9

(* A log that is synced keeps all it holds. *)
LEMMA ReplaySynced ==
  ASSUME NEW log \in LogFiles, IntactLog(log), NEW log2 \in LogFiles,
         log2.records = log.records, log2.synced = Len(log.records)
  PROVE  /\ IntactLog(log2) /\ Replay(log2) = Replay(log)
         /\ Replay(Cut(log2, log2.synced)) = Replay(log)
         /\ Replay(Cut(log, log.synced)) \subseteq Replay(log)
<1>1. Len(log.records) \in Nat /\ log.synced \in 0..Len(log.records)
  BY DEF LogFiles, IntactLog
<1>2. IntactLog(log2) /\ Len(log.records) \in 0..Len(log2.records)
  BY <1>1 DEF IntactLog
<1>3. Replay(log2) = Replay(log)
  BY DEF Replay
<1>4. Replay(Cut(log2, log2.synced)) = UNION {log.records[i].batches : i \in 1..Len(log.records)}
  BY <1>2, ReplayIs
<1>5. Replay(log) = UNION {log.records[i].batches : i \in 1..Len(log.records)}
  BY <1>1, ReplayIs
<1>6. Replay(Cut(log, log.synced)) \subseteq Replay(log)
  BY <1>1, <1>5, ReplayIs
<1> QED
  BY <1>2, <1>3, <1>4, <1>5, <1>6

(* An empty log holds nothing. *)
LEMMA ReplayEmpty == /\ EmptyLog \in LogFiles /\ IntactLog(EmptyLog) /\ Replay(EmptyLog) = {}
<1>1. EmptyLog \in LogFiles /\ Len(EmptyLog.records) = 0 /\ EmptyLog.synced = 0
  BY DEF EmptyLog, LogFiles
<1> QED
  BY <1>1 DEF IntactLog, Replay

-----------------------------------------------------------------------------
(* The MANIFEST stays readable *)

(* An edit is added to a MANIFEST that can be read. *)
LEMMA EditAdded ==
  ASSUME Typed, Readable, NEW v, AddEdit(v)
  PROVE  /\ manifest'.synced = manifest.synced
         /\ manifest'.written.version = v /\ manifest'.written.tail = "whole"
<1>1. manifest.written.tail = "whole"
  BY DEF Readable, Kept
<1>2. manifest' = [manifest EXCEPT !.written = Logged(v)]
  BY <1>1, AddEditEffect DEF Typed
<1>3. Logged(v).version = v /\ Logged(v).tail = "whole"
  BY DEF Logged
<1> QED
  BY <1>2, <1>3 DEF Typed, TypedVersions

(* No step leaves a part of a record in the MANIFEST, nor adds one behind. *)
LEMMA ReadableStep ==
  ASSUME Typed, Readable, NoPartWritten, [Next]_vars
  PROVE  Readable'
<1>0. manifest.synced.tail = "whole" /\ manifest.written.tail = "whole"
      /\ manifest \in [synced : Snapshots, written : Snapshots]
  BY DEF Readable, Kept, Typed, TypedVersions
<1>1. ASSUME NEW w \in Writers, Enqueue(w) PROVE Readable'
  BY <1>0, <1>1 DEF Enqueue, Readable, Kept, disk
<1>2. ASSUME NEW w \in Writers, WriteRefused(w) PROVE Readable'
  BY <1>0, <1>2 DEF WriteRefused, Readable, Kept, disk
<1>3. ASSUME NEW w \in Writers, BeginGroup(w) PROVE Readable'
  BY <1>0, <1>3 DEF BeginGroup, Readable, Kept, disk
<1>4. ASSUME NEW w \in Writers, Stall(w) PROVE Readable'
  BY <1>0, <1>4 DEF Stall, Readable, Kept, disk
<1>5. ASSUME NEW w \in Writers, SwitchMemTable(w) PROVE Readable'
  BY <1>0, <1>5 DEF SwitchMemTable, Readable, Kept, disk
<1>6. ASSUME NEW w \in Writers, AddRecord(w) PROVE Readable'
  BY <1>0, <1>6 DEF AddRecord, Readable, Kept, disk
<1>7. ASSUME NEW w \in Writers, SyncLog(w) PROVE Readable'
  BY <1>0, <1>7 DEF SyncLog, Readable, Kept, disk
<1>8. ASSUME NEW w \in Writers, FinishGroup(w) PROVE Readable'
  BY <1>0, <1>8 DEF FinishGroup, Readable, Kept, disk
<1>9. ASSUME NEW w \in Writers, TEST_CompactMemTable(w) PROVE Readable'
  BY <1>0, <1>9 DEF TEST_CompactMemTable, Readable, Kept, disk
<1>10. ASSUME NEW c \in Compactors, TEST_CompactRange(c) PROVE Readable'
  BY <1>0, <1>10 DEF TEST_CompactRange, Readable, Kept, disk
<1>11. ASSUME BackgroundCall PROVE Readable'
  BY <1>0, <1>11 DEF BackgroundCall, Readable, Kept, disk
<1>12. ASSUME FlushDuringMerge PROVE Readable'
  BY <1>0, <1>12 DEF FlushDuringMerge, Readable, Kept, disk
<1>13. ASSUME BuildTable PROVE Readable'
  BY <1>0, <1>13 DEF BuildTable, Readable, Kept, disk
<1>14. ASSUME BuildTableFails PROVE Readable'
  BY <1>0, <1>14 DEF BuildTableFails, Readable, Kept, disk
<1>15. ASSUME LogFlush PROVE Readable'
  BY <1>0, <1>15, EditAdded DEF LogFlush, Readable, Kept
<1>16. ASSUME InstallFlush PROVE Readable'
  BY <1>0, <1>16 DEF InstallFlush, Readable, Kept, disk
<1>17. ASSUME InstallFlushFails PROVE Readable'
  <2>1. UNCHANGED manifest
    BY <1>17, EditFailsEffect DEF InstallFlushFails, NoPartWritten, Typed
  <2> QED
    BY <1>0, <2>1 DEF Readable, Kept
<1>18. ASSUME BuildMerge PROVE Readable'
  BY <1>0, <1>18 DEF BuildMerge, Readable, Kept, disk
<1>19. ASSUME LogMerge PROVE Readable'
  BY <1>0, <1>19, EditAdded DEF LogMerge, Readable, Kept
<1>20. ASSUME InstallMerge PROVE Readable'
  BY <1>0, <1>20 DEF InstallMerge, Readable, Kept, disk
<1>21. ASSUME MergeFails PROVE Readable'
  <2>1. UNCHANGED manifest
    BY <1>21, EditFailsEffect DEF MergeFails, NoPartWritten, Typed
  <2> QED
    BY <1>0, <2>1 DEF Readable, Kept
<1>22. ASSUME NullDereference PROVE Readable'
  <2>1. UNCHANGED manifest
    BY <1>22, EditFailsEffect DEF NullDereference, NoPartWritten, Typed
  <2> QED
    BY <1>0, <2>1 DEF Readable, Kept
<1>23. ASSUME Recover PROVE Readable'
  BY <1>0, <1>23 DEF Recover, Readable, Kept, disk
<1>24. ASSUME RecoverLogFile PROVE Readable'
  BY <1>0, <1>24 DEF RecoverLogFile, Readable, Kept, disk
<1>25. ASSUME CreateLog PROVE Readable'
  BY <1>0, <1>25 DEF CreateLog, Readable, Kept, disk
<1>26. ASSUME LogRecovery PROVE Readable'
  BY <1>0, <1>26 DEF LogRecovery, Logged, Readable, Kept
<1>27. ASSUME InstallRecovery PROVE Readable'
  BY <1>0, <1>27 DEF InstallRecovery, Readable, Kept, disk
<1>28. ASSUME BeginClose PROVE Readable'
  BY <1>0, <1>28 DEF BeginClose, Readable, Kept, disk
<1>29. ASSUME Close PROVE Readable'
  BY <1>0, <1>29 DEF Close, MayLoseRecord, Readable, Kept
<1>30. ASSUME ProcessCrash PROVE Readable'
  BY <1>0, <1>30 DEF ProcessCrash, MayLoseRecord, Readable, Kept
<1>31. ASSUME MachineCrash PROVE Readable'
  BY <1>0, <1>31 DEF MachineCrash, Readable, Kept, disk
<1>32. CASE UNCHANGED vars
  BY <1>0, <1>32 DEF vars, disk, Readable, Kept
<1> QED
  BY <1>1, <1>2, <1>3, <1>4, <1>5, <1>6, <1>7, <1>8, <1>9, <1>10, <1>11,
     <1>12, <1>13, <1>14, <1>15, <1>16, <1>17, <1>18, <1>19, <1>20, <1>21,
     <1>22, <1>23, <1>24, <1>25, <1>26, <1>27, <1>28, <1>29, <1>30, <1>31,
     <1>32 DEF Next, Writing, Background, Opening

-----------------------------------------------------------------------------
(* The logs stay intact *)

(* An append leaves a whole record or nothing. *)
LEMMA AddsWhole ==
  ASSUME NEW w \in Writers, AddRecord(w), NoPartWritten
  PROVE  /\ phase = "open" /\ pc[w] = "append"
         /\ \/ /\ AppendRecord(TRUE) /\ UNCHANGED outcome
               /\ pc' = [pc EXCEPT ![w] = IF w \in SyncWriters THEN "sync" ELSE "insert"]
            \/ /\ UNCHANGED logs /\ outcome' = "append"
               /\ pc' = [pc EXCEPT ![w] = "insert"]
BY DEF AddRecord, Fails, NoPartWritten

(* Every record of every log stays whole. *)
LEMMA IntactStep ==
  ASSUME Typed, Numbered, Intact, NoPartWritten, [Next]_vars
  PROVE  Intact'
<1>1. ASSUME NEW w \in Writers, Enqueue(w) PROVE Intact'
  <2>1. UNCHANGED logs
    BY <1>1 DEF Enqueue, disk
  <2> QED
    BY <2>1 DEF Intact
<1>2. ASSUME NEW w \in Writers, WriteRefused(w) PROVE Intact'
  <2>1. UNCHANGED logs
    BY <1>2 DEF WriteRefused, disk
  <2> QED
    BY <2>1 DEF Intact
<1>3. ASSUME NEW w \in Writers, BeginGroup(w) PROVE Intact'
  <2>1. UNCHANGED logs
    BY <1>3 DEF BeginGroup, disk
  <2> QED
    BY <2>1 DEF Intact
<1>4. ASSUME NEW w \in Writers, Stall(w) PROVE Intact'
  <2>1. UNCHANGED logs
    BY <1>4 DEF Stall, disk
  <2> QED
    BY <2>1 DEF Intact
<1>5. ASSUME NEW w \in Writers, SwitchMemTable(w) PROVE Intact'
  <2>1. UNCHANGED logs \/ logs' = With(logs, nextFile, EmptyLog)
    BY <1>5 DEF SwitchMemTable
  <2>2. \A n \in DOMAIN logs' : (n \in DOMAIN logs /\ logs'[n] = logs[n]) \/ logs'[n] = EmptyLog
    BY <2>1 DEF With
  <2> QED
    BY <2>2, ReplayEmpty DEF Intact
<1>6. ASSUME NEW w \in Writers, AddRecord(w) PROVE Intact'
  <2>1. CASE UNCHANGED logs
    BY <2>1 DEF Intact
  <2>2. CASE AppendRecord(TRUE)
    <3>1. logNumber \in DOMAIN logs /\ AppendRecord(TRUE)
      BY <1>6, <2>2, AddsWhole DEF Numbered
    <3>2. /\ DOMAIN logs' = DOMAIN logs /\ logs' \in [DOMAIN logs -> LogFiles]
          /\ \A n \in DOMAIN logs : n # logNumber => logs'[n] = logs[n]
          /\ logs'[logNumber].records = Append(logs[logNumber].records, Record(TRUE))
          /\ logs'[logNumber].synced = logs[logNumber].synced
      BY <3>1, AppendsRecord
    <3>3. Record(TRUE) \in Records /\ Record(TRUE).whole
      BY DEF Record, Records, BatchesOf
    <3>4. logs[logNumber] \in LogFiles /\ IntactLog(logs[logNumber]) /\ logs'[logNumber] \in LogFiles
      BY <3>1, <3>2 DEF Intact, Typed, TypedFiles
    <3>5. IntactLog(logs'[logNumber])
      BY <3>2, <3>3, <3>4, ReplayAppended
    <3> QED
      BY <3>2, <3>5 DEF Intact
  <2> QED
    BY <1>6, <2>1, <2>2, AddsWhole
<1>7. ASSUME NEW w \in Writers, SyncLog(w) PROVE Intact'
  <2>1. logNumber \in DOMAIN logs
    BY <1>7 DEF SyncLog, Numbered
  <2>2. CASE UNCHANGED logs
    BY <2>2 DEF Intact
  <2>3. CASE logs' = [logs EXCEPT ![logNumber].synced = Len(logs[logNumber].records)]
    <3>1. /\ DOMAIN logs' = DOMAIN logs /\ logs' \in [DOMAIN logs -> LogFiles]
          /\ \A n \in DOMAIN logs : n # logNumber => logs'[n] = logs[n]
          /\ logs'[logNumber].records = logs[logNumber].records
          /\ logs'[logNumber].synced = Len(logs[logNumber].records)
      BY <2>1, <2>3, SyncsLog
    <3>2. logs[logNumber] \in LogFiles /\ IntactLog(logs[logNumber]) /\ logs'[logNumber] \in LogFiles
      BY <2>1, <3>1 DEF Intact, Typed, TypedFiles
    <3>3. IntactLog(logs'[logNumber])
      BY <3>1, <3>2, ReplaySynced
    <3> QED
      BY <3>1, <3>3 DEF Intact
  <2> QED
    BY <1>7, <2>2, <2>3 DEF SyncLog
<1>8. ASSUME NEW w \in Writers, FinishGroup(w) PROVE Intact'
  <2>1. UNCHANGED logs
    BY <1>8 DEF FinishGroup, disk
  <2> QED
    BY <2>1 DEF Intact
<1>9. ASSUME NEW w \in Writers, TEST_CompactMemTable(w) PROVE Intact'
  <2>1. UNCHANGED logs
    BY <1>9 DEF TEST_CompactMemTable, disk
  <2> QED
    BY <2>1 DEF Intact
<1>10. ASSUME NEW c \in Compactors, TEST_CompactRange(c) PROVE Intact'
  <2>1. UNCHANGED logs
    BY <1>10 DEF TEST_CompactRange, disk
  <2> QED
    BY <2>1 DEF Intact
<1>11. ASSUME BackgroundCall PROVE Intact'
  <2>1. UNCHANGED logs
    BY <1>11 DEF BackgroundCall, disk
  <2> QED
    BY <2>1 DEF Intact
<1>12. ASSUME FlushDuringMerge PROVE Intact'
  <2>1. UNCHANGED logs
    BY <1>12 DEF FlushDuringMerge, disk
  <2> QED
    BY <2>1 DEF Intact
<1>13. ASSUME BuildTable PROVE Intact'
  <2>1. UNCHANGED logs
    BY <1>13 DEF BuildTable, disk
  <2> QED
    BY <2>1 DEF Intact
<1>14. ASSUME BuildTableFails PROVE Intact'
  <2>1. UNCHANGED logs
    BY <1>14 DEF BuildTableFails, disk
  <2> QED
    BY <2>1 DEF Intact
<1>15. ASSUME LogFlush PROVE Intact'
  <2>1. UNCHANGED logs
    BY <1>15 DEF LogFlush, disk
  <2> QED
    BY <2>1 DEF Intact
<1>16. ASSUME InstallFlush PROVE Intact'
  <2>1. UNCHANGED <<logs, tables>> \/ \E v, outputs : DeleteObsoleteFiles(v, outputs)
    BY <1>16 DEF InstallFlush
  <2>2. \A n \in DOMAIN logs' : n \in DOMAIN logs /\ logs'[n] = logs[n]
    BY <2>1, DeletedFiles
  <2> QED
    BY <2>2 DEF Intact
<1>17. ASSUME InstallFlushFails PROVE Intact'
  <2>1. UNCHANGED logs
    BY <1>17 DEF InstallFlushFails, disk
  <2> QED
    BY <2>1 DEF Intact
<1>18. ASSUME BuildMerge PROVE Intact'
  <2>1. UNCHANGED logs
    BY <1>18 DEF BuildMerge, disk
  <2> QED
    BY <2>1 DEF Intact
<1>19. ASSUME LogMerge PROVE Intact'
  <2>1. UNCHANGED logs
    BY <1>19 DEF LogMerge, disk
  <2> QED
    BY <2>1 DEF Intact
<1>20. ASSUME InstallMerge PROVE Intact'
  <2>1. UNCHANGED <<logs, tables>> \/ \E v, outputs : DeleteObsoleteFiles(v, outputs)
    BY <1>20 DEF InstallMerge
  <2>2. \A n \in DOMAIN logs' : n \in DOMAIN logs /\ logs'[n] = logs[n]
    BY <2>1, DeletedFiles
  <2> QED
    BY <2>2 DEF Intact
<1>21. ASSUME MergeFails PROVE Intact'
  <2>1. UNCHANGED logs
    BY <1>21 DEF MergeFails, disk
  <2> QED
    BY <2>1 DEF Intact
<1>22. ASSUME NullDereference PROVE Intact'
  <2>1. UNCHANGED logs
    BY <1>22 DEF NullDereference, EndProcess
  <2> QED
    BY <2>1 DEF Intact
<1>23. ASSUME Recover PROVE Intact'
  <2>1. UNCHANGED logs
    BY <1>23 DEF Recover, disk
  <2> QED
    BY <2>1 DEF Intact
<1>24. ASSUME RecoverLogFile PROVE Intact'
  <2>1. UNCHANGED logs
    BY <1>24 DEF RecoverLogFile, disk
  <2> QED
    BY <2>1 DEF Intact
<1>25. ASSUME CreateLog PROVE Intact'
  <2>1. UNCHANGED logs \/ logs' = With(logs, nextFile, EmptyLog)
    BY <1>25 DEF CreateLog
  <2>2. \A n \in DOMAIN logs' : (n \in DOMAIN logs /\ logs'[n] = logs[n]) \/ logs'[n] = EmptyLog
    BY <2>1 DEF With
  <2> QED
    BY <2>2, ReplayEmpty DEF Intact
<1>26. ASSUME LogRecovery PROVE Intact'
  <2>1. UNCHANGED logs
    BY <1>26 DEF LogRecovery, disk
  <2> QED
    BY <2>1 DEF Intact
<1>27. ASSUME InstallRecovery PROVE Intact'
  <2>1. UNCHANGED <<logs, tables>> \/ \E v, outputs : DeleteObsoleteFiles(v, outputs)
    BY <1>27 DEF InstallRecovery
  <2>2. \A n \in DOMAIN logs' : n \in DOMAIN logs /\ logs'[n] = logs[n]
    BY <2>1, DeletedFiles
  <2> QED
    BY <2>2 DEF Intact
<1>28. ASSUME BeginClose PROVE Intact'
  <2>1. UNCHANGED logs
    BY <1>28 DEF BeginClose, disk
  <2> QED
    BY <2>1 DEF Intact
<1>29. ASSUME Close PROVE Intact'
  <2>1. UNCHANGED logs
    BY <1>29 DEF Close
  <2> QED
    BY <2>1 DEF Intact
<1>30. ASSUME ProcessCrash PROVE Intact'
  <2>1. UNCHANGED logs
    BY <1>30 DEF ProcessCrash, EndProcess
  <2> QED
    BY <2>1 DEF Intact
<1>31. ASSUME MachineCrash PROVE Intact'
  <2>1. PICK kept \in [DOMAIN logs -> 0..Cardinality(Writers)] :
          /\ \A n \in DOMAIN logs : kept[n] \in logs[n].synced..Len(logs[n].records)
          /\ logs' = [n \in DOMAIN logs |-> Cut(logs[n], kept[n])]
    BY <1>31 DEF MachineCrash
  <2> SUFFICES ASSUME NEW n \in DOMAIN logs PROVE IntactLog(Cut(logs[n], kept[n]))
    BY <2>1 DEF Intact
  <2>2. logs[n] \in LogFiles /\ IntactLog(logs[n])
    BY DEF Intact, Typed, TypedFiles
  <2>3. kept[n] \in 0..Len(logs[n].records)
    BY <2>1, <2>2 DEF LogFiles
  <2> QED
    BY <2>2, <2>3, ReplayIs
<1>32. CASE \/ UNCHANGED vars
  BY <1>32 DEF vars, disk, Intact
<1> QED
  BY <1>1, <1>2, <1>3, <1>4, <1>5, <1>6, <1>7, <1>8, <1>9, <1>10, <1>11,
     <1>12, <1>13, <1>14, <1>15, <1>16, <1>17, <1>18, <1>19, <1>20, <1>21,
     <1>22, <1>23, <1>24, <1>25, <1>26, <1>27, <1>28, <1>29, <1>30, <1>31,
     <1>32 DEF Next, Writing, Background, Opening


-----------------------------------------------------------------------------
(* The group under way *)

(* Where there is no group, nothing is to be said of it. *)
LEMMA NothingToLog ==
  ASSUME Queued', group' = 0, outcome' = "ok"
  PROVE  GroupLogged'
<1>1. \A w \in Writers : pc'[w] \notin {"append", "sync", "insert"}
  BY DEF Queued
<1> QED
  BY <1>1 DEF GroupLogged

(* Who only wakes others, or deletes other files, leaves the group alone. *)
LEMMA GroupStays ==
  ASSUME GroupLogged, UNCHANGED <<group, outcome, logNumber>>,
         group > 0 => writers'[1] = writers[1], BatchesOf(group)' = BatchesOf(group),
         logs'[logNumber] = logs[logNumber],
         phase = "open" => logNumber \in DOMAIN logs /\ logNumber \in DOMAIN logs',
         phase # "open" => group = 0, Queued',
         \A w \in Writers : pc'[w] \in {"append", "sync", "insert"} => pc'[w] = pc[w]
  PROVE  GroupLogged'
<1>1. CASE group = 0
  BY <1>1, NothingToLog DEF GroupLogged
<1>2. CASE group # 0
  <2>1. Saved(logs')[logNumber] = Saved(logs)[logNumber]
    BY <1>2 DEF Saved
  <2> QED
    BY <1>2, <2>1 DEF GroupLogged
<1> QED
  BY <1>1, <1>2

(* The batches of a group that gets longer behind its end *)
LEMMA SameGroup ==
  ASSUME Typed, UNCHANGED <<writers, group>>
  PROVE  BatchesOf(group)' = BatchesOf(group)
BY DEF BatchesOf

(* Woken leaves who is at work where it is. *)
LEMMA WokenAtWork ==
  ASSUME Typed
  PROVE  \A w \in Writers : Woken(pc)[w] \in {"append", "sync", "insert"} => Woken(pc)[w] = pc[w]
<1>1. DOMAIN pc = Writers
  BY DEF Typed, TypedCalls
<1> QED
  BY <1>1 DEF Woken

(* The batches of a group are in the log before they are in the memtable. *)
LEMMA GroupLoggedStep ==
  ASSUME Typed, Stopped, Queued, Numbered, Intact, GroupLogged, NoPartWritten,
         Queued', Numbered', [Next]_vars
  PROVE  GroupLogged'
<1>1. ASSUME NEW w \in Writers, Enqueue(w) PROVE GroupLogged'
  <2>1. /\ UNCHANGED <<group, outcome, logNumber, logs, phase>> /\ writers' = Append(writers, w)
        /\ phase = "open"
        /\ pc' = [pc EXCEPT ![w] = IF writers = <<>> THEN "ready" ELSE "asleep"]
    BY <1>1 DEF Enqueue, numbers, disk, MutexFree
  <2>2. writers \in Seq(Writers) /\ group \in 0..Len(writers) /\ Len(writers) \in Nat
    BY DEF Typed, TypedCalls
  <2>3. \A i \in 1..Len(writers) : writers'[i] = writers[i]
    BY <2>1, <2>2
  <2>4. BatchesOf(group)' = BatchesOf(group)
    BY <2>1, <2>2, <2>3 DEF BatchesOf
  <2>5. group > 0 => writers'[1] = writers[1]
    BY <2>2, <2>3
  <2>6. \A x \in Writers : pc'[x] \in {"append", "sync", "insert"} => pc'[x] = pc[x]
    BY <2>1 DEF Typed, TypedCalls
  <2>7. logNumber \in DOMAIN logs
    BY <2>1 DEF Numbered
  <2> QED
    BY <2>1, <2>4, <2>5, <2>6, <2>7, GroupStays
<1>2. ASSUME NEW w \in Writers, WriteRefused(w) PROVE GroupLogged'
  <2>1. group' = 0 /\ outcome' = "ok"
    BY <1>2 DEF WriteRefused, Pop
  <2> QED
    BY <2>1, NothingToLog
<1>3. ASSUME NEW w \in Writers, BeginGroup(w) PROVE GroupLogged'
  <2>1. CASE group' = 0 /\ outcome' = "ok"
    BY <2>1, NothingToLog
  <2>2. CASE \E n \in 1..Len(writers) :
            /\ BuildBatchGroup(n) /\ group' = n /\ pc' = [pc EXCEPT ![w] = "append"]
            /\ UNCHANGED <<writers, outcome>>
    <3>1. PICK n \in 1..Len(writers) :
            /\ BuildBatchGroup(n) /\ group' = n /\ pc' = [pc EXCEPT ![w] = "append"]
            /\ UNCHANGED <<writers, outcome>>
      BY <2>2
    <3>2. pc[w] \in {"ready", "switched"} /\ group = 0 /\ outcome = "ok"
      BY <1>3, NoGroup DEF BeginGroup, AtMakeRoom, GroupLogged
    <3>3. \A x \in Writers : x # w => pc[x] \notin AtWork
      BY <3>2, FrontAlone DEF AtWork
    <3>4. \A x \in Writers : pc'[x] \notin {"sync", "insert"}
      BY <3>1, <3>3 DEF AtWork, Typed, TypedCalls
    <3>5. n \in Nat /\ Len(writers) \in Nat
      BY DEF Typed, TypedCalls
    <3>6. writers[1] \notin SyncWriters => BatchesOf(n) \cap SyncWriters = {}
      <4>1. \A i \in 1..n : i = 1 \/ i \in 2..n
        BY <3>5
      <4> QED
        BY <3>1, <4>1 DEF BuildBatchGroup, BatchesOf
    <3>7. BatchesOf(group)' = BatchesOf(n)
      BY <3>1 DEF BatchesOf
    <3> QED
      BY <3>1, <3>2, <3>4, <3>5, <3>6, <3>7 DEF GroupLogged
  <2> QED
    BY <1>3, <2>1, <2>2 DEF BeginGroup, Pop
<1>4. ASSUME NEW w \in Writers, Stall(w) PROVE GroupLogged'
  <2>1. group = 0 /\ UNCHANGED <<group, outcome>>
    BY <1>4, NoGroup DEF Stall, AtMakeRoom
  <2> QED
    BY <2>1, NothingToLog DEF GroupLogged
<1>5. ASSUME NEW w \in Writers, SwitchMemTable(w) PROVE GroupLogged'
  <2>1. group = 0
    BY <1>5, NoGroup DEF SwitchMemTable, AtMakeRoom
  <2>2. group' = 0 /\ outcome' = "ok"
    BY <1>5, <2>1 DEF SwitchMemTable, Pop, GroupLogged
  <2> QED
    BY <2>2, NothingToLog
<1>6. ASSUME NEW w \in Writers, AddRecord(w) PROVE GroupLogged'
  <2>1. /\ phase = "open" /\ pc[w] = "append"
        /\ UNCHANGED <<writers, group, logNumber>>
    BY <1>6 DEF AddRecord, numbers
  <2>2. logNumber \in DOMAIN logs
    BY <2>1 DEF Numbered
  <2>3. writers[1] = w /\ \A x \in Writers : x # w => pc[x] \notin AtWork
    BY <2>1, FrontAlone DEF AtWork
  <2>4. outcome = "ok" /\ group > 0
    BY <2>1 DEF GroupLogged, Queued
  <2>5. BatchesOf(group)' = BatchesOf(group)
    BY <2>1, SameGroup
  <2>6. CASE UNCHANGED logs /\ outcome' = "append" /\ pc' = [pc EXCEPT ![w] = "insert"]
    <3>1. \A x \in Writers : pc'[x] \in {"append", "sync", "insert"} => pc'[x] = "insert"
      BY <2>3, <2>6 DEF AtWork, Typed, TypedCalls
    <3> QED
      BY <2>1, <2>3, <2>4, <2>5, <2>6, <3>1 DEF GroupLogged
  <2>7. CASE /\ AppendRecord(TRUE) /\ UNCHANGED outcome
             /\ pc' = [pc EXCEPT ![w] = IF w \in SyncWriters THEN "sync" ELSE "insert"]
    <3>1. /\ DOMAIN logs' = DOMAIN logs /\ logs' \in [DOMAIN logs -> LogFiles]
          /\ logs'[logNumber].records = Append(logs[logNumber].records, Record(TRUE))
          /\ logs'[logNumber].synced = logs[logNumber].synced
      BY <2>2, <2>7, AppendsRecord
    <3>2. Record(TRUE) \in Records /\ Record(TRUE).whole /\ Record(TRUE).batches = BatchesOf(group)
      BY DEF Record, Records, BatchesOf
    <3>3. logs[logNumber] \in LogFiles /\ IntactLog(logs[logNumber]) /\ logs'[logNumber] \in LogFiles
      BY <2>2, <3>1 DEF Intact, Typed, TypedFiles
    <3>4. Replay(logs'[logNumber]) = Replay(logs[logNumber]) \cup Record(TRUE).batches
      <4> DEFINE log == logs[logNumber]
                 log2 == logs'[logNumber]
                 r == Record(TRUE)
      <4>1. /\ log \in LogFiles /\ IntactLog(log) /\ r \in Records /\ r.whole /\ log2 \in LogFiles
            /\ log2.records = Append(log.records, r) /\ log2.synced = log.synced
        BY <3>1, <3>2, <3>3
      <4> HIDE DEF log, log2, r
      <4>2. Replay(log2) = Replay(log) \cup r.batches
        BY <4>1, ReplayAppended
      <4> QED
        BY <4>2 DEF log, log2, r
    <3>5. BatchesOf(group) \subseteq Replay(logs'[logNumber])
      BY <3>2, <3>4
    <3>6. \A x \in Writers : pc'[x] \in {"append", "sync", "insert"} =>
            x = w /\ (pc'[x] = "insert" => w \notin SyncWriters)
      BY <2>3, <2>7 DEF AtWork, Typed, TypedCalls
    <3>7. w \notin SyncWriters => BatchesOf(group) \cap SyncWriters = {}
      BY <2>3, <2>4 DEF GroupLogged
    <3> QED
      BY <2>1, <2>3, <2>4, <2>5, <2>7, <3>5, <3>6, <3>7 DEF GroupLogged
  <2> QED
    BY <1>6, <2>6, <2>7, AddsWhole
<1>7. ASSUME NEW w \in Writers, SyncLog(w) PROVE GroupLogged'
  <2>1. /\ phase = "open" /\ pc[w] = "sync" /\ pc' = [pc EXCEPT ![w] = "insert"]
        /\ UNCHANGED <<writers, group, logNumber>>
    BY <1>7 DEF SyncLog, numbers
  <2>2. writers[1] = w /\ \A x \in Writers : x # w => pc[x] \notin AtWork
    BY <2>1, FrontAlone DEF AtWork
  <2>3. group > 0 /\ BatchesOf(group) \subseteq Replay(logs[logNumber]) /\ logNumber \in DOMAIN logs
    BY <2>1 DEF GroupLogged, Queued, Numbered
  <2>4. \A x \in Writers : pc'[x] \in {"append", "sync", "insert"} => x = w /\ pc'[x] = "insert"
    BY <2>1, <2>2 DEF AtWork, Typed, TypedCalls
  <2>5. BatchesOf(group)' = BatchesOf(group)
    BY <2>1, SameGroup
  <2>6. CASE outcome' = "sync"
    BY <2>1, <2>2, <2>3, <2>4, <2>5, <2>6 DEF GroupLogged
  <2>7. CASE /\ logs' = [logs EXCEPT ![logNumber].synced = Len(logs[logNumber].records)]
             /\ UNCHANGED outcome
    <3>1. /\ DOMAIN logs' = DOMAIN logs /\ logs' \in [DOMAIN logs -> LogFiles]
          /\ logs'[logNumber].records = logs[logNumber].records
          /\ logs'[logNumber].synced = Len(logs[logNumber].records)
      BY <2>3, <2>7, SyncsLog
    <3>2. logs[logNumber] \in LogFiles /\ IntactLog(logs[logNumber]) /\ logs'[logNumber] \in LogFiles
      BY <2>3, <3>1 DEF Intact, Typed, TypedFiles
    <3>3. /\ Replay(logs'[logNumber]) = Replay(logs[logNumber])
          /\ Replay(Cut(logs'[logNumber], logs'[logNumber].synced)) = Replay(logs[logNumber])
      BY <3>1, <3>2, ReplaySynced
    <3>4. Replay(Saved(logs')[logNumber]) = Replay(logs[logNumber])
      BY <2>3, <3>1, <3>3 DEF Saved
    <3> QED
      BY <2>1, <2>2, <2>3, <2>4, <2>5, <3>3, <3>4 DEF GroupLogged
  <2> QED
    BY <1>7, <2>6, <2>7 DEF SyncLog
<1>8. ASSUME NEW w \in Writers, FinishGroup(w) PROVE GroupLogged'
  <2>1. group' = 0 /\ outcome' = "ok"
    BY <1>8 DEF FinishGroup
  <2> QED
    BY <2>1, NothingToLog
<1>9. ASSUME NEW w \in Writers, TEST_CompactMemTable(w) PROVE GroupLogged'
  <2>1. UNCHANGED <<group, outcome, writers, logNumber, logs>> /\ phase = "open"
    BY <1>9 DEF TEST_CompactMemTable, queue, numbers, disk, MutexFree
  <2>2. \A x \in Writers : pc'[x] \in {"append", "sync", "insert"} => pc'[x] = pc[x]
    BY <1>9 DEF TEST_CompactMemTable, Typed, TypedCalls
  <2>3. logNumber \in DOMAIN logs
    BY <2>1 DEF Numbered
  <2> QED
    BY <2>1, <2>2, <2>3, SameGroup, GroupStays
<1>10. ASSUME NEW c \in Compactors, TEST_CompactRange(c) PROVE GroupLogged'
  <2>1. UNCHANGED <<group, outcome, writers, logNumber, logs>> /\ phase = "open"
    BY <1>10 DEF TEST_CompactRange, queue, numbers, disk, MutexFree
  <2>2. UNCHANGED pc
    BY <1>10 DEF TEST_CompactRange, queue
  <2>3. logNumber \in DOMAIN logs
    BY <2>1 DEF Numbered
  <2> QED
    BY <2>1, <2>2, <2>3, SameGroup, GroupStays
<1>11. ASSUME BackgroundCall PROVE GroupLogged'
  <2>1. UNCHANGED <<group, outcome, writers, logNumber, logs>> /\ phase = "open"
    BY <1>11 DEF BackgroundCall, queue, numbers, disk, MutexFree
  <2>2. \A x \in Writers : pc'[x] \in {"append", "sync", "insert"} => pc'[x] = pc[x]
    <3>1. pc' = pc \/ pc' = Woken(pc)
      BY <1>11 DEF BackgroundCall, EndCall, SignalAll
    <3> QED
      BY <3>1, WokenAtWork
  <2>3. logNumber \in DOMAIN logs
    BY <2>1 DEF Numbered
  <2> QED
    BY <2>1, <2>2, <2>3, SameGroup, GroupStays
<1>12. ASSUME FlushDuringMerge PROVE GroupLogged'
  <2>1. UNCHANGED <<group, outcome, writers, logNumber, logs>> /\ phase = "open"
    BY <1>12 DEF FlushDuringMerge, queue, numbers, disk, MutexFree
  <2>2. UNCHANGED pc
    BY <1>12 DEF FlushDuringMerge, queue
  <2>3. logNumber \in DOMAIN logs
    BY <2>1 DEF Numbered
  <2> QED
    BY <2>1, <2>2, <2>3, SameGroup, GroupStays
<1>13. ASSUME BuildTable PROVE GroupLogged'
  <2>1. UNCHANGED <<group, outcome, writers, logNumber, logs>> /\ phase = "open"
    BY <1>13 DEF BuildTable, queue, numbers, disk, MutexFree
  <2>2. UNCHANGED pc
    BY <1>13 DEF BuildTable, queue
  <2>3. logNumber \in DOMAIN logs
    BY <2>1 DEF Numbered
  <2> QED
    BY <2>1, <2>2, <2>3, SameGroup, GroupStays
<1>14. ASSUME BuildTableFails PROVE GroupLogged'
  <2>1. UNCHANGED <<group, outcome, writers, logNumber, logs>> /\ phase = "open"
    BY <1>14 DEF BuildTableFails, queue, numbers, disk, MutexFree
  <2>2. \A x \in Writers : pc'[x] \in {"append", "sync", "insert"} => pc'[x] = pc[x]
    <3>1. pc' = pc \/ pc' = Woken(pc)
      BY <1>14 DEF BuildTableFails, CallGoesOn, EndCall, SignalAll
    <3> QED
      BY <3>1, WokenAtWork
  <2>3. logNumber \in DOMAIN logs
    BY <2>1 DEF Numbered
  <2> QED
    BY <2>1, <2>2, <2>3, SameGroup, GroupStays
<1>15. ASSUME LogFlush PROVE GroupLogged'
  <2>1. UNCHANGED <<group, outcome, writers, logNumber, logs>> /\ phase = "open"
    BY <1>15 DEF LogFlush, queue, numbers, disk, MutexFree
  <2>2. UNCHANGED pc
    BY <1>15 DEF LogFlush, queue
  <2>3. logNumber \in DOMAIN logs
    BY <2>1 DEF Numbered
  <2> QED
    BY <2>1, <2>2, <2>3, SameGroup, GroupStays
<1>16. ASSUME InstallFlush PROVE GroupLogged'
  <2>1. UNCHANGED <<group, outcome, writers, logNumber>> /\ phase = "open" /\ phase' = "open"
    BY <1>16 DEF InstallFlush, numbers, MutexFree
  <2>2. \A x \in Writers : pc'[x] \in {"append", "sync", "insert"} => pc'[x] = pc[x]
    <3>1. pc' = pc \/ pc' = Woken(pc)
      BY <1>16 DEF InstallFlush, CallGoesOn, EndCall, SignalAll
    <3> QED
      BY <3>1, WokenAtWork
  <2>3. logNumber \in DOMAIN logs /\ logNumber \in DOMAIN logs'
    BY <2>1 DEF Numbered
  <2>4. logs'[logNumber] = logs[logNumber]
    <3>1. UNCHANGED <<logs, tables>> \/ \E v, outputs : DeleteObsoleteFiles(v, outputs)
      BY <1>16 DEF InstallFlush
    <3> QED
      BY <2>3, <3>1, DeletedFiles
  <2> QED
    BY <2>1, <2>2, <2>3, <2>4, SameGroup, GroupStays
<1>17. ASSUME InstallFlushFails PROVE GroupLogged'
  <2>1. UNCHANGED <<group, outcome, writers, logNumber, logs>> /\ phase = "open"
    BY <1>17 DEF InstallFlushFails, queue, numbers, disk, MutexFree
  <2>2. \A x \in Writers : pc'[x] \in {"append", "sync", "insert"} => pc'[x] = pc[x]
    <3>1. pc' = pc \/ pc' = Woken(pc)
      BY <1>17 DEF InstallFlushFails, CallGoesOn, EndCall, SignalAll
    <3> QED
      BY <3>1, WokenAtWork
  <2>3. logNumber \in DOMAIN logs
    BY <2>1 DEF Numbered
  <2> QED
    BY <2>1, <2>2, <2>3, SameGroup, GroupStays
<1>18. ASSUME BuildMerge PROVE GroupLogged'
  <2>1. UNCHANGED <<group, outcome, writers, logNumber, logs>> /\ phase = "open"
    BY <1>18 DEF BuildMerge, queue, numbers, disk, MutexFree
  <2>2. UNCHANGED pc
    BY <1>18 DEF BuildMerge, queue
  <2>3. logNumber \in DOMAIN logs
    BY <2>1 DEF Numbered
  <2> QED
    BY <2>1, <2>2, <2>3, SameGroup, GroupStays
<1>19. ASSUME LogMerge PROVE GroupLogged'
  <2>1. UNCHANGED <<group, outcome, writers, logNumber, logs>> /\ phase = "open"
    BY <1>19 DEF LogMerge, queue, numbers, disk, MutexFree
  <2>2. UNCHANGED pc
    BY <1>19 DEF LogMerge, queue
  <2>3. logNumber \in DOMAIN logs
    BY <2>1 DEF Numbered
  <2> QED
    BY <2>1, <2>2, <2>3, SameGroup, GroupStays
<1>20. ASSUME InstallMerge PROVE GroupLogged'
  <2>1. UNCHANGED <<group, outcome, writers, logNumber>> /\ phase = "open" /\ phase' = "open"
    BY <1>20 DEF InstallMerge, numbers, MutexFree
  <2>2. \A x \in Writers : pc'[x] \in {"append", "sync", "insert"} => pc'[x] = pc[x]
    <3>1. pc' = pc \/ pc' = Woken(pc)
      BY <1>20 DEF InstallMerge, EndMerge, EndCall, SignalAll
    <3> QED
      BY <3>1, WokenAtWork
  <2>3. logNumber \in DOMAIN logs /\ logNumber \in DOMAIN logs'
    BY <2>1 DEF Numbered
  <2>4. logs'[logNumber] = logs[logNumber]
    <3>1. UNCHANGED <<logs, tables>> \/ \E v, outputs : DeleteObsoleteFiles(v, outputs)
      BY <1>20 DEF InstallMerge
    <3> QED
      BY <2>3, <3>1, DeletedFiles
  <2> QED
    BY <2>1, <2>2, <2>3, <2>4, SameGroup, GroupStays
<1>21. ASSUME MergeFails PROVE GroupLogged'
  <2>1. UNCHANGED <<group, outcome, writers, logNumber, logs>> /\ phase = "open"
    BY <1>21 DEF MergeFails, queue, numbers, disk, MutexFree
  <2>2. \A x \in Writers : pc'[x] \in {"append", "sync", "insert"} => pc'[x] = pc[x]
    <3>1. pc' = pc \/ pc' = Woken(pc)
      BY <1>21 DEF MergeFails, EndMerge, EndCall, SignalAll
    <3> QED
      BY <3>1, WokenAtWork
  <2>3. logNumber \in DOMAIN logs
    BY <2>1 DEF Numbered
  <2> QED
    BY <2>1, <2>2, <2>3, SameGroup, GroupStays
<1>22. ASSUME NullDereference PROVE GroupLogged'
  <2>1. group' = 0 /\ outcome' = "ok"
    BY <1>22 DEF NullDereference, EndProcess, LoseMemory
  <2> QED
    BY <2>1, NothingToLog
<1>23. ASSUME Recover PROVE GroupLogged'
  <2>1. group = 0 /\ outcome = "ok" /\ UNCHANGED <<group, outcome>>
    BY <1>23 DEF Recover, queue, Stopped
  <2> QED
    BY <2>1, NothingToLog
<1>24. ASSUME RecoverLogFile PROVE GroupLogged'
  <2>1. group = 0 /\ outcome = "ok" /\ UNCHANGED <<group, outcome>>
    BY <1>24 DEF RecoverLogFile, queue, Stopped
  <2> QED
    BY <2>1, NothingToLog
<1>25. ASSUME CreateLog PROVE GroupLogged'
  <2>1. group = 0 /\ outcome = "ok" /\ UNCHANGED <<group, outcome>>
    BY <1>25 DEF CreateLog, queue, Stopped
  <2> QED
    BY <2>1, NothingToLog
<1>26. ASSUME LogRecovery PROVE GroupLogged'
  <2>1. group = 0 /\ outcome = "ok" /\ UNCHANGED <<group, outcome>>
    BY <1>26 DEF LogRecovery, queue, Stopped
  <2> QED
    BY <2>1, NothingToLog
<1>27. ASSUME InstallRecovery PROVE GroupLogged'
  <2>1. group = 0 /\ outcome = "ok" /\ UNCHANGED <<group, outcome>>
    BY <1>27 DEF InstallRecovery, queue, Stopped
  <2> QED
    BY <2>1, NothingToLog
<1>28. ASSUME BeginClose PROVE GroupLogged'
  <2>1. UNCHANGED <<group, outcome, writers, logNumber, logs>> /\ phase = "open"
    BY <1>28 DEF BeginClose, queue, numbers, disk, MutexFree
  <2>2. UNCHANGED pc
    BY <1>28 DEF BeginClose, queue
  <2>3. logNumber \in DOMAIN logs
    BY <2>1 DEF Numbered
  <2> QED
    BY <2>1, <2>2, <2>3, SameGroup, GroupStays
<1>29. ASSUME Close PROVE GroupLogged'
  <2>1. group' = 0 /\ outcome' = "ok"
    BY <1>29 DEF Close, EndProcess, LoseMemory
  <2> QED
    BY <2>1, NothingToLog
<1>30. ASSUME ProcessCrash PROVE GroupLogged'
  <2>1. group' = 0 /\ outcome' = "ok"
    BY <1>30 DEF ProcessCrash, EndProcess, LoseMemory
  <2> QED
    BY <2>1, NothingToLog
<1>31. ASSUME MachineCrash PROVE GroupLogged'
  <2>1. group' = 0 /\ outcome' = "ok"
    BY <1>31 DEF MachineCrash, EndProcess, LoseMemory
  <2> QED
    BY <2>1, NothingToLog
<1>32. CASE \/ UNCHANGED vars
  BY <1>32 DEF vars, queue, numbers, disk, BatchesOf, GroupLogged
<1> QED
  BY <1>1, <1>2, <1>3, <1>4, <1>5, <1>6, <1>7, <1>8, <1>9, <1>10, <1>11,
     <1>12, <1>13, <1>14, <1>15, <1>16, <1>17, <1>18, <1>19, <1>20, <1>21,
     <1>22, <1>23, <1>24, <1>25, <1>26, <1>27, <1>28, <1>29, <1>30, <1>31,
     <1>32 DEF Next, Writing, Background, Opening


-----------------------------------------------------------------------------
(* Promises *)

(* Promise and the rest of Durable, in the next state *)
PromiseNext(A, files) ==
  /\ phase' = "open" =>
       /\ A \subseteq mem' \cup imm' \cup TablesOf(version', tables')
       /\ mem' \cap A \subseteq Replay(files[logNumber'])
       /\ \A v \in {version', manifest'.synced.version, manifest'.written.version} :
            imm' \cap A \subseteq Held(v, tables', files)
  /\ phase' # "open" => \A m \in Kept' : A \subseteq Held(m.version, tables', files)
  /\ phase' \in {"recovering", "logging", "installing"} =>
       A \subseteq TablesOf(Rebuilt(version', edit'), tables') \cup
                   UNION {Replay(files[n]) : n \in toReplay'}

TablesNext ==
  phase' = "open" =>
    \A m \in Kept' : TablesOf(version', tables') \subseteq TablesOf(m.version, tables')

(* Durable, part by part, of the next state *)
LEMMA DurableNext ==
  ASSUME mem' \cup imm' \subseteq acked', safe' \subseteq acked' \cap SyncWriters, TablesNext,
         PromiseNext(acked', logs'), PromiseNext(safe', Saved(logs'))
  PROVE  Durable'
<1>1. Promise(acked, logs)'
  BY DEF Promise, PromiseNext
<1>2. Promise(safe, Saved(logs))'
  BY DEF Promise, PromiseNext, Saved
<1> QED
  BY <1>1, <1>2 DEF Durable, TablesNext

(* The logs in files2 hold what those in files hold from the first on. *)
Follow(files, files2, first) ==
  \A n \in DOMAIN files : n >= first =>
    n \in DOMAIN files2 /\ Replay(files[n]) \subseteq Replay(files2[n])

(* What a version and the logs hold, a later version with at least the    *)
(* same tables and the same logs holds                                    *)
LEMMA HeldMono ==
  ASSUME NEW v, NEW u, NEW T, NEW T2, NEW L, NEW L2,
         \A n \in FilesOf(v) : \E k \in FilesOf(u) : T[n] \subseteq T2[k],
         \A n \in DOMAIN L : n >= v.log => n >= u.log, Follow(L, L2, v.log)
  PROVE  Held(v, T, L) \subseteq Held(u, T2, L2)
<1>1. TablesOf(v, T) \subseteq TablesOf(u, T2)
  BY TablesMono
<1>2. LogsOf(v.log, L) \subseteq LogsOf(u.log, L2)
  BY LogsMono DEF Follow
<1> QED
  BY <1>1, <1>2 DEF Held

(* The tables of a version that are still there hold what they held. *)
LEMMA HeldStays ==
  ASSUME NEW v, NEW T, NEW T2, NEW L, NEW L2, \A n \in FilesOf(v) : T2[n] = T[n], Follow(L, L2, v.log)
  PROVE  /\ TablesOf(v, T2) = TablesOf(v, T)
         /\ Held(v, T, L) \subseteq Held(v, T2, L2)
<1>1. TablesOf(v, T2) = TablesOf(v, T)
  BY DEF TablesOf
<1>2. Held(v, T, L) \subseteq Held(v, T2, L2)
  BY HeldMono
<1> QED
  BY <1>1, <1>2

(* What the current log holds is on disk under every version there is. *)
LEMMA CurrentLogHeld ==
  ASSUME Typed, Numbered, phase = "open", NEW L, DOMAIN L = DOMAIN logs
  PROVE  \A v \in {version, manifest.synced.version, manifest.written.version} :
           Replay(L[logNumber]) \subseteq Held(v, tables, L)
<1>1. logNumber \in DOMAIN L
  BY DEF Numbered
<1>2. \A v \in {version, manifest.synced.version, manifest.written.version} : logNumber >= v.log
  BY NumberedTypes DEF Numbered, Kept
<1> QED
  BY <1>1, <1>2 DEF Held, LogsOf

(* What an open database keeps is on disk under each version a crash leaves. *)
LEMMA PromiseOnDisk ==
  ASSUME Typed, Numbered, Durable, NEW A, NEW L, DOMAIN L = DOMAIN logs, Promise(A, L)
  PROVE  \A m \in Kept : A \subseteq Held(m.version, tables, L)
<1>1. CASE phase # "open"
  BY <1>1 DEF Promise
<1>2. CASE phase = "open"
  <2> SUFFICES ASSUME NEW m \in Kept PROVE A \subseteq Held(m.version, tables, L)
    OBVIOUS
  <2>1. m.version \in {version, manifest.synced.version, manifest.written.version}
    BY DEF Kept
  <2>2. /\ A \subseteq mem \cup imm \cup TablesOf(version, tables)
        /\ mem \cap A \subseteq Replay(L[logNumber])
        /\ imm \cap A \subseteq Held(m.version, tables, L)
    BY <1>2, <2>1 DEF Promise
  <2>3. Replay(L[logNumber]) \subseteq Held(m.version, tables, L)
    BY <1>2, <2>1, CurrentLogHeld
  <2>4. TablesOf(version, tables) \subseteq Held(m.version, tables, L)
    BY <1>2 DEF Durable, Held
  <2> QED
    BY <2>2, <2>3, <2>4
<1> QED
  BY <1>1, <1>2

(* Files that are only added to keep every promise. *)
LEMMA Steady ==
  ASSUME Typed, Filed, Numbered, Stopped, Durable,
         UNCHANGED <<phase, mem, imm, version, manifest, logNumber, acked, safe, toReplay, edit>>,
         \A n \in DOMAIN tables : tables'[n] = tables[n],
         Follow(logs, logs', 0), Follow(Saved(logs), Saved(logs'), 0)
  PROVE  Durable'
<1>1. \A n \in DOMAIN logs : n >= 0
  BY DEF Typed, TypedFiles
<1>2. DOMAIN Saved(logs) = DOMAIN logs
  BY DEF Saved
<1>3. Kept' = Kept
  BY DEF Kept
<1>4. \A m \in Kept : FilesOf(m.version) \subseteq DOMAIN tables
  BY DEF Filed
<1>5. phase # "closed" => FilesOf(version) \subseteq DOMAIN tables
  BY DEF Filed
<1>6. phase # "closed" => FilesOf(Rebuilt(version, edit)) \subseteq DOMAIN tables
  BY <1>5 DEF Rebuilt, Version, FilesOf, Typed, TypedFiles
<1>7. ASSUME NEW A, NEW L, NEW L2, DOMAIN L = DOMAIN logs, Follow(L, L2, 0), Promise(A, L)
      PROVE  PromiseNext(A, L2)
  <2>1. ASSUME NEW v, FilesOf(v) \subseteq DOMAIN tables
        PROVE  TablesOf(v, tables') = TablesOf(v, tables) /\ Held(v, tables, L) \subseteq Held(v, tables', L2)
    <3>1. Follow(L, L2, v.log) /\ \A n \in FilesOf(v) : tables'[n] = tables[n]
      BY <1>1, <1>7, <2>1 DEF Follow
    <3> QED
      BY <3>1, HeldStays
  <2>2. CASE phase = "open"
    <3>1. \A v \in {version, manifest.synced.version, manifest.written.version} :
            FilesOf(v) \subseteq DOMAIN tables
      BY <1>4, <1>5, <2>2 DEF Kept
    <3>2. Replay(L[logNumber]) \subseteq Replay(L2[logNumber])
      BY <1>1, <1>7, <2>2 DEF Follow, Numbered
    <3>3. /\ A \subseteq mem \cup imm \cup TablesOf(version, tables')
          /\ mem \cap A \subseteq Replay(L2[logNumber])
      BY <1>7, <2>1, <2>2, <3>1, <3>2 DEF Promise
    <3>4. \A v \in {version, manifest.synced.version, manifest.written.version} :
            imm \cap A \subseteq Held(v, tables', L2)
      BY <1>7, <2>1, <2>2, <3>1 DEF Promise
    <3> QED
      BY <2>2, <3>3, <3>4 DEF PromiseNext
  <2>3. CASE phase # "open"
    <3>1. \A m \in Kept : A \subseteq Held(m.version, tables', L2)
      BY <1>4, <1>7, <2>1, <2>3 DEF Promise
    <3>2. ASSUME phase \in {"recovering", "logging", "installing"}
          PROVE  A \subseteq TablesOf(Rebuilt(version, edit), tables') \cup UNION {Replay(L2[n]) : n \in toReplay}
      <4>1. A \subseteq TablesOf(Rebuilt(version, edit), tables) \cup UNION {Replay(L[n]) : n \in toReplay}
        BY <1>7, <3>2 DEF Promise
      <4>2. TablesOf(Rebuilt(version, edit), tables') = TablesOf(Rebuilt(version, edit), tables)
        BY <1>6, <2>1, <3>2
      <4>3. \A n \in toReplay : Replay(L[n]) \subseteq Replay(L2[n])
        BY <1>1, <1>7 DEF Follow, Typed, TypedFiles
      <4> QED
        BY <4>1, <4>2, <4>3
    <3> QED
      BY <1>3, <2>3, <3>1, <3>2 DEF PromiseNext
  <2> QED
    BY <2>2, <2>3
<1>8. PromiseNext(acked, logs')
  BY <1>7 DEF Durable
<1>9. PromiseNext(safe, Saved(logs'))
  BY <1>2, <1>7 DEF Durable
<1>10. TablesNext
  <2> SUFFICES ASSUME phase = "open", NEW m \in Kept
               PROVE  TablesOf(version, tables') \subseteq TablesOf(m.version, tables')
    BY <1>3 DEF TablesNext
  <2>1. /\ TablesOf(version, tables') = TablesOf(version, tables)
        /\ TablesOf(m.version, tables') = TablesOf(m.version, tables)
    BY <1>4, <1>5 DEF TablesOf
  <2> QED
    BY <2>1 DEF Durable
<1> QED
  BY <1>8, <1>9, <1>10, DurableNext DEF Durable

(* Logs and tables that do not change keep every promise. *)
LEMMA FollowItself == \A files, first : Follow(files, files, first)
BY DEF Follow


(* A log that grows, on disk and in what is synced of it *)
LEMMA OneLogGrows ==
  ASSUME Typed, logNumber \in DOMAIN logs, DOMAIN logs' = DOMAIN logs,
         \A n \in DOMAIN logs : n # logNumber => logs'[n] = logs[n],
         Replay(logs[logNumber]) \subseteq Replay(logs'[logNumber]),
         Replay(Cut(logs[logNumber], logs[logNumber].synced)) \subseteq
           Replay(Cut(logs'[logNumber], logs'[logNumber].synced))
  PROVE  Follow(logs, logs', 0) /\ Follow(Saved(logs), Saved(logs'), 0)
BY DEF Follow, Saved

(* A new log adds nothing and takes nothing away. *)
LEMMA NewLog ==
  ASSUME logs' = With(logs, nextFile, EmptyLog), nextFile \notin DOMAIN logs
  PROVE  /\ Follow(logs, logs', 0) /\ Follow(Saved(logs), Saved(logs'), 0)
         /\ DOMAIN logs \subseteq DOMAIN logs' /\ nextFile \in DOMAIN logs'
<1>1. DOMAIN logs' = DOMAIN logs \cup {nextFile} /\ \A n \in DOMAIN logs : logs'[n] = logs[n]
  BY DEF With
<1> QED
  BY <1>1 DEF Follow, Saved

(* Logs that are deleted are those before the first that is needed. *)
LEMMA OldLogsGo ==
  ASSUME NEW v, NEW outputs, DeleteObsoleteFiles(v, outputs)
  PROVE  Follow(logs, logs', v.log) /\ Follow(Saved(logs), Saved(logs'), v.log)
<1>1. DOMAIN logs' = {n \in DOMAIN logs : n >= v.log} /\ \A n \in DOMAIN logs' : logs'[n] = logs[n]
  BY DeletedFiles
<1> QED
  BY <1>1 DEF Follow, Saved

(* The memtable becomes the immutable one, which its log still holds. *)
LEMMA SwitchDurable ==
  ASSUME Typed, Stopped, Staged, Numbered, Filed, Durable, NEW w \in Writers, SwitchMemTable(w),
         logs' = With(logs, nextFile, EmptyLog), imm' = mem, mem' = {}, logNumber' = nextFile
  PROVE  Durable'
<1>1. /\ phase = "open" /\ phase' = "open" /\ imm = {}
      /\ UNCHANGED <<tables, version, manifest, acked, safe>>
  BY DEF SwitchMemTable, AtMakeRoom, MutexFree, Staged, history, promises
<1>2. nextFile \notin DOMAIN logs /\ logNumber \in DOMAIN logs
  BY <1>1, NumberedTypes DEF Numbered
<1>3. Follow(logs, logs', 0) /\ Follow(Saved(logs), Saved(logs'), 0) /\ DOMAIN Saved(logs) = DOMAIN logs
  BY <1>2, NewLog DEF Saved
<1>4. \A n \in DOMAIN logs : n >= 0
  BY DEF Typed, TypedFiles
<1>5. ASSUME NEW A, NEW L, NEW L2, DOMAIN L = DOMAIN logs, Follow(L, L2, 0), Promise(A, L)
      PROVE  PromiseNext(A, L2)
  <2>1. /\ A \subseteq mem \cup TablesOf(version, tables)
        /\ mem \cap A \subseteq Replay(L[logNumber])
    BY <1>1, <1>5 DEF Promise
  <2>2. ASSUME NEW v \in {version, manifest.synced.version, manifest.written.version}
        PROVE  mem \cap A \subseteq Held(v, tables, L2)
    <3>1. Replay(L[logNumber]) \subseteq Held(v, tables, L)
      BY <1>1, <1>5, CurrentLogHeld
    <3>2. Follow(L, L2, v.log)
      BY <1>4, <1>5 DEF Follow
    <3>3. Held(v, tables, L) \subseteq Held(v, tables, L2)
      BY <3>2, HeldStays
    <3> QED
      BY <2>1, <3>1, <3>3
  <2> QED
    BY <1>1, <2>1, <2>2 DEF PromiseNext
<1>6. PromiseNext(acked, logs') /\ PromiseNext(safe, Saved(logs'))
  BY <1>3, <1>5 DEF Durable
<1>7. TablesNext
  BY <1>1 DEF TablesNext, Kept, Durable
<1> QED
  BY <1>1, <1>6, <1>7, DurableNext DEF Durable

(* A group is answered when its batches are in the log and the memtable. *)
LEMMA CommitDurable ==
  ASSUME Typed, Numbered, GroupLogged, Durable, NEW w \in Writers, FinishGroup(w), outcome = "ok",
         mem' = mem \cup BatchesOf(group), acked' = acked \cup BatchesOf(group),
         safe' = safe \cup (BatchesOf(group) \cap SyncWriters)
  PROVE  Durable'
<1> DEFINE B == BatchesOf(group)
<1>1. /\ phase = "open" /\ phase' = "open"
      /\ UNCHANGED <<imm, tables, version, manifest, logs, logNumber>>
  BY DEF FinishGroup, MutexFree, disk
<1>2. B \subseteq Replay(logs[logNumber]) /\ B \cap SyncWriters \subseteq Replay(Saved(logs)[logNumber])
  BY DEF FinishGroup, GroupLogged
<1> HIDE DEF B
<1>3. ASSUME NEW A, NEW A2, NEW L, DOMAIN L = DOMAIN logs, Promise(A, L),
             A2 \subseteq A \cup B, B \cap A2 \subseteq Replay(L[logNumber])
      PROVE  PromiseNext(A2, L)
  <2>1. /\ A \subseteq mem \cup imm \cup TablesOf(version, tables)
        /\ mem \cap A \subseteq Replay(L[logNumber])
    BY <1>1, <1>3 DEF Promise
  <2>2. A2 \subseteq (mem \cup B) \cup imm \cup TablesOf(version, tables)
    BY <1>3, <2>1
  <2>3. (mem \cup B) \cap A2 \subseteq Replay(L[logNumber])
    BY <1>3, <2>1
  <2>4. ASSUME NEW v \in {version, manifest.synced.version, manifest.written.version}
        PROVE  imm \cap A2 \subseteq Held(v, tables, L)
    <3>1. Replay(L[logNumber]) \subseteq Held(v, tables, L)
      BY <1>1, <1>3, CurrentLogHeld
    <3>2. imm \cap A \subseteq Held(v, tables, L)
      BY <1>1, <1>3 DEF Promise
    <3> QED
      BY <1>3, <3>1, <3>2
  <2>5. mem' = mem \cup B
    BY DEF B
  <2> QED
    BY <1>1, <2>2, <2>3, <2>4, <2>5 DEF PromiseNext
<1>4. acked' = acked \cup B /\ safe' = safe \cup (B \cap SyncWriters) /\ mem' = mem \cup B
  BY DEF B
<1>5. PromiseNext(acked', logs)
  BY <1>2, <1>3, <1>4 DEF Durable
<1>6. PromiseNext(safe', Saved(logs))
  <2>1. DOMAIN Saved(logs) = DOMAIN logs
    BY DEF Saved
  <2>2. safe \subseteq SyncWriters
    BY DEF Durable
  <2>3. B \cap safe' \subseteq Replay(Saved(logs)[logNumber])
    BY <1>2, <1>4, <2>2
  <2> QED
    BY <1>3, <1>4, <2>1, <2>3 DEF Durable
<1>7. TablesNext
  BY <1>1 DEF TablesNext, Kept, Durable
<1>8. mem' \cup imm' \subseteq acked' /\ safe' \subseteq acked' \cap SyncWriters
  BY <1>1, <1>4 DEF Durable
<1> QED
  BY <1>1, <1>5, <1>6, <1>7, <1>8, DurableNext

(* A record of the MANIFEST whose version holds no less, and the memtable  *)
(* as well, breaks no promise.                                             *)
LEMMA RecordDurable ==
  ASSUME Typed, Durable, phase = "open", phase' = "open",
         UNCHANGED <<mem, imm, version, logNumber, logs, tables, acked, safe>>,
         manifest'.synced = manifest.synced,
         TablesOf(version, tables) \subseteq TablesOf(manifest'.written.version, tables),
         \A A, L : Promise(A, L) => imm \cap A \subseteq Held(manifest'.written.version, tables, L)
  PROVE  Durable'
<1>1. ASSUME NEW A, NEW L, Promise(A, L) PROVE PromiseNext(A, L)
  <2>1. /\ A \subseteq mem \cup imm \cup TablesOf(version, tables)
        /\ mem \cap A \subseteq Replay(L[logNumber])
        /\ \A v \in {version, manifest.synced.version} : imm \cap A \subseteq Held(v, tables, L)
    BY <1>1 DEF Promise
  <2>2. imm \cap A \subseteq Held(manifest'.written.version, tables, L)
    BY <1>1
  <2> QED
    BY <2>1, <2>2 DEF PromiseNext
<1>2. PromiseNext(acked, logs) /\ PromiseNext(safe, Saved(logs))
  BY <1>1 DEF Durable
<1>3. TablesNext
  BY DEF TablesNext, Kept, Durable
<1> QED
  BY <1>2, <1>3, DurableNext DEF Durable

(* The record of a flush in the manifest: before it the log has the       *)
(* batches, after it the table                                            *)
LEMMA LogFlushDurable ==
  ASSUME Typed, Numbered, Staged, Filed, Readable, Durable, LogFlush
  PROVE  Durable'
<1>1. /\ phase = "open" /\ phase' = "open" /\ flush.stage = "built"
      /\ AddEdit(Flushed(manifest.written.version))
      /\ UNCHANGED <<mem, imm, version, logNumber, logs, tables, acked, safe>>
  BY DEF LogFlush, MutexFree, memory, numbers, history, promises
<1>2. /\ manifest'.synced = manifest.synced
      /\ manifest'.written.version = Flushed(manifest.written.version)
  BY <1>1, EditAdded
<1>3. FilesOf(manifest'.written.version) =
        FilesOf(manifest.written.version) \cup (IF imm = {} THEN {} ELSE {flush.number})
  BY <1>2, FilesOfEdits
<1>4. tables[flush.number] = imm
  BY <1>1 DEF Filed
<1>5. TablesOf(version, tables) \subseteq TablesOf(manifest'.written.version, tables)
  <2>1. TablesOf(version, tables) \subseteq TablesOf(manifest.written.version, tables)
    BY <1>1 DEF Durable, Kept
  <2>2. TablesOf(manifest.written.version, tables) \subseteq TablesOf(manifest'.written.version, tables)
    BY <1>3, TablesMono
  <2> QED
    BY <2>1, <2>2
<1>6. imm \subseteq TablesOf(manifest'.written.version, tables)
  BY <1>3, <1>4 DEF TablesOf
<1> QED
  BY <1>1, <1>2, <1>5, <1>6, RecordDurable DEF Held

(* The tables of a version hold no more than before the merge than after. *)
LEMMA MergedHolds ==
  ASSUME Filed, merge.stage \in {"built", "logged"}, NEW v
  PROVE  TablesOf(v, tables) \subseteq TablesOf(MergedInto(v), tables)
<1>1. FilesOf(MergedInto(v)) = (FilesOf(v) \ merge.inputs) \cup {merge.number}
  BY FilesOfEdits
<1>2. \A n \in merge.inputs : tables[n] \subseteq tables[merge.number]
  BY DEF Filed
<1>3. \A n \in FilesOf(v) : \E k \in FilesOf(MergedInto(v)) : tables[n] \subseteq tables[k]
  BY <1>1, <1>2
<1> QED
  BY <1>3, TablesMono

(* The record of a merge in the manifest: the output has what the inputs  *)
(* had                                                                    *)
LEMMA LogMergeDurable ==
  ASSUME Typed, Numbered, Staged, Filed, Readable, Durable, LogMerge
  PROVE  Durable'
<1>1. /\ phase = "open" /\ phase' = "open" /\ merge.stage = "built"
      /\ AddEdit(MergedInto(manifest.written.version))
      /\ UNCHANGED <<mem, imm, version, logNumber, logs, tables, acked, safe>>
  BY DEF LogMerge, MutexFree, memory, numbers, history, promises
<1>2. /\ manifest'.synced = manifest.synced
      /\ manifest'.written.version = MergedInto(manifest.written.version)
  BY <1>1, EditAdded
<1>3. TablesOf(version, tables) \subseteq TablesOf(manifest'.written.version, tables)
  <2>1. TablesOf(version, tables) \subseteq TablesOf(manifest.written.version, tables)
    BY <1>1 DEF Durable, Kept
  <2>2. TablesOf(manifest.written.version, tables) \subseteq TablesOf(manifest'.written.version, tables)
    BY <1>1, <1>2, MergedHolds
  <2> QED
    BY <2>1, <2>2
<1>4. manifest'.written.version.log = version.log
  BY <1>2 DEF MergedInto, Version
<1>5. \A L : Held(version, tables, L) \subseteq Held(manifest'.written.version, tables, L)
  BY <1>3, <1>4 DEF Held
<1>6. \A A, L : Promise(A, L) => imm \cap A \subseteq Held(version, tables, L)
  BY <1>1 DEF Promise
<1>7. \A A, L : Promise(A, L) => imm \cap A \subseteq Held(manifest'.written.version, tables, L)
  BY <1>5, <1>6
<1> QED
  BY <1>1, <1>2, <1>3, <1>7, RecordDurable


(* A version that is installed holds all that was in tables, and so does   *)
(* the record of it.                                                       *)
LEMMA InstallDurable ==
  ASSUME Typed, Numbered, Numbered', Durable, phase = "open", phase' = "open",
         UNCHANGED <<mem, logNumber, acked, safe>>, imm' \subseteq imm,
         manifest'.synced = manifest.written, manifest'.written = manifest.written,
         TablesOf(version', tables) \subseteq TablesOf(manifest.written.version, tables),
         \A n \in FilesOf(version') \cup FilesOf(manifest.written.version) : tables'[n] = tables[n],
         imm \cup TablesOf(version, tables) \subseteq imm' \cup TablesOf(version', tables),
         \A v \in {version', manifest.written.version} :
           Follow(logs, logs', v.log) /\ Follow(Saved(logs), Saved(logs'), v.log),
         imm' # {} => /\ TablesOf(version, tables) \subseteq TablesOf(version', tables)
                      /\ version'.log = version.log
  PROVE  Durable'
<1>1. /\ TablesOf(version', tables') = TablesOf(version', tables)
      /\ TablesOf(manifest.written.version, tables') = TablesOf(manifest.written.version, tables)
  BY DEF TablesOf
<1>2. TablesNext
  BY <1>1 DEF TablesNext, Kept
<1>3. ASSUME NEW A, NEW L, NEW L2, Promise(A, L), logNumber \in DOMAIN L, version'.log <= logNumber,
             \A v \in {version', manifest.written.version} : Follow(L, L2, v.log)
      PROVE  PromiseNext(A, L2)
  <2>1. /\ A \subseteq mem \cup imm \cup TablesOf(version, tables)
        /\ mem \cap A \subseteq Replay(L[logNumber])
        /\ \A v \in {version, manifest.written.version} : imm \cap A \subseteq Held(v, tables, L)
    BY <1>3 DEF Promise
  <2>2. Replay(L[logNumber]) \subseteq Replay(L2[logNumber])
    <3>1. logNumber >= version'.log
      BY <1>3
    <3> QED
      BY <1>3, <3>1 DEF Follow
  <2>3. A \subseteq mem' \cup imm' \cup TablesOf(version', tables')
    BY <1>1, <2>1
  <2>4. mem' \cap A \subseteq Replay(L2[logNumber'])
    BY <2>1, <2>2
  <2>5. imm' \cap A \subseteq Held(manifest.written.version, tables', L2)
    <3>1. Held(manifest.written.version, tables, L) \subseteq Held(manifest.written.version, tables', L2)
      BY <1>3, HeldStays
    <3> QED
      BY <2>1, <3>1
  <2>6. imm' \cap A \subseteq Held(version', tables', L2)
    <3>1. CASE imm' = {}
      BY <3>1
    <3>2. CASE imm' # {}
      <4>1. Held(version, tables, L) \subseteq Held(version', tables, L)
        BY <3>2 DEF Held
      <4>2. Held(version', tables, L) \subseteq Held(version', tables', L2)
        BY <1>3, HeldStays
      <4> QED
        BY <2>1, <4>1, <4>2
    <3> QED
      BY <3>1, <3>2
  <2> QED
    BY <2>3, <2>4, <2>5, <2>6 DEF PromiseNext
<1>4. version'.log <= logNumber
  BY DEF Numbered
<1>5. logNumber \in DOMAIN logs /\ DOMAIN Saved(logs) = DOMAIN logs
  BY DEF Saved, Numbered
<1>6. PromiseNext(acked, logs')
  BY <1>3, <1>4, <1>5 DEF Durable
<1>7. PromiseNext(safe, Saved(logs'))
  BY <1>3, <1>4, <1>5 DEF Durable
<1>8. mem' \cup imm' \subseteq acked' /\ safe' \subseteq acked' \cap SyncWriters
  BY DEF Durable
<1> QED
  BY <1>2, <1>6, <1>7, <1>8, DurableNext


(* An installation deletes no table of the versions that are left. *)
LEMMA InstalledTables ==
  ASSUME Filed', phase' # "closed", InstallFlush \/ InstallMerge \/ InstallRecovery
  PROVE  \A n \in FilesOf(version') \cup FilesOf(manifest'.synced.version)
                 \cup FilesOf(manifest'.written.version) : tables'[n] = tables[n]
<1>1. UNCHANGED <<logs, tables>> \/ \E v, outputs : DeleteObsoleteFiles(v, outputs)
  BY DEF InstallFlush, InstallMerge, InstallRecovery
<1>2. \A n \in DOMAIN tables' : tables'[n] = tables[n]
  BY <1>1, DeletedFiles
<1>3. /\ FilesOf(version') \subseteq DOMAIN tables'
      /\ FilesOf(manifest'.synced.version) \subseteq DOMAIN tables'
      /\ FilesOf(manifest'.written.version) \subseteq DOMAIN tables'
  BY DEF Filed, Kept
<1> QED
  BY <1>2, <1>3

(* The installation of a flush removes the old log, whose batches are in  *)
(* the table                                                              *)
LEMMA InstallFlushDurable ==
  ASSUME Typed, Numbered, Staged, Filed, Readable, Durable, InstallFlush, Numbered', Filed'
  PROVE  Durable'
<1>1. /\ phase = "open" /\ phase' = "open" /\ flush.stage = "logged"
      /\ version' = Flushed(version) /\ imm' = {}
      /\ manifest' = [manifest EXCEPT !.synced = manifest.written]
      /\ UNCHANGED <<mem, logNumber, acked, safe>>
  BY DEF InstallFlush, MutexFree, numbers, history, promises
<1>2. manifest'.synced = manifest.written /\ manifest'.written = manifest.written
  BY <1>1 DEF Typed, TypedVersions
<1>3. FilesOf(version') = FilesOf(version) \cup (IF imm = {} THEN {} ELSE {flush.number})
  BY <1>1, FilesOfEdits
<1>4. tables[flush.number] = imm /\ (imm # {} => flush.number \in FilesOf(manifest.written.version))
  BY <1>1 DEF Filed, Readable, Kept
<1>5. imm \cup TablesOf(version, tables) \subseteq imm' \cup TablesOf(version', tables)
  BY <1>3, <1>4 DEF TablesOf
<1>6. TablesOf(version', tables) \subseteq TablesOf(manifest.written.version, tables)
  <2>1. TablesOf(version, tables) \subseteq TablesOf(manifest.written.version, tables)
    BY <1>1 DEF Durable, Kept
  <2>2. TablesOf(version', tables) = TablesOf(version, tables) \cup imm
    BY <1>3, <1>4 DEF TablesOf
  <2>3. imm \subseteq TablesOf(manifest.written.version, tables)
    BY <1>4 DEF TablesOf
  <2> QED
    BY <2>1, <2>2, <2>3
<1>7. \A n \in FilesOf(version') \cup FilesOf(manifest.written.version) : tables'[n] = tables[n]
  BY <1>1, <1>2, InstalledTables
<1>8. \A v \in {version', manifest.written.version} :
        Follow(logs, logs', v.log) /\ Follow(Saved(logs), Saved(logs'), v.log)
  <2>1. CASE bgError
    BY <2>1, FollowItself DEF InstallFlush
  <2>2. CASE ~bgError
    <3>1. manifest.written.version = version'
      BY <1>1, <2>2 DEF Filed, Pending
    <3>2. DeleteObsoleteFiles(version', {merge.number})
      BY <1>1, <2>2 DEF InstallFlush
    <3>3. Follow(logs, logs', version'.log) /\ Follow(Saved(logs), Saved(logs'), version'.log)
      BY <3>2, OldLogsGo
    <3> QED
      BY <3>1, <3>3
  <2> QED
    BY <2>1, <2>2
<1> QED
  BY <1>1, <1>2, <1>5, <1>6, <1>7, <1>8, InstallDurable

(* The installation of a merge removes the inputs, whose batches are in   *)
(* the output                                                             *)
LEMMA InstallMergeDurable ==
  ASSUME Typed, Numbered, Staged, Filed, Readable, Durable, InstallMerge, Numbered', Filed'
  PROVE  Durable'
<1>1. /\ phase = "open" /\ phase' = "open" /\ merge.stage = "logged"
      /\ version' = MergedInto(version)
      /\ manifest' = [manifest EXCEPT !.synced = manifest.written]
      /\ UNCHANGED <<mem, imm, logNumber, acked, safe>>
  BY DEF InstallMerge, MutexFree, numbers, memory, history, promises
<1>2. manifest'.synced = manifest.written /\ manifest'.written = manifest.written
  BY <1>1 DEF Typed, TypedVersions
<1>3. FilesOf(version') = (FilesOf(version) \ merge.inputs) \cup {merge.number} /\ version'.log = version.log
  BY <1>1, FilesOfEdits DEF MergedInto, Version
<1>4. merge.number \in FilesOf(manifest.written.version)
  BY <1>1 DEF Filed, Readable, Kept
<1>5. TablesOf(version, tables) \subseteq TablesOf(version', tables)
  BY <1>1, MergedHolds
<1>6. TablesOf(version', tables) \subseteq TablesOf(manifest.written.version, tables)
  <2>1. TablesOf(version, tables) \subseteq TablesOf(manifest.written.version, tables)
    BY <1>1 DEF Durable, Kept
  <2>2. TablesOf(version', tables) \subseteq TablesOf(version, tables) \cup tables[merge.number]
    BY <1>3 DEF TablesOf
  <2>3. tables[merge.number] \subseteq TablesOf(manifest.written.version, tables)
    BY <1>4 DEF TablesOf
  <2> QED
    BY <2>1, <2>2, <2>3
<1>7. \A n \in FilesOf(version') \cup FilesOf(manifest.written.version) : tables'[n] = tables[n]
  BY <1>1, <1>2, InstalledTables
<1>8. \A v \in {version', manifest.written.version} :
        Follow(logs, logs', v.log) /\ Follow(Saved(logs), Saved(logs'), v.log)
  <2>1. CASE bgError
    BY <2>1, FollowItself DEF InstallMerge
  <2>2. CASE ~bgError
    <3>1. manifest.written.version = version'
      <4>1. flush.stage # "logged"
        BY <1>1 DEF Staged, NoFlush
      <4> QED
        BY <1>1, <2>2, <4>1 DEF Filed, Pending
    <3>2. DeleteObsoleteFiles(version', {})
      BY <1>1, <2>2 DEF InstallMerge
    <3>3. Follow(logs, logs', version'.log) /\ Follow(Saved(logs), Saved(logs'), version'.log)
      BY <3>2, OldLogsGo
    <3> QED
      BY <3>1, <3>3
  <2> QED
    BY <2>1, <2>2
<1>9. imm \cup TablesOf(version, tables) \subseteq imm' \cup TablesOf(version', tables)
  BY <1>1, <1>5
<1> QED
  BY <1>1, <1>2, <1>3, <1>5, <1>6, <1>7, <1>8, <1>9, InstallDurable

(* The end of the process: the files have it all. *)
LEMMA EndDurable ==
  ASSUME Typed, Numbered, Durable, Close \/ ProcessCrash \/ NullDereference
  PROVE  Durable'
<1>1. EndedFiles /\ UNCHANGED <<logs, acked, safe>> /\ mem' = {} /\ imm' = {}
  BY EndFiles DEF Close, ProcessCrash, NullDereference, EndProcess, LoseMemory, history, promises
<1>2. DOMAIN Saved(logs) = DOMAIN logs
  BY DEF Saved
<1>3. ASSUME NEW A, NEW L, DOMAIN L = DOMAIN logs, Promise(A, L) PROVE PromiseNext(A, L)
  <2>1. \A m \in Kept : A \subseteq Held(m.version, tables, L)
    BY <1>3, PromiseOnDisk
  <2> QED
    BY <1>1, <2>1 DEF EndedFiles, NothingNew, PromiseNext, Held
<1>4. PromiseNext(acked, logs) /\ PromiseNext(safe, Saved(logs))
  BY <1>2, <1>3 DEF Durable
<1>5. TablesNext
  BY <1>1 DEF EndedFiles, TablesNext
<1> QED
  BY <1>1, <1>4, <1>5, DurableNext DEF Durable

(* The end of the machine: what was synced is there, and what is not there *)
(* is no longer promised.                                                  *)
LEMMA MachineCrashDurable ==
  ASSUME Typed, Intact, Numbered, Readable, Durable, MachineCrash
  PROVE  Durable'
<1>1. PICK m \in Kept, kept \in [DOMAIN logs -> 0..Cardinality(Writers)] :
        /\ \A n \in DOMAIN logs : kept[n] \in logs[n].synced..Len(logs[n].records)
        /\ manifest' = [synced |-> m, written |-> m]
        /\ logs' = [n \in DOMAIN logs |-> Cut(logs[n], kept[n])]
        /\ acked' = acked \cap Recoverable(m, [n \in DOMAIN logs |-> Cut(logs[n], kept[n])])
  BY DEF MachineCrash, Kept
<1>2. phase' = "closed" /\ mem' = {} /\ imm' = {} /\ UNCHANGED <<tables, safe>>
  BY DEF MachineCrash, LoseMemory
<1>3. Kept' = {m}
  BY <1>1 DEF Kept
<1>4. ASSUME NEW n \in DOMAIN logs
      PROVE  /\ Replay(Cut(logs[n], logs[n].synced)) \subseteq Replay(logs'[n])
             /\ Replay(Cut(logs'[n], logs'[n].synced)) = Replay(logs'[n])
  <2>1. logs[n] \in LogFiles /\ IntactLog(logs[n]) /\ logs'[n] = Cut(logs[n], kept[n])
    BY <1>1 DEF Intact, Typed, TypedFiles
  <2>2. kept[n] \in 0..Len(logs[n].records) /\ logs[n].synced \in 0..kept[n]
    BY <1>1, <2>1 DEF LogFiles
  <2>3. Replay(Cut(logs[n], logs[n].synced)) \subseteq Replay(logs'[n])
    BY <2>1, <2>2, ReplayMono
  <2>4. /\ logs'[n] \in LogFiles /\ IntactLog(logs'[n]) /\ Len(logs'[n].records) = kept[n]
        /\ logs'[n].synced = kept[n]
    BY <2>1, <2>2, ReplayIs, CutTyped
  <2>5. kept[n] \in 0..Len(logs'[n].records)
    BY <2>2, <2>4
  <2>6. Replay(Cut(logs'[n], logs'[n].synced)) = Replay(logs'[n])
    BY <2>4, <2>5, ReplayIs
  <2> QED
    BY <2>3, <2>6
<1>5. DOMAIN logs' = DOMAIN logs /\ DOMAIN Saved(logs) = DOMAIN logs /\ DOMAIN Saved(logs') = DOMAIN logs
  BY <1>1 DEF Saved
<1>6. Follow(Saved(logs), Saved(logs'), m.version.log)
  BY <1>4, <1>5 DEF Follow, Saved
<1>7. Follow(Saved(logs), logs', m.version.log)
  BY <1>4, <1>5 DEF Follow, Saved
<1>8. safe \subseteq Held(m.version, tables, Saved(logs))
  BY <1>1, <1>5, PromiseOnDisk DEF Durable
<1>9. /\ Held(m.version, tables, Saved(logs)) \subseteq Held(m.version, tables, Saved(logs'))
      /\ Held(m.version, tables, Saved(logs)) \subseteq Held(m.version, tables, logs')
  BY <1>6, <1>7, HeldStays
<1>10. acked' = acked \cap Held(m.version, tables, logs')
  <2>1. acked' = acked \cap OnDisk(m.version, logs')
    BY <1>1 DEF Recoverable, Readable
  <2> QED
    BY <2>1, OnDiskIs
<1>11. PromiseNext(acked', logs') /\ PromiseNext(safe', Saved(logs'))
  BY <1>2, <1>3, <1>8, <1>9, <1>10 DEF PromiseNext
<1>12. TablesNext
  BY <1>2 DEF TablesNext
<1>13. safe' \subseteq acked' \cap SyncWriters
  BY <1>2, <1>8, <1>9, <1>10 DEF Durable
<1> QED
  BY <1>2, <1>11, <1>12, <1>13, DurableNext


(* An open that fails leaves the files as they are. *)
LEMMA OpenFailsDurable ==
  ASSUME Durable, phase # "open", phase' = "closed",
         UNCHANGED <<mem, imm, manifest, logs, tables, acked, safe>>
  PROVE  Durable'
<1>1. PromiseNext(acked, logs) /\ PromiseNext(safe, Saved(logs))
  BY DEF Durable, Promise, PromiseNext, Kept
<1>2. TablesNext
  BY DEF TablesNext
<1> QED
  BY <1>1, <1>2, DurableNext DEF Durable

(* Recover replays the logs into a table and loses nothing by it *)
LEMMA RecoverDurable ==
  ASSUME Typed, Stopped, Durable, Recover
  PROVE  Durable'
<1>1. /\ phase = "closed" /\ phase' = "recovering" /\ version' = manifest.written.version /\ edit' = {}
      /\ toReplay' = {n \in DOMAIN logs : n >= manifest.written.version.log}
      /\ UNCHANGED <<mem, imm, manifest, logs, tables, acked, safe>>
  BY DEF Recover, LogsToReplay, disk, memory, history, promises
<1>2. FilesOf(Rebuilt(version', edit')) = FilesOf(version')
  BY <1>1 DEF Rebuilt, Version, FilesOf
<1>3. ASSUME NEW A, NEW L, DOMAIN L = DOMAIN logs, Promise(A, L) PROVE PromiseNext(A, L)
  <2>1. \A m \in Kept : A \subseteq Held(m.version, tables, L)
    BY <1>1, <1>3 DEF Promise
  <2>2. A \subseteq Held(version', tables, L)
    BY <1>1, <2>1 DEF Kept
  <2>3. LogsOf(version'.log, L) = UNION {Replay(L[n]) : n \in toReplay'}
    BY <1>1, <1>3 DEF LogsOf
  <2>4. TablesOf(Rebuilt(version', edit'), tables) = TablesOf(version', tables)
    BY <1>2 DEF TablesOf
  <2>5. A \subseteq TablesOf(Rebuilt(version', edit'), tables) \cup UNION {Replay(L[n]) : n \in toReplay'}
    BY <2>2, <2>3, <2>4 DEF Held
  <2>6. Kept' = Kept
    BY <1>1 DEF Kept
  <2> QED
    BY <1>1, <2>1, <2>5, <2>6 DEF PromiseNext
<1>4. DOMAIN Saved(logs) = DOMAIN logs
  BY DEF Saved
<1>5. PromiseNext(acked, logs) /\ PromiseNext(safe, Saved(logs))
  BY <1>3, <1>4 DEF Durable
<1>6. TablesNext
  BY <1>1 DEF TablesNext
<1> QED
  BY <1>1, <1>5, <1>6, DurableNext DEF Durable

(* A log that has been read is a table. *)
LEMMA RecoverLogDurable ==
  ASSUME Typed, Stopped, Numbered, Filed, Intact, Durable, RecoverLogFile
  PROVE  Durable'
<1> DEFINE n == Smallest(toReplay)
           batches == Replay(logs[n])
<1>1. phase = "recovering" /\ UNCHANGED <<mem, imm, version, manifest, logs, acked, safe>>
  BY DEF RecoverLogFile, memory, history, promises
<1>2. n \in toReplay /\ n \in DOMAIN logs
  BY SmallestExists, NumberedTypes DEF RecoverLogFile, Typed, TypedFiles
<1>3. \/ phase' = "closed" /\ UNCHANGED tables
      \/ /\ phase' = "recovering" /\ toReplay' = toReplay \ {n}
         /\ \/ batches = {} /\ UNCHANGED <<tables, edit>>
            \/ tables' = With(tables, nextFile, batches) /\ edit' = edit \cup {nextFile}
  BY <1>1 DEF RecoverLogFile
<1> HIDE DEF n, batches
<1>4. CASE phase' = "closed" /\ UNCHANGED tables
  BY <1>1, <1>4, OpenFailsDurable
<1>5. CASE /\ phase' = "recovering" /\ toReplay' = toReplay \ {n}
           /\ \/ batches = {} /\ UNCHANGED <<tables, edit>>
              \/ tables' = With(tables, nextFile, batches) /\ edit' = edit \cup {nextFile}
  <2>1. \A m \in Kept : nextFile \notin FilesOf(m.version)
    BY <1>1, NumberedTypes DEF Numbered, FilesBelow
  <2>2. nextFile \notin FilesOf(version) /\ nextFile \notin edit
    BY <1>1, NumberedTypes DEF Numbered, FilesBelow
  <2>3. \A k : (k \in FilesOf(version) \cup edit \/ \E m \in Kept : k \in FilesOf(m.version)) =>
          (k \in DOMAIN tables => tables'[k] = tables[k])
    <3>1. \A k \in DOMAIN tables : k # nextFile => tables'[k] = tables[k]
      BY <1>5, NewTable
    <3> QED
      BY <2>1, <2>2, <3>1
  <2>4. /\ \A m \in Kept : FilesOf(m.version) \subseteq DOMAIN tables
        /\ FilesOf(version) \cup edit \subseteq DOMAIN tables
    BY <1>1 DEF Filed, Typed, TypedFiles
  <2>5. Kept' = Kept
    BY <1>1 DEF Kept
  <2>6. \A m \in Kept : TablesOf(m.version, tables') = TablesOf(m.version, tables)
    BY <2>3, <2>4 DEF TablesOf
  <2>7. FilesOf(Rebuilt(version, edit)) = FilesOf(version) \cup edit
    BY DEF Rebuilt, Version, FilesOf
  <2>8. FilesOf(Rebuilt(version, edit')) = FilesOf(version) \cup edit'
    BY DEF Rebuilt, Version, FilesOf
  <2>9. TablesOf(Rebuilt(version, edit), tables) \subseteq TablesOf(Rebuilt(version, edit'), tables')
    BY <1>5, <2>3, <2>4, <2>7, <2>8 DEF TablesOf
  <2>10. batches \subseteq TablesOf(Rebuilt(version, edit'), tables')
    <3>1. batches = {} \/ (nextFile \in FilesOf(Rebuilt(version, edit')) /\ tables'[nextFile] = batches)
      BY <1>5, <2>8, NewTable
    <3> QED
      BY <3>1 DEF TablesOf
  <2>11. ASSUME NEW A, NEW L, Replay(L[n]) \subseteq batches, Promise(A, L) PROVE PromiseNext(A, L)
    <3>1. A \subseteq TablesOf(Rebuilt(version, edit), tables) \cup UNION {Replay(L[k]) : k \in toReplay}
      BY <1>1, <2>11 DEF Promise
    <3>2. UNION {Replay(L[k]) : k \in toReplay} \subseteq
            batches \cup UNION {Replay(L[k]) : k \in toReplay \ {n}}
      BY <2>11
    <3>3. A \subseteq TablesOf(Rebuilt(version, edit'), tables') \cup
                      UNION {Replay(L[k]) : k \in toReplay \ {n}}
      BY <2>9, <2>10, <3>1, <3>2
    <3>4. \A m \in Kept : A \subseteq Held(m.version, tables', L)
      BY <1>1, <2>6, <2>11 DEF Promise, Held
    <3> QED
      BY <1>1, <1>5, <2>5, <3>3, <3>4 DEF PromiseNext
  <2>12. Replay(Saved(logs)[n]) \subseteq batches
    <3>1. logs[n] \in LogFiles /\ IntactLog(logs[n])
      BY <1>2 DEF Intact, Typed, TypedFiles
    <3>2. logs[n].synced \in 0..Len(logs[n].records) /\ logs[n].synced \in 0..logs[n].synced
      BY <3>1 DEF LogFiles, IntactLog
    <3> QED
      BY <1>2, <3>1, <3>2, ReplayMono DEF Saved, batches
  <2>13. PromiseNext(acked, logs) /\ PromiseNext(safe, Saved(logs))
    BY <2>11, <2>12 DEF Durable, batches
  <2>14. TablesNext
    BY <1>5 DEF TablesNext
  <2> QED
    BY <1>1, <2>13, <2>14, DurableNext DEF Durable
<1> QED
  BY <1>3, <1>4, <1>5

(* The new log of a recovery is empty and takes nothing away *)
LEMMA CreateLogDurable ==
  ASSUME Typed, Stopped, Numbered, Durable, CreateLog
  PROVE  Durable'
<1>1. /\ phase = "recovering" /\ toReplay = {}
      /\ UNCHANGED <<mem, imm, version, manifest, tables, acked, safe, toReplay, edit>>
  BY DEF CreateLog, memory, history, promises, opening
<1>2. CASE phase' = "closed" /\ UNCHANGED logs
  BY <1>1, <1>2, OpenFailsDurable
<1>3. CASE phase' = "logging" /\ logs' = With(logs, nextFile, EmptyLog)
  <2>1. nextFile \notin DOMAIN logs
    BY <1>1, NumberedTypes DEF Numbered
  <2>2. Follow(logs, logs', 0) /\ Follow(Saved(logs), Saved(logs'), 0) /\ DOMAIN Saved(logs) = DOMAIN logs
    BY <1>3, <2>1, NewLog DEF Saved
  <2>3. \A k \in DOMAIN logs : k >= 0
    BY DEF Typed, TypedFiles
  <2>4. ASSUME NEW A, NEW L, NEW L2, DOMAIN L = DOMAIN logs, Follow(L, L2, 0), Promise(A, L)
        PROVE  PromiseNext(A, L2)
    <3>1. A \subseteq TablesOf(Rebuilt(version, edit), tables)
      BY <1>1, <2>4 DEF Promise
    <3>2. ASSUME NEW m \in Kept PROVE A \subseteq Held(m.version, tables, L2)
      <4>1. Follow(L, L2, m.version.log)
        BY <2>3, <2>4 DEF Follow
      <4>2. Held(m.version, tables, L) \subseteq Held(m.version, tables, L2)
        BY <4>1, HeldStays
      <4> QED
        BY <1>1, <2>4, <4>2 DEF Promise
    <3> QED
      BY <1>1, <1>3, <3>1, <3>2 DEF PromiseNext, Kept
  <2>5. PromiseNext(acked, logs') /\ PromiseNext(safe, Saved(logs'))
    BY <2>2, <2>4 DEF Durable
  <2>6. TablesNext
    BY <1>3 DEF TablesNext
  <2> QED
    BY <1>1, <2>5, <2>6, DurableNext DEF Durable
<1> QED
  BY <1>2, <1>3 DEF CreateLog

(* When no log is left to read, the recovered tables hold it all. *)
LEMMA AllRebuilt ==
  ASSUME Stopped, phase \in {"logging", "installing"}, NEW A, NEW L, Promise(A, L)
  PROVE  A \subseteq TablesOf(Recovered, tables)
<1>1. A \subseteq TablesOf(Rebuilt(version, edit), tables)
  BY DEF Stopped, Promise
<1>2. FilesOf(Rebuilt(version, edit)) = FilesOf(Recovered)
  BY DEF Rebuilt, Recovered, Version, FilesOf
<1> QED
  BY <1>1, <1>2 DEF TablesOf

(* The record of a recovery in the manifest makes the replayed table part *)
(* of the version                                                         *)
LEMMA LogRecoveryDurable ==
  ASSUME Typed, Stopped, Numbered, Durable, LogRecovery
  PROVE  Durable'
<1>1. /\ phase = "logging" /\ UNCHANGED <<mem, imm, version, logs, tables, acked, safe, toReplay>>
  BY DEF LogRecovery, memory, history, promises
<1>2. CASE phase' = "closed" /\ UNCHANGED manifest
  BY <1>1, <1>2, OpenFailsDurable
<1>3. CASE /\ phase' = "installing" /\ UNCHANGED edit
           /\ manifest' = [manifest EXCEPT !.written = Logged(Recovered)]
  <2>1. manifest'.synced = manifest.synced /\ manifest'.written.version = Recovered
    BY <1>3 DEF Logged, Typed, TypedVersions
  <2>2. ASSUME NEW A, NEW L, Promise(A, L) PROVE PromiseNext(A, L)
    <3>1. A \subseteq Held(Recovered, tables, L)
      BY <1>1, <2>2, AllRebuilt DEF Held
    <3>2. A \subseteq Held(manifest.synced.version, tables, L)
      BY <1>1, <2>2 DEF Promise, Kept
    <3>3. A \subseteq TablesOf(Rebuilt(version, edit), tables) \cup UNION {Replay(L[k]) : k \in toReplay}
      BY <1>1, <2>2 DEF Promise
    <3> QED
      BY <1>1, <1>3, <2>1, <3>1, <3>2, <3>3 DEF PromiseNext, Kept
  <2>3. PromiseNext(acked, logs) /\ PromiseNext(safe, Saved(logs))
    BY <2>2 DEF Durable
  <2>4. TablesNext
    BY <1>3 DEF TablesNext
  <2> QED
    BY <1>1, <2>3, <2>4, DurableNext DEF Durable
<1> QED
  BY <1>2, <1>3 DEF LogRecovery

(* The end of a recovery removes the logs that were replayed *)
LEMMA InstallRecoveryDurable ==
  ASSUME Typed, Stopped, Numbered, Durable, InstallRecovery, Filed'
  PROVE  Durable'
<1>1. /\ phase = "installing" /\ phase' = "open" /\ version' = Recovered
      /\ manifest' = [manifest EXCEPT !.synced = manifest.written]
      /\ mem = {} /\ imm = {} /\ UNCHANGED <<mem, imm, acked, safe>>
  BY DEF InstallRecovery, Stopped, memory, history, promises
<1>2. manifest'.synced = manifest.written /\ manifest'.written = manifest.written
  BY <1>1 DEF Typed, TypedVersions
<1>3. manifest.written.version = version'
  BY <1>1 DEF Numbered
<1>4. \A n \in FilesOf(version') : tables'[n] = tables[n]
  BY <1>1, InstalledTables
<1>5. TablesOf(version', tables') = TablesOf(version', tables)
  BY <1>4 DEF TablesOf
<1>6. ASSUME NEW A, NEW L, NEW L2, Promise(A, L) PROVE PromiseNext(A, L2)
  <2>1. A \subseteq TablesOf(version', tables')
    BY <1>1, <1>5, <1>6, AllRebuilt
  <2> QED
    BY <1>1, <2>1 DEF PromiseNext
<1>7. PromiseNext(acked, logs') /\ PromiseNext(safe, Saved(logs'))
  BY <1>6 DEF Durable
<1>8. TablesNext
  BY <1>2, <1>3 DEF TablesNext, Kept
<1> QED
  BY <1>1, <1>7, <1>8, DurableNext DEF Durable


(* No step breaks a promise. *)
LEMMA DurableStep ==
  ASSUME Typed, Stopped, Staged, Numbered, Filed, Readable, Intact, GroupLogged, Durable,
         NoPartWritten, Numbered', Filed', [Next]_vars
  PROVE  Durable'
<1>1. ASSUME NEW w \in Writers, Enqueue(w) PROVE Durable'
  <2>1. UNCHANGED <<phase, mem, imm, version, manifest, logNumber, acked, safe, toReplay, edit,
                    logs, tables>>
    BY <1>1 DEF Enqueue, memory, opening, history, promises, numbers, disk
  <2> QED
    BY <2>1, Steady, FollowItself
<1>2. ASSUME NEW w \in Writers, WriteRefused(w) PROVE Durable'
  <2>1. UNCHANGED <<phase, mem, imm, version, manifest, logNumber, acked, safe, toReplay, edit,
                    logs, tables>>
    BY <1>2 DEF WriteRefused, memory, opening, history, promises, numbers, disk
  <2> QED
    BY <2>1, Steady, FollowItself
<1>3. ASSUME NEW w \in Writers, BeginGroup(w) PROVE Durable'
  <2>1. UNCHANGED <<phase, mem, imm, version, manifest, logNumber, acked, safe, toReplay, edit,
                    logs, tables>>
    BY <1>3 DEF BeginGroup, memory, opening, history, promises, numbers, disk
  <2> QED
    BY <2>1, Steady, FollowItself
<1>4. ASSUME NEW w \in Writers, Stall(w) PROVE Durable'
  <2>1. UNCHANGED <<phase, mem, imm, version, manifest, logNumber, acked, safe, toReplay, edit,
                    logs, tables>>
    BY <1>4 DEF Stall, memory, opening, history, promises, numbers, disk
  <2> QED
    BY <2>1, Steady, FollowItself
<1>5. ASSUME NEW w \in Writers, SwitchMemTable(w) PROVE Durable'
  <2>1. CASE /\ logs' = With(logs, nextFile, EmptyLog) /\ imm' = mem /\ mem' = {}
             /\ logNumber' = nextFile
    BY <1>5, <2>1, SwitchDurable
  <2>2. CASE UNCHANGED <<logs, memory, logNumber>>
    <3>1. UNCHANGED <<phase, mem, imm, version, manifest, logNumber, acked, safe, toReplay, edit,
                      logs, tables>>
      BY <1>5, <2>2 DEF SwitchMemTable, memory, opening, history, promises
    <3> QED
      BY <3>1, Steady, FollowItself
  <2> QED
    BY <1>5, <2>1, <2>2 DEF SwitchMemTable
<1>6. ASSUME NEW w \in Writers, AddRecord(w) PROVE Durable'
  <2>1. /\ phase = "open"
        /\ UNCHANGED <<phase, mem, imm, version, manifest, logNumber, acked, safe, toReplay, edit, tables>>
    BY <1>6 DEF AddRecord, memory, opening, history, promises, numbers
  <2>2. CASE UNCHANGED logs
    BY <2>1, <2>2, Steady, FollowItself
  <2>3. CASE AppendRecord(TRUE)
    <3>1. logNumber \in DOMAIN logs
      BY <2>1 DEF Numbered
    <3>2. /\ DOMAIN logs' = DOMAIN logs /\ logs' \in [DOMAIN logs -> LogFiles]
          /\ \A n \in DOMAIN logs : n # logNumber => logs'[n] = logs[n]
          /\ logs'[logNumber].records = Append(logs[logNumber].records, Record(TRUE))
          /\ logs'[logNumber].synced = logs[logNumber].synced
      BY <2>3, <3>1, AppendsRecord
    <3>3. Record(TRUE) \in Records /\ Record(TRUE).whole
      BY DEF Record, Records, BatchesOf
    <3>4. logs[logNumber] \in LogFiles /\ IntactLog(logs[logNumber]) /\ logs'[logNumber] \in LogFiles
      BY <3>1, <3>2 DEF Intact, Typed, TypedFiles
    <3>5. /\ Replay(logs'[logNumber]) = Replay(logs[logNumber]) \cup Record(TRUE).batches
          /\ Replay(Cut(logs'[logNumber], logs'[logNumber].synced)) =
               Replay(Cut(logs[logNumber], logs[logNumber].synced))
      <4> DEFINE log == logs[logNumber]
                 log2 == logs'[logNumber]
                 r == Record(TRUE)
      <4>1. /\ log \in LogFiles /\ IntactLog(log) /\ r \in Records /\ r.whole /\ log2 \in LogFiles
            /\ log2.records = Append(log.records, r) /\ log2.synced = log.synced
        BY <3>2, <3>3, <3>4
      <4> HIDE DEF log, log2, r
      <4>2. /\ Replay(log2) = Replay(log) \cup r.batches
            /\ Replay(Cut(log2, log2.synced)) = Replay(Cut(log, log.synced))
        BY <4>1, ReplayAppended
      <4> QED
        BY <4>2 DEF log, log2, r
    <3>6. /\ Replay(logs[logNumber]) \subseteq Replay(logs'[logNumber])
          /\ Replay(Cut(logs[logNumber], logs[logNumber].synced)) \subseteq
               Replay(Cut(logs'[logNumber], logs'[logNumber].synced))
      BY <3>5
    <3>7. Follow(logs, logs', 0) /\ Follow(Saved(logs), Saved(logs'), 0)
      BY <3>1, <3>2, <3>6, OneLogGrows
    <3> QED
      BY <2>1, <3>7, Steady
  <2> QED
    BY <1>6, <2>2, <2>3, AddsWhole
<1>7. ASSUME NEW w \in Writers, SyncLog(w) PROVE Durable'
  <2>1. /\ phase = "open"
        /\ UNCHANGED <<phase, mem, imm, version, manifest, logNumber, acked, safe, toReplay, edit, tables>>
    BY <1>7 DEF SyncLog, memory, opening, history, promises, numbers
  <2>2. CASE UNCHANGED logs
    BY <2>1, <2>2, Steady, FollowItself
  <2>3. CASE logs' = [logs EXCEPT ![logNumber].synced = Len(logs[logNumber].records)]
    <3>1. logNumber \in DOMAIN logs
      BY <2>1 DEF Numbered
    <3>2. /\ DOMAIN logs' = DOMAIN logs /\ logs' \in [DOMAIN logs -> LogFiles]
          /\ \A n \in DOMAIN logs : n # logNumber => logs'[n] = logs[n]
          /\ logs'[logNumber].records = logs[logNumber].records
          /\ logs'[logNumber].synced = Len(logs[logNumber].records)
      BY <2>3, <3>1, SyncsLog
    <3>3. logs[logNumber] \in LogFiles /\ IntactLog(logs[logNumber]) /\ logs'[logNumber] \in LogFiles
      BY <3>1, <3>2 DEF Intact, Typed, TypedFiles
    <3>4. /\ Replay(logs'[logNumber]) = Replay(logs[logNumber])
          /\ Replay(Cut(logs'[logNumber], logs'[logNumber].synced)) = Replay(logs[logNumber])
          /\ Replay(Cut(logs[logNumber], logs[logNumber].synced)) \subseteq Replay(logs[logNumber])
      BY <3>2, <3>3, ReplaySynced
    <3>5. /\ Replay(logs[logNumber]) \subseteq Replay(logs'[logNumber])
          /\ Replay(Cut(logs[logNumber], logs[logNumber].synced)) \subseteq
               Replay(Cut(logs'[logNumber], logs'[logNumber].synced))
      BY <3>4
    <3>6. Follow(logs, logs', 0) /\ Follow(Saved(logs), Saved(logs'), 0)
      BY <3>1, <3>2, <3>5, OneLogGrows
    <3> QED
      BY <2>1, <3>6, Steady
  <2> QED
    BY <1>7, <2>2, <2>3 DEF SyncLog
<1>8. ASSUME NEW w \in Writers, FinishGroup(w) PROVE Durable'
  <2>1. CASE /\ outcome = "ok" /\ mem' = mem \cup BatchesOf(group)
             /\ acked' = acked \cup BatchesOf(group)
             /\ safe' = safe \cup (BatchesOf(group) \cap SyncWriters)
    BY <1>8, <2>1, CommitDurable
  <2>2. CASE UNCHANGED <<mem, promises>>
    <3>1. UNCHANGED <<phase, mem, imm, version, manifest, logNumber, acked, safe, toReplay, edit,
                      logs, tables>>
      BY <1>8, <2>2 DEF FinishGroup, opening, promises, disk
    <3> QED
      BY <3>1, Steady, FollowItself
  <2> QED
    BY <1>8, <2>1, <2>2 DEF FinishGroup
<1>9. ASSUME NEW w \in Writers, TEST_CompactMemTable(w) PROVE Durable'
  <2>1. UNCHANGED <<phase, mem, imm, version, manifest, logNumber, acked, safe, toReplay, edit,
                    logs, tables>>
    BY <1>9 DEF TEST_CompactMemTable, memory, opening, history, promises, numbers, disk
  <2> QED
    BY <2>1, Steady, FollowItself
<1>10. ASSUME NEW c \in Compactors, TEST_CompactRange(c) PROVE Durable'
  <2>1. UNCHANGED <<phase, mem, imm, version, manifest, logNumber, acked, safe, toReplay, edit,
                    logs, tables>>
    BY <1>10 DEF TEST_CompactRange, memory, opening, history, promises, numbers, disk
  <2> QED
    BY <2>1, Steady, FollowItself
<1>11. ASSUME BackgroundCall PROVE Durable'
  <2>1. UNCHANGED <<phase, mem, imm, version, manifest, logNumber, acked, safe, toReplay, edit,
                    logs, tables>>
    BY <1>11 DEF BackgroundCall, memory, opening, history, promises, numbers, disk
  <2> QED
    BY <2>1, Steady, FollowItself
<1>12. ASSUME FlushDuringMerge PROVE Durable'
  <2>1. UNCHANGED <<phase, mem, imm, version, manifest, logNumber, acked, safe, toReplay, edit,
                    logs, tables>>
    BY <1>12 DEF FlushDuringMerge, memory, opening, history, promises, numbers, disk
  <2> QED
    BY <2>1, Steady, FollowItself
<1>13. ASSUME BuildTable PROVE Durable'
  <2>1. /\ phase = "open" /\ flush.stage = "build" /\ tables' = With(tables, flush.number, imm)
        /\ UNCHANGED <<phase, mem, imm, version, manifest, logNumber, acked, safe, toReplay, edit, logs>>
    BY <1>13 DEF BuildTable, memory, opening, history, promises, numbers
  <2>2. flush.number \notin DOMAIN tables
    BY <2>1 DEF Numbered
  <2>3. \A n \in DOMAIN tables : tables'[n] = tables[n]
    BY <2>1, <2>2, NewTable
  <2> QED
    BY <2>1, <2>3, Steady, FollowItself
<1>14. ASSUME BuildTableFails PROVE Durable'
  <2>1. UNCHANGED <<phase, mem, imm, version, manifest, logNumber, acked, safe, toReplay, edit,
                    logs, tables>>
    BY <1>14 DEF BuildTableFails, memory, opening, history, promises, numbers, disk, BackgroundError
  <2> QED
    BY <2>1, Steady, FollowItself
<1>15. ASSUME LogFlush PROVE Durable'
  BY <1>15, LogFlushDurable
<1>16. ASSUME InstallFlush PROVE Durable'
  BY <1>16, InstallFlushDurable
<1>17. ASSUME InstallFlushFails PROVE Durable'
  <2>1. UNCHANGED <<phase, mem, imm, version, logNumber, acked, safe, toReplay, edit, logs, tables>>
    BY <1>17 DEF InstallFlushFails, memory, opening, history, promises, numbers, BackgroundError
  <2>2. UNCHANGED manifest
    BY <1>17, EditFailsEffect DEF InstallFlushFails, NoPartWritten, Typed
  <2> QED
    BY <2>1, <2>2, Steady, FollowItself
<1>18. ASSUME BuildMerge PROVE Durable'
  <2>1. /\ phase = "open" /\ merge.stage = "build" /\ tables' = With(tables, merge.number, Merged)
        /\ UNCHANGED <<phase, mem, imm, version, manifest, logNumber, acked, safe, toReplay, edit, logs>>
    BY <1>18 DEF BuildMerge, memory, opening, history, promises, numbers
  <2>2. merge.number \notin DOMAIN tables
    BY <2>1 DEF Numbered
  <2>3. \A n \in DOMAIN tables : tables'[n] = tables[n]
    BY <2>1, <2>2, NewTable
  <2> QED
    BY <2>1, <2>3, Steady, FollowItself
<1>19. ASSUME LogMerge PROVE Durable'
  BY <1>19, LogMergeDurable
<1>20. ASSUME InstallMerge PROVE Durable'
  BY <1>20, InstallMergeDurable
<1>21. ASSUME MergeFails PROVE Durable'
  <2>1. UNCHANGED <<phase, mem, imm, version, logNumber, acked, safe, toReplay, edit, logs, tables>>
    BY <1>21 DEF MergeFails, memory, opening, history, promises, numbers, BackgroundError
  <2>2. UNCHANGED manifest
    BY <1>21, EditFailsEffect DEF MergeFails, NoPartWritten, Typed
  <2> QED
    BY <2>1, <2>2, Steady, FollowItself
<1>22. ASSUME NullDereference PROVE Durable'
  BY <1>22, EndDurable
<1>23. ASSUME Recover PROVE Durable'
  BY <1>23, RecoverDurable
<1>24. ASSUME RecoverLogFile PROVE Durable'
  BY <1>24, RecoverLogDurable
<1>25. ASSUME CreateLog PROVE Durable'
  BY <1>25, CreateLogDurable
<1>26. ASSUME LogRecovery PROVE Durable'
  BY <1>26, LogRecoveryDurable
<1>27. ASSUME InstallRecovery PROVE Durable'
  BY <1>27, InstallRecoveryDurable
<1>28. ASSUME BeginClose PROVE Durable'
  <2>1. UNCHANGED <<phase, mem, imm, version, manifest, logNumber, acked, safe, toReplay, edit,
                    logs, tables>>
    BY <1>28 DEF BeginClose, memory, opening, history, promises, numbers, disk
  <2> QED
    BY <2>1, Steady, FollowItself
<1>29. ASSUME Close PROVE Durable'
  BY <1>29, EndDurable
<1>30. ASSUME ProcessCrash PROVE Durable'
  BY <1>30, EndDurable
<1>31. ASSUME MachineCrash PROVE Durable'
  BY <1>31, MachineCrashDurable
<1>32. CASE \/ UNCHANGED vars
  <2>1. UNCHANGED <<phase, mem, imm, version, manifest, logNumber, acked, safe, toReplay, edit,
                    logs, tables>>
    BY <1>32 DEF vars, memory, opening, history, promises, numbers, disk
  <2> QED
    BY <2>1, Steady, FollowItself
<1> QED
  BY <1>1, <1>2, <1>3, <1>4, <1>5, <1>6, <1>7, <1>8, <1>9, <1>10, <1>11,
     <1>12, <1>13, <1>14, <1>15, <1>16, <1>17, <1>18, <1>19, <1>20, <1>21,
     <1>22, <1>23, <1>24, <1>25, <1>26, <1>27, <1>28, <1>29, <1>30, <1>31,
     <1>32 DEF Next, Writing, Background, Opening


-----------------------------------------------------------------------------
(* What is stored was begun *)

(* The calls that a step does not begin *)
SameCalls == \A x \in Writers : pc'[x] = "idle" <=> pc[x] = "idle"

(* Who leaves the queue, and who is woken by it, stays in its call *)
LEMMA PoppedCalls ==
  ASSUME Typed, Queued, NEW n \in 0..Len(writers), NEW status \in {"done", "failed"}
  PROVE  /\ \A x \in Writers : Popped(n, status)[x] = "idle" <=> pc[x] = "idle"
         /\ \A x \in Writers : Woken(Popped(n, status))[x] = "idle" <=> pc[x] = "idle"
<1>1. Len(writers) \in Nat /\ \A i \in 1..n : i \in 1..Len(writers)
  BY DEF Typed, TypedCalls
<1>2. \A i \in 1..Len(writers) : writers[i] \in Writers /\ pc[writers[i]] # "idle"
  BY DEF Queued, AtWork, Typed, TypedCalls
<1>3. \A x \in Writers : Popped(n, status)[x] = "idle" <=> pc[x] = "idle"
  BY <1>1, <1>2 DEF Popped, Answer
<1>4. \A x \in Writers : Woken(Popped(n, status))[x] = "idle" <=> Popped(n, status)[x] = "idle"
  <2> DEFINE places == Popped(n, status)
  <2>1. DOMAIN places = Writers
    BY DEF Popped
  <2> HIDE DEF places
  <2>2. \A x \in Writers : Woken(places)[x] = "idle" <=> places[x] = "idle"
    BY <2>1 DEF Woken
  <2> QED
    BY <2>2 DEF places
<1> QED
  BY <1>3, <1>4

(* Waking the front of the queue starts and ends no call *)
LEMMA WokenCalls ==
  ASSUME Typed
  PROVE  \A x \in Writers : Woken(pc)[x] = "idle" <=> pc[x] = "idle"
<1>1. DOMAIN pc = Writers
  BY DEF Typed, TypedCalls
<1> QED
  BY <1>1 DEF Woken

(* Only Enqueue begins a call. *)
LEMMA CallsStep ==
  ASSUME Typed, Queued, [Next]_vars
  PROVE  SameCalls \/ (\E u \in Writers : Enqueue(u))
<1>1. ASSUME NEW w \in Writers, Enqueue(w) PROVE SameCalls \/ (\E u \in Writers : Enqueue(u))
  BY <1>1
<1>2. ASSUME NEW w \in Writers, WriteRefused(w) PROVE SameCalls \/ (\E u \in Writers : Enqueue(u))
  <2>1. pc' = Popped(1, "failed") /\ writers # <<>>
    BY <1>2 DEF WriteRefused, Pop, AtMakeRoom, Front
  <2>2. 1 \in 0..Len(writers)
    BY <2>1 DEF Typed, TypedCalls
  <2> QED
    BY <2>1, <2>2, PoppedCalls DEF SameCalls
<1>3. ASSUME NEW w \in Writers, BeginGroup(w) PROVE SameCalls \/ (\E u \in Writers : Enqueue(u))
  <2>1. writers # <<>> /\ pc[w] \in {"ready", "switched"} /\ 1 \in 0..Len(writers)
    <3>1. writers # <<>> /\ pc[w] \in {"ready", "switched"}
      BY <1>3 DEF BeginGroup, AtMakeRoom, Front
    <3> QED
      BY <3>1 DEF Typed, TypedCalls
  <2>2. pc' = Popped(1, "done") \/ pc' = [pc EXCEPT ![w] = "append"]
    BY <1>3 DEF BeginGroup, Pop
  <2>3. CASE pc' = Popped(1, "done")
    BY <2>1, <2>3, PoppedCalls DEF SameCalls
  <2>4. CASE pc' = [pc EXCEPT ![w] = "append"]
    BY <2>1, <2>4 DEF SameCalls, Typed, TypedCalls
  <2> QED
    BY <2>2, <2>3, <2>4
<1>4. ASSUME NEW w \in Writers, Stall(w) PROVE SameCalls \/ (\E u \in Writers : Enqueue(u))
  <2>1. writers # <<>> /\ pc[w] \in {"ready", "switched"} /\ 1 \in 0..Len(writers)
    <3>1. writers # <<>> /\ pc[w] \in {"ready", "switched"}
      BY <1>4 DEF Stall, AtMakeRoom, Front
    <3> QED
      BY <3>1 DEF Typed, TypedCalls
  <2>2. pc' = [pc EXCEPT ![w] = "stalled"]
    BY <1>4 DEF Stall
  <2> QED
    BY <2>1, <2>2 DEF SameCalls, Typed, TypedCalls
<1>5. ASSUME NEW w \in Writers, SwitchMemTable(w) PROVE SameCalls \/ (\E u \in Writers : Enqueue(u))
  <2>1. writers # <<>> /\ pc[w] \in {"ready", "switched"} /\ 1 \in 0..Len(writers)
    <3>1. writers # <<>> /\ pc[w] \in {"ready", "switched"}
      BY <1>5 DEF SwitchMemTable, AtMakeRoom, Front
    <3> QED
      BY <3>1 DEF Typed, TypedCalls
  <2>2. pc' = Popped(1, "failed") \/ pc' = [pc EXCEPT ![w] = "switched"]
    BY <1>5 DEF SwitchMemTable, Pop
  <2>3. CASE pc' = Popped(1, "failed")
    BY <2>1, <2>3, PoppedCalls DEF SameCalls
  <2>4. CASE pc' = [pc EXCEPT ![w] = "switched"]
    BY <2>1, <2>4 DEF SameCalls, Typed, TypedCalls
  <2> QED
    BY <2>2, <2>3, <2>4
<1>6. ASSUME NEW w \in Writers, AddRecord(w) PROVE SameCalls \/ (\E u \in Writers : Enqueue(u))
  <2>1. pc[w] = "append" /\ \E place \in {"sync", "insert"} : pc' = [pc EXCEPT ![w] = place]
    BY <1>6 DEF AddRecord
  <2> QED
    BY <2>1 DEF SameCalls, Typed, TypedCalls
<1>7. ASSUME NEW w \in Writers, SyncLog(w) PROVE SameCalls \/ (\E u \in Writers : Enqueue(u))
  <2>1. pc[w] = "sync" /\ pc' = [pc EXCEPT ![w] = "insert"]
    BY <1>7 DEF SyncLog
  <2> QED
    BY <2>1 DEF SameCalls, Typed, TypedCalls
<1>8. ASSUME NEW w \in Writers, FinishGroup(w) PROVE SameCalls \/ (\E u \in Writers : Enqueue(u))
  <2>1. \E status \in {"done", "failed"} : pc' = Popped(group, status) \/ pc' = Woken(Popped(group, status))
    BY <1>8 DEF FinishGroup
  <2>2. group \in 0..Len(writers)
    BY DEF Typed, TypedCalls
  <2> QED
    BY <2>1, <2>2, PoppedCalls DEF SameCalls
<1>9. ASSUME NEW w \in Writers, TEST_CompactMemTable(w) PROVE SameCalls \/ (\E u \in Writers : Enqueue(u))
  <2>1. pc[w] = "written" /\ \E place \in {"done", "failed", "waits"} : pc' = [pc EXCEPT ![w] = place]
    BY <1>9 DEF TEST_CompactMemTable
  <2> QED
    BY <2>1 DEF SameCalls, Typed, TypedCalls
<1>10. ASSUME NEW c \in Compactors, TEST_CompactRange(c) PROVE SameCalls \/ (\E u \in Writers : Enqueue(u))
  <2>1. UNCHANGED pc
    BY <1>10 DEF TEST_CompactRange, queue
  <2> QED
    BY <2>1 DEF SameCalls
<1>11. ASSUME BackgroundCall PROVE SameCalls \/ (\E u \in Writers : Enqueue(u))
  <2>1. pc' = pc \/ pc' = Woken(pc)
    BY <1>11 DEF BackgroundCall, EndCall, SignalAll
  <2> QED
    BY <2>1, WokenCalls DEF SameCalls
<1>12. ASSUME FlushDuringMerge PROVE SameCalls \/ (\E u \in Writers : Enqueue(u))
  <2>1. UNCHANGED pc
    BY <1>12 DEF FlushDuringMerge, queue
  <2> QED
    BY <2>1 DEF SameCalls
<1>13. ASSUME BuildTable PROVE SameCalls \/ (\E u \in Writers : Enqueue(u))
  <2>1. UNCHANGED pc
    BY <1>13 DEF BuildTable, queue
  <2> QED
    BY <2>1 DEF SameCalls
<1>14. ASSUME BuildTableFails PROVE SameCalls \/ (\E u \in Writers : Enqueue(u))
  <2>1. pc' = pc \/ pc' = Woken(pc)
    BY <1>14 DEF BuildTableFails, CallGoesOn, EndCall, SignalAll
  <2> QED
    BY <2>1, WokenCalls DEF SameCalls
<1>15. ASSUME LogFlush PROVE SameCalls \/ (\E u \in Writers : Enqueue(u))
  <2>1. UNCHANGED pc
    BY <1>15 DEF LogFlush, queue
  <2> QED
    BY <2>1 DEF SameCalls
<1>16. ASSUME InstallFlush PROVE SameCalls \/ (\E u \in Writers : Enqueue(u))
  <2>1. pc' = pc \/ pc' = Woken(pc)
    BY <1>16 DEF InstallFlush, CallGoesOn, EndCall, SignalAll
  <2> QED
    BY <2>1, WokenCalls DEF SameCalls
<1>17. ASSUME InstallFlushFails PROVE SameCalls \/ (\E u \in Writers : Enqueue(u))
  <2>1. pc' = pc \/ pc' = Woken(pc)
    BY <1>17 DEF InstallFlushFails, CallGoesOn, EndCall, SignalAll
  <2> QED
    BY <2>1, WokenCalls DEF SameCalls
<1>18. ASSUME BuildMerge PROVE SameCalls \/ (\E u \in Writers : Enqueue(u))
  <2>1. UNCHANGED pc
    BY <1>18 DEF BuildMerge, queue
  <2> QED
    BY <2>1 DEF SameCalls
<1>19. ASSUME LogMerge PROVE SameCalls \/ (\E u \in Writers : Enqueue(u))
  <2>1. UNCHANGED pc
    BY <1>19 DEF LogMerge, queue
  <2> QED
    BY <2>1 DEF SameCalls
<1>20. ASSUME InstallMerge PROVE SameCalls \/ (\E u \in Writers : Enqueue(u))
  <2>1. pc' = pc \/ pc' = Woken(pc)
    BY <1>20 DEF InstallMerge, EndMerge, EndCall, SignalAll
  <2> QED
    BY <2>1, WokenCalls DEF SameCalls
<1>21. ASSUME MergeFails PROVE SameCalls \/ (\E u \in Writers : Enqueue(u))
  <2>1. pc' = pc \/ pc' = Woken(pc)
    BY <1>21 DEF MergeFails, EndMerge, EndCall, SignalAll
  <2> QED
    BY <2>1, WokenCalls DEF SameCalls
<1>22. ASSUME NullDereference PROVE SameCalls \/ (\E u \in Writers : Enqueue(u))
  <2>1. pc' = [x \in Writers |-> IF pc[x] \in {"idle", "done", "failed"} THEN pc[x] ELSE "lost"]
    BY <1>22 DEF NullDereference, EndProcess, LoseMemory
  <2> QED
    BY <2>1 DEF SameCalls
<1>23. ASSUME Recover PROVE SameCalls \/ (\E u \in Writers : Enqueue(u))
  <2>1. UNCHANGED pc
    BY <1>23 DEF Recover, queue
  <2> QED
    BY <2>1 DEF SameCalls
<1>24. ASSUME RecoverLogFile PROVE SameCalls \/ (\E u \in Writers : Enqueue(u))
  <2>1. UNCHANGED pc
    BY <1>24 DEF RecoverLogFile, queue
  <2> QED
    BY <2>1 DEF SameCalls
<1>25. ASSUME CreateLog PROVE SameCalls \/ (\E u \in Writers : Enqueue(u))
  <2>1. UNCHANGED pc
    BY <1>25 DEF CreateLog, queue
  <2> QED
    BY <2>1 DEF SameCalls
<1>26. ASSUME LogRecovery PROVE SameCalls \/ (\E u \in Writers : Enqueue(u))
  <2>1. UNCHANGED pc
    BY <1>26 DEF LogRecovery, queue
  <2> QED
    BY <2>1 DEF SameCalls
<1>27. ASSUME InstallRecovery PROVE SameCalls \/ (\E u \in Writers : Enqueue(u))
  <2>1. UNCHANGED pc
    BY <1>27 DEF InstallRecovery, queue
  <2> QED
    BY <2>1 DEF SameCalls
<1>28. ASSUME BeginClose PROVE SameCalls \/ (\E u \in Writers : Enqueue(u))
  <2>1. UNCHANGED pc
    BY <1>28 DEF BeginClose, queue
  <2> QED
    BY <2>1 DEF SameCalls
<1>29. ASSUME Close PROVE SameCalls \/ (\E u \in Writers : Enqueue(u))
  <2>1. pc' = [x \in Writers |-> IF pc[x] \in {"idle", "done", "failed"} THEN pc[x] ELSE "lost"]
    BY <1>29 DEF Close, EndProcess, LoseMemory
  <2> QED
    BY <2>1 DEF SameCalls
<1>30. ASSUME ProcessCrash PROVE SameCalls \/ (\E u \in Writers : Enqueue(u))
  <2>1. pc' = [x \in Writers |-> IF pc[x] \in {"idle", "done", "failed"} THEN pc[x] ELSE "lost"]
    BY <1>30 DEF ProcessCrash, EndProcess, LoseMemory
  <2> QED
    BY <2>1 DEF SameCalls
<1>31. ASSUME MachineCrash PROVE SameCalls \/ (\E u \in Writers : Enqueue(u))
  <2>1. pc' = [x \in Writers |-> IF pc[x] \in {"idle", "done", "failed"} THEN pc[x] ELSE "lost"]
    BY <1>31 DEF MachineCrash, EndProcess, LoseMemory
  <2> QED
    BY <2>1 DEF SameCalls
<1>32. CASE \/ UNCHANGED vars
  BY <1>32 DEF vars, queue, SameCalls
<1> QED
  BY <1>1, <1>2, <1>3, <1>4, <1>5, <1>6, <1>7, <1>8, <1>9, <1>10, <1>11,
     <1>12, <1>13, <1>14, <1>15, <1>16, <1>17, <1>18, <1>19, <1>20, <1>21,
     <1>22, <1>23, <1>24, <1>25, <1>26, <1>27, <1>28, <1>29, <1>30, <1>31,
     <1>32 DEF Next, Writing, Background, Opening


(* A call that has begun is never idle again. *)
LEMMA NeverIdleAgain ==
  ASSUME Typed, Queued, [Next]_vars
  PROVE  \A x \in Writers : pc[x] # "idle" => pc'[x] # "idle"
<1>1. CASE SameCalls
  BY <1>1 DEF SameCalls
<1>2. ASSUME NEW u \in Writers, Enqueue(u) PROVE \A x \in Writers : pc[x] # "idle" => pc'[x] # "idle"
  BY <1>2 DEF Enqueue, Typed, TypedCalls
<1> QED
  BY <1>1, <1>2, CallsStep

(* The batches of the files and memtables are calls of Write. *)
LEMMA StoredTyped ==
  ASSUME Typed
  PROVE  /\ \A n \in DOMAIN logs : \A i \in 1..Len(logs[n].records) :
              logs[n].records[i].batches \subseteq Batches
         /\ \A n \in DOMAIN tables : tables[n] \subseteq Batches
         /\ mem \cup imm \subseteq Batches
<1>1. ASSUME NEW n \in DOMAIN logs, NEW i \in 1..Len(logs[n].records)
      PROVE  logs[n].records[i].batches \subseteq Batches
  <2>1. logs[n].records \in Seq(Records)
    BY DEF Typed, TypedFiles, LogFiles
  <2>2. logs[n].records[i] \in Records
    BY <2>1
  <2> QED
    BY <2>2 DEF Records
<1>2. \A n \in DOMAIN tables : tables[n] \subseteq Batches
  BY DEF Typed, TypedFiles
<1> QED
  BY <1>1, <1>2 DEF Typed, TypedBatches

(* A step stores nothing new, but for the batches of the group under way:  *)
(* they go to the log and later to the memtable, from there to a table,    *)
(* and from a log to a table only when the database is opened.             *)
FromLogs == IF phase = "open" THEN {} ELSE InLogs
StoredNext ==
  /\ InLogs' \subseteq InLogs \cup BatchesOf(group)
  /\ InFiles' \subseteq InFiles \cup imm \cup FromLogs
  /\ \/ mem' \cup imm' \subseteq mem \cup imm
     \/ /\ \E w \in Writers : FinishGroup(w)
        /\ mem' \cup imm' \subseteq mem \cup imm \cup BatchesOf(group)

(* The same of one file *)
LogNext(n) ==
  \/ n \in DOMAIN logs /\ Len(logs'[n].records) <= Len(logs[n].records) /\
     \A i \in 1..Len(logs'[n].records) : logs'[n].records[i].batches = logs[n].records[i].batches
  \/ \A i \in 1..Len(logs'[n].records) : logs'[n].records[i].batches \subseteq InLogs \cup BatchesOf(group)
TableNext(n) ==
  \/ n \in DOMAIN tables /\ tables'[n] = tables[n]
  \/ tables'[n] \subseteq InFiles \cup imm \cup FromLogs

(* What the logs and tables of the next state can hold, file by file *)
LEMMA FilesNext ==
  ASSUME Typed,
         \A n \in DOMAIN logs' : LogNext(n), \A n \in DOMAIN tables' : TableNext(n),
         \A n \in DOMAIN logs' : Len(logs'[n].records) \in Nat
  PROVE  /\ InLogs' \subseteq InLogs \cup BatchesOf(group)
         /\ InFiles' \subseteq InFiles \cup imm \cup FromLogs
<1>1. ASSUME NEW n \in DOMAIN logs', NEW i \in 1..Len(logs'[n].records),
             NEW b \in logs'[n].records[i].batches, b \in Batches
      PROVE  b \in InLogs \cup BatchesOf(group)
  <2>1. CASE n \in DOMAIN logs /\ Len(logs'[n].records) <= Len(logs[n].records) /\
             \A j \in 1..Len(logs'[n].records) : logs'[n].records[j].batches = logs[n].records[j].batches
    <3>1. Len(logs[n].records) \in Nat
      BY <2>1 DEF Typed, TypedFiles, LogFiles
    <3>2. i \in 1..Len(logs[n].records) /\ b \in logs[n].records[i].batches
      BY <2>1, <3>1
    <3> QED
      BY <1>1, <2>1, <3>2 DEF InLogs
  <2> QED
    BY <2>1 DEF LogNext
<1>2. ASSUME NEW n \in DOMAIN tables', NEW b \in tables'[n], b \in Batches
      PROVE  b \in InFiles \cup imm \cup FromLogs
  BY <1>2 DEF TableNext, InFiles
<1>3. InLogs' \subseteq InLogs \cup BatchesOf(group)
  BY <1>1 DEF InLogs
<1>4. InFiles' \subseteq InFiles \cup imm \cup FromLogs
  BY <1>2 DEF InFiles
<1> QED
  BY <1>3, <1>4

(* Files that stay, or go, store nothing new. *)
LEMMA SameLogs ==
  ASSUME Typed, \A n \in DOMAIN logs' : n \in DOMAIN logs /\ logs'[n] = logs[n]
  PROVE  \A n \in DOMAIN logs' : LogNext(n) /\ Len(logs'[n].records) \in Nat
<1> SUFFICES ASSUME NEW n \in DOMAIN logs' PROVE LogNext(n) /\ Len(logs'[n].records) \in Nat
  OBVIOUS
<1>1. Len(logs[n].records) \in Nat /\ logs'[n] = logs[n] /\ n \in DOMAIN logs
  BY DEF Typed, TypedFiles, LogFiles
<1> QED
  BY <1>1 DEF LogNext

(* Tables that stay or go bring nothing new *)
LEMMA SameTables ==
  ASSUME \A n \in DOMAIN tables' : n \in DOMAIN tables /\ tables'[n] = tables[n]
  PROVE  \A n \in DOMAIN tables' : TableNext(n)
BY DEF TableNext

(* A new table is a memtable, a merge of tables, or a log. *)
LEMMA NewTableNext ==
  ASSUME NEW n, NEW batches, tables' = With(tables, n, batches),
         batches \subseteq InFiles \cup imm \cup FromLogs
  PROVE  \A k \in DOMAIN tables' : TableNext(k)
<1>1. \A k \in DOMAIN tables' : (k \in DOMAIN tables /\ tables'[k] = tables[k]) \/ tables'[k] = batches
  BY DEF With
<1> QED
  BY <1>1 DEF TableNext

(* A replay reads what the logs have *)
LEMMA ReplayInLogs ==
  ASSUME Typed, NEW n \in DOMAIN logs
  PROVE  Replay(logs[n]) \subseteq InLogs
BY StoredTyped DEF Replay, InLogs

(* The calls of the group under way have begun. *)
LEMMA GroupBegun ==
  ASSUME Typed, Queued
  PROVE  \A b \in BatchesOf(group) : b \in Batches /\ pc[b] # "idle"
<1>1. \A i \in 1..group : i \in 1..Len(writers)
  BY DEF Typed, TypedCalls
<1>2. \A i \in 1..Len(writers) : pc[writers[i]] # "idle"
  BY DEF Queued, AtWork
<1> QED
  BY <1>1, <1>2 DEF BatchesOf

(* No step stores anything else. *)
LEMMA StoredStep ==
  ASSUME Typed, Numbered, Filed, [Next]_vars
  PROVE  StoredNext
<1>1. ASSUME NEW w \in Writers, Enqueue(w) PROVE StoredNext
  <2>1. UNCHANGED <<logs, tables>> /\ mem' \cup imm' \subseteq mem \cup imm
    BY <1>1 DEF Enqueue, memory, disk
  <2> QED
    BY <2>1, SameLogs, SameTables, FilesNext DEF StoredNext
<1>2. ASSUME NEW w \in Writers, WriteRefused(w) PROVE StoredNext
  <2>1. UNCHANGED <<logs, tables>> /\ mem' \cup imm' \subseteq mem \cup imm
    BY <1>2 DEF WriteRefused, memory, disk
  <2> QED
    BY <2>1, SameLogs, SameTables, FilesNext DEF StoredNext
<1>3. ASSUME NEW w \in Writers, BeginGroup(w) PROVE StoredNext
  <2>1. UNCHANGED <<logs, tables>> /\ mem' \cup imm' \subseteq mem \cup imm
    BY <1>3 DEF BeginGroup, memory, disk
  <2> QED
    BY <2>1, SameLogs, SameTables, FilesNext DEF StoredNext
<1>4. ASSUME NEW w \in Writers, Stall(w) PROVE StoredNext
  <2>1. UNCHANGED <<logs, tables>> /\ mem' \cup imm' \subseteq mem \cup imm
    BY <1>4 DEF Stall, memory, disk
  <2> QED
    BY <2>1, SameLogs, SameTables, FilesNext DEF StoredNext
<1>5. ASSUME NEW w \in Writers, SwitchMemTable(w) PROVE StoredNext
  <2>1. UNCHANGED tables /\ mem' \cup imm' \subseteq mem \cup imm
    BY <1>5 DEF SwitchMemTable, memory
  <2>2. UNCHANGED logs \/ logs' = With(logs, nextFile, EmptyLog)
    BY <1>5 DEF SwitchMemTable
  <2>3. \A n \in DOMAIN logs' : (n \in DOMAIN logs /\ logs'[n] = logs[n]) \/ logs'[n] = EmptyLog
    BY <2>2 DEF With
  <2>4. ASSUME NEW n \in DOMAIN logs' PROVE LogNext(n) /\ Len(logs'[n].records) \in Nat
    <3>1. CASE n \in DOMAIN logs /\ logs'[n] = logs[n]
      <4>1. Len(logs[n].records) \in Nat
        BY <3>1 DEF Typed, TypedFiles, LogFiles
      <4> QED
        BY <3>1, <4>1 DEF LogNext
    <3>2. CASE logs'[n] = EmptyLog
      <4>1. Len(logs'[n].records) = 0
        BY <3>2 DEF EmptyLog
      <4> QED
        BY <4>1 DEF LogNext
    <3> QED
      BY <2>3, <3>1, <3>2
  <2> QED
    BY <2>1, <2>4, SameTables, FilesNext DEF StoredNext
<1>6. ASSUME NEW w \in Writers, AddRecord(w) PROVE StoredNext
  <2>1. UNCHANGED <<tables, mem, imm>> /\ phase = "open"
    BY <1>6 DEF AddRecord, memory
  <2>2. logNumber \in DOMAIN logs
    BY <2>1 DEF Numbered
  <2>3. CASE UNCHANGED logs
    BY <2>1, <2>3, SameLogs, SameTables, FilesNext DEF StoredNext
  <2>4. ASSUME NEW whole \in BOOLEAN, AppendRecord(whole) PROVE StoredNext
    <3>1. /\ DOMAIN logs' = DOMAIN logs
          /\ \A n \in DOMAIN logs : n # logNumber => logs'[n] = logs[n]
          /\ logs'[logNumber].records = Append(logs[logNumber].records, Record(whole))
      BY <2>2, <2>4, AppendsRecord
    <3>2. \A n \in DOMAIN logs : logs[n].records \in Seq(Records) /\ Len(logs[n].records) \in Nat
      BY DEF Typed, TypedFiles, LogFiles
    <3>3. /\ Len(logs'[logNumber].records) = Len(logs[logNumber].records) + 1
          /\ \A i \in 1..Len(logs[logNumber].records) : logs'[logNumber].records[i] = logs[logNumber].records[i]
          /\ logs'[logNumber].records[Len(logs[logNumber].records) + 1] = Record(whole)
      <4> HIDE DEF Records
      <4> QED
        BY <2>2, <3>1, <3>2
    <3>4. \A i \in 1..Len(logs'[logNumber].records) :
            i \in 1..Len(logs[logNumber].records) \/ i = Len(logs[logNumber].records) + 1
      BY <2>2, <3>2, <3>3
    <3>5. Record(whole).batches \subseteq BatchesOf(group)
      BY DEF Record
    <3>6. \A i \in 1..Len(logs[logNumber].records) : logs[logNumber].records[i].batches \subseteq InLogs
      BY <2>2, StoredTyped DEF InLogs
    <3>7. LogNext(logNumber) /\ Len(logs'[logNumber].records) \in Nat
      BY <2>2, <3>2, <3>3, <3>4, <3>5, <3>6 DEF LogNext
    <3>8. ASSUME NEW n \in DOMAIN logs, n # logNumber
          PROVE  LogNext(n) /\ Len(logs'[n].records) \in Nat
      BY <3>1, <3>2, <3>8 DEF LogNext
    <3> QED
      BY <2>1, <3>1, <3>7, <3>8, SameTables, FilesNext DEF StoredNext
  <2> QED
    BY <1>6, <2>3, <2>4 DEF AddRecord
<1>7. ASSUME NEW w \in Writers, SyncLog(w) PROVE StoredNext
  <2>1. UNCHANGED <<tables, mem, imm>> /\ phase = "open"
    BY <1>7 DEF SyncLog, memory
  <2>2. logNumber \in DOMAIN logs
    BY <2>1 DEF Numbered
  <2>3. UNCHANGED logs \/ logs' = [logs EXCEPT ![logNumber].synced = Len(logs[logNumber].records)]
    BY <1>7 DEF SyncLog
  <2>4. DOMAIN logs' = DOMAIN logs /\ \A n \in DOMAIN logs : logs'[n].records = logs[n].records
    BY <2>2, <2>3, SyncsLog
  <2>5. \A n \in DOMAIN logs : Len(logs[n].records) \in Nat
    BY DEF Typed, TypedFiles, LogFiles
  <2>6. \A n \in DOMAIN logs' : LogNext(n) /\ Len(logs'[n].records) \in Nat
    BY <2>4, <2>5 DEF LogNext
  <2> QED
    BY <2>1, <2>6, SameTables, FilesNext DEF StoredNext
<1>8. ASSUME NEW w \in Writers, FinishGroup(w) PROVE StoredNext
  <2>1. UNCHANGED <<tables, logs, imm>> /\ mem' \subseteq mem \cup BatchesOf(group)
    BY <1>8 DEF FinishGroup, disk
  <2>2. \E u \in Writers : FinishGroup(u)
    BY <1>8
  <2>3. mem' \cup imm' \subseteq mem \cup imm \cup BatchesOf(group)
    BY <2>1
  <2> QED
    BY <2>1, <2>2, <2>3, SameLogs, SameTables, FilesNext DEF StoredNext
<1>9. ASSUME NEW w \in Writers, TEST_CompactMemTable(w) PROVE StoredNext
  <2>1. UNCHANGED <<logs, tables>> /\ mem' \cup imm' \subseteq mem \cup imm
    BY <1>9 DEF TEST_CompactMemTable, memory, disk
  <2> QED
    BY <2>1, SameLogs, SameTables, FilesNext DEF StoredNext
<1>10. ASSUME NEW c \in Compactors, TEST_CompactRange(c) PROVE StoredNext
  <2>1. UNCHANGED <<logs, tables>> /\ mem' \cup imm' \subseteq mem \cup imm
    BY <1>10 DEF TEST_CompactRange, memory, disk
  <2> QED
    BY <2>1, SameLogs, SameTables, FilesNext DEF StoredNext
<1>11. ASSUME BackgroundCall PROVE StoredNext
  <2>1. UNCHANGED <<logs, tables>> /\ mem' \cup imm' \subseteq mem \cup imm
    BY <1>11 DEF BackgroundCall, memory, disk
  <2> QED
    BY <2>1, SameLogs, SameTables, FilesNext DEF StoredNext
<1>12. ASSUME FlushDuringMerge PROVE StoredNext
  <2>1. UNCHANGED <<logs, tables>> /\ mem' \cup imm' \subseteq mem \cup imm
    BY <1>12 DEF FlushDuringMerge, memory, disk
  <2> QED
    BY <2>1, SameLogs, SameTables, FilesNext DEF StoredNext
<1>13. ASSUME BuildTable PROVE StoredNext
  <2>1. UNCHANGED <<logs, mem, imm>> /\ tables' = With(tables, flush.number, imm)
    BY <1>13 DEF BuildTable, memory
  <2>2. imm \subseteq InFiles \cup imm \cup FromLogs
    OBVIOUS
  <2>3. \A n \in DOMAIN tables' : TableNext(n)
    BY <2>1, <2>2, NewTableNext
  <2> QED
    BY <2>1, <2>3, SameLogs, SameTables, FilesNext DEF StoredNext
<1>14. ASSUME BuildTableFails PROVE StoredNext
  <2>1. UNCHANGED <<logs, tables>> /\ mem' \cup imm' \subseteq mem \cup imm
    BY <1>14 DEF BuildTableFails, memory, disk, BackgroundError
  <2> QED
    BY <2>1, SameLogs, SameTables, FilesNext DEF StoredNext
<1>15. ASSUME LogFlush PROVE StoredNext
  <2>1. UNCHANGED <<logs, tables>> /\ mem' \cup imm' \subseteq mem \cup imm
    BY <1>15 DEF LogFlush, memory, disk, BackgroundError
  <2> QED
    BY <2>1, SameLogs, SameTables, FilesNext DEF StoredNext
<1>16. ASSUME InstallFlush PROVE StoredNext
  <2>1. UNCHANGED <<logs, tables>> \/ \E v, outputs : DeleteObsoleteFiles(v, outputs)
    BY <1>16 DEF InstallFlush
  <2>2. /\ \A n \in DOMAIN logs' : n \in DOMAIN logs /\ logs'[n] = logs[n]
        /\ \A n \in DOMAIN tables' : n \in DOMAIN tables /\ tables'[n] = tables[n]
    BY <2>1, DeletedFiles
  <2>3. mem' \cup imm' \subseteq mem \cup imm
    BY <1>16 DEF InstallFlush, memory
  <2> QED
    BY <2>2, <2>3, SameLogs, SameTables, FilesNext DEF StoredNext
<1>17. ASSUME InstallFlushFails PROVE StoredNext
  <2>1. UNCHANGED <<logs, tables>> /\ mem' \cup imm' \subseteq mem \cup imm
    BY <1>17 DEF InstallFlushFails, memory, disk, BackgroundError
  <2> QED
    BY <2>1, SameLogs, SameTables, FilesNext DEF StoredNext
<1>18. ASSUME BuildMerge PROVE StoredNext
  <2>1. UNCHANGED <<logs, mem, imm>> /\ tables' = With(tables, merge.number, Merged)
    BY <1>18 DEF BuildMerge, memory
  <2>2. merge.inputs \subseteq DOMAIN tables
    BY <1>18 DEF BuildMerge, Filed, NoMerge
  <2>3. Merged \subseteq InFiles
    BY <2>2, StoredTyped DEF InFiles, Merged
  <2>4. \A n \in DOMAIN tables' : TableNext(n)
    BY <2>1, <2>3, NewTableNext
  <2> QED
    BY <2>1, <2>4, SameLogs, SameTables, FilesNext DEF StoredNext
<1>19. ASSUME LogMerge PROVE StoredNext
  <2>1. UNCHANGED <<logs, tables>> /\ mem' \cup imm' \subseteq mem \cup imm
    BY <1>19 DEF LogMerge, memory, disk, BackgroundError
  <2> QED
    BY <2>1, SameLogs, SameTables, FilesNext DEF StoredNext
<1>20. ASSUME InstallMerge PROVE StoredNext
  <2>1. UNCHANGED <<logs, tables>> \/ \E v, outputs : DeleteObsoleteFiles(v, outputs)
    BY <1>20 DEF InstallMerge
  <2>2. /\ \A n \in DOMAIN logs' : n \in DOMAIN logs /\ logs'[n] = logs[n]
        /\ \A n \in DOMAIN tables' : n \in DOMAIN tables /\ tables'[n] = tables[n]
    BY <2>1, DeletedFiles
  <2>3. mem' \cup imm' \subseteq mem \cup imm
    BY <1>20 DEF InstallMerge, memory
  <2> QED
    BY <2>2, <2>3, SameLogs, SameTables, FilesNext DEF StoredNext
<1>21. ASSUME MergeFails PROVE StoredNext
  <2>1. UNCHANGED <<logs, tables>> /\ mem' \cup imm' \subseteq mem \cup imm
    BY <1>21 DEF MergeFails, memory, disk, BackgroundError
  <2> QED
    BY <2>1, SameLogs, SameTables, FilesNext DEF StoredNext
<1>22. ASSUME NullDereference PROVE StoredNext
  <2>1. UNCHANGED <<logs, tables>> /\ mem' \cup imm' \subseteq mem \cup imm
    BY <1>22 DEF NullDereference, memory, disk, EndProcess, LoseMemory
  <2> QED
    BY <2>1, SameLogs, SameTables, FilesNext DEF StoredNext
<1>23. ASSUME Recover PROVE StoredNext
  <2>1. UNCHANGED <<logs, tables>> /\ mem' \cup imm' \subseteq mem \cup imm
    BY <1>23 DEF Recover, memory, disk
  <2> QED
    BY <2>1, SameLogs, SameTables, FilesNext DEF StoredNext
<1>24. ASSUME RecoverLogFile PROVE StoredNext
  <2> DEFINE batches == Replay(logs[Smallest(toReplay)])
  <2>1. UNCHANGED <<logs, mem, imm>>
    BY <1>24 DEF RecoverLogFile, memory
  <2>2. UNCHANGED tables \/ tables' = With(tables, nextFile, batches)
    BY <1>24 DEF RecoverLogFile
  <2>3. Smallest(toReplay) \in DOMAIN logs
    BY <1>24, SmallestExists, NumberedTypes DEF RecoverLogFile, Typed, TypedFiles
  <2>4. batches \subseteq FromLogs
    BY <1>24, <2>3, ReplayInLogs DEF RecoverLogFile, FromLogs
  <2> HIDE DEF batches
  <2>5. \A n \in DOMAIN tables' : TableNext(n)
    BY <2>2, <2>4, NewTableNext, SameTables
  <2> QED
    BY <2>1, <2>5, SameLogs, SameTables, FilesNext DEF StoredNext
<1>25. ASSUME CreateLog PROVE StoredNext
  <2>1. UNCHANGED tables /\ mem' \cup imm' \subseteq mem \cup imm
    BY <1>25 DEF CreateLog, memory
  <2>2. UNCHANGED logs \/ logs' = With(logs, nextFile, EmptyLog)
    BY <1>25 DEF CreateLog
  <2>3. \A n \in DOMAIN logs' : (n \in DOMAIN logs /\ logs'[n] = logs[n]) \/ logs'[n] = EmptyLog
    BY <2>2 DEF With
  <2>4. ASSUME NEW n \in DOMAIN logs' PROVE LogNext(n) /\ Len(logs'[n].records) \in Nat
    <3>1. CASE n \in DOMAIN logs /\ logs'[n] = logs[n]
      <4>1. Len(logs[n].records) \in Nat
        BY <3>1 DEF Typed, TypedFiles, LogFiles
      <4> QED
        BY <3>1, <4>1 DEF LogNext
    <3>2. CASE logs'[n] = EmptyLog
      <4>1. Len(logs'[n].records) = 0
        BY <3>2 DEF EmptyLog
      <4> QED
        BY <4>1 DEF LogNext
    <3> QED
      BY <2>3, <3>1, <3>2
  <2> QED
    BY <2>1, <2>4, SameTables, FilesNext DEF StoredNext
<1>26. ASSUME LogRecovery PROVE StoredNext
  <2>1. UNCHANGED <<logs, tables>> /\ mem' \cup imm' \subseteq mem \cup imm
    BY <1>26 DEF LogRecovery, memory, disk
  <2> QED
    BY <2>1, SameLogs, SameTables, FilesNext DEF StoredNext
<1>27. ASSUME InstallRecovery PROVE StoredNext
  <2>1. UNCHANGED <<logs, tables>> \/ \E v, outputs : DeleteObsoleteFiles(v, outputs)
    BY <1>27 DEF InstallRecovery
  <2>2. /\ \A n \in DOMAIN logs' : n \in DOMAIN logs /\ logs'[n] = logs[n]
        /\ \A n \in DOMAIN tables' : n \in DOMAIN tables /\ tables'[n] = tables[n]
    BY <2>1, DeletedFiles
  <2>3. mem' \cup imm' \subseteq mem \cup imm
    BY <1>27 DEF InstallRecovery, memory
  <2> QED
    BY <2>2, <2>3, SameLogs, SameTables, FilesNext DEF StoredNext
<1>28. ASSUME BeginClose PROVE StoredNext
  <2>1. UNCHANGED <<logs, tables>> /\ mem' \cup imm' \subseteq mem \cup imm
    BY <1>28 DEF BeginClose, memory, disk
  <2> QED
    BY <2>1, SameLogs, SameTables, FilesNext DEF StoredNext
<1>29. ASSUME Close PROVE StoredNext
  <2>1. UNCHANGED <<logs, tables>> /\ mem' \cup imm' \subseteq mem \cup imm
    BY <1>29 DEF Close, memory, disk, EndProcess, LoseMemory
  <2> QED
    BY <2>1, SameLogs, SameTables, FilesNext DEF StoredNext
<1>30. ASSUME ProcessCrash PROVE StoredNext
  <2>1. UNCHANGED <<logs, tables>> /\ mem' \cup imm' \subseteq mem \cup imm
    BY <1>30 DEF ProcessCrash, memory, disk, EndProcess, LoseMemory
  <2> QED
    BY <2>1, SameLogs, SameTables, FilesNext DEF StoredNext
<1>31. ASSUME MachineCrash PROVE StoredNext
  <2>1. PICK kept \in [DOMAIN logs -> 0..Cardinality(Writers)] :
          /\ \A n \in DOMAIN logs : kept[n] \in logs[n].synced..Len(logs[n].records)
          /\ logs' = [n \in DOMAIN logs |-> Cut(logs[n], kept[n])]
    BY <1>31 DEF MachineCrash
  <2>2. UNCHANGED tables /\ mem' \cup imm' \subseteq mem \cup imm
    BY <1>31 DEF MachineCrash, LoseMemory
  <2>3. ASSUME NEW n \in DOMAIN logs PROVE LogNext(n) /\ Len(logs'[n].records) \in Nat
    <3>1. logs[n] \in LogFiles /\ logs'[n] = Cut(logs[n], kept[n])
      BY <2>1 DEF Typed, TypedFiles
    <3>2. kept[n] \in 0..Len(logs[n].records) /\ Len(logs[n].records) \in Nat
      BY <2>1, <3>1 DEF LogFiles
    <3>3. Len(logs'[n].records) = kept[n] /\ \A i \in 1..kept[n] : logs'[n].records[i] = logs[n].records[i]
      BY <3>1, <3>2, CutTyped
    <3> QED
      BY <3>2, <3>3 DEF LogNext
  <2>4. DOMAIN logs' = DOMAIN logs
    BY <2>1
  <2> QED
    BY <2>2, <2>3, <2>4, SameTables, FilesNext DEF StoredNext
<1>32. CASE \/ UNCHANGED vars
  <2>1. UNCHANGED <<logs, tables>> /\ mem' \cup imm' \subseteq mem \cup imm
    BY <1>32 DEF vars, memory, disk
  <2> QED
    BY <2>1, SameLogs, SameTables, FilesNext DEF StoredNext
<1> QED
  BY <1>1, <1>2, <1>3, <1>4, <1>5, <1>6, <1>7, <1>8, <1>9, <1>10, <1>11,
     <1>12, <1>13, <1>14, <1>15, <1>16, <1>17, <1>18, <1>19, <1>20, <1>21,
     <1>22, <1>23, <1>24, <1>25, <1>26, <1>27, <1>28, <1>29, <1>30, <1>31,
     <1>32 DEF Next, Writing, Background, Opening


(* Nothing is stored that no call of Write has handed over. *)
LEMMA BegunStep ==
  ASSUME Typed, Queued, Numbered, Filed, Begun, [Next]_vars
  PROVE  Begun'
<1>1. \A x \in Batches : pc[x] # "idle" => pc'[x] # "idle"
  BY NeverIdleAgain DEF Batches
<1>2. \A b \in InLogs \cup InFiles \cup mem \cup imm \cup BatchesOf(group) : b \in Batches /\ pc[b] # "idle"
  BY GroupBegun DEF Begun, InLogs, InFiles, Typed, TypedBatches
<1>3. \A b \in InLogs' \cup InFiles' \cup mem' \cup imm' :
        b \in InLogs \cup InFiles \cup mem \cup imm \cup BatchesOf(group)
  BY StoredStep DEF StoredNext, FromLogs
<1> QED
  BY <1>1, <1>2, <1>3 DEF Begun


-----------------------------------------------------------------------------
(* What holds while no append fails halfway *)

Reliable == Sound /\ Readable /\ Intact /\ GroupLogged /\ Durable /\ Begun

(* A new database is reliable. *)
LEMMA InitReliable == Init => Reliable
<1> SUFFICES ASSUME Init PROVE Reliable
  OBVIOUS
<1>1. Sound
  BY InitSound
<1>2. Intact
  BY ReplayEmpty DEF Init, Intact
<1>3. GroupLogged
  BY DEF Init, GroupLogged
<1>4. Begun
  BY DEF Init, Begun, InLogs, InFiles, EmptyLog
<1>5. Durable
  <2>1. mem = {} /\ imm = {} /\ acked = {} /\ safe = {} /\ phase = "open"
    BY DEF Init
  <2>2. FilesOf(version) = {}
    BY DEF Init, FirstVersion, Version, FilesOf
  <2>3. Promise(acked, logs) /\ Promise(safe, Saved(logs))
    BY <2>1 DEF Promise
  <2> QED
    BY <2>1, <2>2, <2>3 DEF Durable, TablesOf
<1>6. Readable
  BY DEF Init, Readable, Kept, FirstManifest
<1> QED
  BY <1>1, <1>2, <1>3, <1>4, <1>5, <1>6 DEF Reliable

(* Every step keeps the database reliable if no append fails halfway. *)
LEMMA ReliableStep ==
  ASSUME NoPartWritten, Reliable, [Next]_vars
  PROVE  Reliable'
<1>1. Sound'
  BY SoundStep DEF Reliable
<1>2. /\ Typed /\ Stopped /\ Staged /\ Queued /\ Numbered /\ Filed
      /\ Readable /\ Intact /\ GroupLogged /\ Durable /\ Begun
      /\ Queued' /\ Numbered' /\ Filed'
  BY <1>1 DEF Reliable, Sound
<1>3. Readable' /\ Intact' /\ GroupLogged' /\ Durable' /\ Begun'
  BY <1>2, ReadableStep, IntactStep, GroupLoggedStep, DurableStep, BegunStep
<1> QED
  BY <1>1, <1>3 DEF Reliable

(* The store as others see it *)
Contents == IF phase = "open" THEN Visible ELSE Recoverable(manifest.written, logs)

(* What was answered is on disk, and in the store. *)
LEMMA AnsweredIsStored ==
  ASSUME Reliable
  PROVE  NothingLost /\ acked \subseteq Contents
<1>1. \A m \in Kept : acked \subseteq Held(m.version, tables, logs)
  BY PromiseOnDisk DEF Reliable, Sound, Durable
<1>2. acked \subseteq Recoverable(manifest.written, logs)
  <2>1. manifest.written \in Kept /\ manifest.written.tail = "whole"
    BY DEF Reliable, Readable, Kept
  <2> QED
    BY <1>1, <2>1, OnDiskIs DEF Recoverable
<1>3. phase = "open" => acked \subseteq Visible
  BY OnDiskIs DEF Reliable, Durable, Promise, Visible
<1> QED
  BY <1>2, <1>3 DEF NothingLost, Contents

(* What is in the store was begun. *)
LEMMA StoredWasBegun ==
  ASSUME Reliable
  PROVE  Contents \subseteq {b \in Batches : pc[b] # "idle"}
<1>1. Typed /\ Filed /\ Begun
  BY DEF Reliable, Sound
<1>2. ASSUME NEW v, FilesOf(v) \subseteq DOMAIN tables
      PROVE  InTables(v) \subseteq {b \in Batches : pc[b] # "idle"}
  BY <1>1, <1>2, StoredTyped DEF InTables, InFiles, Begun
<1>3. phase = "open" => Visible \subseteq {b \in Batches : pc[b] # "idle"}
  <2>1. phase = "open" => FilesOf(version) \subseteq DOMAIN tables
    BY <1>1 DEF Filed
  <2>2. mem \cup imm \subseteq {b \in Batches : pc[b] # "idle"}
    BY <1>1, StoredTyped DEF Begun
  <2> QED
    BY <1>2, <2>1, <2>2 DEF Visible
<1>4. OnDisk(manifest.written.version, logs) \subseteq {b \in Batches : pc[b] # "idle"}
  <2>1. FilesOf(manifest.written.version) \subseteq DOMAIN tables
    BY <1>1 DEF Filed, Kept
  <2>2. \A n \in DOMAIN logs : Replay(logs[n]) \subseteq {b \in Batches : pc[b] # "idle"}
    BY <1>1, ReplayInLogs DEF Begun, InLogs
  <2> QED
    BY <1>2, <2>1, <2>2 DEF OnDisk, LogsToReplay
<1> QED
  BY <1>3, <1>4 DEF Contents, Recoverable

(* While no record of a log or of the MANIFEST is appended in part, what   *)
(* Write has answered can be recovered from the files in every state,      *)
(* whatever else fails, appends that leave nothing included.               *)
THEOREM NothingIsLost ==
  ASSUME NoPartWritten
  PROVE  Spec => []NothingLost
<1>1. Reliable /\ [Next]_vars => Reliable'
  BY ReliableStep
<1>2. Reliable => NothingLost
  BY AnsweredIsStored
<1> QED
  BY InitReliable, <1>1, <1>2, PTL DEF Spec


-----------------------------------------------------------------------------
(* The store that others see *)

BegunCalls == {b \in Batches : pc[b] # "idle"}

(* What was answered is in the store, and what is in the store was begun. *)
InBounds ==
  /\ acked \subseteq Contents /\ safe \subseteq acked
  /\ Contents \subseteq BegunCalls

(* What the refinement mapping reads is always in the range of its types. *)
LEMMA AlwaysInBounds == Reliable => InBounds
<1> SUFFICES ASSUME Reliable PROVE InBounds
  OBVIOUS
<1>1. safe \subseteq acked
  BY DEF Reliable, Durable
<1> QED
  BY <1>1, StoredWasBegun, AnsweredIsStored DEF InBounds, BegunCalls

(* The steps of DurableStore, with the mapping written out *)
LEMMA MappedSteps ==
  /\ \A b \in Batches :
       /\ BegunCalls' = BegunCalls \cup {b}
       /\ Contents' = Contents /\ acked' = acked /\ safe' = safe
       => Store!Begin(b)
  /\ \A B, S :
       /\ B \subseteq BegunCalls /\ S \subseteq B
       /\ Contents' = Contents \cup B /\ acked' = acked \cup B /\ safe' = safe \cup S
       /\ BegunCalls' = BegunCalls
       => Store!Commit(B, S)
  /\ \A kept :
       /\ acked \subseteq kept /\ kept \subseteq Contents \cup BegunCalls
       /\ Contents' = kept /\ BegunCalls' = BegunCalls /\ acked' = acked /\ safe' = safe
       => Store!Crash(acked, kept)
  /\ \A kept :
       /\ safe \subseteq kept /\ kept \subseteq Contents \cup BegunCalls
       /\ Contents' = kept /\ acked' = acked \cap kept
       /\ BegunCalls' = BegunCalls /\ safe' = safe
       => Store!MachineCrash(kept)
BY DEF Store!Begin, Store!Commit, Store!Crash, Store!MachineCrash, Contents, BegunCalls

(* The calls that have begun, after a step that begins none *)
LEMMA SameBegun ==
  ASSUME SameCalls
  PROVE  BegunCalls' = BegunCalls
<1>1. \A b \in Batches : pc'[b] = "idle" <=> pc[b] = "idle"
  BY DEF SameCalls, Batches
<1> QED
  BY <1>1 DEF BegunCalls

(* To who sees only the store, a step that begins and answers nothing is a *)
(* crash of the process that keeps what is promised.                       *)
LEMMA QuietStep ==
  ASSUME InBounds', SameCalls, UNCHANGED <<acked, safe>>
  PROVE  Store!Next
<1>1. BegunCalls' = BegunCalls
  BY SameBegun
<1>2. /\ Contents' \subseteq BegunCalls'
      /\ acked' \subseteq Contents'
  BY DEF InBounds
<1>3. Contents' \in SUBSET Batches
  BY <1>2 DEF BegunCalls
<1>4. Store!Crash(acked, Contents')
  BY <1>1, <1>2, MappedSteps
<1> QED
  BY <1>3, <1>4 DEF Store!Next

(* Write, called with a batch or (TEST_CompactMemTable) without one *)
LEMMA EnqueueStep ==
  ASSUME Reliable, NEW w \in Writers, Enqueue(w)
  PROVE  Store!Next \/ UNCHANGED <<Contents, BegunCalls, acked, safe>>
<1>1. /\ UNCHANGED <<phase, mem, imm, tables, logs, manifest, version, acked, safe>>
      /\ \E s \in {"ready", "asleep"} : pc' = [pc EXCEPT ![w] = s]
  BY DEF Enqueue, memory, disk, promises
<1>2. Contents' = Contents
  BY <1>1 DEF Contents, Visible, Recoverable, OnDisk, InTables, LogsToReplay
<1>3. pc \in [Writers -> Answered \cup AtWork \cup {"asleep", "written", "waits"}]
  BY DEF Reliable, Sound, Typed, TypedCalls
<1>4. CASE w \in Batches
  <2>1. BegunCalls' = BegunCalls \cup {w}
    BY <1>1, <1>3, <1>4 DEF BegunCalls, Batches
  <2>2. Store!Begin(w)
    BY <1>1, <1>2, <1>4, <2>1, MappedSteps
  <2> QED
    BY <1>4, <2>2 DEF Store!Next
<1>5. CASE w \notin Batches
  <2>1. BegunCalls' = BegunCalls
    BY <1>1, <1>3, <1>5 DEF BegunCalls, Batches
  <2> QED
    BY <1>1, <1>2, <2>1
<1> QED
  BY <1>4, <1>5

(* The batches of a group are stored and answered in one step. *)
LEMMA FinishGroupStep ==
  ASSUME Reliable, InBounds', SameCalls, NEW w \in Writers, FinishGroup(w)
  PROVE  Store!Next
<1>1. CASE UNCHANGED <<acked, safe>>
  BY <1>1, QuietStep
<1>2. CASE /\ mem' = mem \cup BatchesOf(group)
           /\ acked' = acked \cup BatchesOf(group)
           /\ safe' = safe \cup (BatchesOf(group) \cap SyncWriters)
  <2>1. UNCHANGED <<phase, imm, tables, version>> /\ phase = "open"
    BY DEF FinishGroup, disk, MutexFree
  <2>2. Contents' = Contents \cup BatchesOf(group)
    BY <1>2, <2>1 DEF Contents, Visible, InTables
  <2>3. BegunCalls' = BegunCalls
    BY SameBegun
  <2>4. BatchesOf(group) \subseteq BegunCalls
    BY <1>2, <2>3 DEF InBounds
  <2>5. Store!Commit(BatchesOf(group), BatchesOf(group) \cap SyncWriters)
    BY <1>2, <2>2, <2>3, <2>4, MappedSteps
  <2>6. BatchesOf(group) \in SUBSET Batches /\ BatchesOf(group) \cap SyncWriters \in SUBSET Batches
    BY DEF BatchesOf
  <2> QED
    BY <2>5, <2>6 DEF Store!Next
<1> QED
  BY <1>1, <1>2 DEF FinishGroup, promises

(* The machine ends: synced batches are kept, others may be lost. *)
LEMMA MachineCrashStep ==
  ASSUME InBounds', SameCalls, MachineCrash
  PROVE  Store!Next
<1>1. BegunCalls' = BegunCalls
  BY SameBegun
<1>2. phase' = "closed" /\ tables' = tables /\ safe' = safe
  BY DEF MachineCrash, LoseMemory
<1>3. acked' = acked \cap Recoverable(manifest.written, logs)'
  <2>1. PICK m, files : /\ manifest' = [synced |-> m, written |-> m]
                        /\ logs' = files
                        /\ acked' = acked \cap Recoverable(m, files)
    BY DEF MachineCrash
  <2>2. Recoverable(manifest.written, logs)' = Recoverable(m, files)
    BY <1>2, <2>1 DEF Recoverable, OnDisk, InTables, LogsToReplay
  <2> QED
    BY <2>1, <2>2
<1>4. Contents' = Recoverable(manifest.written, logs)'
  BY <1>2 DEF Contents
<1>5. Contents' \subseteq BegunCalls' /\ safe' \subseteq acked' /\ acked' \subseteq Contents'
  BY DEF InBounds
<1>6. Store!MachineCrash(Contents')
  BY <1>1, <1>2, <1>3, <1>4, <1>5, MappedSteps
<1>7. Contents' \in SUBSET Batches
  BY <1>5 DEF BegunCalls
<1> QED
  BY <1>6, <1>7 DEF Store!Next

(* No other step answers a call or forgets an answer. *)
LEMMA AnswersStep ==
  ASSUME [Next]_vars
  PROVE  \/ \E w \in Writers : Enqueue(w) \/ FinishGroup(w)
         \/ MachineCrash
         \/ UNCHANGED <<acked, safe>>
<1>1. ASSUME NEW w \in Writers, WriteRefused(w) PROVE UNCHANGED <<acked, safe>>
  BY <1>1 DEF WriteRefused, history, promises
<1>2. ASSUME NEW w \in Writers, BeginGroup(w) PROVE UNCHANGED <<acked, safe>>
  BY <1>2 DEF BeginGroup, history, promises
<1>3. ASSUME NEW w \in Writers, Stall(w) PROVE UNCHANGED <<acked, safe>>
  BY <1>3 DEF Stall, history, promises
<1>4. ASSUME NEW w \in Writers, SwitchMemTable(w) PROVE UNCHANGED <<acked, safe>>
  BY <1>4 DEF SwitchMemTable, history, promises
<1>5. ASSUME NEW w \in Writers, AddRecord(w) PROVE UNCHANGED <<acked, safe>>
  BY <1>5 DEF AddRecord, history, promises
<1>6. ASSUME NEW w \in Writers, SyncLog(w) PROVE UNCHANGED <<acked, safe>>
  BY <1>6 DEF SyncLog, history, promises
<1>7. ASSUME NEW w \in Writers, TEST_CompactMemTable(w) PROVE UNCHANGED <<acked, safe>>
  BY <1>7 DEF TEST_CompactMemTable, history, promises
<1>8. ASSUME NEW c \in Compactors, TEST_CompactRange(c) PROVE UNCHANGED <<acked, safe>>
  BY <1>8 DEF TEST_CompactRange, history, promises
<1>9. ASSUME BackgroundCall PROVE UNCHANGED <<acked, safe>>
  BY <1>9 DEF BackgroundCall, history, promises
<1>10. ASSUME FlushDuringMerge PROVE UNCHANGED <<acked, safe>>
  BY <1>10 DEF FlushDuringMerge, history, promises
<1>11. ASSUME BuildTable PROVE UNCHANGED <<acked, safe>>
  BY <1>11 DEF BuildTable, history, promises
<1>12. ASSUME BuildTableFails PROVE UNCHANGED <<acked, safe>>
  BY <1>12 DEF BuildTableFails, history, promises
<1>13. ASSUME LogFlush PROVE UNCHANGED <<acked, safe>>
  BY <1>13 DEF LogFlush, history, promises
<1>14. ASSUME InstallFlush PROVE UNCHANGED <<acked, safe>>
  BY <1>14 DEF InstallFlush, history, promises
<1>15. ASSUME InstallFlushFails PROVE UNCHANGED <<acked, safe>>
  BY <1>15 DEF InstallFlushFails, history, promises
<1>16. ASSUME BuildMerge PROVE UNCHANGED <<acked, safe>>
  BY <1>16 DEF BuildMerge, history, promises
<1>17. ASSUME LogMerge PROVE UNCHANGED <<acked, safe>>
  BY <1>17 DEF LogMerge, history, promises
<1>18. ASSUME InstallMerge PROVE UNCHANGED <<acked, safe>>
  BY <1>18 DEF InstallMerge, history, promises
<1>19. ASSUME MergeFails PROVE UNCHANGED <<acked, safe>>
  BY <1>19 DEF MergeFails, history, promises
<1>20. ASSUME NullDereference PROVE UNCHANGED <<acked, safe>>
  BY <1>20 DEF NullDereference, EndProcess, history, promises
<1>21. ASSUME Recover PROVE UNCHANGED <<acked, safe>>
  BY <1>21 DEF Recover, history, promises
<1>22. ASSUME RecoverLogFile PROVE UNCHANGED <<acked, safe>>
  BY <1>22 DEF RecoverLogFile, history, promises
<1>23. ASSUME CreateLog PROVE UNCHANGED <<acked, safe>>
  BY <1>23 DEF CreateLog, history, promises
<1>24. ASSUME LogRecovery PROVE UNCHANGED <<acked, safe>>
  BY <1>24 DEF LogRecovery, history, promises
<1>25. ASSUME InstallRecovery PROVE UNCHANGED <<acked, safe>>
  BY <1>25 DEF InstallRecovery, history, promises
<1>26. ASSUME BeginClose PROVE UNCHANGED <<acked, safe>>
  BY <1>26 DEF BeginClose, history, promises
<1>27. ASSUME Close PROVE UNCHANGED <<acked, safe>>
  BY <1>27 DEF Close, history, promises
<1>28. ASSUME ProcessCrash PROVE UNCHANGED <<acked, safe>>
  BY <1>28 DEF ProcessCrash, EndProcess, history, promises
<1>29. CASE UNCHANGED vars
  BY <1>29 DEF vars, history, promises
<1> QED
  BY <1>1, <1>2, <1>3, <1>4, <1>5, <1>6, <1>7, <1>8, <1>9, <1>10, <1>11,
     <1>12, <1>13, <1>14, <1>15, <1>16, <1>17, <1>18, <1>19, <1>20, <1>21,
     <1>22, <1>23, <1>24, <1>25, <1>26, <1>27, <1>28, <1>29 DEF Next, Writing, Background, Opening

(* Every step of the implementation is one of the store. *)
LEMMA StoreStep ==
  ASSUME Reliable, InBounds', [Next]_vars
  PROVE  [Store!Next]_(Store!vars)
<1>1. Typed /\ Queued
  BY DEF Reliable, Sound
<1>2. SUFFICES Store!Next \/ UNCHANGED <<Contents, BegunCalls, acked, safe>>
  BY DEF Store!vars, Contents, BegunCalls
<1>3. ASSUME NEW w \in Writers, Enqueue(w)
      PROVE  Store!Next \/ UNCHANGED <<Contents, BegunCalls, acked, safe>>
  BY <1>3, EnqueueStep
<1>4. CASE SameCalls
  <2>1. ASSUME NEW w \in Writers, FinishGroup(w) PROVE Store!Next
    BY <1>4, <2>1, FinishGroupStep
  <2>2. CASE MachineCrash
    BY <1>4, <2>2, MachineCrashStep
  <2>3. CASE UNCHANGED <<acked, safe>>
    BY <1>4, <2>3, QuietStep
  <2> QED
    BY <1>3, <2>1, <2>2, <2>3, AnswersStep
<1> QED
  BY <1>1, <1>3, <1>4, CallsStep

(* While no record of a log or of the MANIFEST is appended in part, the    *)
(* queue, the memtables, the logs, the MANIFEST and the recovery of DBImpl *)
(* together are a DurableStore.                                            *)
THEOREM StoreKeepsItsPromises ==
  ASSUME NoPartWritten
  PROVE  Spec => KeepsPromises
<1>1. Init => Store!Init
  <2> SUFFICES ASSUME Init PROVE Store!Init
    OBVIOUS
  <2>1. FilesOf(version) = {}
    BY DEF Init, FilesOf, FirstVersion, Version
  <2>2. Contents = {}
    BY <2>1 DEF Init, Contents, Visible, InTables
  <2>3. BegunCalls = {}
    BY DEF Init, BegunCalls, Batches
  <2>4. acked = {} /\ safe = {}
    BY DEF Init
  <2> QED
    BY <2>2, <2>3, <2>4 DEF Store!Init, Contents, BegunCalls
<1>2. Reliable /\ [Next]_vars => Reliable'
  BY ReliableStep
<1>3. Reliable /\ InBounds' /\ [Next]_vars => [Store!Next]_(Store!vars)
  BY StoreStep
<1> QED
  BY InitReliable, AlwaysInBounds, <1>1, <1>2, <1>3, PTL DEF Spec, KeepsPromises, Store!Spec

=============================================================================
