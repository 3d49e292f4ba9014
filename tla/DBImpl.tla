-------------------------------- MODULE DBImpl --------------------------------
(***************************************************************************)
(* The write path of the vendored leveldb: the queue of writers and its    *)
(* group commit, the log, the two memtables, the background thread that    *)
(* turns a memtable into a table and merges tables, the MANIFEST, and the  *)
(* recovery when the database is opened again.                             *)
(*                                                                         *)
(* A step is what a thread does while it holds mutex_, or one file         *)
(* operation it does with mutex_ released.  A writer hands over one batch; *)
(* what is in a batch does not matter here, only where it is kept: in the  *)
(* log, a memtable or a table.  The process may end between any two steps, *)
(* and the machine with it, which loses what was not synced.               *)
(***************************************************************************)
EXTENDS Naturals, Sequences, FiniteSets

CONSTANTS
  Writers,           \* calls of Write
  NullWriters,       \* those with a null batch, of TEST_CompactMemTable
  SyncWriters,       \* those with WriteOptions.sync
  Compactors,        \* calls of TEST_CompactRange
  NoOne,             \* no call of it
  write_buffer_size, \* batches that fit into a memtable
  kL0_CompactionTrigger,
  kL0_StopWritesTrigger,
  MaxOutputs,        \* bound: tables a compaction writes
  Faults,            \* the file operations that may fail
  MaxFaults,         \* bound: failures of them
  MaxEnds            \* bound: ends of the process, orderly or not

ASSUME CallAssumption ==
  /\ IsFiniteSet(Writers)
  /\ NullWriters \subseteq Writers
  /\ SyncWriters \subseteq Writers \ NullWriters
  /\ NoOne \notin Compactors
ASSUME SizeAssumption ==
  /\ write_buffer_size \in Nat \ {0}
  /\ kL0_CompactionTrigger \in Nat \ {0, 1}
  /\ kL0_StopWritesTrigger \in Nat \ {0}
  /\ kL0_CompactionTrigger <= kL0_StopWritesTrigger
  /\ MaxOutputs \in Nat \ {0}
ASSUME FaultAssumption ==
  /\ Faults \subseteq {"create", "append", "torn", "sync", "table", "manifest", "tornEdit"}
  /\ MaxFaults \in Nat /\ MaxEnds \in Nat

VARIABLES
  phase,     \* "open", "closed", or a stage of DB::Open
  \* the writers
  writers,   \* writers_
  pc,        \* where each call of Write is
  group,     \* how many writers the leader writes for
  outcome,   \* what the leader's file operations returned
  \* memory
  mem, imm,  \* the memtables
  hasImm,    \* has_imm_: imm_ is not null
  lastSequence, nextFile, logNumber,
  version,   \* the current version
  bgError, bgScheduled, shuttingDown,
  flush,     \* the memtable compaction under way
  merge,     \* the compaction under way
  manual,    \* manual_compaction_
  cpc, cdone, \* where each call of TEST_CompactRange is, and its field done
  toReplay,  \* logs still to be recovered
  edit,      \* tables recovered
  \* the disk
  logs,      \* log files: their records, and how many are synced
  tables,    \* table files
  manifest,  \* what CURRENT leads to: as it is synced, and as it is written
  \* history and bounds
  seqOf, acked, safe, faults, ends

queue   == <<writers, pc, group, outcome>>
numbers == <<lastSequence, nextFile, logNumber>>
memory  == <<mem, imm, hasImm>>
bg      == <<bgError, bgScheduled, shuttingDown, flush, merge>>
ranges  == <<manual, cpc, cdone>>
opening == <<toReplay, edit>>
disk    == <<logs, tables, manifest>>
promises == <<acked, safe>>
history == <<seqOf, promises>>
vars == <<phase, queue, memory, numbers, version, bg, ranges, opening, disk, history,
          faults, ends>>

Batches == Writers \ NullWriters
NoFlush == [stage |-> "none", number |-> 0]
NoMerge == [stage |-> "none", number |-> 0, inputs |-> {}, manual |-> FALSE]
With(files, n, file) == [k \in DOMAIN files \cup {n} |-> IF k = n THEN file ELSE files[k]]
Keep(files, S) == [k \in DOMAIN files \cap S |-> files[k]]
Smallest(numbersOf) == CHOOSE n \in numbersOf : \A m \in numbersOf : n <= m

(* A version: its first log, its tables of level 0 and those below. *)
Version(log, l0, deep) == [log |-> log, l0 |-> l0, deep |-> deep]
FilesOf(v) == v.l0 \cup v.deep

(* What the MANIFEST adds up to: a version, the counters of its last edit, *)
(* and how it ends.  A part of a record at its end is passed over by the   *)
(* reader ("torn").  What comes behind one is taken for the rest of it: it *)
(* is passed over as well while it is too short, and otherwise the         *)
(* checksum does not match, and nothing can be read any more ("corrupt").  *)
Logged(v) ==
  [version |-> v, sequence |-> lastSequence, next |-> nextFile, tail |-> "whole"]
Behind(m) == {[m EXCEPT !.tail = tail] : tail \in {m.tail, "corrupt"}}

(* Only a file operation listed in Faults fails, and not for ever. *)
Fails(operation) ==
  /\ operation \in Faults
  /\ faults < MaxFaults
  /\ faults' = faults + 1

-----------------------------------------------------------------------------
(* NewDB and the first DB::Open: an empty version and an empty log. *)
FirstVersion == Version(3, {}, {})
FirstManifest == [version |-> FirstVersion, sequence |-> 0, next |-> 4, tail |-> "whole"]
EmptyLog == [records |-> <<>>, synced |-> 0]

Init ==
  /\ phase = "open"
  /\ writers = <<>>
  /\ pc = [w \in Writers |-> "idle"]
  /\ group = 0
  /\ outcome = "ok"
  /\ mem = {} /\ imm = {} /\ hasImm = FALSE
  /\ lastSequence = 0 /\ nextFile = 4 /\ logNumber = 3
  /\ version = FirstVersion
  /\ bgError = FALSE /\ bgScheduled = FALSE /\ shuttingDown = FALSE
  /\ flush = NoFlush /\ merge = NoMerge
  /\ manual = NoOne
  /\ cpc = [c \in Compactors |-> "idle"] /\ cdone = [c \in Compactors |-> FALSE]
  /\ toReplay = {} /\ edit = {}
  /\ logs = [n \in {3} |-> EmptyLog]
  /\ tables = [n \in {} |-> {}]
  /\ manifest = [synced |-> FirstManifest, written |-> FirstManifest]
  /\ seqOf = [w \in Writers |-> 0]
  /\ acked = {} /\ safe = {}
  /\ faults = 0 /\ ends = 0

-----------------------------------------------------------------------------
(* The writers *)

(* No thread is between two steps that one hold of mutex_ joins. *)
MutexFree == phase = "open" /\ \A w \in Writers : pc[w] # "switched"

(* Write puts itself into the queue and sleeps unless it is at the front. *)
Enqueue(w) ==
  /\ MutexFree
  /\ ~shuttingDown
  /\ pc[w] = "idle"
  /\ pc' = [pc EXCEPT ![w] = IF writers = <<>> THEN "ready" ELSE "asleep"]
  /\ writers' = Append(writers, w)
  /\ UNCHANGED <<phase, group, outcome, memory, numbers, version, bg, ranges, opening,
                 disk, seqOf, promises, faults, ends>>

(* The front n writers have their answer, and the new front is woken. *)
Answer(w, status) == IF status = "done" /\ w \in NullWriters THEN "written" ELSE status
PoppedInSilence(n, status) ==
  [w \in Writers |-> IF \E i \in 1..n : writers[i] = w THEN Answer(w, status) ELSE pc[w]]

Popped(n, status) ==
  [w \in Writers |->
     IF \E i \in 1..n : writers[i] = w THEN Answer(w, status)
     ELSE IF n < Len(writers) /\ w = writers[n + 1] THEN "ready" ELSE pc[w]]

Pop(n, status) ==
  /\ writers' = SubSeq(writers, n + 1, Len(writers))
  /\ pc' = Popped(n, status)
  /\ group' = 0
  /\ outcome' = "ok"

(* SignalAll wakes who waits for background_work_finished_signal_: the     *)
(* leader for room, the callers of TEST_CompactMemTable and _CompactRange. *)
Woken(places) ==
  [x \in DOMAIN places |->
     CASE places[x] = "stalled" -> "ready"
       [] places[x] = "waits" -> "written"
       [] OTHER -> places[x]]

Signal == pc' = Woken(pc) /\ UNCHANGED cpc
SignalAll == pc' = Woken(pc) /\ cpc' = Woken(cpc)

GroupOfAnyWriters(n) ==
  /\ n \in 1..Len(writers)
  /\ n < Len(writers) => writers[n + 1] \in Batches

(* BuildBatchGroup: how far the group of the front writer may reach.  A    *)
(* batch that would make it too big ends it, and so does a sync write      *)
(* behind a front that does not sync.                                      *)
BuildBatchGroup(n) ==
  /\ n \in 1..Len(writers)
  /\ \A i \in 2..n : writers[i] \in SyncWriters => writers[1] \in SyncWriters
  /\ n < Len(writers) => writers[n + 1] \in Batches

AllOf(n) == {writers[i] : i \in 1..n}
BatchesOf(n) == {writers[i] : i \in 1..n} \cap Batches
(* How many batches the group holds up to its i-th writer. *)
CountTo(i) == Cardinality(BatchesOf(i))

Front(w) == writers # <<>> /\ Head(writers) = w
Forced(w) == w \in NullWriters /\ pc[w] = "ready"
Room == Cardinality(mem) < write_buffer_size

(* MakeRoomForWrite runs at the front, and again after it has switched. *)
AtMakeRoom(w) ==
  /\ Front(w)
  /\ \/ pc[w] = "ready" /\ MutexFree
     \/ pc[w] = "switched" /\ phase = "open"

(* A background error is the answer to every write behind it. *)
WriteRefused(w) ==
  /\ AtMakeRoom(w)
  /\ bgError
  /\ Pop(1, "failed")
  /\ UNCHANGED <<phase, memory, numbers, version, bg, ranges, opening, disk, history,
                 faults, ends>>

(* There is room: a null batch is done, the others are written to the log. *)
BeginGroup(w) ==
  /\ AtMakeRoom(w)
  /\ ~bgError /\ ~Forced(w) /\ Room
  /\ IF w \in NullWriters
     THEN Pop(1, "done") /\ UNCHANGED seqOf
     ELSE \E n \in 1..Len(writers) :
            /\ BuildBatchGroup(n)
            /\ group' = n
            /\ pc' = [pc EXCEPT ![w] = "append"]
            /\ seqOf' = [b \in Writers |->
                  IF b \in BatchesOf(n)
                  THEN lastSequence + CountTo(CHOOSE i \in 1..n : writers[i] = b)
                  ELSE seqOf[b]]
            /\ UNCHANGED <<writers, outcome>>
  /\ UNCHANGED <<phase, memory, numbers, version, bg, ranges, opening, disk, promises,
                 faults, ends>>

(* Wait until the background thread has made room. *)
Stall(w) ==
  /\ AtMakeRoom(w)
  /\ ~bgError /\ (Forced(w) \/ ~Room)
  /\ hasImm \/ Cardinality(version.l0) >= kL0_StopWritesTrigger
  /\ pc' = [pc EXCEPT ![w] = "stalled"]
  /\ UNCHANGED <<phase, writers, group, outcome, memory, numbers, version, bg, ranges, opening,
                 disk, history, faults, ends>>

NeedsMore(v) == Cardinality(v.l0) > kL0_CompactionTrigger
NeedsCompaction(v) == Cardinality(v.l0) >= kL0_CompactionTrigger

(* MaybeScheduleCompaction, for the state the step leads to *)
MaybeScheduleCompaction(scheduled, error, work, v) ==
  bgScheduled' =
    (scheduled \/ (~shuttingDown /\ ~error /\ (work \/ NeedsCompaction(v))))

(* A new log and a new memtable; the old log is closed and not synced. *)
SwitchMemTable(w) ==
  /\ AtMakeRoom(w)
  /\ ~bgError /\ (Forced(w) \/ ~Room)
  /\ ~hasImm /\ Cardinality(version.l0) < kL0_StopWritesTrigger
  /\ \/ /\ logs' = With(logs, nextFile, EmptyLog)
        /\ logNumber' = nextFile
        /\ nextFile' = nextFile + 1
        /\ imm' = mem
        /\ hasImm' = TRUE
        /\ mem' = {}
        /\ pc' = [pc EXCEPT ![w] = "switched"]
        /\ MaybeScheduleCompaction(bgScheduled, bgError, TRUE, version)
        /\ UNCHANGED <<writers, group, outcome, faults>>
     \/ /\ Fails("create")
        /\ Pop(1, "failed")
        /\ UNCHANGED <<logs, memory, nextFile, logNumber, bgScheduled>>
  /\ UNCHANGED <<phase, lastSequence, version, bgError, shuttingDown, flush, merge,
                 ranges, opening, tables, manifest, history, ends>>

(* AddRecord, without mutex_.  One that fails leaves nothing, or a part of *)
(* the record.                                                             *)
Record(whole) == [batches |-> BatchesOf(group), whole |-> whole]
AppendRecord(whole) ==
  logs' = [logs EXCEPT ![logNumber].records = Append(@, Record(whole))]

AddRecord(w) ==
  /\ phase = "open" /\ pc[w] = "append"
  /\ \/ /\ AppendRecord(TRUE)
        /\ pc' = [pc EXCEPT ![w] = IF w \in SyncWriters THEN "sync" ELSE "insert"]
        /\ UNCHANGED <<outcome, faults>>
     \/ /\ \/ Fails("append") /\ UNCHANGED logs
           \/ Fails("torn") /\ AppendRecord(FALSE)
        /\ outcome' = "append"
        /\ pc' = [pc EXCEPT ![w] = "insert"]
  /\ UNCHANGED <<phase, writers, group, memory, numbers, version, bg, ranges, opening, tables,
                 manifest, history, ends>>

SyncLog(w) ==
  /\ phase = "open" /\ pc[w] = "sync"
  /\ pc' = [pc EXCEPT ![w] = "insert"]
  /\ \/ /\ logs' = [logs EXCEPT ![logNumber].synced = Len(logs[logNumber].records)]
        /\ UNCHANGED <<outcome, faults>>
     \/ Fails("sync") /\ outcome' = "sync" /\ UNCHANGED logs
  /\ UNCHANGED <<phase, writers, group, memory, numbers, version, bg, ranges, opening, tables,
                 manifest, history, ends>>

(* InsertInto, and the group has its answer.  Its sequence numbers are     *)
(* used up whatever the outcome; a failed sync stops the database.         *)
FinishGroup(w) ==
  /\ MutexFree /\ pc[w] = "insert"
  /\ lastSequence' = lastSequence + CountTo(group)
  /\ writers' = SubSeq(writers, group + 1, Len(writers))
  /\ group' = 0
  /\ outcome' = "ok"
  /\ \/ /\ outcome = "ok"
        /\ mem' = mem \cup BatchesOf(group)
        /\ acked' = acked \cup BatchesOf(group)
        /\ safe' = safe \cup (BatchesOf(group) \cap SyncWriters)
        /\ pc' = Popped(group, "done")
        /\ UNCHANGED <<cpc, bgError>>
     \/ /\ outcome = "append"
        /\ pc' = Popped(group, "failed")
        /\ UNCHANGED <<mem, promises, cpc, bgError>>
     \/ /\ outcome = "sync"
        /\ bgError' = TRUE
        /\ pc' = Woken(Popped(group, "failed"))
        /\ cpc' = Woken(cpc)
        /\ UNCHANGED <<mem, promises>>
  /\ UNCHANGED <<phase, imm, hasImm, nextFile, logNumber, version, bgScheduled,
                 shuttingDown, flush, merge, manual, cdone, opening, disk, seqOf,
                 faults, ends>>

(* TEST_CompactMemTable waits for the memtable it has found. *)
TEST_CompactMemTable(w) ==
  /\ MutexFree /\ pc[w] = "written"
  /\ pc' = [pc EXCEPT ![w] =
       IF ~hasImm THEN "done" ELSE IF bgError THEN "failed" ELSE "waits"]
  /\ UNCHANGED <<phase, writers, group, outcome, memory, numbers, version, bg, ranges,
                 opening, disk, history, faults, ends>>

-----------------------------------------------------------------------------
(* The background thread *)

(* BackgroundCall returns: more work may be scheduled, and all are woken. *)
EndCall(error, work, v) ==
  /\ MaybeScheduleCompaction(FALSE, error, work, v)
  /\ SignalAll

DeleteAllButLive(v, outputs) ==
  /\ logs' = Keep(logs, {n \in DOMAIN logs : n >= v.log})
  /\ tables' = Keep(tables, FilesOf(v))

(* DeleteObsoleteFiles, when v is the current version and outputs are the  *)
(* tables under way                                                        *)
DeleteObsoleteFiles(v, outputs) ==
  /\ logs' = Keep(logs, {n \in DOMAIN logs : n >= v.log})
  /\ tables' = Keep(tables, FilesOf(v) \cup outputs)

(* BackgroundCall begins: a memtable goes first, then the tables of level  *)
(* 0 if they are too many; with an error or on shutdown there is nothing   *)
(* to do.                                                                  *)
BackgroundCall ==
  /\ MutexFree
  /\ bgScheduled /\ flush = NoFlush /\ merge = NoMerge
  /\ \/ /\ ~shuttingDown /\ ~bgError /\ hasImm
        /\ flush' = [stage |-> "build", number |-> nextFile]
        /\ nextFile' = nextFile + 1
        /\ UNCHANGED <<pc, bgScheduled, merge, ranges>>
     \/ /\ ~shuttingDown /\ ~bgError /\ ~hasImm
        /\ IF manual = NoOne THEN NeedsCompaction(version) ELSE version.l0 # {}
        /\ \E outputs \in 1..MaxOutputs :
             /\ merge' = [stage |-> "build", number |-> nextFile + outputs - 1,
                          inputs |-> FilesOf(version), manual |-> manual # NoOne]
             /\ nextFile' = nextFile + outputs
        /\ UNCHANGED <<pc, bgScheduled, flush, ranges>>
     \/ /\ ~shuttingDown /\ ~bgError /\ ~hasImm /\ manual # NoOne /\ version.l0 = {}
        /\ cdone' = [cdone EXCEPT ![manual] = TRUE]
        /\ manual' = NoOne
        /\ EndCall(FALSE, FALSE, version)
        /\ UNCHANGED <<nextFile, flush, merge>>
     \/ /\ shuttingDown \/ bgError \/ (~hasImm /\ manual = NoOne /\ ~NeedsCompaction(version))
        /\ EndCall(bgError, hasImm \/ manual # NoOne, version)
        /\ UNCHANGED <<nextFile, flush, merge, manual, cdone>>
  /\ UNCHANGED <<phase, writers, group, outcome, memory, lastSequence, logNumber,
                 version, bgError, shuttingDown, opening, disk, history, faults, ends>>

(* DoCompactionWork turns to a new immutable memtable in between. *)
FlushDuringMerge ==
  /\ MutexFree
  /\ merge.stage \in {"build", "built"} /\ flush = NoFlush /\ hasImm /\ ~shuttingDown
  /\ flush' = [stage |-> "build", number |-> nextFile]
  /\ nextFile' = nextFile + 1
  /\ UNCHANGED <<phase, queue, memory, lastSequence, logNumber, version, bgError,
                 bgScheduled, shuttingDown, merge, ranges, opening, disk, history, faults,
                 ends>>

(* The call ends here unless a merge goes on. *)
CallGoesOn(error, immutable, v) ==
  IF merge = NoMerge
  THEN EndCall(error, immutable \/ manual # NoOne, v)
  ELSE SignalAll /\ UNCHANGED bgScheduled

(* RecordBackgroundError at the end of a flush or merge *)
BackgroundError ==
  /\ bgError' = TRUE
  /\ UNCHANGED <<memory, version>>

(* BuildTable, without mutex_: the table is written and synced. *)
BuildTable ==
  /\ phase = "open" /\ flush.stage = "build"
  /\ tables' = With(tables, flush.number, imm)
  /\ flush' = [flush EXCEPT !.stage = "built"]
  /\ UNCHANGED <<phase, queue, memory, numbers, version, bgError, bgScheduled,
                 shuttingDown, merge, ranges, opening, logs, manifest, history, faults, ends>>

BuildTableFails ==
  /\ MutexFree /\ flush.stage = "build"
  /\ Fails("table")
  /\ BackgroundError
  /\ flush' = NoFlush
  /\ CallGoesOn(TRUE, hasImm, version)
  /\ UNCHANGED <<phase, writers, group, outcome, numbers, shuttingDown, merge, manual, cdone, opening,
                 disk, history, ends>>

(* The edit of a flush: the new table, which an empty memtable does not    *)
(* have, and the logs before the current one are no longer needed.         *)
Flushed(v) ==
  Version(logNumber, v.l0 \cup (IF imm = {} THEN {} ELSE {flush.number}), v.deep)

(* LogAndApply adds a record to the MANIFEST, which then adds up to v,     *)
(* unless an edit before has left a part of its record there.              *)
AddEdit(v) ==
  \E m \in IF manifest.written.tail = "whole" THEN {Logged(v)} ELSE Behind(manifest.written) :
    manifest' = [manifest EXCEPT !.written = m]

AddPartOfEdit ==
  \E m \in IF manifest.written.tail = "whole"
          THEN {[manifest.written EXCEPT !.tail = "torn"]}
          ELSE Behind(manifest.written) :
    manifest' = [manifest EXCEPT !.written = m]

(* LogAndApply fails.  A database that closes gives up before; the record  *)
(* is not added, or in part; or its sync fails, and it may be there or not. *)
EditFails(stage) ==
  \/ stage = "built" /\ shuttingDown /\ UNCHANGED <<manifest, faults>>
  \/ stage = "built" /\ ~shuttingDown /\ Fails("manifest") /\ UNCHANGED manifest
  \/ stage = "built" /\ ~shuttingDown /\ Fails("tornEdit") /\ AddPartOfEdit
  \/ stage = "logged" /\ Fails("manifest") /\ UNCHANGED manifest

LogFlush ==
  /\ MutexFree /\ flush.stage = "built" /\ ~shuttingDown
  /\ AddEdit(Flushed(manifest.written.version))
  /\ flush' = [flush EXCEPT !.stage = "logged"]
  /\ UNCHANGED <<phase, queue, memory, numbers, version, bgError, bgScheduled, shuttingDown,
                 merge, ranges, opening, logs, tables, history, faults, ends>>

(* The record is synced: the version is current, imm_ is gone, and so are  *)
(* the files nobody needs.                                                 *)
InstallFlush ==
  /\ MutexFree /\ flush.stage = "logged"
  /\ version' = Flushed(version)
  /\ manifest' = [manifest EXCEPT !.synced = manifest.written]
  /\ imm' = {} /\ hasImm' = FALSE
  /\ flush' = NoFlush
  /\ IF bgError
     THEN UNCHANGED <<logs, tables>>
     ELSE DeleteObsoleteFiles(Flushed(version), {merge.number})
  /\ CallGoesOn(bgError, FALSE, Flushed(version))
  /\ UNCHANGED <<phase, writers, group, outcome, mem, numbers, bgError, shuttingDown,
                 merge, manual, cdone, opening, history, faults, ends>>

InstallFlushFails ==
  /\ MutexFree /\ EditFails(flush.stage)
  /\ BackgroundError
  /\ flush' = NoFlush
  /\ CallGoesOn(TRUE, hasImm, version)
  /\ UNCHANGED <<phase, writers, group, outcome, numbers, shuttingDown, merge, manual, cdone, opening,
                 logs, tables, history, ends>>

(* DoCompactionWork: the inputs, which all overlap, are merged into tables *)
(* of the level below, taken here for one with the number of the last.  A  *)
(* batch that is hidden by later ones still counts as stored.              *)
Merged == UNION {tables[n] : n \in merge.inputs}

(* The edit of a merge, relative to the version that is current by then. *)
MergedInto(v) ==
  Version(version.log, v.l0 \ merge.inputs, (v.deep \ merge.inputs) \cup {merge.number})

(* The end of BackgroundCompaction: a manual compaction that failed is     *)
(* done, one that did not is asked for again if there is more to do.       *)
EndMerge(failed, v) ==
  /\ merge' = NoMerge
  /\ merge.manual => manual # NoOne
  /\ manual' = IF merge.manual THEN NoOne ELSE manual
  /\ cdone' = [c \in Compactors |-> cdone[c] \/ (failed /\ merge.manual /\ c = manual)]
  /\ EndCall(failed \/ bgError, hasImm \/ (~merge.manual /\ manual # NoOne), v)

BuildMerge ==
  /\ phase = "open" /\ merge.stage = "build" /\ flush = NoFlush
  /\ tables' = With(tables, merge.number, Merged)
  /\ merge' = [merge EXCEPT !.stage = "built"]
  /\ UNCHANGED <<phase, queue, memory, numbers, version, bgError, bgScheduled,
                 shuttingDown, flush, ranges, opening, logs, manifest, history, faults,
                 ends>>

(* InstallCompactionResults, whatever errors a flush has recorded meanwhile. *)
LogMerge ==
  /\ MutexFree /\ merge.stage = "built" /\ flush = NoFlush /\ ~shuttingDown
  /\ AddEdit(MergedInto(manifest.written.version))
  /\ merge' = [merge EXCEPT !.stage = "logged"]
  /\ UNCHANGED <<phase, queue, memory, numbers, version, bgError, bgScheduled, shuttingDown,
                 flush, ranges, opening, logs, tables, history, faults, ends>>

InstallMerge ==
  /\ MutexFree /\ merge.stage = "logged"
  /\ version' = MergedInto(version)
  /\ manifest' = [manifest EXCEPT !.synced = manifest.written]
  /\ IF bgError
     THEN UNCHANGED <<logs, tables>>
     ELSE DeleteObsoleteFiles(MergedInto(version), {})
  /\ EndMerge(FALSE, MergedInto(version))
  /\ UNCHANGED <<phase, writers, group, outcome, memory, numbers, bgError, shuttingDown,
                 flush, opening, history, faults, ends>>

MergeFails ==
  /\ MutexFree /\ flush = NoFlush
  /\ \/ merge.stage \in {"build", "built"} /\ Fails("table") /\ UNCHANGED manifest
     \/ EditFails(merge.stage)
  /\ BackgroundError
  /\ EndMerge(TRUE, version)
  /\ UNCHANGED <<phase, writers, group, outcome, numbers, shuttingDown, flush, opening,
                 logs, tables, history, ends>>

(* TEST_CompactRange asks for a manual compaction, when nobody else does,  *)
(* until it is done.                                                       *)
TEST_CompactRange(c) ==
  /\ MutexFree /\ cpc[c] \in {"idle", "ready"}
  /\ cpc[c] = "idle" => ~shuttingDown
  /\ IF cdone[c] \/ shuttingDown \/ bgError
     THEN /\ cpc' = [cpc EXCEPT ![c] = "done"]
          /\ manual' = IF manual = c THEN NoOne ELSE manual
          /\ UNCHANGED bgScheduled
     ELSE /\ cpc' = [cpc EXCEPT ![c] = "stalled"]
          /\ manual' = IF manual = NoOne THEN c ELSE manual
          /\ MaybeScheduleCompaction(bgScheduled, FALSE, TRUE, version)
  /\ UNCHANGED <<phase, queue, memory, numbers, version, bgError, shuttingDown, flush,
                 merge, cdone, opening, disk, history, faults, ends>>

-----------------------------------------------------------------------------
(* What the disk holds, and opening the database *)

(* The reader of a log stops at a record that is not whole: the logs here  *)
(* are shorter than a block, the rest of which is dropped.                 *)
Replay(log) ==
  UNION {log.records[i].batches : i \in
    {j \in 1..Len(log.records) : \A k \in 1..j : log.records[k].whole}}

LogsToReplay(v, files) == {n \in DOMAIN files : n >= v.log}
InTables(v) == UNION {tables[n] : n \in FilesOf(v)}
OnDisk(v, files) ==
  InTables(v) \cup UNION {Replay(files[n]) : n \in LogsToReplay(v, files)}

(* What an open would find: nothing, when it reports a corrupt MANIFEST. *)
Recoverable(m, files) == IF m.tail = "corrupt" THEN {} ELSE OnDisk(m.version, files)

(* DBImpl::Recover and VersionSet::Recover: the version and the counters   *)
(* are the MANIFEST's; its own next file number is for the new MANIFEST.   *)
(* A MANIFEST that cannot be read leaves the database closed.              *)
Recover ==
  /\ phase = "closed" /\ manifest.written.tail # "corrupt"
  /\ phase' = "recovering"
  /\ LET m == manifest.written IN
     /\ version' = m.version
     /\ lastSequence' = m.sequence
     /\ nextFile' = m.next + 1
     /\ toReplay' = LogsToReplay(m.version, logs)
  /\ edit' = {}
  /\ UNCHANGED <<queue, memory, logNumber, bg, ranges, disk, history, faults, ends>>

KeepFileNumber(next, n) == next
MarkFileNumberUsed(next, n) == IF next <= n THEN n + 1 ELSE next

SequenceOfManifest(batches) == lastSequence

(* max_sequence: the largest number in the MANIFEST and in these batches *)
MaxSequence(batches) ==
  CHOOSE last \in {lastSequence} \cup {seqOf[b] : b \in batches} :
    last >= lastSequence /\ \A b \in batches : last >= seqOf[b]

(* RecoverLogFile: the oldest log becomes a table of level 0 (a larger one *)
(* several); its number, which the MANIFEST may not know, is used up.      *)
RecoverLogFile ==
  /\ phase = "recovering" /\ toReplay # {}
  /\ LET n == Smallest(toReplay)
         batches == Replay(logs[n]) IN
     \/ /\ toReplay' = toReplay \ {n}
        /\ IF batches = {}
           THEN UNCHANGED <<tables, edit>>
           ELSE tables' = With(tables, nextFile, batches) /\ edit' = edit \cup {nextFile}
        /\ nextFile' =
             MarkFileNumberUsed(IF batches = {} THEN nextFile ELSE nextFile + 1, n)
        /\ lastSequence' = MaxSequence(batches)
        /\ UNCHANGED <<phase, faults>>
     \/ /\ Fails("table")
        /\ phase' = "closed"
        /\ UNCHANGED <<toReplay, tables, edit, nextFile, lastSequence>>
  /\ UNCHANGED <<queue, memory, logNumber, version, bg, ranges, logs, manifest, history, ends>>

Recovered == Version(logNumber, version.l0 \cup edit, version.deep)

(* DB::Open makes a new log, writes a new MANIFEST ... *)
CreateLog ==
  /\ phase = "recovering" /\ toReplay = {}
  /\ \/ /\ phase' = "logging"
        /\ logs' = With(logs, nextFile, EmptyLog)
        /\ logNumber' = nextFile
        /\ nextFile' = nextFile + 1
        /\ UNCHANGED faults
     \/ /\ Fails("create")
        /\ phase' = "closed"
        /\ UNCHANGED <<logs, logNumber, nextFile>>
  /\ UNCHANGED <<queue, memory, lastSequence, version, bg, ranges, opening, tables, manifest,
                 history, ends>>

LogRecovery ==
  /\ phase = "logging"
  /\ \/ /\ phase' = "installing"
        /\ manifest' = [manifest EXCEPT !.written = Logged(Recovered)]
        /\ UNCHANGED <<edit, faults>>
     \/ /\ Fails("manifest")
        /\ phase' = "closed"
        /\ edit' = {}
        /\ UNCHANGED manifest
  /\ UNCHANGED <<queue, memory, numbers, version, bg, ranges, toReplay, logs, tables, history,
                 ends>>

(* ... and, when CURRENT leads to it, deletes what is not needed.  If the  *)
(* former fails, the new MANIFEST is removed and the database stays closed. *)
InstallRecovery ==
  /\ phase = "installing"
  /\ phase' = "open"
  /\ edit' = {}
  /\ manifest' = [manifest EXCEPT !.synced = manifest.written]
  /\ version' = Recovered
  /\ DeleteObsoleteFiles(Recovered, {})
  /\ MaybeScheduleCompaction(FALSE, FALSE, FALSE, Recovered)
  /\ UNCHANGED <<queue, memory, numbers, bgError, shuttingDown, flush, merge, ranges, toReplay,
                 history, faults, ends>>

-----------------------------------------------------------------------------
(* The end of the process *)

Ending == ends < MaxEnds /\ ends' = ends + 1

(* Memory is gone; calls of Write that were under way have no answer. *)
LoseMemory ==
  /\ phase' = "closed"
  /\ writers' = <<>>
  /\ pc' = [w \in Writers |-> IF pc[w] \in {"idle", "done", "failed"} THEN pc[w] ELSE "lost"]
  /\ group' = 0 /\ outcome' = "ok"
  /\ mem' = {} /\ imm' = {} /\ hasImm' = FALSE
  /\ bgError' = FALSE /\ bgScheduled' = FALSE /\ shuttingDown' = FALSE
  /\ flush' = NoFlush /\ merge' = NoMerge
  /\ manual' = NoOne
  /\ cpc' = [c \in Compactors |-> IF cpc[c] \in {"idle", "done"} THEN cpc[c] ELSE "lost"]
  /\ toReplay' = {} /\ edit' = {}

(* ~DBImpl: no call of Write is under way, and the background thread is    *)
(* waited for.                                                             *)
BeginClose ==
  /\ MutexFree /\ ~shuttingDown /\ ends < MaxEnds
  /\ \A w \in Writers : pc[w] \in {"idle", "done", "failed", "lost"}
  /\ \A c \in Compactors : cpc[c] \in {"idle", "done", "lost"}
  /\ shuttingDown' = TRUE
  /\ UNCHANGED <<phase, queue, memory, numbers, version, bgError, bgScheduled, flush,
                 merge, ranges, opening, disk, history, faults, ends>>

(* A record of the MANIFEST that was not synced, or whose sync failed, may *)
(* be found or not.                                                        *)
MayLoseRecord ==
  \E m \in {manifest.synced, manifest.written} : manifest' = [manifest EXCEPT !.written = m]

Close ==
  /\ phase = "open" /\ shuttingDown /\ ~bgScheduled
  /\ Ending
  /\ LoseMemory
  /\ MayLoseRecord
  /\ UNCHANGED <<numbers, version, cdone, logs, tables, history, faults>>

EndProcess ==
  /\ LoseMemory
  /\ UNCHANGED <<numbers, version, cdone, logs, tables, history>>

ProcessCrash == Ending /\ EndProcess /\ MayLoseRecord /\ UNCHANGED faults

(* BackgroundCompaction takes manual_compaction_ for its own at the end of *)
(* a manual compaction.  When a call of TEST_CompactRange has returned on  *)
(* an error meanwhile, it is null, and the process ends.                   *)
NullDereference ==
  /\ MutexFree /\ flush = NoFlush
  /\ merge.manual /\ manual = NoOne
  /\ \/ merge.stage = "logged" /\ UNCHANGED <<manifest, faults>>
     \/ merge.stage \in {"build", "built"} /\ Fails("table") /\ UNCHANGED manifest
     \/ EditFails(merge.stage)
  /\ EndProcess
  /\ UNCHANGED ends

(* The machine keeps what was synced, and any part of a log behind that. *)
Cut(log, kept) == [records |-> SubSeq(log.records, 1, kept), synced |-> kept]

MachineCrash ==
  /\ Ending
  /\ LoseMemory
  /\ \E m \in {manifest.synced, manifest.written},
        kept \in [DOMAIN logs -> 0..Cardinality(Writers)] :
       /\ \A n \in DOMAIN logs : kept[n] \in logs[n].synced..Len(logs[n].records)
       /\ manifest' = [synced |-> m, written |-> m]
       /\ logs' = [n \in DOMAIN logs |-> Cut(logs[n], kept[n])]
       /\ acked' = acked \cap Recoverable(m, [n \in DOMAIN logs |-> Cut(logs[n], kept[n])])
  /\ UNCHANGED <<numbers, version, cdone, tables, seqOf, safe, faults>>

-----------------------------------------------------------------------------
Writing(w) ==
  \/ WriteRefused(w) \/ BeginGroup(w) \/ Stall(w) \/ SwitchMemTable(w)
  \/ AddRecord(w) \/ SyncLog(w) \/ FinishGroup(w)
  \/ (w \in NullWriters /\ TEST_CompactMemTable(w))

Background ==
  \/ BackgroundCall \/ FlushDuringMerge
  \/ BuildTable \/ BuildTableFails \/ LogFlush \/ InstallFlush \/ InstallFlushFails
  \/ BuildMerge \/ LogMerge \/ InstallMerge \/ MergeFails \/ NullDereference

Opening == Recover \/ RecoverLogFile \/ CreateLog \/ LogRecovery \/ InstallRecovery

Next ==
  \/ \E w \in Writers : Enqueue(w) \/ Writing(w)
  \/ \E c \in Compactors : TEST_CompactRange(c)
  \/ Background
  \/ Opening
  \/ BeginClose \/ Close
  \/ ProcessCrash \/ MachineCrash

(* Every thread goes on; nobody is made to call Write or to close. *)
Fairness ==
  /\ \A w \in Writers : WF_vars(Writing(w))
  /\ \A c \in Compactors : WF_vars(cpc[c] = "ready" /\ TEST_CompactRange(c))
  /\ WF_vars(Background)
  /\ WF_vars(Opening)
  /\ WF_vars(Close)

Spec == Init /\ [][Next]_vars /\ Fairness

-----------------------------------------------------------------------------
(* Properties *)

Answered == {"idle", "done", "failed", "lost"}
AtWork   == {"ready", "switched", "append", "sync", "insert", "stalled"}

TypeOK ==
  /\ phase \in {"open", "closed", "recovering", "logging", "installing"}
  /\ writers \in Seq(Writers)
  /\ pc \in [Writers -> Answered \cup AtWork \cup {"asleep", "written", "waits"}]
  /\ group \in 0..Len(writers)
  /\ outcome \in {"ok", "append", "sync"}
  /\ mem \subseteq Batches /\ imm \subseteq Batches
  /\ {hasImm, bgError, bgScheduled, shuttingDown} \subseteq BOOLEAN
  /\ {lastSequence, nextFile, logNumber, faults, ends} \subseteq Nat
  /\ flush.stage \in {"none", "build", "built", "logged"}
  /\ merge.stage \in {"none", "build", "built", "logged"}
  /\ manual \in Compactors \cup {NoOne}
  /\ cpc \in [Compactors -> {"idle", "ready", "stalled", "done", "lost"}]
  /\ cdone \in [Compactors -> BOOLEAN]
  /\ toReplay \subseteq DOMAIN logs
  /\ edit \subseteq DOMAIN tables
  /\ seqOf \in [Writers -> Nat]
  /\ acked \subseteq Batches /\ safe \subseteq Batches

Visible == mem \cup imm \cup InTables(version)

(* The store as others see it: what can be read while it is open, and what *)
(* an open would find otherwise.                                           *)
Store == INSTANCE DurableStore WITH
  contents <- IF phase = "open" THEN Visible ELSE Recoverable(manifest.written, logs),
  begun    <- {b \in Batches : pc[b] # "idle"},
  acked    <- acked,
  synced   <- safe

(* The queue, the two memtables, the logs, the MANIFEST and the recovery   *)
(* together keep what a store promises: a batch is there as a whole or not *)
(* at all, what Write has answered is there, no acknowledged batch is lost *)
(* when the process ends and no synced one when the machine does.          *)
KeepsPromises == Store!Spec

(* "If it is just the process that crashes, no writes will be lost even if *)
(* sync==false": what Write has answered can be recovered from the files.  *)
NothingLost == acked \subseteq Recoverable(manifest.written, logs)

(* The sequence numbers of an open database are ahead of all it holds, so  *)
(* that what is written next hides what is there, and no two batches share *)
(* one.  They are kept in three places (a counter in memory, the MANIFEST, *)
(* the records of the logs), of which a crash leaves any two behind.       *)
SequenceAhead ==
  phase = "open" =>
    /\ \A b \in Visible : seqOf[b] <= lastSequence
    /\ \A b, d \in Visible : seqOf[b] = seqOf[d] => b = d

(* Every table that a MANIFEST a crash may leave behind names exists, and  *)
(* so DBImpl::Recover never reports missing files.                         *)
NoFileMissing ==
  /\ FilesOf(manifest.synced.version) \subseteq DOMAIN tables
  /\ FilesOf(manifest.written.version) \subseteq DOMAIN tables

(* A file number is never given out again while its file is in use: a      *)
(* table that some MANIFEST names is never written over, and a log is only *)
(* ever appended to, cut by the end of the machine, or deleted as a whole. *)
InUse == FilesOf(manifest.synced.version) \cup FilesOf(manifest.written.version)
IsPrefixOf(s, t) == Len(s) <= Len(t) /\ SubSeq(t, 1, Len(s)) = s
FilesNotReused ==
  [][/\ \A n \in InUse \cap DOMAIN tables' : tables'[n] = tables[n]
     /\ \A n \in DOMAIN logs \cap DOMAIN logs' :
          ends' # ends \/ IsPrefixOf(logs[n].records, logs'[n].records)]_vars

(* Whoever sleeps will be signalled: a writer that is not at the front has *)
(* a front that is awake or waits for the background thread, and who waits *)
(* for that thread waits for one that is scheduled.                        *)
NobodyForgotten ==
  phase = "open" =>
    /\ \A w \in Writers : pc[w] = "asleep" => writers # <<>> /\ pc[Head(writers)] \in AtWork
    /\ (\E w \in Writers : pc[w] \in {"stalled", "waits"}) => bgScheduled
    /\ (\E c \in Compactors : cpc[c] = "stalled") => bgScheduled

(* Every call of Write, and of TEST_CompactMemTable, has its answer, if    *)
(* the process does not end first: no stall of MakeRoomForWrite lasts.     *)
EveryWriterAnswered ==
  \A w \in Writers : pc[w] \notin Answered ~> pc[w] \in Answered

(* Every call of TEST_CompactRange returns, whatever fails. *)
EveryRangeReturns ==
  \A c \in Compactors : cpc[c] \in {"ready", "stalled"} ~> cpc[c] \in {"done", "lost"}
=============================================================================
