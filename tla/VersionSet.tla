------------------------------ MODULE VersionSet ------------------------------
(***************************************************************************)
(* The tables of the vendored leveldb: the levels they are kept in, how a  *)
(* memtable finds its level, which tables a compaction takes together,     *)
(* which entries it drops, and where a read looks.                         *)
(*                                                                         *)
(* An entry has a key, a sequence number that also stands for its value,   *)
(* and may be a deletion.  How large a table is depends on data that is    *)
(* left out, so every decision by size is free here: which level or file   *)
(* is due (any may be, a file that is read often is), where an output is   *)
(* cut, whether more inputs fit.  Flushes run between the beginning and    *)
(* the end of a compaction, as writes and snapshots do.                    *)
(***************************************************************************)
EXTENDS Naturals, FiniteSets

CONSTANTS
  Keys,                 \* user keys, numbers in the order of the comparator
  kNumLevels,
  kMaxMemCompactLevel,
  kL0_CompactionTrigger,
  DeletedKeys,          \* the keys that are deleted
  SplitKeys,            \* those with entries so large that an output may end
                        \* between two of them
  Manual,               \* whether CompactRange is called
  MaxWrites,            \* bound: writes
  MaxSnapshots,         \* bound: snapshots held at a time
  MaxIterators          \* bound: iterators open at a time

ASSUME LevelAssumption ==
  /\ kNumLevels \in Nat \ {0, 1, 2}
  /\ kMaxMemCompactLevel \in 0..(kNumLevels - 2)
  /\ kL0_CompactionTrigger \in Nat \ {0}
ASSUME KeyAssumption ==
  /\ Keys \subseteq Nat
  /\ DeletedKeys \subseteq Keys /\ SplitKeys \subseteq Keys
  /\ Manual \in BOOLEAN
ASSUME BoundAssumption == {MaxWrites, MaxSnapshots, MaxIterators} \subseteq Nat

VARIABLES
  lastSequence,
  mem,        \* entries of the memtables
  levels,     \* the current version: the tables of each level
  nextFile,
  files,      \* numbers of the tables on disk
  snapshots,  \* sequence numbers of the snapshots
  iterators,  \* the tables of the versions that iterators hold
  merge       \* the compaction under way

tableVars == <<levels, nextFile, files>>
vars == <<lastSequence, mem, tableVars, snapshots, iterators, merge>>

Levels == 0..(kNumLevels - 1)
NoMerge == [level |-> kNumLevels, parents |-> {}, children |-> {},
            oldest |-> 0, base |-> [n \in Levels |-> {}]]

Init ==
  /\ lastSequence = 0
  /\ mem = {}
  /\ levels = [n \in Levels |-> {}]
  /\ nextFile = 2
  /\ files = {}
  /\ snapshots = {}
  /\ iterators = {}
  /\ merge = NoMerge

-----------------------------------------------------------------------------
(* Internal keys and the ranges of tables *)

(* Entries are ordered by key, and the later entry of a key comes first. *)
Before(a, b) == a.key < b.key \/ (a.key = b.key /\ a.seq > b.seq)
First(entries) == CHOOSE e \in entries : \A d \in entries : d = e \/ Before(e, d)
Last(entries)  == CHOOSE e \in entries : \A d \in entries : d = e \/ Before(d, e)

(* FileMetaData *)
Table(number, entries) ==
  [number |-> number, entries |-> entries,
   smallest |-> First(entries), largest |-> Last(entries)]

EntriesOf(tables) == UNION {f.entries : f \in tables}
NumbersOf(version) == {f.number : f \in UNION {version[n] : n \in Levels}}

Overlaps(f, begin, end) == f.largest.key >= begin /\ f.smallest.key <= end
OverlapInLevel(version, level, begin, end) ==
  \E f \in version[level] : Overlaps(f, begin, end)

(* GetOverlappingInputs.  In level 0 a table that reaches beyond the range *)
(* widens it and the search starts again: what overlaps a table that was   *)
(* found is found as well.                                                 *)
Found(tables, begin, end) ==
  LET Reached(g, T) == \/ Overlaps(g, begin, end)
                       \/ \E h \in T : Overlaps(g, h.smallest.key, h.largest.key) IN
  {f \in tables : \A T \in SUBSET tables :
     (\A g \in tables : Reached(g, T) => g \in T) => f \in T}

GetOverlappingInputs(level, begin, end) ==
  IF level = 0 THEN Found(levels[0], begin, end)
               ELSE {f \in levels[level] : Overlaps(f, begin, end)}

-----------------------------------------------------------------------------
(* Reading *)

Hits(entries, k, seq) == {e \in entries : e.key = k /\ e.seq <= seq}
Newest(entries) == {e \in entries : \A d \in entries : d.seq <= e.seq}

(* The tables of level 0 are searched from the newest. *)
GetInLevel0(version, k, seq) ==
  UNION {Newest(Hits(f.entries, k, seq)) :
           f \in {g \in version[0] : \A h \in version[0] :
                    h.number > g.number => Hits(h.entries, k, seq) = {}}}

(* FindFile: the first table that does not end before the key; no other    *)
(* table of the level is looked at.                                        *)
EndsBefore(f, k, seq) == Before(f.largest, [key |-> k, seq |-> seq])
FindFile(tables, k, seq) ==
  {f \in tables : /\ ~EndsBefore(f, k, seq)
                  /\ \A g \in tables :
                       g = f \/ EndsBefore(g, k, seq) \/ Before(f.smallest, g.smallest)}

GetInLevel(version, level, k, seq) ==
  IF level = 0 THEN GetInLevel0(version, k, seq)
  ELSE UNION {Newest(Hits(f.entries, k, seq)) : f \in FindFile(version[level], k, seq)}

(* Get: the memtables, then level by level down to the first hit. *)
Get(k, seq) ==
  LET inMem == Hits(mem, k, seq)
      Passes(n) == GetInLevel(levels, n, k, seq) = {}
  IN IF inMem # {} THEN Newest(inMem)
     ELSE UNION {GetInLevel(levels, n, k, seq) :
                   n \in {m \in Levels : \A l \in 0..(m - 1) : Passes(l)}}

Absent == 0
ValueOf(k, seq) ==
  LET found == {e.seq : e \in {d \in Get(k, seq) : ~d.del}} IN
  IF found = {} THEN Absent ELSE CHOOSE v \in found : TRUE

-----------------------------------------------------------------------------
(* Writing, snapshots and iterators *)

Write(k, del) ==
  /\ lastSequence < MaxWrites
  /\ del => k \in DeletedKeys
  /\ lastSequence' = lastSequence + 1
  /\ mem' = mem \cup {[key |-> k, seq |-> lastSequence + 1, del |-> del]}
  /\ UNCHANGED <<tableVars, snapshots, iterators, merge>>

GetSnapshot ==
  /\ lastSequence \notin snapshots
  /\ Cardinality(snapshots) < MaxSnapshots
  /\ snapshots' = snapshots \cup {lastSequence}
  /\ UNCHANGED <<lastSequence, mem, tableVars, iterators, merge>>

ReleaseSnapshot(seq) ==
  /\ snapshots' = snapshots \ {seq}
  /\ UNCHANGED <<lastSequence, mem, tableVars, iterators, merge>>

NewIterator ==
  /\ Cardinality(iterators) < MaxIterators
  /\ iterators' = iterators \cup {NumbersOf(levels)}
  /\ UNCHANGED <<lastSequence, mem, tableVars, snapshots, merge>>

DeleteIterator(held) ==
  /\ iterators' = iterators \ {held}
  /\ UNCHANGED <<lastSequence, mem, tableVars, snapshots, merge>>

-----------------------------------------------------------------------------
(* A memtable becomes a table *)

(* Fault: the current version is left out. *)
FilesOfOthers(version, held) == UNION held

(* Fault: only the current version counts. *)
CurrentFiles(version, held) == NumbersOf(version)

(* AddLiveFiles: the tables of every version that is in use *)
AddLiveFiles(version, held) == NumbersOf(version) \cup UNION held

(* The compaction holds the version it began with. *)
Held == iterators \cup (IF merge = NoMerge THEN {} ELSE {NumbersOf(merge.base)})

(* Fault: the level it arrives at is not asked. *)
PickLevelUnchecked(level, begin, end) ==
  /\ level <= kMaxMemCompactLevel
  /\ level > 0 => ~OverlapInLevel(levels, 0, begin, end)

(* Fault: the tables of level 0 are not asked. *)
PickLevelBelowLevel0(level, begin, end) ==
  /\ level <= kMaxMemCompactLevel
  /\ \A n \in 1..level : ~OverlapInLevel(levels, n, begin, end)
  /\ level < kMaxMemCompactLevel =>
       \/ OverlapInLevel(levels, level + 1, begin, end)
       \/ level + 2 < kNumLevels /\ OverlapInLevel(levels, level + 2, begin, end)

(* PickLevelForMemTableOutput: down to the first level below which there   *)
(* is overlap, or too much of it further down.                             *)
PickLevelForMemTableOutput(level, begin, end) ==
  /\ level <= kMaxMemCompactLevel
  /\ level > 0 => \A n \in 0..level : ~OverlapInLevel(levels, n, begin, end)
  /\ level < kMaxMemCompactLevel =>
       \/ OverlapInLevel(levels, 0, begin, end)
       \/ OverlapInLevel(levels, level + 1, begin, end)
       \/ level + 2 < kNumLevels /\ OverlapInLevel(levels, level + 2, begin, end)

(* CompactMemTable, which also runs in the middle of a compaction *)
CompactMemTable ==
  /\ mem # {}
  /\ LET f == Table(nextFile, mem) IN
     \E level \in Levels :
       /\ PickLevelForMemTableOutput(level, f.smallest.key, f.largest.key)
       /\ levels' = [levels EXCEPT ![level] = @ \cup {f}]
       /\ files' = (files \cup {nextFile}) \cap
                   (AddLiveFiles(levels, Held) \cup {nextFile})
  /\ mem' = {}
  /\ nextFile' = nextFile + 1
  /\ UNCHANGED <<lastSequence, snapshots, iterators, merge>>

-----------------------------------------------------------------------------
(* Compactions *)

(* FindSmallestBoundaryFile: the table that begins with the next entry of  *)
(* the key of this one                                                     *)
FindSmallestBoundaryFile(tables, largest) ==
  LET behind == {f \in tables : f.smallest.key = largest.key /\ Before(largest, f.smallest)} IN
  {f \in behind : \A g \in behind : g = f \/ Before(f.smallest, g.smallest)}

(* Fault: the inputs as they are. *)
JustInputs(tables, inputs) == inputs

(* AddBoundaryInputs: with the table that ends with an entry of a key goes *)
(* the one that begins with an earlier entry of it, and so on.             *)
AddBoundaryInputs(tables, inputs) ==
  LET first == FindSmallestBoundaryFile(tables, Last(EntriesOf(inputs))) IN
  inputs \cup {f \in tables : \A T \in SUBSET tables :
     first \subseteq T /\ (\A g \in T : FindSmallestBoundaryFile(tables, g.largest) \subseteq T)
     => f \in T}

OverlappedBy(level, inputs) ==
  GetOverlappingInputs(level, First(EntriesOf(inputs)).key, Last(EntriesOf(inputs)).key)

(* SetupOtherInputs: the tables of the next level that the inputs overlap, *)
(* and more tables of this level if that takes none more of the next and   *)
(* they are not too large.                                                 *)
SetupOtherInputs(level, inputs) ==
  LET in0 == AddBoundaryInputs(levels[level], inputs)
      in1 == OverlappedBy(level + 1, in0)
      expanded0 == AddBoundaryInputs(levels[level], OverlappedBy(level, in0 \cup in1))
      expanded1 == OverlappedBy(level + 1, expanded0)
      grows == /\ in1 # {}
               /\ Cardinality(expanded0) > Cardinality(in0)
               /\ Cardinality(expanded1) = Cardinality(in1)
  IN {[parents |-> in0, children |-> in1]} \cup
     (IF grows THEN {[parents |-> expanded0, children |-> expanded1]} ELSE {})

(* Finalize and UpdateStats: a table of level 0 is due when there are many *)
(* of them, any other when its level is large, and each when reads have to *)
(* look at another table behind it.                                        *)
Due(level, f) ==
  \/ level > 0
  \/ Cardinality(levels[0]) >= kL0_CompactionTrigger
  \/ \E n \in Levels : \E g \in levels[n] :
       g # f /\ Overlaps(g, f.smallest.key, f.largest.key)

(* PickCompaction: a table that is due, in level 0 with all it overlaps *)
PickCompaction(level, f) ==
  IF level = 0
  THEN GetOverlappingInputs(0, f.smallest.key, f.largest.key)
  ELSE {f}

(* IsTrivialMove: one table, nothing to merge it with, and not too much    *)
(* below.                                                                  *)
MayMove(c) == c.children = {} /\ \E f \in c.parents : c.parents = {f}
MayNotMove(level, c) ==
  MayMove(c) => level + 2 < kNumLevels /\ OverlappedBy(level + 2, c.parents) # {}

(* Move the only table to the next level. *)
TrivialMove(level, f) ==
  /\ levels' = [levels EXCEPT ![level] = @ \ {f}, ![level + 1] = @ \cup {f}]
  /\ UNCHANGED <<nextFile, files, merge>>

smallest_snapshot ==
  IF snapshots = {} THEN lastSequence ELSE CHOOSE s \in snapshots : \A t \in snapshots : s <= t

BeginMerge(level, inputs, manual) ==
  \E c \in SetupOtherInputs(level, inputs) :
    \/ /\ manual \/ MayNotMove(level, c)
       /\ merge' = [level |-> level, parents |-> c.parents, children |-> c.children,
                    oldest |-> smallest_snapshot, base |-> levels]
       /\ UNCHANGED tableVars
    \/ /\ ~manual /\ MayMove(c)
       /\ \E f \in c.parents : TrivialMove(level, f)

BackgroundCompaction(level) ==
  /\ merge = NoMerge
  /\ \E f \in levels[level] :
       Due(level, f) /\ BeginMerge(level, PickCompaction(level, f), FALSE)
  /\ UNCHANGED <<lastSequence, mem, snapshots, iterators>>

(* CompactRange: all tables of the level in the range; beyond level 0 the  *)
(* first of them if they are too large.                                    *)
Prefix(tables, f) == {g \in tables : g = f \/ Before(g.smallest, f.smallest)}

CompactRange(level, begin, end) ==
  /\ Manual
  /\ begin <= end
  /\ merge = NoMerge
  /\ LET tables == GetOverlappingInputs(level, begin, end) IN
     /\ tables # {}
     /\ IF level = 0 THEN BeginMerge(level, tables, TRUE)
        ELSE \E f \in tables : BeginMerge(level, Prefix(tables, f), TRUE)
  /\ UNCHANGED <<lastSequence, mem, snapshots, iterators>>

(* Fault: one level is skipped. *)
IsBaseBelowGrandparents(k) ==
  \A n \in (merge.level + 3)..(kNumLevels - 1) : ~OverlapInLevel(merge.base, n, k, k)

(* IsBaseLevelForKey, by the version the compaction began with *)
IsBaseLevelForKey(k) ==
  \A n \in (merge.level + 2)..(kNumLevels - 1) : ~OverlapInLevel(merge.base, n, k, k)

(* DoCompactionWork drops what a later entry hides from all snapshots, and *)
(* a deletion that has nothing left to delete.                             *)
Dropped(e, entries) ==
  \/ \E d \in entries : d.key = e.key /\ d.seq > e.seq /\ d.seq <= merge.oldest
  \/ e.del /\ e.seq <= merge.oldest /\ IsBaseLevelForKey(e.key)

(* Fault: everything goes that a later entry hides. *)
LatestOnly(entries) ==
  {e \in entries : \A d \in entries : d.key = e.key => d.seq <= e.seq}

Survivors(entries) == {e \in entries : ~Dropped(e, entries)}

(* The outputs: the survivors in order, cut behind some of them. *)
MayCutBehind(e, entries) ==
  /\ \E d \in entries : Before(e, d)
  /\ e.key \in SplitKeys \/ \A c \in entries : c.key = e.key => ~Before(e, c)

Outputs(entries, cuts) ==
  LET parts == {{e \in entries : {c \in cuts : Before(c, e)} = {c \in cuts : Before(c, d)}} :
                  d \in entries}
  IN {Table(nextFile + Cardinality({c \in cuts : Before(c, First(part))}), part) :
        part \in parts}

InstallCompactionResults ==
  /\ merge # NoMerge
  /\ LET entries == Survivors(EntriesOf(merge.parents \cup merge.children)) IN
     \E cuts \in SUBSET {e \in entries : MayCutBehind(e, entries)} :
       LET outputs == Outputs(entries, cuts)
           installed == [levels EXCEPT ![merge.level] = @ \ merge.parents,
                                       ![merge.level + 1] = (@ \ merge.children) \cup outputs]
       IN /\ levels' = installed
          /\ nextFile' = nextFile + (IF entries = {} THEN 0 ELSE Cardinality(cuts) + 1)
          /\ files' = (files \cup {f.number : f \in outputs}) \cap
                      AddLiveFiles(installed, iterators)
  /\ merge' = NoMerge
  /\ UNCHANGED <<lastSequence, mem, snapshots, iterators>>

-----------------------------------------------------------------------------
Next ==
  \/ \E k \in Keys, del \in BOOLEAN : Write(k, del)
  \/ GetSnapshot
  \/ \E seq \in snapshots : ReleaseSnapshot(seq)
  \/ NewIterator
  \/ \E held \in iterators : DeleteIterator(held)
  \/ CompactMemTable
  \/ \E level \in 0..(kNumLevels - 2) : BackgroundCompaction(level)
  \/ \E level \in 0..(kNumLevels - 2), begin, end \in Keys : CompactRange(level, begin, end)
  \/ InstallCompactionResults

Spec == Init /\ [][Next]_vars

-----------------------------------------------------------------------------
(* Properties *)

Entries == [key : Keys, seq : 1..lastSequence, del : BOOLEAN]
TypeOK ==
  /\ lastSequence \in 0..MaxWrites
  /\ mem \subseteq Entries
  /\ \A n \in Levels : \A f \in levels[n] :
       f.number \in files /\ f.entries # {} /\ f.entries \subseteq Entries
  /\ \A n \in files : n < nextFile
  /\ snapshots \subseteq 0..lastSequence

(* The writes and the snapshots as their users see them; flushes and       *)
(* compactions are not seen.                                               *)
View(seq) == [k \in Keys |-> ValueOf(k, seq)]
Map == INSTANCE SnapshotMap WITH
  time   <- lastSequence,
  latest <- View(lastSequence),
  kept   <- [seq \in snapshots |-> View(seq)]

(* What is read, now or through any snapshot, is what was written, through *)
(* every order of writes, flushes, moves and compactions, whatever they    *)
(* drop and wherever they cut.                                             *)
KeepsSnapshots == Map!Spec

(* "Must not overlap": beyond level 0 the tables of a level are disjoint,  *)
(* which a flush into the output level of a running compaction could break. *)
NoOverlap ==
  \A n \in Levels \ {0} : \A f, g \in levels[n] :
    f = g \/ Before(f.largest, g.smallest) \/ Before(g.largest, f.smallest)

(* "Entries never hop across levels": of two entries of a key the later    *)
(* one is nearer to the top, and in level 0 in the table that is newer.    *)
NewerAbove ==
  /\ \A n \in Levels : \A m \in Levels : n < m =>
       \A e \in EntriesOf(levels[n]), d \in EntriesOf(levels[m]) :
         e.key = d.key => e.seq > d.seq
  /\ \A f, g \in levels[0] : f.number > g.number =>
       \A e \in f.entries, d \in g.entries : e.key = d.key => e.seq > d.seq

(* A table is on disk as long as a version that has it is in use. *)
HeldFilesExist ==
  \A held \in Held \cup {NumbersOf(levels)} : held \subseteq files
=============================================================================
