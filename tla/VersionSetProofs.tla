--------------------------- MODULE VersionSetProofs ---------------------------
(***************************************************************************)
(* Theorems about VersionSet: which tables there are and who still needs   *)
(* them, and, when nobody calls CompactRange, that the levels stay sorted, *)
(* that later entries stay above earlier ones, and that reads and          *)
(* snapshots see a map that only writes change.                            *)
(***************************************************************************)
EXTENDS VersionSet, TLAPS, WellFoundedInduction, FiniteSetTheorems

-----------------------------------------------------------------------------
(* The inductive invariant: what there is *)

AnyEntry == [key : Keys, seq : Nat, del : BOOLEAN]
Tables == [number : Nat, entries : SUBSET AnyEntry, smallest : AnyEntry, largest : AnyEntry]

Written == UNION {EntriesOf(levels[n]) : n \in Levels}

(* A table is not empty and knows its first and its last entry. *)
WellFormed(f) ==
  /\ f.smallest \in f.entries
  /\ f.largest \in f.entries
  /\ \A e \in f.entries : e = f.smallest \/ Before(f.smallest, e)
  /\ \A e \in f.entries : e = f.largest \/ Before(e, f.largest)

Typed ==
  /\ TypeOK
  /\ nextFile \in Nat /\ files \subseteq Nat
  /\ levels \in [Levels -> SUBSET Tables]
  /\ \A n \in Levels : \A f \in levels[n] : WellFormed(f)
  /\ merge \in [level : 0..kNumLevels, parents : SUBSET Tables, children : SUBSET Tables,
                oldest : Nat, base : [Levels -> SUBSET Tables]]

(* A sequence number is given once, and the memtable has the latest. *)
Numbered ==
  /\ \A e, d \in mem \cup Written : e.seq = d.seq => e = d
  /\ \A e \in mem, d \in Written : e.seq > d.seq

(* The inputs of a compaction stay in their levels until its results are   *)
(* installed.                                                              *)
Inputs == merge.parents \cup merge.children
InPlace ==
  merge # NoMerge =>
    /\ merge.level \in 0..(kNumLevels - 2)
    /\ merge.parents # {}
    /\ merge.parents \subseteq levels[merge.level]
    /\ merge.children \subseteq levels[merge.level + 1]

Stocked == Typed /\ Numbered /\ InPlace /\ HeldFilesExist

-----------------------------------------------------------------------------
(* The inductive invariant: where it is, when there is no CompactRange *)

(* Tables of a level beyond the first share no key but those cut in two. *)
Whole ==
  \A n \in Levels \ {0} : \A f, g \in levels[n] : f # g =>
    \A e \in f.entries, d \in g.entries : e.key = d.key => e.key \in SplitKeys

(* Tables g lies before all of the inputs, or behind. *)
Aside(g, inputs) ==
  \/ \A e \in EntriesOf(inputs) : Before(g.largest, e)
  \/ \A e \in EntriesOf(inputs) : Before(e, g.smallest)

(* A range of keys that no input overlaps lies before them or behind. *)
NoGap(inputs) ==
  \A a, b \in Keys : a <= b /\ (\A f \in inputs : ~Overlaps(f, a, b)) =>
    \/ \A f \in inputs : f.largest.key < a
    \/ \A f \in inputs : b < f.smallest.key

(* What stays behind in the level of the compaction is later than what it  *)
(* takes.                                                                  *)
LaterStays(tables, parents) ==
  \A g \in tables \ parents : \A e \in g.entries, d \in EntriesOf(parents) :
    e.key = d.key => e.seq > d.seq

(* Inputs that can be merged into the next level *)
Mergeable(level, parents, children) ==
  LET inputs == parents \cup children IN
  /\ LaterStays(levels[level], parents)
  /\ \A g \in levels[level + 1] \ children : Aside(g, inputs)
  /\ NoGap(inputs)
  /\ \A g \in levels[level + 1] \ children :
       \A e \in g.entries, d \in EntriesOf(inputs) : e.key = d.key => e.key \in SplitKeys

(* A compaction may be finished whatever was flushed since it began, and   *)
(* its version still tells which keys there are further down.              *)
Merging ==
  merge # NoMerge =>
    /\ Mergeable(merge.level, merge.parents, merge.children)
    /\ \A n \in (merge.level + 2)..(kNumLevels - 1) : \A g \in levels[n] \ merge.base[n] :
         \A f \in Inputs : ~Overlaps(g, f.smallest.key, f.largest.key)
    /\ merge.oldest <= lastSequence
    /\ \A s \in snapshots : merge.oldest <= s

(* Only keys that are deleted have deletions. *)
Deletions == \A e \in mem \cup Written : e.del => e.key \in DeletedKeys

Layered == Stocked /\ NoOverlap /\ NewerAbove /\ Whole /\ Merging /\ Deletions
-----------------------------------------------------------------------------
(* Numbers, entries and their order *)

(* Every set of natural numbers has a smallest one. *)
LEMMA LeastNumber ==
  ASSUME NEW T, T \subseteq Nat, T # {}
  PROVE  \E m \in T : \A n \in T : m <= n
<1> DEFINE R == OpToRel(<, Nat)
<1>1. \A i, j \in Nat : <<i, j>> \in R <=> i < j
  BY DEF OpToRel
<1>2. IsWellFoundedOn(R, Nat)
  BY NatLessThanWellFounded
<1> HIDE DEF R
<1>3. PICK x \in T : \A y \in T : ~(<<y, x>> \in R)
  BY <1>2, WFMin
<1>4. \A y \in T : ~(y < x)
  BY <1>1, <1>3, Zenon
<1>5. x \in T /\ x \in Nat /\ \A y \in T : y \in Nat
  OBVIOUS
<1>6. \A y \in T : x <= y
  BY <1>4, <1>5
<1> QED BY <1>6

(* Before is a strict order, total on entries with different numbers. *)
LEMMA EntryOrder ==
  /\ \A a, b, c \in AnyEntry : Before(a, b) /\ Before(b, c) => Before(a, c)
  /\ \A a, b \in AnyEntry : ~(Before(a, b) /\ Before(b, a))
  /\ \A a, b \in AnyEntry : a.seq # b.seq => Before(a, b) \/ Before(b, a)
  /\ \A a, b \in AnyEntry : Before(a, b) => a.key <= b.key
<1>1. \A a \in AnyEntry : a.key \in Nat /\ a.seq \in Nat
  BY KeyAssumption DEF AnyEntry
<1> QED BY <1>1 DEF Before

Distinct(S) == S \subseteq AnyEntry /\ \A e, d \in S : e.seq = d.seq => e = d
IsFirst(S, e) == e \in S /\ \A d \in S : d = e \/ Before(e, d)
IsLast(S, e)  == e \in S /\ \A d \in S : d = e \/ Before(d, e)

(* Entries with different numbers up to some bound have a first and a last *)
(* one.                                                                    *)
LEMMA EndsExist ==
  ASSUME NEW S, NEW b \in Nat, Distinct(S), S # {}, \A e \in S : e.seq <= b
  PROVE  (\E e \in S : IsFirst(S, e)) /\ (\E e \in S : IsLast(S, e))
<1> DEFINE Good(T) == (\E e \in T : IsFirst(T, e)) /\ (\E e \in T : IsLast(T, e))
           Upto(T, n) == Distinct(T) /\ T # {} /\ \A e \in T : e.seq <= n
           Bad == {n \in Nat : \E T \in SUBSET AnyEntry : Upto(T, n) /\ ~Good(T)}
<1>1. SUFFICES Bad = {}
  <2>1. S \in SUBSET AnyEntry /\ Upto(S, b)
    BY DEF Distinct
  <2> HIDE DEF Good, Upto
  <2>2. Good(S)
    BY <1>1, <2>1
  <2> QED BY <2>2 DEF Good
<1>2. SUFFICES ASSUME Bad # {} PROVE FALSE
  OBVIOUS
<1> HIDE DEF Good, Upto
<1>3. PICK m \in Bad : \A n \in Bad : m <= n
  <2>1. Bad \subseteq Nat
    OBVIOUS
  <2> HIDE DEF Bad
  <2> QED BY <1>2, <2>1, LeastNumber
<1>4. PICK T \in SUBSET AnyEntry : Upto(T, m) /\ ~Good(T)
  OBVIOUS
<1>5. m \in Nat
  OBVIOUS
<1>6. \A e \in T : e \in AnyEntry /\ e.seq \in Nat /\ e.seq <= m
  BY <1>4 DEF Upto, AnyEntry
<1>7. PICK e \in T : e.seq = m
  <2>1. SUFFICES ASSUME \A x \in T : x.seq # m PROVE FALSE
    OBVIOUS
  <2>2. \A x \in T : x.seq <= m - 1
    BY <1>5, <1>6, <2>1
  <2>3. m - 1 \in Nat
    <3>1. PICK x \in T : TRUE
      BY <1>4 DEF Upto
    <3>2. x.seq \in Nat /\ x.seq <= m - 1
      BY <1>6, <2>2
    <3> QED BY <1>5, <3>2
  <2>4. Upto(T, m - 1)
    BY <1>4, <2>2 DEF Upto
  <2>5. m - 1 \in Bad
    BY <1>4, <2>3, <2>4
  <2> QED BY <1>3, <1>5, <2>5
<1>8. CASE T = {e}
  BY <1>4, <1>8 DEF Good, IsFirst, IsLast
<1>9. CASE T # {e}
  <2> DEFINE U == T \ {e}
  <2>1. U # {} /\ U \in SUBSET AnyEntry /\ Distinct(U)
    BY <1>4, <1>7, <1>9 DEF Upto, Distinct
  <2>2. \A x \in U : x.seq <= m - 1 /\ x.seq # e.seq
    <3>1. \A x \in U : x.seq # e.seq
      BY <1>4, <1>7 DEF Upto, Distinct
    <3> QED BY <1>5, <1>6, <1>7, <3>1
  <2>3. m - 1 \in Nat
    <3>1. PICK x \in U : TRUE
      BY <2>1
    <3>2. x.seq \in Nat /\ x.seq <= m - 1
      BY <1>6, <2>2
    <3> QED BY <1>5, <3>2
  <2>4. m - 1 \notin Bad
    BY <1>3, <1>5, <2>3
  <2>5. Upto(U, m - 1)
    BY <2>1, <2>2 DEF Upto
  <2>6. Good(U)
    BY <2>1, <2>3, <2>4, <2>5
  <2>7. T = U \cup {e} /\ e \in AnyEntry /\ U \subseteq AnyEntry
    BY <1>6, <1>7
  <2> HIDE DEF U, Bad
  <2>8. PICK x \in U : IsFirst(U, x)
    BY <2>6 DEF Good
  <2>9. PICK y \in U : IsLast(U, y)
    BY <2>6 DEF Good
  <2>10. Before(e, x) \/ Before(x, e)
    BY <2>2, <2>7, EntryOrder
  <2>11. Before(e, y) \/ Before(y, e)
    BY <2>2, <2>7, EntryOrder
  <2>12. \E z \in T : IsFirst(T, z)
    <3>1. CASE Before(e, x)
      <4>1. \A d \in U : Before(e, d)
        BY <2>7, <2>8, <3>1, EntryOrder DEF IsFirst
      <4> QED BY <2>7, <4>1 DEF IsFirst
    <3>2. CASE Before(x, e)
      BY <2>7, <2>8, <3>2 DEF IsFirst
    <3> QED BY <2>10, <3>1, <3>2
  <2>13. \E z \in T : IsLast(T, z)
    <3>1. CASE Before(y, e)
      <4>1. \A d \in U : Before(d, e)
        BY <2>7, <2>9, <3>1, EntryOrder DEF IsLast
      <4> QED BY <2>7, <4>1 DEF IsLast
    <3>2. CASE Before(e, y)
      BY <2>7, <2>9, <3>2 DEF IsLast
    <3> QED BY <2>11, <3>1, <3>2
  <2> QED BY <1>4, <2>12, <2>13 DEF Good
<1> QED BY <1>8, <1>9

(* What First and Last choose *)
LEMMA Ends ==
  ASSUME NEW S, NEW b \in Nat, Distinct(S), S # {}, \A e \in S : e.seq <= b
  PROVE  IsFirst(S, First(S)) /\ IsLast(S, Last(S))
<1>1. PICK e \in S : IsFirst(S, e)
  BY EndsExist
<1>2. PICK d \in S : IsLast(S, d)
  BY EndsExist
<1>3. IsFirst(S, First(S))
  BY <1>1 DEF IsFirst, First
<1>4. IsLast(S, Last(S))
  BY <1>2 DEF IsLast, Last
<1> QED BY <1>3, <1>4

(* Such a set is finite. *)
LEMMA FewEntries ==
  ASSUME NEW S, NEW b \in Nat, Distinct(S), \A e \in S : e.seq <= b
  PROVE  IsFiniteSet(S)
<1> DEFINE f == [e \in S |-> e.seq]
<1>1. \A e \in S : e.seq \in 0..b
  BY DEF Distinct, AnyEntry
<1>2. f \in Injection(S, 0..b)
  BY <1>1 DEF Distinct, Injection, IsInjective
<1>3. IsFiniteSet(0..b)
  BY FS_Interval
<1> HIDE DEF f
<1> QED BY <1>2, <1>3, FS_Injection

(* The table of such a set *)
LEMMA NewTable ==
  ASSUME NEW S, NEW b \in Nat, Distinct(S), S # {}, \A e \in S : e.seq <= b, NEW n \in Nat
  PROVE  /\ Table(n, S) \in Tables /\ WellFormed(Table(n, S))
         /\ Table(n, S).number = n /\ Table(n, S).entries = S
<1> DEFINE f == Table(n, S)
<1>1. IsFirst(S, First(S)) /\ IsLast(S, Last(S))
  BY Ends
<1>2. /\ f = [number |-> n, entries |-> S, smallest |-> First(S), largest |-> Last(S)]
      /\ f.number = n /\ f.entries = S /\ f.smallest = First(S) /\ f.largest = Last(S)
  BY DEF Table
<1>3. First(S) \in AnyEntry /\ Last(S) \in AnyEntry /\ S \in SUBSET AnyEntry
  BY <1>1 DEF IsFirst, IsLast, Distinct
<1>4. f \in Tables
  BY <1>2, <1>3 DEF Tables
<1>5. WellFormed(f)
  BY <1>1, <1>2 DEF WellFormed, IsFirst, IsLast
<1> QED BY <1>2, <1>4, <1>5

(* Where an entry of a table is *)
LEMMA WrittenIn == \A e : e \in Written <=> \E n \in Levels : \E f \in levels[n] : e \in f.entries
BY DEF Written, EntriesOf

(* The same for some tables *)
LEMMA EntryIn == \A e, tables : e \in EntriesOf(tables) <=> \E f \in tables : e \in f.entries
BY DEF EntriesOf

(* All entries have different numbers up to the last sequence. *)
LEMMA AllDistinct ==
  ASSUME Typed, Numbered
  PROVE  /\ Distinct(mem \cup Written) /\ lastSequence \in Nat
         /\ \A e \in mem \cup Written : e \in Entries /\ e.seq \in 1..lastSequence
         /\ \A S : S \subseteq mem \cup Written =>
              Distinct(S) /\ S \subseteq AnyEntry /\ \A e \in S : e.seq <= lastSequence
<1>1. lastSequence \in Nat
  BY BoundAssumption DEF Typed, TypeOK
<1>2. \A e \in mem \cup Written : e \in Entries
  BY WrittenIn DEF Typed, TypeOK
<1>3. \A e \in Entries : e \in AnyEntry /\ e.seq \in 1..lastSequence
  BY <1>1 DEF Entries, AnyEntry
<1>4. Distinct(mem \cup Written)
  BY <1>2, <1>3 DEF Distinct, Numbered
<1>5. \A S : S \subseteq mem \cup Written =>
              Distinct(S) /\ S \subseteq AnyEntry /\ \A e \in S : e.seq <= lastSequence
  BY <1>1, <1>2, <1>3, <1>4 DEF Distinct
<1> QED BY <1>1, <1>2, <1>3, <1>4, <1>5

(* A step that makes no entry *)
LEMMA TablesTyped ==
  ASSUME Typed, Numbered, UNCHANGED <<lastSequence, snapshots>>,
         mem' \in {mem, {}}, nextFile' \in Nat, files' \subseteq Nat,
         \A n \in files' : n < nextFile',
         levels' \in [Levels -> SUBSET Tables],
         \A n \in Levels : \A f \in levels'[n] :
           WellFormed(f) /\ f.number \in files' /\ f.entries \subseteq (mem \ mem') \cup Written,
         merge' \in [level : 0..kNumLevels, parents : SUBSET Tables, children : SUBSET Tables,
                     oldest : Nat, base : [Levels -> SUBSET Tables]]
  PROVE  Typed' /\ Numbered'
<1>1. Written' \subseteq (mem \ mem') \cup Written
  BY DEF Written, EntriesOf
<1>2. Entries' = Entries
  BY DEF Entries
<1>3. mem \cup Written \subseteq Entries
  BY AllDistinct
<1>4. \A n \in Levels : \A f \in levels'[n] : f.entries # {} /\ f.entries \subseteq Entries
  BY <1>3 DEF WellFormed
<1>5. TypeOK'
  BY <1>2, <1>4 DEF Typed, TypeOK
<1>6. Typed'
  BY <1>5 DEF Typed
<1>7. \A e, d \in mem' \cup Written' : e.seq = d.seq => e = d
  BY <1>1 DEF Numbered
<1>8. \A e \in mem', d \in Written' : e.seq > d.seq
  BY <1>1 DEF Numbered
<1> QED BY <1>6, <1>7, <1>8 DEF Numbered

-----------------------------------------------------------------------------
(* Which tables a compaction takes *)

AllTables == UNION {levels[n] : n \in Levels}
Begin(X) == First(EntriesOf(X)).key
End(X)   == Last(EntriesOf(X)).key

(* What is known of every table of the current version *)
LEMMA EveryTable ==
  ASSUME Typed, Numbered
  PROVE  \A f \in AllTables :
           /\ f \in Tables /\ WellFormed(f) /\ f.number \in files
           /\ f.entries \subseteq Written /\ f.entries # {}
           /\ f.smallest \in AnyEntry /\ f.largest \in AnyEntry
           /\ f.smallest.key \in Keys /\ f.largest.key \in Keys /\ f.smallest.key <= f.largest.key
           /\ \A e \in f.entries : f.smallest.key <= e.key /\ e.key <= f.largest.key
<1> SUFFICES ASSUME NEW f \in AllTables
             PROVE /\ f \in Tables /\ WellFormed(f) /\ f.number \in files
                   /\ f.entries \subseteq Written /\ f.entries # {}
                   /\ f.smallest \in AnyEntry /\ f.largest \in AnyEntry
                   /\ f.smallest.key \in Keys /\ f.largest.key \in Keys
                   /\ f.smallest.key <= f.largest.key
                   /\ \A e \in f.entries : f.smallest.key <= e.key /\ e.key <= f.largest.key
  OBVIOUS
<1>1. PICK n \in Levels : f \in levels[n]
  BY DEF AllTables
<1>2. f \in Tables /\ WellFormed(f) /\ f.number \in files
  BY <1>1 DEF Typed, TypeOK
<1>3. f.entries \subseteq Written
  BY <1>1, WrittenIn
<1>4. f.smallest \in AnyEntry /\ f.largest \in AnyEntry /\ f.entries \subseteq AnyEntry
  BY <1>2 DEF Tables
<1>5. \A e \in AnyEntry : e.key \in Keys /\ e.key \in Nat
  BY KeyAssumption DEF AnyEntry
<1>6. \A e \in f.entries : f.smallest.key <= e.key /\ e.key <= f.largest.key
  BY <1>2, <1>4, <1>5, EntryOrder DEF WellFormed
<1> QED BY <1>2, <1>3, <1>4, <1>5, <1>6 DEF WellFormed

(* The range of keys of some tables *)
LEMMA Hull ==
  ASSUME Typed, Numbered, NEW X, X \subseteq AllTables, X # {}
  PROVE  /\ Begin(X) \in Keys /\ End(X) \in Keys
         /\ \A f \in X : Begin(X) <= f.smallest.key /\ f.largest.key <= End(X)
         /\ \E f \in X : f.smallest.key = Begin(X)
         /\ \E f \in X : f.largest.key = End(X) /\ f.largest = Last(EntriesOf(X))
         /\ IsLast(EntriesOf(X), Last(EntriesOf(X)))
<1> DEFINE S == EntriesOf(X)
<1>1. \A e : e \in S <=> \E f \in X : e \in f.entries
  BY EntryIn
<1>2. \A f \in X : /\ WellFormed(f) /\ f.entries \subseteq Written /\ f.entries # {}
                   /\ \A e \in f.entries : f.smallest.key <= e.key /\ e.key <= f.largest.key
  BY EveryTable
<1>3. S \subseteq mem \cup Written /\ S # {}
  BY <1>1, <1>2
<1>4. Distinct(S) /\ lastSequence \in Nat /\ \A e \in S : e.seq <= lastSequence
  BY <1>3, AllDistinct
<1>5. IsFirst(S, First(S)) /\ IsLast(S, Last(S))
  BY <1>3, <1>4, Ends
<1>6. S \subseteq AnyEntry /\ \A e \in AnyEntry : e.key \in Keys /\ e.key \in Nat
  BY <1>4, KeyAssumption DEF Distinct, AnyEntry
<1> HIDE DEF S
<1>7. First(S) \in AnyEntry /\ Last(S) \in AnyEntry
  BY <1>5, <1>6 DEF IsFirst, IsLast
<1>8. \A e \in S : First(S).key <= e.key /\ e.key <= Last(S).key
  BY <1>5, <1>6, <1>7, EntryOrder DEF IsFirst, IsLast
<1>9. \A f \in X : f.smallest \in S /\ f.largest \in S
  BY <1>1, <1>2 DEF WellFormed
<1>10. PICK f \in X : First(S) \in f.entries
  BY <1>1, <1>5 DEF IsFirst
<1>11. PICK g \in X : Last(S) \in g.entries
  BY <1>1, <1>5 DEF IsLast
<1>12. f.smallest.key = First(S).key
  BY <1>2, <1>6, <1>7, <1>8, <1>9, <1>10
<1>13. g.largest = Last(S)
  <2>1. g.largest = Last(S) \/ Before(g.largest, Last(S))
    BY <1>5, <1>9 DEF IsLast
  <2>2. g.largest = Last(S) \/ Before(Last(S), g.largest)
    BY <1>2, <1>11 DEF WellFormed
  <2> QED BY <1>6, <1>7, <1>9, <2>1, <2>2, EntryOrder
<1> QED BY <1>5, <1>6, <1>7, <1>8, <1>9, <1>12, <1>13 DEF S, Begin, End

Reaches(tables, begin, end, T) ==
  \A g \in tables :
    (Overlaps(g, begin, end) \/ \E h \in T : Overlaps(g, h.smallest.key, h.largest.key)) => g \in T

(* What is found in level 0 is the smallest set that has what it reaches. *)
LEMMA FoundIsLeast ==
  ASSUME NEW tables, NEW begin, NEW end
  PROVE  /\ Found(tables, begin, end) \subseteq tables
         /\ Reaches(tables, begin, end, Found(tables, begin, end))
         /\ \A T \in SUBSET tables : Reaches(tables, begin, end, T) => Found(tables, begin, end) \subseteq T
<1> DEFINE F == Found(tables, begin, end)
<1>1. F = {f \in tables : \A T \in SUBSET tables : Reaches(tables, begin, end, T) => f \in T}
  BY DEF Found, Reaches
<1> HIDE DEF F
<1>2. Reaches(tables, begin, end, F)
  <2> SUFFICES ASSUME NEW g \in tables,
                      Overlaps(g, begin, end) \/ \E h \in F : Overlaps(g, h.smallest.key, h.largest.key),
                      NEW T \in SUBSET tables, Reaches(tables, begin, end, T)
               PROVE  g \in T
    BY <1>1 DEF Reaches
  <2>1. F \subseteq T
    BY <1>1
  <2> QED BY <2>1 DEF Reaches
<1>3. F \subseteq tables /\ \A T \in SUBSET tables : Reaches(tables, begin, end, T) => F \subseteq T
  BY <1>1
<1> QED BY <1>2, <1>3 DEF F

(* What GetOverlappingInputs returns *)
LEMMA OverlappingInputs ==
  ASSUME NEW level \in Levels, NEW begin, NEW end
  PROVE  /\ GetOverlappingInputs(level, begin, end) \subseteq levels[level]
         /\ \A f \in levels[level] : Overlaps(f, begin, end) => f \in GetOverlappingInputs(level, begin, end)
         /\ level # 0 => \A f \in GetOverlappingInputs(level, begin, end) : Overlaps(f, begin, end)
<1>1. CASE level = 0
  BY <1>1, FoundIsLeast DEF GetOverlappingInputs, Reaches
<1>2. CASE level # 0
  BY <1>2 DEF GetOverlappingInputs
<1> QED BY <1>1, <1>2

Continues(tables, inputs, T) ==
  /\ FindSmallestBoundaryFile(tables, Last(EntriesOf(inputs))) \subseteq T
  /\ \A g \in T : FindSmallestBoundaryFile(tables, g.largest) \subseteq T
Chain(tables, inputs) == {f \in tables : \A T \in SUBSET tables : Continues(tables, inputs, T) => f \in T}

(* What AddBoundaryInputs adds is the smallest set that continues itself. *)
LEMMA BoundaryIsLeast ==
  ASSUME NEW tables, NEW inputs
  PROVE  /\ AddBoundaryInputs(tables, inputs) = inputs \cup Chain(tables, inputs)
         /\ Chain(tables, inputs) \subseteq tables
         /\ Continues(tables, inputs, Chain(tables, inputs))
         /\ \A T \in SUBSET tables : Continues(tables, inputs, T) => Chain(tables, inputs) \subseteq T
<1> DEFINE C == Chain(tables, inputs)
<1>1. AddBoundaryInputs(tables, inputs) = inputs \cup C
  BY DEF AddBoundaryInputs, Chain, Continues
<1>2. C = {f \in tables : \A T \in SUBSET tables : Continues(tables, inputs, T) => f \in T}
  BY DEF Chain
<1> HIDE DEF C
<1>3. \A e : FindSmallestBoundaryFile(tables, e) \subseteq tables
  BY DEF FindSmallestBoundaryFile
<1>4. Continues(tables, inputs, C)
  <2>1. ASSUME NEW f \in FindSmallestBoundaryFile(tables, Last(EntriesOf(inputs))) PROVE f \in C
    BY <1>2, <1>3, <2>1 DEF Continues
  <2>2. ASSUME NEW g \in C, NEW f \in FindSmallestBoundaryFile(tables, g.largest) PROVE f \in C
    <3>1. f \in tables
      BY <1>3
    <3>2. ASSUME NEW T \in SUBSET tables, Continues(tables, inputs, T) PROVE f \in T
      <4>1. g \in T
        BY <1>2, <3>2
      <4> QED BY <3>2, <4>1 DEF Continues
    <3> QED BY <1>2, <3>1, <3>2
  <2> QED BY <2>1, <2>2 DEF Continues
<1> QED BY <1>1, <1>2, <1>4 DEF C

(* OverlappedBy is GetOverlappingInputs for the range of the tables. *)
LEMMA OverlappedRange == \A level, X : OverlappedBy(level, X) = GetOverlappingInputs(level, Begin(X), End(X))
BY DEF OverlappedBy, Begin, End

(* Tables overlap their own range. *)
LEMMA OverlapsHull ==
  ASSUME Typed, Numbered, NEW X, X \subseteq AllTables, X # {}
  PROVE  \A f \in X : Overlaps(f, Begin(X), End(X))
<1>1. \A f \in X : /\ f.smallest.key \in Nat /\ f.largest.key \in Nat /\ f.smallest.key <= f.largest.key
                   /\ Begin(X) <= f.smallest.key /\ f.largest.key <= End(X)
  BY EveryTable, Hull, KeyAssumption
<1>2. Begin(X) \in Nat /\ End(X) \in Nat
  BY Hull, KeyAssumption
<1> HIDE DEF Begin, End
<1> QED BY <1>1, <1>2 DEF Overlaps

(* The inputs that SetupOtherInputs can end with *)
Widest(level, inputs) ==
  LET in0 == AddBoundaryInputs(levels[level], inputs) IN
  OverlappedBy(level, in0 \cup OverlappedBy(level + 1, in0))

(* SetupOtherInputs ends with the inputs at the boundary, or with the      *)
(* widest, and with what they overlap in the next level.                   *)
LEMMA Setup ==
  ASSUME Typed, Numbered, NEW level \in 0..(kNumLevels - 2), NEW inputs, inputs \subseteq levels[level],
         inputs # {}, NEW c \in SetupOtherInputs(level, inputs)
  PROVE  /\ level \in Levels /\ level + 1 \in Levels
         /\ c.parents # {} /\ c.parents \subseteq levels[level] /\ c.parents \subseteq AllTables
         /\ c.children = OverlappedBy(level + 1, c.parents)
         /\ c.children \subseteq levels[level + 1] /\ c.children \subseteq AllTables
         /\ c.parents \in {AddBoundaryInputs(levels[level], inputs),
                           AddBoundaryInputs(levels[level], Widest(level, inputs))}
         /\ Widest(level, inputs) # {} /\ Widest(level, inputs) \subseteq levels[level]
         /\ AddBoundaryInputs(levels[level], inputs) \subseteq Widest(level, inputs)
<1> DEFINE in0 == AddBoundaryInputs(levels[level], inputs)
           in1 == OverlappedBy(level + 1, in0)
           wide == Widest(level, inputs)
           expanded0 == AddBoundaryInputs(levels[level], wide)
           expanded1 == OverlappedBy(level + 1, expanded0)
<1>1. level \in Levels /\ level + 1 \in Levels
  BY LevelAssumption DEF Levels
<1>2. levels[level] \subseteq AllTables /\ levels[level + 1] \subseteq AllTables
  BY <1>1 DEF AllTables
<1>3. in0 # {} /\ in0 \subseteq levels[level]
  BY BoundaryIsLeast
<1>4. \A X : OverlappedBy(level, X) \subseteq levels[level] /\ OverlappedBy(level + 1, X) \subseteq levels[level + 1]
  BY <1>1, OverlappedRange, OverlappingInputs
<1>5. wide \subseteq levels[level] /\ in0 \subseteq wide
  <2> DEFINE X == in0 \cup in1
  <2>1. X \subseteq AllTables /\ X # {}
    BY <1>2, <1>3, <1>4
  <2>2. \A f \in X : Overlaps(f, Begin(X), End(X))
    BY <2>1, OverlapsHull
  <2>3. wide = GetOverlappingInputs(level, Begin(X), End(X))
    BY OverlappedRange DEF Widest
  <2> HIDE DEF wide, X
  <2>4. in0 \subseteq X
    BY DEF X
  <2> HIDE DEF in0
  <2>5. \A f \in levels[level] : Overlaps(f, Begin(X), End(X)) => f \in wide
    BY <1>1, <2>3, OverlappingInputs
  <2>6. wide \subseteq levels[level]
    BY <1>1, <2>3, OverlappingInputs
  <2> QED BY <1>3, <2>2, <2>4, <2>5, <2>6
<1>6. expanded0 \subseteq levels[level] /\ expanded0 # {}
  BY <1>3, <1>5, BoundaryIsLeast
<1>7. c \in {[parents |-> in0, children |-> in1], [parents |-> expanded0, children |-> expanded1]}
  BY DEF SetupOtherInputs, Widest
<1> HIDE DEF in0, in1, expanded0, expanded1, wide
<1>8. c.parents \in {in0, expanded0} /\ c.children = OverlappedBy(level + 1, c.parents)
  BY <1>7 DEF in1, expanded1
<1>9. c.parents # {} /\ c.parents \subseteq levels[level] /\ c.children \subseteq levels[level + 1]
  BY <1>3, <1>4, <1>6, <1>8
<1>10. wide # {}
  BY <1>3, <1>5
<1> QED BY <1>1, <1>2, <1>3, <1>5, <1>8, <1>9, <1>10 DEF in0, expanded0, wide

(* What is picked for a compaction is part of its level. *)
LEMMA Picked ==
  ASSUME Typed, Numbered, NEW level \in 0..(kNumLevels - 2), NEW f \in levels[level]
  PROVE  PickCompaction(level, f) \subseteq levels[level] /\ f \in PickCompaction(level, f)
<1>1. level \in Levels
  BY LevelAssumption DEF Levels
<1>2. {f} \subseteq AllTables
  BY <1>1 DEF AllTables
<1>3. Overlaps(f, f.smallest.key, f.largest.key)
  <2>1. f.smallest.key \in Nat /\ f.largest.key \in Nat /\ f.smallest.key <= f.largest.key
    BY <1>2, EveryTable, KeyAssumption
  <2> QED BY <2>1 DEF Overlaps
<1>4. 0 \in Levels
  BY LevelAssumption DEF Levels
<1> QED BY <1>3, <1>4, OverlappingInputs DEF PickCompaction

-----------------------------------------------------------------------------
(* Every step keeps the stock in order *)

(* The oldest sequence that somebody may read *)
LEMMA SmallestSnapshot ==
  ASSUME Typed
  PROVE  /\ smallest_snapshot \in Nat /\ smallest_snapshot <= lastSequence
         /\ \A s \in snapshots : smallest_snapshot <= s
<1>1. lastSequence \in Nat /\ snapshots \subseteq 0..lastSequence
  BY BoundAssumption DEF Typed, TypeOK
<1>2. CASE snapshots = {}
  BY <1>1, <1>2 DEF smallest_snapshot
<1>3. CASE snapshots # {}
  <2>1. \E m \in snapshots : \A n \in snapshots : m <= n
    <3>1. snapshots \subseteq Nat
      BY <1>1
    <3> QED BY <1>3, <3>1, LeastNumber
  <2>2. smallest_snapshot \in snapshots /\ \A n \in snapshots : smallest_snapshot <= n
    BY <1>3, <2>1 DEF smallest_snapshot
  <2> QED BY <1>1, <2>2
<1> QED BY <1>2, <1>3

(* A version is held as long as its tables are there. *)
LEMMA HeldNext ==
  ASSUME Typed', \A h \in iterators' : h \subseteq files',
         merge' # NoMerge => NumbersOf(merge'.base) \subseteq files'
  PROVE  HeldFilesExist'
<1>1. NumbersOf(levels') \subseteq files'
  BY DEF NumbersOf, Typed, TypeOK
<1> QED BY <1>1 DEF HeldFilesExist, Held

MergeTypes == [level : 0..kNumLevels, parents : SUBSET Tables, children : SUBSET Tables,
               oldest : Nat, base : [Levels -> SUBSET Tables]]

(* The steps that leave the tables and the compaction alone *)
LEMMA UserStocked ==
  ASSUME Stocked, UNCHANGED <<tableVars, merge>>,
         \/ \E k \in Keys, del \in BOOLEAN : Write(k, del)
         \/ GetSnapshot
         \/ \E seq \in snapshots : ReleaseSnapshot(seq)
         \/ NewIterator
         \/ \E held \in iterators : DeleteIterator(held)
         \/ UNCHANGED vars
  PROVE  Stocked'
<1>1. Typed /\ Numbered /\ InPlace /\ HeldFilesExist
  BY DEF Stocked
<1>2. UNCHANGED <<levels, nextFile, files, merge>> /\ Written' = Written /\ lastSequence \in Nat
  BY <1>1, AllDistinct DEF tableVars, Written, EntriesOf
<1>3. InPlace'
  BY <1>1, <1>2 DEF InPlace
<1>4. \A h \in iterators : h \subseteq files
  BY <1>1 DEF HeldFilesExist, Held
<1>5. NumbersOf(levels) \subseteq files /\ (merge # NoMerge => NumbersOf(merge.base) \subseteq files)
  BY <1>1 DEF HeldFilesExist, Held
<1>6. \A h \in iterators' : h \subseteq files'
  <2>1. iterators' \subseteq iterators \cup {NumbersOf(levels)}
    BY DEF Write, GetSnapshot, ReleaseSnapshot, NewIterator, DeleteIterator, vars
  <2> QED BY <1>2, <1>4, <1>5, <2>1
<1>7. CASE UNCHANGED <<lastSequence, mem>>
  <2>1. snapshots' \subseteq 0..lastSequence
    <3>1. \A s \in snapshots' : s \in snapshots \/ s = lastSequence
      BY DEF Write, GetSnapshot, ReleaseSnapshot, NewIterator, DeleteIterator, vars
    <3>2. snapshots \subseteq 0..lastSequence
      BY <1>1 DEF Typed, TypeOK
    <3>3. lastSequence \in 0..lastSequence
      BY <1>2
    <3> QED BY <3>1, <3>2, <3>3
  <2>2. Typed'
    BY <1>1, <1>2, <1>7, <2>1 DEF Typed, TypeOK, Entries
  <2>3. Numbered'
    BY <1>1, <1>2, <1>7 DEF Numbered
  <2>4. HeldFilesExist'
    BY <1>2, <1>5, <1>6, <2>2, HeldNext
  <2> QED BY <1>3, <2>2, <2>3, <2>4 DEF Stocked
<1>8. CASE \E k \in Keys, del \in BOOLEAN : Write(k, del)
  <2>1. PICK k \in Keys, del \in BOOLEAN : Write(k, del)
    BY <1>8
  <2> DEFINE new == [key |-> k, seq |-> lastSequence + 1, del |-> del]
  <2>2. /\ lastSequence' = lastSequence + 1 /\ mem' = mem \cup {new}
        /\ snapshots' = snapshots /\ lastSequence < MaxWrites
    BY <2>1 DEF Write
  <2>3. Entries \subseteq Entries' /\ new \in Entries'
    BY <1>2, <2>2 DEF Entries
  <2>4. \A e \in mem \cup Written : e \in Entries /\ e.seq \in 1..lastSequence
    BY <1>1, AllDistinct
  <2>5. TypeOK'
    BY <1>1, <1>2, <2>2, <2>3, BoundAssumption DEF Typed, TypeOK
  <2>6. Typed'
    BY <1>1, <1>2, <2>5 DEF Typed
  <2>7. new.seq = lastSequence + 1
    OBVIOUS
  <2> HIDE DEF new
  <2>8. Numbered'
    BY <1>1, <1>2, <2>2, <2>4, <2>7 DEF Numbered
  <2>9. HeldFilesExist'
    BY <1>2, <1>5, <1>6, <2>6, HeldNext
  <2> QED BY <1>3, <2>6, <2>8, <2>9 DEF Stocked
<1> QED BY <1>7, <1>8 DEF GetSnapshot, ReleaseSnapshot, NewIterator, DeleteIterator, vars

(* What a flush does *)
Flushes(level, f) ==
  /\ level \in Levels /\ f \in Tables /\ WellFormed(f) /\ f.number = nextFile /\ f.entries = mem
  /\ f.smallest.key \in Keys /\ f.largest.key \in Keys /\ f.smallest.key <= f.largest.key
  /\ \A e \in f.entries : f.smallest.key <= e.key /\ e.key <= f.largest.key
  /\ level > 0 => \A n \in 0..level : \A g \in levels[n] : ~Overlaps(g, f.smallest.key, f.largest.key)
  /\ levels' = [levels EXCEPT ![level] = @ \cup {f}]

(* CompactMemTable adds such a table. *)
LEMMA FlushEffect ==
  ASSUME Stocked, CompactMemTable
  PROVE  \E level, f : Flushes(level, f)
<1> DEFINE f == Table(nextFile, mem)
<1>1. PICK level \in Levels : /\ PickLevelForMemTableOutput(level, f.smallest.key, f.largest.key)
                              /\ levels' = [levels EXCEPT ![level] = @ \cup {f}]
  BY DEF CompactMemTable
<1>2. Distinct(mem) /\ mem # {} /\ lastSequence \in Nat /\ nextFile \in Nat /\ \A e \in mem : e.seq <= lastSequence
  BY AllDistinct DEF Stocked, CompactMemTable, Typed
<1>3. f \in Tables /\ WellFormed(f) /\ f.number = nextFile /\ f.entries = mem
  BY <1>2, NewTable
<1> HIDE DEF f
<1>4. f.smallest \in AnyEntry /\ f.largest \in AnyEntry /\ f.entries \subseteq AnyEntry
  BY <1>3 DEF Tables
<1>5. \A e \in AnyEntry : e.key \in Keys /\ e.key \in Nat
  BY KeyAssumption DEF AnyEntry
<1>6. \A e \in f.entries : f.smallest.key <= e.key /\ e.key <= f.largest.key
  BY <1>3, <1>4, <1>5, EntryOrder DEF WellFormed
<1>7. level > 0 => \A n \in 0..level : \A g \in levels[n] : ~Overlaps(g, f.smallest.key, f.largest.key)
  BY <1>1 DEF PickLevelForMemTableOutput, OverlapInLevel
<1>8. Flushes(level, f)
  BY <1>1, <1>3, <1>4, <1>5, <1>6, <1>7 DEF Flushes, WellFormed
<1> QED BY <1>8

(* It keeps the stock in order. *)
LEMMA FlushStocked ==
  ASSUME Stocked, CompactMemTable
  PROVE  Stocked'
<1>1. Typed /\ Numbered /\ InPlace /\ HeldFilesExist
  BY DEF Stocked
<1>2. PICK level, f : Flushes(level, f)
  BY FlushEffect
<1>3. /\ level \in Levels /\ f \in Tables /\ WellFormed(f) /\ f.number = nextFile /\ f.entries = mem
      /\ levels' = [levels EXCEPT ![level] = @ \cup {f}]
  BY <1>2 DEF Flushes
<1>4. /\ files' = (files \cup {nextFile}) \cap (AddLiveFiles(levels, Held) \cup {nextFile})
      /\ mem' = {} /\ nextFile' = nextFile + 1 /\ UNCHANGED <<lastSequence, snapshots, iterators, merge>>
  BY DEF CompactMemTable
<1>5. /\ nextFile \in Nat /\ files \subseteq Nat /\ levels \in [Levels -> SUBSET Tables]
      /\ \A n \in files : n < nextFile
      /\ merge \in MergeTypes
  BY <1>1 DEF Typed, TypeOK, MergeTypes
<1>6. /\ NumbersOf(levels) \subseteq files /\ (\A h \in iterators : h \subseteq files)
      /\ merge # NoMerge => NumbersOf(merge.base) \subseteq files
  BY <1>1 DEF HeldFilesExist, Held
<1>7. /\ NumbersOf(levels) \subseteq files' /\ nextFile \in files'
      /\ \A h \in iterators : h \subseteq files'
      /\ merge # NoMerge => NumbersOf(merge.base) \subseteq files'
  BY <1>4, <1>6 DEF AddLiveFiles, Held
<1>8. files' \subseteq Nat /\ \A n \in files' : n < nextFile'
  <2>1. \A n \in files' : n \in files \/ n = nextFile
    BY <1>4
  <2>2. nextFile' = nextFile + 1
    BY <1>4
  <2>3. nextFile \in Nat /\ \A n \in files : n \in Nat /\ n < nextFile
    BY <1>5
  <2>4. \A n \in files' : n \in Nat /\ n < nextFile'
    BY <2>1, <2>2, <2>3
  <2> QED BY <2>4
<1>9. levels' \in [Levels -> SUBSET Tables]
  BY <1>3, <1>5
<1>10. \A n \in Levels : \A g \in levels'[n] : g = f \/ g \in levels[n]
  BY <1>3, <1>5
<1>11. \A n \in Levels : levels[n] \subseteq levels'[n]
  BY <1>3, <1>5
<1>12. \A n \in Levels : \A g \in levels'[n] :
         WellFormed(g) /\ g.number \in files' /\ g.entries \subseteq (mem \ mem') \cup Written
  <2> SUFFICES ASSUME NEW n \in Levels, NEW g \in levels'[n]
               PROVE  WellFormed(g) /\ g.number \in files' /\ g.entries \subseteq (mem \ mem') \cup Written
    OBVIOUS
  <2>1. CASE g = f
    BY <1>3, <1>4, <1>7, <2>1
  <2>2. CASE g \in levels[n]
    <3>1. g.number \in NumbersOf(levels) /\ g \in AllTables
      BY <2>2 DEF NumbersOf, AllTables
    <3> QED BY <1>1, <1>7, <3>1, EveryTable
  <2> QED BY <1>10, <2>1, <2>2
<1>13. Typed' /\ Numbered'
  BY <1>1, <1>4, <1>5, <1>8, <1>9, <1>12, TablesTyped DEF MergeTypes
<1>14. InPlace'
  <2>1. merge # NoMerge => merge.level \in Levels /\ merge.level + 1 \in Levels
    BY <1>1, LevelAssumption DEF InPlace, Levels
  <2> QED BY <1>1, <1>4, <1>11, <2>1 DEF InPlace
<1>15. HeldFilesExist'
  BY <1>4, <1>7, <1>13, HeldNext
<1> QED BY <1>13, <1>14, <1>15 DEF Stocked

(* Beginning a compaction, or moving a table *)
Begins(level, c) ==
  /\ merge' = [level |-> level, parents |-> c.parents, children |-> c.children,
               oldest |-> smallest_snapshot, base |-> levels]
  /\ UNCHANGED tableVars
Moves(level, c, f) ==
  /\ c.children = {} /\ c.parents = {f}
  /\ TrivialMove(level, f)

(* BeginMerge does the one or the other. *)
LEMMA BeginEffect ==
  ASSUME NEW level, NEW inputs, NEW manual, BeginMerge(level, inputs, manual)
  PROVE  \E c \in SetupOtherInputs(level, inputs) : Begins(level, c) \/ \E f : Moves(level, c, f)
<1>1. PICK c \in SetupOtherInputs(level, inputs) :
        \/ Begins(level, c)
        \/ MayMove(c) /\ \E f \in c.parents : TrivialMove(level, f)
  BY DEF BeginMerge, Begins
<1>2. CASE Begins(level, c)
  BY <1>2
<1>3. CASE MayMove(c) /\ \E f \in c.parents : TrivialMove(level, f)
  <2>1. PICK f \in c.parents : TrivialMove(level, f)
    BY <1>3
  <2>2. c.children = {} /\ c.parents = {f}
    BY <1>3, <2>1 DEF MayMove
  <2> QED BY <2>1, <2>2 DEF Moves
<1> QED BY <1>1, <1>2, <1>3

(* Both keep the stock in order. *)
LEMMA BeginStocked ==
  ASSUME Stocked, merge = NoMerge, NEW level \in 0..(kNumLevels - 2), NEW inputs, NEW manual,
         inputs \subseteq levels[level], inputs # {}, BeginMerge(level, inputs, manual),
         UNCHANGED <<lastSequence, mem, snapshots, iterators>>
  PROVE  Stocked'
<1>1. Typed /\ Numbered /\ InPlace /\ HeldFilesExist
  BY DEF Stocked
<1>2. PICK c \in SetupOtherInputs(level, inputs) : Begins(level, c) \/ \E f : Moves(level, c, f)
  BY BeginEffect
<1>3. /\ level \in Levels /\ level + 1 \in Levels
      /\ c.parents # {} /\ c.parents \subseteq levels[level]
      /\ c.children \subseteq levels[level + 1]
  BY <1>1, Setup
<1>4. /\ nextFile \in Nat /\ files \subseteq Nat /\ levels \in [Levels -> SUBSET Tables]
      /\ \A n \in files : n < nextFile
      /\ merge \in MergeTypes
  BY <1>1 DEF Typed, TypeOK, MergeTypes
<1>5. NumbersOf(levels) \subseteq files /\ (\A h \in iterators : h \subseteq files)
  BY <1>1 DEF HeldFilesExist, Held
<1>6. \A f \in AllTables : WellFormed(f) /\ f.number \in files /\ f.entries \subseteq Written
  BY <1>1, EveryTable
<1>7. CASE Begins(level, c)
  <2>1. UNCHANGED <<levels, nextFile, files>>
    BY <1>7 DEF Begins, tableVars
  <2>2. /\ merge'.level = level /\ merge'.parents = c.parents /\ merge'.children = c.children
        /\ merge'.base = levels
    BY <1>7 DEF Begins
  <2>3. smallest_snapshot \in Nat
    BY <1>1, SmallestSnapshot
  <2>4. level \in 0..kNumLevels /\ c.parents \in SUBSET Tables /\ c.children \in SUBSET Tables
    BY <1>3, <1>4, LevelAssumption DEF Levels
  <2>5. merge' \in MergeTypes
    BY <1>4, <1>7, <2>3, <2>4 DEF Begins, MergeTypes
  <2>6. \A n \in Levels : \A f \in levels'[n] :
          WellFormed(f) /\ f.number \in files' /\ f.entries \subseteq (mem \ mem') \cup Written
    BY <1>6, <2>1 DEF AllTables
  <2>7. Typed' /\ Numbered'
    BY <1>1, <1>4, <2>1, <2>5, <2>6, TablesTyped DEF MergeTypes
  <2>8. InPlace'
    BY <1>3, <2>1, <2>2 DEF InPlace
  <2>9. HeldFilesExist'
    BY <1>5, <2>1, <2>2, <2>7, HeldNext
  <2> QED BY <2>7, <2>8, <2>9 DEF Stocked
<1>8. CASE \E f : Moves(level, c, f)
  <2>1. PICK f : Moves(level, c, f)
    BY <1>8
  <2>2. /\ f \in levels[level]
        /\ levels' = [levels EXCEPT ![level] = @ \ {f}, ![level + 1] = @ \cup {f}]
        /\ UNCHANGED <<nextFile, files, merge>>
    BY <1>3, <2>1 DEF Moves, TrivialMove
  <2>3. levels' \in [Levels -> SUBSET Tables]
    BY <1>3, <1>4, <2>2
  <2>4. \A n \in Levels : \A g \in levels'[n] : g \in AllTables
    BY <1>3, <1>4, <2>2 DEF AllTables
  <2>5. \A n \in Levels : \A g \in levels'[n] :
          WellFormed(g) /\ g.number \in files' /\ g.entries \subseteq (mem \ mem') \cup Written
    BY <1>6, <2>2, <2>4
  <2>6. Typed' /\ Numbered'
    BY <1>1, <1>4, <2>2, <2>3, <2>5, TablesTyped DEF MergeTypes
  <2>7. InPlace'
    BY <2>2 DEF InPlace
  <2>8. HeldFilesExist'
    BY <1>5, <2>2, <2>6, HeldNext
  <2> QED BY <2>6, <2>7, <2>8 DEF Stocked
<1> QED BY <1>2, <1>7, <1>8

(* What is given to a manual compaction is part of its level, too. *)
LEMMA CompactionStocked ==
  ASSUME Stocked,
         \/ \E level \in 0..(kNumLevels - 2) : BackgroundCompaction(level)
         \/ \E level \in 0..(kNumLevels - 2), begin, end \in Keys : CompactRange(level, begin, end)
  PROVE  Stocked'
<1>1. CASE \E level \in 0..(kNumLevels - 2) : BackgroundCompaction(level)
  <2>1. PICK level \in 0..(kNumLevels - 2) : BackgroundCompaction(level)
    BY <1>1
  <2>2. PICK f \in levels[level] : BeginMerge(level, PickCompaction(level, f), FALSE)
    BY <2>1 DEF BackgroundCompaction
  <2>3. PickCompaction(level, f) \subseteq levels[level] /\ PickCompaction(level, f) # {}
    BY Picked DEF Stocked
  <2>4. merge = NoMerge /\ UNCHANGED <<lastSequence, mem, snapshots, iterators>>
    BY <2>1 DEF BackgroundCompaction
  <2> QED BY <2>2, <2>3, <2>4, BeginStocked
<1>2. CASE \E level \in 0..(kNumLevels - 2), begin, end \in Keys : CompactRange(level, begin, end)
  <2>1. PICK level \in 0..(kNumLevels - 2), begin \in Keys, end \in Keys : CompactRange(level, begin, end)
    BY <1>2
  <2> DEFINE tables == GetOverlappingInputs(level, begin, end)
  <2>2. /\ merge = NoMerge /\ UNCHANGED <<lastSequence, mem, snapshots, iterators>>
        /\ tables # {}
        /\ \E inputs \in {tables} \cup {Prefix(tables, f) : f \in tables} : BeginMerge(level, inputs, TRUE)
    BY <2>1 DEF CompactRange
  <2>3. PICK inputs \in {tables} \cup {Prefix(tables, f) : f \in tables} : BeginMerge(level, inputs, TRUE)
    BY <2>2
  <2>4. level \in Levels
    BY LevelAssumption DEF Levels
  <2>5. tables \subseteq levels[level]
    BY <2>4, OverlappingInputs
  <2> HIDE DEF tables
  <2>6. inputs \subseteq levels[level] /\ inputs # {}
    BY <2>2, <2>3, <2>5 DEF Prefix
  <2> QED BY <2>2, <2>3, <2>6, BeginStocked
<1> QED BY <1>1, <1>2

-----------------------------------------------------------------------------
(* The outputs of a compaction *)

CutsBefore(cuts, e) == {c \in cuts : Before(c, e)}
PartOf(entries, cuts, d) == {e \in entries : CutsBefore(cuts, e) = CutsBefore(cuts, d)}

(* One table for each part, in the order of their entries *)
LEMMA OutputTables ==
  ASSUME Typed, Numbered, NEW entries, entries \subseteq Written, NEW cuts \in SUBSET entries
  PROVE  /\ Cardinality(cuts) \in Nat
         /\ \A f \in Outputs(entries, cuts) :
              /\ f \in Tables /\ WellFormed(f)
              /\ f.number \in nextFile..(nextFile + Cardinality(cuts))
              /\ \E d \in entries : f.entries = PartOf(entries, cuts, d)
         /\ \A d \in entries : \E f \in Outputs(entries, cuts) : d \in f.entries
         /\ \A f, g \in Outputs(entries, cuts) : f.entries = g.entries => f = g
<1> DEFINE Number(p) == nextFile + Cardinality(CutsBefore(cuts, First(p)))
<1>1. Outputs(entries, cuts) = {Table(Number(p), p) : p \in {PartOf(entries, cuts, d) : d \in entries}}
  BY DEF Outputs, CutsBefore, PartOf
<1>2. nextFile \in Nat /\ lastSequence \in Nat
  BY AllDistinct DEF Typed
<1>3. Distinct(cuts) /\ \A e \in cuts : e.seq <= lastSequence
  BY AllDistinct
<1>4. IsFiniteSet(cuts)
  BY <1>2, <1>3, FewEntries
<1>5. \A e : CutsBefore(cuts, e) \in SUBSET cuts
  BY DEF CutsBefore
<1>6. Cardinality(cuts) \in Nat
  BY <1>4, FS_CardinalityType
<1>7. \A S \in SUBSET cuts : Cardinality(S) \in Nat /\ Cardinality(S) <= Cardinality(cuts)
  BY <1>4, FS_Subset, FS_CardinalityType
<1>8. \A p : Number(p) \in nextFile..(nextFile + Cardinality(cuts)) /\ Number(p) \in Nat
  <2> SUFFICES ASSUME NEW p PROVE Number(p) \in nextFile..(nextFile + Cardinality(cuts)) /\ Number(p) \in Nat
    OBVIOUS
  <2> DEFINE k == Cardinality(CutsBefore(cuts, First(p)))
  <2>1. k \in Nat /\ k <= Cardinality(cuts)
    BY <1>5, <1>7
  <2> HIDE DEF k
  <2>2. nextFile + k \in nextFile..(nextFile + Cardinality(cuts)) /\ nextFile + k \in Nat
    BY <1>2, <1>6, <2>1
  <2> QED BY <2>2 DEF k
<1> HIDE DEF Number
<1>9. \A d \in entries : LET p == PartOf(entries, cuts, d) IN
        /\ d \in p
        /\ Table(Number(p), p) \in Tables /\ WellFormed(Table(Number(p), p))
        /\ Table(Number(p), p).number = Number(p) /\ Table(Number(p), p).entries = p
  <2> SUFFICES ASSUME NEW d \in entries
               PROVE  LET p == PartOf(entries, cuts, d) IN
                      /\ d \in p
                      /\ Table(Number(p), p) \in Tables /\ WellFormed(Table(Number(p), p))
                      /\ Table(Number(p), p).number = Number(p) /\ Table(Number(p), p).entries = p
    OBVIOUS
  <2> DEFINE p == PartOf(entries, cuts, d)
  <2>1. d \in p /\ p \subseteq Written
    BY DEF PartOf
  <2> HIDE DEF p
  <2>2. Distinct(p) /\ p # {} /\ \A e \in p : e.seq <= lastSequence
    BY <2>1, AllDistinct
  <2>3. /\ Table(Number(p), p) \in Tables /\ WellFormed(Table(Number(p), p))
        /\ Table(Number(p), p).number = Number(p) /\ Table(Number(p), p).entries = p
    BY <1>2, <1>8, <2>2, NewTable
  <2> QED BY <2>1, <2>3 DEF p
<1>10. \A f \in Outputs(entries, cuts) : \E d \in entries :
         LET p == PartOf(entries, cuts, d) IN f = Table(Number(p), p)
  BY <1>1
<1>11. \A d \in entries : LET p == PartOf(entries, cuts, d) IN Table(Number(p), p) \in Outputs(entries, cuts)
  BY <1>1
<1>12. \A f \in Outputs(entries, cuts) :
              /\ f \in Tables /\ WellFormed(f)
              /\ f.number \in nextFile..(nextFile + Cardinality(cuts))
              /\ \E d \in entries : f.entries = PartOf(entries, cuts, d)
              /\ f = Table(Number(f.entries), f.entries)
  <2> SUFFICES ASSUME NEW f \in Outputs(entries, cuts)
               PROVE  /\ f \in Tables /\ WellFormed(f)
                      /\ f.number \in nextFile..(nextFile + Cardinality(cuts))
                      /\ \E d \in entries : f.entries = PartOf(entries, cuts, d)
                      /\ f = Table(Number(f.entries), f.entries)
    OBVIOUS
  <2>1. PICK d \in entries : f = Table(Number(PartOf(entries, cuts, d)), PartOf(entries, cuts, d))
    BY <1>10
  <2>2. /\ f \in Tables /\ WellFormed(f) /\ f.entries = PartOf(entries, cuts, d)
        /\ f.number = Number(PartOf(entries, cuts, d))
    BY <1>9, <2>1
  <2>3. f.number \in nextFile..(nextFile + Cardinality(cuts))
    BY <1>8, <2>2
  <2>4. f = Table(Number(f.entries), f.entries)
    BY <2>1, <2>2
  <2> QED BY <2>2, <2>3, <2>4
<1>13. \A d \in entries : \E f \in Outputs(entries, cuts) : d \in f.entries
  BY <1>9, <1>11
<1>14. \A f, g \in Outputs(entries, cuts) : f.entries = g.entries => f = g
  <2> SUFFICES ASSUME NEW f \in Outputs(entries, cuts), NEW g \in Outputs(entries, cuts), f.entries = g.entries
               PROVE  f = g
    OBVIOUS
  <2>1. f = Table(Number(f.entries), f.entries) /\ g = Table(Number(g.entries), g.entries)
    BY <1>12
  <2> QED BY <2>1
<1> QED BY <1>6, <1>12, <1>13, <1>14

(* Different parts do not mix, and share no key that is not cut in two. *)
LEMMA PartsApart ==
  ASSUME Typed, Numbered, NEW entries, entries \subseteq Written, NEW cuts \in SUBSET entries,
         NEW f \in Outputs(entries, cuts), NEW g \in Outputs(entries, cuts), f # g
  PROVE  /\ \/ \A e \in f.entries, d \in g.entries : Before(e, d)
            \/ \A e \in f.entries, d \in g.entries : Before(d, e)
         /\ (\A e \in cuts : MayCutBehind(e, entries)) =>
              \A e \in f.entries, d \in g.entries : e.key = d.key => e.key \in SplitKeys
<1>1. PICK x \in entries : f.entries = PartOf(entries, cuts, x)
  BY OutputTables
<1>2. PICK y \in entries : g.entries = PartOf(entries, cuts, y)
  BY OutputTables
<1>3. f.entries # g.entries
  BY OutputTables
<1>4. CutsBefore(cuts, x) # CutsBefore(cuts, y)
  BY <1>1, <1>2, <1>3 DEF PartOf
<1>5. /\ \A e \in f.entries : e \in entries /\ CutsBefore(cuts, e) = CutsBefore(cuts, x)
      /\ \A e \in g.entries : e \in entries /\ CutsBefore(cuts, e) = CutsBefore(cuts, y)
  BY <1>1, <1>2 DEF PartOf
<1>6. \A e, d \in entries : e \in AnyEntry /\ (e = d \/ Before(e, d) \/ Before(d, e))
  <2>1. Distinct(entries)
    BY AllDistinct
  <2> QED BY <2>1, EntryOrder DEF Distinct
<1>7. \A e \in AnyEntry : e.key \in Nat /\ e.seq \in Nat
  BY KeyAssumption DEF AnyEntry
<1>8. ASSUME NEW c \in cuts, c \in CutsBefore(cuts, x), c \notin CutsBefore(cuts, y)
      PROVE  /\ \A e \in f.entries, d \in g.entries : Before(d, e)
             /\ (\A e \in cuts : MayCutBehind(e, entries)) =>
                  \A e \in f.entries, d \in g.entries : e.key = d.key => e.key \in SplitKeys
  <2>1. \A e \in f.entries : Before(c, e)
    BY <1>5, <1>8 DEF CutsBefore
  <2>2. \A d \in g.entries : d = c \/ Before(d, c)
    BY <1>5, <1>6, <1>8 DEF CutsBefore
  <2>3. \A e \in f.entries, d \in g.entries : Before(d, e)
    BY <1>5, <1>6, <2>1, <2>2, EntryOrder
  <2>4. ASSUME MayCutBehind(c, entries), NEW e \in f.entries, NEW d \in g.entries, e.key = d.key
        PROVE  e.key \in SplitKeys
    <3>1. c \in AnyEntry /\ e \in AnyEntry /\ d \in AnyEntry /\ e \in entries
      BY <1>5, <1>6
    <3>2. Before(c, e) /\ (d = c \/ Before(d, c))
      BY <2>1, <2>2
    <3>3. c.key = e.key
      BY <1>7, <2>4, <3>1, <3>2, EntryOrder
    <3>4. c.key \in SplitKeys \/ ~Before(c, e)
      BY <2>4, <3>1, <3>3 DEF MayCutBehind
    <3> QED BY <2>4, <3>2, <3>3, <3>4
  <2> QED BY <2>3, <2>4
<1>9. ASSUME NEW c \in cuts, c \in CutsBefore(cuts, y), c \notin CutsBefore(cuts, x)
      PROVE  /\ \A e \in f.entries, d \in g.entries : Before(e, d)
             /\ (\A e \in cuts : MayCutBehind(e, entries)) =>
                  \A e \in f.entries, d \in g.entries : e.key = d.key => e.key \in SplitKeys
  <2>1. \A d \in g.entries : Before(c, d)
    BY <1>5, <1>9 DEF CutsBefore
  <2>2. \A e \in f.entries : e = c \/ Before(e, c)
    BY <1>5, <1>6, <1>9 DEF CutsBefore
  <2>3. \A e \in f.entries, d \in g.entries : Before(e, d)
    BY <1>5, <1>6, <2>1, <2>2, EntryOrder
  <2>4. ASSUME MayCutBehind(c, entries), NEW e \in f.entries, NEW d \in g.entries, e.key = d.key
        PROVE  e.key \in SplitKeys
    <3>1. c \in AnyEntry /\ e \in AnyEntry /\ d \in AnyEntry /\ d \in entries
      BY <1>5, <1>6
    <3>2. Before(c, d) /\ (e = c \/ Before(e, c))
      BY <2>1, <2>2
    <3>3. c.key = d.key
      BY <1>7, <2>4, <3>1, <3>2, EntryOrder
    <3>4. c.key \in SplitKeys \/ ~Before(c, d)
      BY <2>4, <3>1, <3>3 DEF MayCutBehind
    <3> QED BY <2>4, <3>2, <3>3, <3>4
  <2> QED BY <2>3, <2>4
<1>10. \A e : CutsBefore(cuts, e) \subseteq cuts
  BY DEF CutsBefore
<1>11. \E c \in cuts : \/ c \in CutsBefore(cuts, x) /\ c \notin CutsBefore(cuts, y)
                       \/ c \in CutsBefore(cuts, y) /\ c \notin CutsBefore(cuts, x)
  BY <1>4, <1>10
<1> QED BY <1>8, <1>9, <1>11

(* The installation of the results of a compaction *)
Installs(entries, cuts, outputs) ==
  /\ merge # NoMerge
  /\ entries = Survivors(EntriesOf(Inputs)) /\ entries \subseteq EntriesOf(Inputs)
  /\ cuts \in SUBSET entries /\ \A e \in cuts : MayCutBehind(e, entries)
  /\ outputs = Outputs(entries, cuts)
  /\ levels' \in [Levels -> SUBSET Tables]
  /\ levels'[merge.level] = levels[merge.level] \ merge.parents
  /\ levels'[merge.level + 1] = (levels[merge.level + 1] \ merge.children) \cup outputs
  /\ \A n \in Levels : n \notin {merge.level, merge.level + 1} => levels'[n] = levels[n]

(* InstallCompactionResults puts the outputs in the place of the inputs. *)
LEMMA InstallEffect ==
  ASSUME Stocked, InstallCompactionResults
  PROVE  \E entries, cuts, outputs :
           /\ Installs(entries, cuts, outputs)
           /\ nextFile' = nextFile + (IF entries = {} THEN 0 ELSE Cardinality(cuts) + 1)
           /\ files' = (files \cup {f.number : f \in outputs}) \cap AddLiveFiles(levels', iterators)
           /\ entries \subseteq Written
<1>1. Typed /\ Numbered /\ InPlace
  BY DEF Stocked
<1> DEFINE entries == Survivors(EntriesOf(Inputs))
<1>2. PICK cuts \in SUBSET {e \in entries : MayCutBehind(e, entries)} :
        /\ levels' = [levels EXCEPT ![merge.level] = @ \ merge.parents,
                                    ![merge.level + 1] = (@ \ merge.children) \cup Outputs(entries, cuts)]
        /\ nextFile' = nextFile + (IF entries = {} THEN 0 ELSE Cardinality(cuts) + 1)
        /\ files' = (files \cup {f.number : f \in Outputs(entries, cuts)}) \cap AddLiveFiles(levels', iterators)
  BY DEF InstallCompactionResults, Inputs
<1> DEFINE outputs == Outputs(entries, cuts)
<1>3. merge # NoMerge
  BY DEF InstallCompactionResults
<1>4. /\ merge.level \in Levels /\ merge.level + 1 \in Levels /\ merge.level \in Nat
      /\ merge.parents \subseteq levels[merge.level] /\ merge.children \subseteq levels[merge.level + 1]
  BY <1>1, <1>3, LevelAssumption DEF InPlace, Levels
<1>5. entries \subseteq EntriesOf(Inputs)
  BY DEF Survivors
<1>6. EntriesOf(Inputs) \subseteq Written
  BY <1>4, WrittenIn, EntryIn DEF Inputs
<1>7. levels \in [Levels -> SUBSET Tables]
  BY <1>1 DEF Typed
<1> HIDE DEF entries
<1>8. outputs \subseteq Tables
  BY <1>1, <1>5, <1>6, OutputTables
<1> HIDE DEF outputs
<1>9. levels' = [levels EXCEPT ![merge.level] = @ \ merge.parents,
                               ![merge.level + 1] = (@ \ merge.children) \cup outputs]
  BY <1>2 DEF outputs
<1>10. /\ levels' \in [Levels -> SUBSET Tables]
       /\ levels'[merge.level] = levels[merge.level] \ merge.parents
       /\ levels'[merge.level + 1] = (levels[merge.level + 1] \ merge.children) \cup outputs
       /\ \A n \in Levels : n \notin {merge.level, merge.level + 1} => levels'[n] = levels[n]
  BY <1>4, <1>7, <1>8, <1>9
<1>11. Installs(entries, cuts, outputs)
  BY <1>2, <1>3, <1>5, <1>10 DEF Installs, outputs, entries
<1>12. files' = (files \cup {f.number : f \in outputs}) \cap AddLiveFiles(levels', iterators)
  BY <1>2 DEF outputs
<1> QED BY <1>2, <1>5, <1>6, <1>11, <1>12

(* That keeps the stock in order: no table goes that a version in use has. *)
LEMMA InstallStocked ==
  ASSUME Stocked, InstallCompactionResults
  PROVE  Stocked'
<1>1. Typed /\ Numbered /\ InPlace /\ HeldFilesExist
  BY DEF Stocked
<1>2. PICK entries, cuts, outputs :
        /\ Installs(entries, cuts, outputs)
        /\ nextFile' = nextFile + (IF entries = {} THEN 0 ELSE Cardinality(cuts) + 1)
        /\ files' = (files \cup {f.number : f \in outputs}) \cap AddLiveFiles(levels', iterators)
        /\ entries \subseteq Written
  BY InstallEffect
<1>3. merge' = NoMerge /\ UNCHANGED <<lastSequence, mem, snapshots, iterators>>
  BY DEF InstallCompactionResults
<1>4. cuts \in SUBSET entries /\ outputs = Outputs(entries, cuts) /\ levels' \in [Levels -> SUBSET Tables]
  BY <1>2 DEF Installs
<1>5. /\ Cardinality(cuts) \in Nat
      /\ \A f \in outputs : /\ f \in Tables /\ WellFormed(f)
                            /\ f.number \in nextFile..(nextFile + Cardinality(cuts))
                            /\ f.entries \subseteq entries
                            /\ entries # {}
  <2>1. /\ Cardinality(cuts) \in Nat
        /\ \A f \in outputs : /\ f \in Tables /\ WellFormed(f)
                              /\ f.number \in nextFile..(nextFile + Cardinality(cuts))
                              /\ \E d \in entries : f.entries = PartOf(entries, cuts, d)
    BY <1>1, <1>2, <1>4, OutputTables
  <2>2. \A d : PartOf(entries, cuts, d) \subseteq entries
    BY DEF PartOf
  <2> QED BY <2>1, <2>2
<1>6. nextFile \in Nat /\ files \subseteq Nat /\ \A n \in files : n < nextFile
  BY <1>1 DEF Typed, TypeOK
<1>7. nextFile' \in Nat /\ nextFile <= nextFile' /\ (entries # {} => nextFile' = nextFile + Cardinality(cuts) + 1)
  BY <1>2, <1>5, <1>6
<1>8. files' \subseteq Nat /\ \A n \in files' : n < nextFile'
  <2>1. \A n \in files' : n \in files \/ \E f \in outputs : n = f.number
    BY <1>2
  <2>2. \A f \in outputs : f.number \in Nat /\ f.number < nextFile'
    BY <1>5, <1>6, <1>7
  <2>3. \A n \in files : n \in Nat /\ n < nextFile'
    BY <1>6, <1>7
  <2> QED BY <2>1, <2>2, <2>3
<1>9. \A n \in Levels : \A f \in levels'[n] : f \in AllTables \/ f \in outputs
  <2>1. merge.level \in Levels /\ merge.level + 1 \in Levels
    BY <1>1, <1>2, LevelAssumption DEF InPlace, Installs, Levels
  <2> QED BY <1>2, <2>1 DEF Installs, AllTables
<1>10. \A n \in Levels : \A f \in levels'[n] :
         WellFormed(f) /\ f.number \in files' /\ f.entries \subseteq (mem \ mem') \cup Written
  <2> SUFFICES ASSUME NEW n \in Levels, NEW f \in levels'[n]
               PROVE  WellFormed(f) /\ f.number \in files' /\ f.entries \subseteq Written
    OBVIOUS
  <2>1. f.number \in NumbersOf(levels')
    BY DEF NumbersOf
  <2>2. f.number \in AddLiveFiles(levels', iterators)
    BY <2>1 DEF AddLiveFiles
  <2>3. CASE f \in AllTables
    BY <1>1, <1>2, <2>2, <2>3, EveryTable
  <2>4. CASE f \in outputs
    BY <1>2, <1>5, <2>2, <2>4
  <2> QED BY <1>9, <2>3, <2>4
<1>11. merge' \in MergeTypes
  BY <1>3, LevelAssumption DEF NoMerge, MergeTypes
<1>12. Typed' /\ Numbered'
  BY <1>1, <1>3, <1>4, <1>7, <1>8, <1>10, <1>11, TablesTyped DEF MergeTypes
<1>13. InPlace'
  BY <1>3 DEF InPlace
<1>14. \A h \in iterators' : h \subseteq files'
  <2>1. \A h \in iterators : h \subseteq files
    BY <1>1 DEF HeldFilesExist, Held
  <2> QED BY <1>2, <1>3, <2>1 DEF AddLiveFiles
<1>15. HeldFilesExist'
  BY <1>3, <1>12, <1>14, HeldNext
<1> QED BY <1>12, <1>13, <1>15 DEF Stocked

(* An empty store is in order. *)
LEMMA InitStocked == Init => Stocked
<1> SUFFICES ASSUME Init PROVE Stocked
  OBVIOUS
<1>1. \A n \in Levels : levels[n] = {}
  BY DEF Init
<1>2. mem = {} /\ lastSequence = 0 /\ files = {} /\ snapshots = {} /\ iterators = {} /\ merge = NoMerge /\ nextFile = 2
  BY DEF Init
<1>3. TypeOK
  BY <1>1, <1>2, BoundAssumption DEF TypeOK
<1>4. levels \in [Levels -> SUBSET Tables]
  BY DEF Init
<1>5. merge \in MergeTypes
  BY <1>2, LevelAssumption DEF NoMerge, MergeTypes
<1>6. Typed
  BY <1>1, <1>2, <1>3, <1>4, <1>5 DEF Typed, MergeTypes
<1>7. Written = {}
  BY <1>1, WrittenIn
<1>8. Numbered
  BY <1>2, <1>7 DEF Numbered
<1>9. NumbersOf(levels) = {}
  BY <1>1 DEF NumbersOf
<1>10. HeldFilesExist
  BY <1>2, <1>9 DEF HeldFilesExist, Held
<1> QED BY <1>2, <1>6, <1>8, <1>10 DEF Stocked, InPlace

(* Every step keeps the stock in order, manual compactions too. *)
LEMMA StockedStep == Stocked /\ [Next]_vars => Stocked'
<1> SUFFICES ASSUME Stocked, [Next]_vars PROVE Stocked'
  OBVIOUS
<1>1. CASE \/ \E k \in Keys, del \in BOOLEAN : Write(k, del)
           \/ GetSnapshot
           \/ \E seq \in snapshots : ReleaseSnapshot(seq)
           \/ NewIterator
           \/ \E held \in iterators : DeleteIterator(held)
           \/ UNCHANGED vars
  <2>1. UNCHANGED <<tableVars, merge>>
    BY <1>1 DEF Write, GetSnapshot, ReleaseSnapshot, NewIterator, DeleteIterator, vars
  <2> QED BY <1>1, <2>1, UserStocked
<1>2. CASE CompactMemTable
  BY <1>2, FlushStocked
<1>3. CASE \/ \E level \in 0..(kNumLevels - 2) : BackgroundCompaction(level)
           \/ \E level \in 0..(kNumLevels - 2), begin, end \in Keys : CompactRange(level, begin, end)
  BY <1>3, CompactionStocked
<1>4. CASE InstallCompactionResults
  BY <1>4, InstallStocked
<1> QED BY <1>1, <1>2, <1>3, <1>4 DEF Next

(* The inductive invariant always holds, with or without CompactRange. *)
THEOREM StockInvariant == Spec => []Stocked
<1> QED BY InitStocked, StockedStep, PTL DEF Spec

(* Every table of the current version is a file, not empty, with entries   *)
(* that were written (WriteLevel0Table, InstallCompactionResults).         *)
THEOREM TypeCorrect == Spec => []TypeOK
<1>1. Stocked => TypeOK
  BY DEF Stocked, Typed
<1> QED BY <1>1, StockInvariant, PTL

(* Whatever is flushed, merged and deleted, the tables of every version    *)
(* that is in use are on disk (AddLiveFiles, DeleteObsoleteFiles).         *)
THEOREM FilesOutliveTheirReaders == Spec => []HeldFilesExist
<1>1. Stocked => HeldFilesExist
  BY DEF Stocked
<1> QED BY <1>1, StockInvariant, PTL

-----------------------------------------------------------------------------
(* What a compaction takes can be merged into the next level: the tables   *)
(* that stay in its level *)

(* What is taken of a level with a table: in level 0 what overlaps it, in  *)
(* another one all but what may lie behind the last.                       *)
Takes(level, inputs) ==
  IF level = 0
  THEN \A g \in levels[0], h \in inputs : Overlaps(g, h.smallest.key, h.largest.key) => g \in inputs
  ELSE \A p \in inputs, g \in levels[level] \ inputs :
         p.largest.key = g.smallest.key /\ Before(p.largest, g.smallest)
         => p.largest = Last(EntriesOf(inputs))

(* The two ways to choose inputs take what belongs together. *)
LEMMA InputsTaken ==
  ASSUME Typed, Numbered, NoOverlap, NEW level \in Levels, NEW X, X \subseteq AllTables, X # {},
         OverlappedBy(level, X) # {}
  PROVE  Takes(level, OverlappedBy(level, X))
<1> DEFINE I == OverlappedBy(level, X)
<1>1. I = GetOverlappingInputs(level, Begin(X), End(X))
  BY OverlappedRange
<1>2. CASE level = 0
  <2>1. Reaches(levels[0], Begin(X), End(X), I)
    BY <1>1, <1>2, FoundIsLeast DEF GetOverlappingInputs
  <2> QED BY <1>2, <2>1 DEF Takes, Reaches
<1>3. CASE level # 0
  <2>1. I = {f \in levels[level] : Overlaps(f, Begin(X), End(X))}
    BY <1>1, <1>3 DEF GetOverlappingInputs
  <2> HIDE DEF I
  <2>2. levels[level] \subseteq AllTables
    BY DEF AllTables
  <2>3. I \subseteq AllTables /\ I \subseteq levels[level] /\ I # {}
    BY <2>1, <2>2 DEF I
  <2> SUFFICES ASSUME NEW p \in I, NEW g \in levels[level] \ I,
                      p.largest.key = g.smallest.key, Before(p.largest, g.smallest)
               PROVE  p.largest = Last(EntriesOf(I))
    BY <1>3 DEF Takes, I
  <2>4. Begin(X) \in Nat /\ End(X) \in Nat
    BY Hull, KeyAssumption
  <2>5. PICK q \in I : q.largest = Last(EntriesOf(I))
    BY <2>3, Hull
  <2>6. p.largest = q.largest \/ Before(p.largest, q.largest)
    <3>1. p.largest \in EntriesOf(I)
      BY <2>3, EveryTable, EntryIn DEF WellFormed
    <3> QED BY <2>3, <2>5, <3>1, Hull DEF IsLast
  <2>7. \A f \in levels[level] : /\ f.smallest \in AnyEntry /\ f.largest \in AnyEntry
                                 /\ f.smallest.key \in Nat /\ f.largest.key \in Nat
                                 /\ f.smallest.key <= f.largest.key
                                 /\ f.smallest = f.largest \/ Before(f.smallest, f.largest)
    BY <2>2, EveryTable, KeyAssumption DEF WellFormed
  <2>8. g.smallest.key > End(X)
    <3>1. ~Overlaps(g, Begin(X), End(X)) /\ Overlaps(p, Begin(X), End(X))
      BY <2>1
    <3> QED BY <2>3, <2>4, <2>7, <3>1 DEF Overlaps
  <2>9. ASSUME Before(p.largest, q.largest) PROVE FALSE
    <3>1. p # q
      BY <2>3, <2>7, <2>9, EntryOrder
    <3>2. Before(p.largest, q.smallest) \/ Before(q.largest, p.smallest)
      BY <1>3, <2>3, <3>1 DEF NoOverlap
    <3>3. ~Before(q.largest, p.smallest)
      BY <2>3, <2>7, <2>9, EntryOrder
    <3>4. q.smallest.key >= p.largest.key
      BY <2>3, <2>7, <3>2, <3>3, EntryOrder
    <3>5. Overlaps(q, Begin(X), End(X))
      BY <2>1
    <3> QED BY <2>3, <2>4, <2>7, <2>8, <3>4, <3>5 DEF Overlaps
  <2> QED BY <2>5, <2>6, <2>9
<1> QED BY <1>2, <1>3

(* What PickCompaction takes with its table belongs together. *)
LEMMA PickedTaken ==
  ASSUME Typed, Numbered, NEW level \in 0..(kNumLevels - 2), NEW f \in levels[level]
  PROVE  Takes(level, PickCompaction(level, f))
<1>1. level \in Levels
  BY LevelAssumption DEF Levels
<1>2. CASE level = 0
  <2>1. Reaches(levels[0], f.smallest.key, f.largest.key, PickCompaction(level, f))
    BY <1>2, FoundIsLeast DEF GetOverlappingInputs, PickCompaction
  <2> QED BY <1>2, <2>1 DEF Takes, Reaches
<1>3. CASE level # 0
  <2>1. PickCompaction(level, f) = {f}
    BY <1>3 DEF PickCompaction
  <2>2. {f} \subseteq AllTables /\ {f} # {}
    BY <1>1 DEF AllTables
  <2>3. f.largest = Last(EntriesOf({f}))
    BY <2>2, Hull
  <2> QED BY <1>3, <2>1, <2>3 DEF Takes
<1> QED BY <1>2, <1>3

(* In level 0 nothing is added at the boundary. *)
LEMMA NoBoundary0 ==
  ASSUME Typed, Numbered, NEW I, I \subseteq levels[0], I # {}, Takes(0, I)
  PROVE  AddBoundaryInputs(levels[0], I) = I /\ LaterStays(levels[0], I)
<1>1. levels[0] \subseteq AllTables
  BY LevelAssumption DEF AllTables, Levels
<1>2. \A f \in levels[0] : /\ f.smallest \in AnyEntry /\ f.largest \in AnyEntry
                           /\ f.smallest.key \in Nat /\ f.largest.key \in Nat
                           /\ f.smallest.key <= f.largest.key
                           /\ f.smallest \in f.entries
                           /\ \A e \in f.entries : /\ e.key \in Nat
                                                   /\ f.smallest.key <= e.key /\ e.key <= f.largest.key
  <2>1. \A f \in levels[0] : f \in Tables
    BY <1>1, EveryTable
  <2>2. \A f \in levels[0] : \A e \in f.entries : e.key \in Nat
    BY <2>1, KeyAssumption DEF Tables, AnyEntry
  <2> QED BY <1>1, <2>2, EveryTable, KeyAssumption DEF WellFormed
<1>3. \A g \in levels[0], h \in I : Overlaps(g, h.smallest.key, h.largest.key) => g \in I
  BY DEF Takes
<1>4. PICK h \in I : h.largest = Last(EntriesOf(I))
  BY <1>1, Hull
<1>5. IsLast(EntriesOf(I), h.largest)
  BY <1>1, <1>4, Hull
<1>6. FindSmallestBoundaryFile(levels[0], h.largest) = {}
  <2> SUFFICES ASSUME NEW f \in levels[0], f.smallest.key = h.largest.key, Before(h.largest, f.smallest)
               PROVE  FALSE
    BY DEF FindSmallestBoundaryFile
  <2>1. Overlaps(f, h.smallest.key, h.largest.key)
    BY <1>2 DEF Overlaps
  <2>2. f.smallest \in EntriesOf(I)
    BY <1>2, <1>3, <2>1, EntryIn
  <2>3. f.smallest = h.largest \/ Before(f.smallest, h.largest)
    BY <1>5, <2>2 DEF IsLast
  <2> QED BY <1>2, <2>3, EntryOrder
<1>7. Continues(levels[0], I, {})
  BY <1>4, <1>6 DEF Continues
<1>8. AddBoundaryInputs(levels[0], I) = I
  BY <1>7, BoundaryIsLeast
<1>9. LaterStays(levels[0], I)
  <2> SUFFICES ASSUME NEW g \in levels[0] \ I, NEW e \in g.entries, NEW x \in I, NEW d \in x.entries, e.key = d.key
               PROVE  FALSE
    BY EntryIn DEF LaterStays
  <2>1. Overlaps(g, x.smallest.key, x.largest.key)
    BY <1>2 DEF Overlaps
  <2> QED BY <1>3, <2>1
<1> QED BY <1>8, <1>9

(* The first table behind an entry, if there is any *)
LEMMA FirstBehind ==
  ASSUME Typed, Numbered, NoOverlap, NEW level \in Levels \ {0}, NEW largest, NEW g \in levels[level],
         g.smallest.key = largest.key, Before(largest, g.smallest)
  PROVE  \E f \in FindSmallestBoundaryFile(levels[level], largest) : f = g \/ Before(f.smallest, g.smallest)
<1> DEFINE behind == {f \in levels[level] : f.smallest.key = largest.key /\ Before(largest, f.smallest)}
           S == {f.smallest : f \in behind}
<1>1. levels[level] \subseteq AllTables
  BY DEF AllTables
<1>2. \A f \in levels[level] : /\ f.smallest \in Written /\ f.smallest \in AnyEntry /\ f.largest \in AnyEntry
                               /\ f.smallest = f.largest \/ Before(f.smallest, f.largest)
  BY <1>1, EveryTable DEF WellFormed
<1>3. S \subseteq mem \cup Written /\ S # {}
  BY <1>2
<1>4. Distinct(S) /\ lastSequence \in Nat /\ \A e \in S : e.seq <= lastSequence
  BY <1>3, AllDistinct
<1>5. IsFirst(S, First(S))
  BY <1>3, <1>4, Ends
<1>6. PICK f \in behind : f.smallest = First(S)
  BY <1>5 DEF IsFirst
<1>7. \A x \in behind : x.smallest = f.smallest \/ Before(f.smallest, x.smallest)
  BY <1>5, <1>6 DEF IsFirst
<1>8. ASSUME NEW x \in behind, x.smallest = f.smallest PROVE x = f
  <2>1. SUFFICES ASSUME x # f PROVE FALSE
    OBVIOUS
  <2>2. Before(x.largest, f.smallest) \/ Before(f.largest, x.smallest)
    BY <2>1 DEF NoOverlap
  <2>3. x \in levels[level] /\ f \in levels[level]
    OBVIOUS
  <2> HIDE DEF behind, S
  <2> QED BY <1>2, <1>8, <2>2, <2>3, EntryOrder
<1>9. f \in FindSmallestBoundaryFile(levels[level], largest)
  BY <1>7, <1>8 DEF FindSmallestBoundaryFile
<1>10. f = g \/ Before(f.smallest, g.smallest)
  BY <1>7, <1>8
<1> QED BY <1>9, <1>10

(* Beyond level 0 what stays and shares a key with what goes is later. *)
LEMMA ParentsTaken ==
  ASSUME Typed, Numbered, NoOverlap, NEW level \in Levels \ {0}, NEW I, I \subseteq levels[level],
         I # {}, Takes(level, I)
  PROVE  LaterStays(levels[level], AddBoundaryInputs(levels[level], I))
<1> DEFINE C == Chain(levels[level], I)
           R == AddBoundaryInputs(levels[level], I)
<1>1. R = I \cup C /\ C \subseteq levels[level] /\ Continues(levels[level], I, C)
  BY BoundaryIsLeast
<1> HIDE DEF R, C
<1>2. levels[level] \subseteq AllTables
  BY DEF AllTables
<1>3. \A f \in levels[level] : /\ f.smallest \in AnyEntry /\ f.largest \in AnyEntry
                               /\ f.smallest = f.largest \/ Before(f.smallest, f.largest)
                               /\ \A e \in f.entries : /\ e \in AnyEntry
                                                       /\ e = f.smallest \/ Before(f.smallest, e)
                                                       /\ e = f.largest \/ Before(e, f.largest)
  <2>1. \A f \in levels[level] : f \in Tables
    BY <1>2, EveryTable
  <2> QED BY <1>2, <2>1, EveryTable DEF WellFormed, Tables
<1>4. \A e \in AnyEntry : e.key \in Nat /\ e.seq \in Nat
  BY KeyAssumption DEF AnyEntry
<1>5. SUFFICES ASSUME NEW g \in levels[level] \ R, NEW p \in R, NEW e \in g.entries, NEW d \in p.entries,
                      e.key = d.key, ~(e.seq > d.seq)
               PROVE  FALSE
  BY EntryIn DEF LaterStays, R
<1>6. p \in levels[level] /\ p # g
  BY <1>1, <1>5
<1>7. e \in AnyEntry /\ d \in AnyEntry
  BY <1>3, <1>5, <1>6
<1>8. ~Before(e, d)
  BY <1>4, <1>5, <1>7 DEF Before
<1>9. Before(p.largest, g.smallest)
  <2>1. Before(p.largest, g.smallest) \/ Before(g.largest, p.smallest)
    BY <1>6 DEF NoOverlap
  <2>2. ASSUME Before(g.largest, p.smallest) PROVE FALSE
    <3>1. Before(g.largest, d)
      BY <1>3, <1>5, <1>6, <1>7, <2>2, EntryOrder
    <3>2. Before(e, d)
      BY <1>3, <1>5, <1>6, <1>7, <3>1, EntryOrder
    <3> QED BY <1>8, <3>2
  <2> QED BY <2>1, <2>2
<1>10. p.largest.key = g.smallest.key
  <2>1. d.key <= p.largest.key /\ p.largest.key <= g.smallest.key /\ g.smallest.key <= e.key
    BY <1>3, <1>4, <1>5, <1>6, <1>7, <1>9, EntryOrder
  <2> QED BY <1>3, <1>4, <1>5, <1>6, <1>7, <2>1
<1> DEFINE Q == {q \in R : q.largest.key = g.smallest.key /\ Before(q.largest, g.smallest)}
           N == {q.largest.seq : q \in Q}
<1>11. R \subseteq levels[level] /\ p \in Q
  BY <1>1, <1>5, <1>9, <1>10
<1>12. N \subseteq Nat /\ N # {}
  BY <1>3, <1>4, <1>11
<1>13. PICK m \in N : \A n \in N : m <= n
  <2> HIDE DEF N
  <2> QED BY <1>12, LeastNumber
<1>14. PICK q \in Q : q.largest.seq = m
  OBVIOUS
<1>15. q \in R /\ q \in levels[level] /\ q.largest.key = g.smallest.key /\ Before(q.largest, g.smallest)
  BY <1>11
<1>16. PICK f \in FindSmallestBoundaryFile(levels[level], q.largest) : f = g \/ Before(f.smallest, g.smallest)
  BY <1>15, FirstBehind
<1>17. f \in levels[level] /\ f.smallest.key = q.largest.key /\ Before(q.largest, f.smallest)
  BY <1>16 DEF FindSmallestBoundaryFile
<1>18. f \in R
  <2>1. CASE q \in C
    BY <1>1, <1>16, <2>1 DEF Continues
  <2>2. CASE q \in I
    <3>1. q.largest = Last(EntriesOf(I))
      BY <1>1, <1>15, <2>2 DEF Takes
    <3> QED BY <1>1, <1>16, <3>1 DEF Continues
  <2> QED BY <1>1, <1>15, <2>1, <2>2
<1>19. f # g /\ Before(f.smallest, g.smallest)
  BY <1>16, <1>18
<1>20. Before(f.largest, g.smallest)
  <2>1. Before(f.largest, g.smallest) \/ Before(g.largest, f.smallest)
    BY <1>17, <1>19 DEF NoOverlap
  <2>2. ~Before(g.largest, f.smallest)
    BY <1>3, <1>17, <1>19, EntryOrder
  <2> QED BY <2>1, <2>2
<1>21. f.largest.key = g.smallest.key
  <2>1. f.smallest.key <= f.largest.key /\ f.largest.key <= g.smallest.key
    BY <1>3, <1>4, <1>17, <1>20, EntryOrder
  <2> QED BY <1>3, <1>4, <1>15, <1>17, <2>1
<1>22. f \in Q
  BY <1>18, <1>20, <1>21
<1>23. Before(q.largest, f.largest)
  BY <1>3, <1>15, <1>17, EntryOrder
<1>24. f.largest.seq < q.largest.seq
  BY <1>3, <1>4, <1>15, <1>17, <1>21, <1>23 DEF Before
<1>25. f.largest.seq \in N
  BY <1>22
<1> HIDE DEF N, Q
<1> QED BY <1>3, <1>4, <1>13, <1>14, <1>15, <1>17, <1>24, <1>25

(* The facts about tables that the rest needs of them *)
Ranged(f) ==
  /\ f.smallest \in AnyEntry /\ f.largest \in AnyEntry
  /\ f.smallest.key \in Nat /\ f.largest.key \in Nat /\ f.smallest.key <= f.largest.key
  /\ f.smallest = f.largest \/ Before(f.smallest, f.largest)
  /\ \A e \in f.entries : /\ e \in AnyEntry /\ e.key \in Nat
                          /\ f.smallest.key <= e.key /\ e.key <= f.largest.key
                          /\ e = f.smallest \/ Before(f.smallest, e)
                          /\ e = f.largest \/ Before(e, f.largest)

(* They hold of every table of the current version. *)
LEMMA AllRanged ==
  ASSUME Typed, Numbered
  PROVE  \A f \in AllTables : Ranged(f)
<1> SUFFICES ASSUME NEW f \in AllTables PROVE Ranged(f)
  OBVIOUS
<1>1. /\ f \in Tables /\ WellFormed(f) /\ f.smallest.key <= f.largest.key
      /\ \A e \in f.entries : f.smallest.key <= e.key /\ e.key <= f.largest.key
  BY EveryTable
<1>2. f.smallest \in AnyEntry /\ f.largest \in AnyEntry /\ f.entries \subseteq AnyEntry
  BY <1>1 DEF Tables
<1>3. \A e \in AnyEntry : e.key \in Nat
  BY KeyAssumption DEF AnyEntry
<1> QED BY <1>1, <1>2, <1>3 DEF Ranged, WellFormed

(* The tables of the next level that are not taken lie aside. *)
LEMMA ChildrenTaken ==
  ASSUME Typed, Numbered, NoOverlap, Whole, NEW level \in 0..(kNumLevels - 2),
         NEW P, P \subseteq levels[level], P # {}, NEW children, children = OverlappedBy(level + 1, P)
  PROVE  /\ \A g \in levels[level + 1] \ children : Aside(g, P \cup children)
         /\ \A g \in levels[level + 1] \ children :
              \A e \in g.entries, d \in EntriesOf(P \cup children) : e.key = d.key => e.key \in SplitKeys
<1>1. level \in Levels /\ level + 1 \in Levels \ {0}
  BY LevelAssumption DEF Levels
<1>2. levels[level] \subseteq AllTables /\ levels[level + 1] \subseteq AllTables
  BY <1>1 DEF AllTables
<1>3. \A f \in AllTables : Ranged(f)
  BY AllRanged
<1> DEFINE a == Begin(P)
           b == End(P)
<1>4. /\ a \in Nat /\ b \in Nat
      /\ \A f \in P : a <= f.smallest.key /\ f.largest.key <= b
  BY <1>2, Hull, KeyAssumption
<1>5. children = {f \in levels[level + 1] : Overlaps(f, a, b)}
  BY <1>1, OverlappedRange DEF GetOverlappingInputs
<1> HIDE DEF a, b
<1> SUFFICES ASSUME NEW g \in levels[level + 1] \ children
             PROVE  /\ Aside(g, P \cup children)
                    /\ \A e \in g.entries, d \in EntriesOf(P \cup children) : e.key = d.key => e.key \in SplitKeys
  OBVIOUS
<1>6. Ranged(g) /\ g \in levels[level + 1] /\ g \notin children
  BY <1>2, <1>3
<1>7. g.largest.key < a \/ b < g.smallest.key
  BY <1>4, <1>5, <1>6 DEF Overlaps, Ranged
<1>8. \A f \in P : Ranged(f) /\ a <= f.smallest.key /\ f.largest.key <= b
  BY <1>2, <1>3, <1>4
<1>9. \A c \in children : /\ Ranged(c) /\ c.largest.key >= a /\ c.smallest.key <= b /\ c # g
                          /\ Before(c.largest, g.smallest) \/ Before(g.largest, c.smallest)
  <2>1. \A c \in children : c \in levels[level + 1] /\ Ranged(c) /\ c.largest.key >= a /\ c.smallest.key <= b /\ c # g
    BY <1>2, <1>3, <1>5, <1>6 DEF Overlaps
  <2> QED BY <1>1, <1>6, <2>1 DEF NoOverlap
<1>10. ASSUME g.largest.key < a PROVE Aside(g, P \cup children)
  <2>1. \A f \in P : \A e \in f.entries : Before(g.largest, e)
    BY <1>4, <1>6, <1>8, <1>10 DEF Ranged, Before
  <2>2. ASSUME NEW c \in children, NEW e \in c.entries PROVE Before(g.largest, e)
    <3>1. ~Before(c.largest, g.smallest)
      <4>1. Before(c.largest, g.smallest) => c.largest.key <= g.smallest.key
        BY <1>6, <1>9, EntryOrder DEF Ranged
      <4> QED BY <1>4, <1>6, <1>9, <1>10, <4>1 DEF Ranged
    <3>2. Before(g.largest, c.smallest)
      BY <1>9, <3>1
    <3> QED BY <1>6, <1>9, <3>2, EntryOrder DEF Ranged
  <2> QED BY <2>1, <2>2, EntryIn DEF Aside
<1>11. ASSUME b < g.smallest.key PROVE Aside(g, P \cup children)
  <2>1. \A f \in P : \A e \in f.entries : Before(e, g.smallest)
    BY <1>4, <1>6, <1>8, <1>11 DEF Ranged, Before
  <2>2. ASSUME NEW c \in children, NEW e \in c.entries PROVE Before(e, g.smallest)
    <3>1. ~Before(g.largest, c.smallest)
      <4>1. Before(g.largest, c.smallest) => g.largest.key <= c.smallest.key
        BY <1>6, <1>9, EntryOrder DEF Ranged
      <4> QED BY <1>4, <1>6, <1>9, <1>11, <4>1 DEF Ranged
    <3>2. Before(c.largest, g.smallest)
      BY <1>9, <3>1
    <3> QED BY <1>6, <1>9, <3>2, EntryOrder DEF Ranged
  <2> QED BY <2>1, <2>2, EntryIn DEF Aside
<1>12. \A e \in g.entries, d \in EntriesOf(P \cup children) : e.key = d.key => e.key \in SplitKeys
  <2> SUFFICES ASSUME NEW e \in g.entries, NEW x \in P \cup children, NEW d \in x.entries, e.key = d.key
               PROVE  e.key \in SplitKeys
    BY EntryIn
  <2>1. CASE x \in P
    BY <1>4, <1>6, <1>7, <1>8, <2>1 DEF Ranged
  <2>2. CASE x \in children
    <3>1. x \in levels[level + 1] /\ x # g
      BY <1>5, <1>9, <2>2
    <3> QED BY <1>1, <1>6, <3>1 DEF Whole
  <2> QED BY <2>1, <2>2
<1> QED BY <1>7, <1>10, <1>11, <1>12

-----------------------------------------------------------------------------
(* No gap between the inputs: they lie on one side of any range of keys    *)
(* that none of them overlaps.                                             *)

Clear(X, a, b) == \A f \in X : ~Overlaps(f, a, b)
Below(X, a) == \A f \in X : f.largest.key < a
Above(X, b) == \A f \in X : b < f.smallest.key

(* What overlaps a range on one side is on that side (also in level 0,     *)
(* where the range widens).                                                *)
LEMMA GapRange ==
  ASSUME Typed, Numbered, NEW level \in Levels, NEW x \in Nat, NEW y \in Nat, NEW a \in Nat, NEW b \in Nat,
         a <= b, Clear(GetOverlappingInputs(level, x, y), a, b)
  PROVE  /\ y < a => Below(GetOverlappingInputs(level, x, y), a)
         /\ b < x => Above(GetOverlappingInputs(level, x, y), b)
<1> DEFINE Y == GetOverlappingInputs(level, x, y)
<1>1. levels[level] \subseteq AllTables /\ \A f \in AllTables : Ranged(f)
  BY AllRanged DEF AllTables
<1>2. level # 0 => \A f \in Y : Overlaps(f, x, y)
  BY OverlappingInputs
<1>3. level = 0 => Y = Found(levels[0], x, y)
  BY DEF GetOverlappingInputs
<1>4. Y \subseteq levels[level]
  BY OverlappingInputs
<1>5. Clear(Y, a, b)
  OBVIOUS
<1> HIDE DEF Y
<1>6. \A g \in Y : /\ g.smallest.key \in Nat /\ g.largest.key \in Nat /\ g.smallest.key <= g.largest.key
                   /\ g.largest.key < a \/ b < g.smallest.key
  BY <1>1, <1>4, <1>5 DEF Clear, Overlaps, Ranged
<1>7. level # 0 => (y < a => Below(Y, a)) /\ (b < x => Above(Y, b))
  <2> SUFFICES ASSUME level # 0, NEW g \in Y
               PROVE  (y < a => g.largest.key < a) /\ (b < x => b < g.smallest.key)
    BY DEF Below, Above
  <2>1. Overlaps(g, x, y)
    BY <1>2
  <2> QED BY <1>6, <2>1 DEF Overlaps
<1>8. ASSUME level = 0 PROVE (y < a => Below(Y, a)) /\ (b < x => Above(Y, b))
  <2>1. Y \subseteq levels[0] /\ Reaches(levels[0], x, y, Y)
    BY <1>3, <1>8, FoundIsLeast
  <2>2. \A T \in SUBSET levels[0] : Reaches(levels[0], x, y, T) => Y \subseteq T
    BY <1>3, <1>8, FoundIsLeast
  <2>3. ASSUME y < a PROVE Below(Y, a)
    <3> DEFINE T == {h \in Y : h.largest.key < a}
    <3>1. T \subseteq levels[0] /\ \A h \in T : h \in Y /\ h.largest.key < a
      BY <2>1
    <3>2. \A h \in Y : h.largest.key < a => h \in T
      OBVIOUS
    <3> HIDE DEF T
    <3>3. ASSUME NEW g \in levels[0],
                 Overlaps(g, x, y) \/ \E h \in T : Overlaps(g, h.smallest.key, h.largest.key)
          PROVE  g \in T
      <4>1. g \in Y
        BY <2>1, <3>1, <3>3 DEF Reaches
      <4>2. g.smallest.key < a
        BY <1>6, <2>3, <3>1, <3>3, <4>1 DEF Overlaps
      <4> QED BY <1>6, <3>2, <4>1, <4>2
    <3>4. Y \subseteq T
      BY <2>2, <3>1, <3>3 DEF Reaches
    <3> QED BY <3>1, <3>4 DEF Below
  <2>4. ASSUME b < x PROVE Above(Y, b)
    <3> DEFINE T == {h \in Y : b < h.smallest.key}
    <3>1. T \subseteq levels[0] /\ \A h \in T : h \in Y /\ b < h.smallest.key
      BY <2>1
    <3>2. \A h \in Y : b < h.smallest.key => h \in T
      OBVIOUS
    <3> HIDE DEF T
    <3>3. ASSUME NEW g \in levels[0],
                 Overlaps(g, x, y) \/ \E h \in T : Overlaps(g, h.smallest.key, h.largest.key)
          PROVE  g \in T
      <4>1. g \in Y
        BY <2>1, <3>1, <3>3 DEF Reaches
      <4>2. b < g.largest.key
        BY <1>6, <2>4, <3>1, <3>3, <4>1 DEF Overlaps
      <4> QED BY <1>6, <3>2, <4>1, <4>2
    <3>4. Y \subseteq T
      BY <2>2, <3>1, <3>3 DEF Reaches
    <3> QED BY <3>1, <3>4 DEF Above
  <2> QED BY <2>3, <2>4
<1> QED BY <1>7, <1>8 DEF Y

(* The same for what tables on one side overlap *)
LEMMA GapOverlapped ==
  ASSUME Typed, Numbered, NEW level \in Levels, NEW X, X \subseteq AllTables, X # {},
         NEW a \in Nat, NEW b \in Nat, a <= b, Clear(OverlappedBy(level, X), a, b)
  PROVE  /\ Below(X, a) => Below(OverlappedBy(level, X), a)
         /\ Above(X, b) => Above(OverlappedBy(level, X), b)
<1> DEFINE x == Begin(X)
           y == End(X)
<1>1. OverlappedBy(level, X) = GetOverlappingInputs(level, x, y)
  BY OverlappedRange
<1>2. x \in Nat /\ y \in Nat /\ (\E f \in X : f.smallest.key = x) /\ (\E f \in X : f.largest.key = y)
  BY Hull, KeyAssumption
<1> HIDE DEF x, y
<1>3. (y < a => Below(OverlappedBy(level, X), a)) /\ (b < x => Above(OverlappedBy(level, X), b))
  BY <1>1, <1>2, GapRange
<1> QED BY <1>2, <1>3 DEF Below, Above

(* The same for the tables that AddBoundaryInputs adds *)
LEMMA GapBoundary ==
  ASSUME Typed, Numbered, NEW level \in Levels, NEW I, I \subseteq levels[level], I # {},
         NEW a \in Nat, NEW b \in Nat, a <= b, Clear(AddBoundaryInputs(levels[level], I), a, b)
  PROVE  /\ Below(I, a) => Below(AddBoundaryInputs(levels[level], I), a)
         /\ Above(I, b) => Above(AddBoundaryInputs(levels[level], I), b)
<1> DEFINE R == AddBoundaryInputs(levels[level], I)
           C == Chain(levels[level], I)
           last == Last(EntriesOf(I))
<1>1. levels[level] \subseteq AllTables /\ I \subseteq AllTables /\ \A f \in AllTables : Ranged(f)
  BY AllRanged DEF AllTables
<1>2. PICK p \in I : p.largest = last
  BY <1>1, Hull
<1>3. R = I \cup C /\ C \subseteq levels[level] /\ Continues(levels[level], I, C)
  BY BoundaryIsLeast
<1>4. \A T \in SUBSET levels[level] : Continues(levels[level], I, T) => C \subseteq T
  BY BoundaryIsLeast
<1>5. \A largest : \A g \in FindSmallestBoundaryFile(levels[level], largest) : g.smallest.key = largest.key
  BY DEF FindSmallestBoundaryFile
<1>6. FindSmallestBoundaryFile(levels[level], last) \subseteq C
  BY <1>3 DEF Continues
<1>7. \A g \in C : FindSmallestBoundaryFile(levels[level], g.largest) \subseteq C
  BY <1>3 DEF Continues
<1>8. Clear(R, a, b)
  OBVIOUS
<1>9. \A T \in SUBSET levels[level] :
        /\ FindSmallestBoundaryFile(levels[level], last) \subseteq T
        /\ \A g \in T : FindSmallestBoundaryFile(levels[level], g.largest) \subseteq T
        => C \subseteq T
  BY <1>4 DEF Continues
<1> HIDE DEF R, C, last
<1>10. \A g \in R : /\ g.smallest.key \in Nat /\ g.largest.key \in Nat /\ g.smallest.key <= g.largest.key
                    /\ g.largest.key < a \/ b < g.smallest.key
  BY <1>1, <1>3, <1>8 DEF Clear, Overlaps, Ranged
<1>11. ASSUME Below(I, a) PROVE Below(R, a)
  <2> DEFINE T == {h \in C : h.largest.key < a}
  <2>1. T \subseteq levels[level] /\ \A h \in T : h \in C /\ h.largest.key < a
    BY <1>3
  <2>2. \A h \in C : h.largest.key < a => h \in T
    OBVIOUS
  <2> HIDE DEF T
  <2>3. ASSUME NEW g \in FindSmallestBoundaryFile(levels[level], last) PROVE g \in T
    <3>1. g \in C /\ g.smallest.key = p.largest.key
      BY <1>2, <1>5, <1>6
    <3> QED BY <1>3, <1>10, <1>11, <2>2, <3>1 DEF Below
  <2>4. ASSUME NEW h \in T, NEW g \in FindSmallestBoundaryFile(levels[level], h.largest) PROVE g \in T
    <3>1. g \in C /\ g.smallest.key = h.largest.key
      BY <1>5, <1>7, <2>1
    <3> QED BY <1>3, <1>10, <2>1, <2>2, <3>1
  <2>5. C \subseteq T
    BY <1>9, <2>1, <2>3, <2>4
  <2> QED BY <1>3, <1>11, <2>1, <2>5 DEF Below
<1>12. ASSUME Above(I, b) PROVE Above(R, b)
  <2> DEFINE T == {h \in C : b < h.smallest.key}
  <2>1. T \subseteq levels[level] /\ \A h \in T : h \in C /\ b < h.smallest.key
    BY <1>3
  <2>2. \A h \in C : b < h.smallest.key => h \in T
    OBVIOUS
  <2> HIDE DEF T
  <2>3. ASSUME NEW g \in FindSmallestBoundaryFile(levels[level], last) PROVE g \in T
    <3>1. g \in C /\ g.smallest.key = p.largest.key
      BY <1>2, <1>5, <1>6
    <3>2. p \in R /\ b < p.smallest.key
      BY <1>3, <1>12 DEF Above
    <3> QED BY <1>3, <1>10, <2>2, <3>1, <3>2
  <2>4. ASSUME NEW h \in T, NEW g \in FindSmallestBoundaryFile(levels[level], h.largest) PROVE g \in T
    <3>1. g \in C /\ g.smallest.key = h.largest.key
      BY <1>5, <1>7, <2>1
    <3> QED BY <1>3, <1>10, <2>1, <2>2, <3>1
  <2>5. C \subseteq T
    BY <1>9, <2>1, <2>3, <2>4
  <2> QED BY <1>3, <1>12, <2>1, <2>5 DEF Above
<1> QED BY <1>11, <1>12 DEF R
(* The inputs lie close together. *)
LEMMA InputsClose ==
  ASSUME Typed, Numbered, NEW level \in 0..(kNumLevels - 2), NEW f \in levels[level],
         NEW c \in SetupOtherInputs(level, PickCompaction(level, f))
  PROVE  NoGap(c.parents \cup c.children)
<1> DEFINE I == PickCompaction(level, f)
           P == AddBoundaryInputs(levels[level], I)
           C == OverlappedBy(level + 1, P)
           W == Widest(level, I)
           Q == AddBoundaryInputs(levels[level], W)
           D == OverlappedBy(level + 1, Q)
<1> SUFFICES ASSUME NEW a \in Keys, NEW b \in Keys, a <= b, Clear(c.parents \cup c.children, a, b)
             PROVE  Below(c.parents \cup c.children, a) \/ Above(c.parents \cup c.children, b)
  BY DEF NoGap, Clear, Below, Above
<1>1. a \in Nat /\ b \in Nat
  BY KeyAssumption
<1>2. I \subseteq levels[level] /\ f \in I
  BY Picked
<1>3. /\ level \in Levels /\ level + 1 \in Levels
      /\ c.children = OverlappedBy(level + 1, c.parents)
      /\ c.parents \in {P, Q}
      /\ W # {} /\ W \subseteq levels[level] /\ P \subseteq W
  BY <1>2, Setup
<1>4. levels[level] \subseteq AllTables /\ levels[level + 1] \subseteq AllTables
  BY <1>3 DEF AllTables
<1>5. /\ P # {} /\ P \subseteq levels[level] /\ I \subseteq P
      /\ Q # {} /\ Q \subseteq levels[level] /\ W \subseteq Q
  BY <1>2, <1>3, BoundaryIsLeast
<1>6. C \subseteq levels[level + 1] /\ D \subseteq levels[level + 1]
  BY <1>3, OverlappedRange, OverlappingInputs
<1>7. W = OverlappedBy(level, P \cup C)
  BY DEF Widest
<1>8. ASSUME Clear(I, a, b) PROVE Below(I, a) \/ Above(I, b)
  <2>1. Ranged(f)
    BY <1>4, AllRanged
  <2>2. f.largest.key < a \/ b < f.smallest.key
    BY <1>1, <1>2, <1>8, <2>1 DEF Clear, Overlaps, Ranged
  <2>3. CASE level = 0
    <3>1. I = GetOverlappingInputs(0, f.smallest.key, f.largest.key)
      BY <2>3 DEF PickCompaction
    <3> HIDE DEF I
    <3> QED BY <1>1, <1>3, <1>8, <2>1, <2>2, <2>3, <3>1, GapRange DEF Ranged
  <2>4. CASE level # 0
    <3>1. I = {f}
      BY <2>4 DEF PickCompaction
    <3> HIDE DEF I
    <3> QED BY <2>2, <3>1 DEF Below, Above
  <2> QED BY <2>3, <2>4
<1>9. C \subseteq D
  <2>1. \A g : g \in C <=> g \in levels[level + 1] /\ Overlaps(g, Begin(P), End(P))
    BY <1>3, OverlappedRange, LevelAssumption DEF GetOverlappingInputs
  <2>2. \A g : g \in D <=> g \in levels[level + 1] /\ Overlaps(g, Begin(Q), End(Q))
    BY <1>3, OverlappedRange, LevelAssumption DEF GetOverlappingInputs
  <2> HIDE DEF I, P, C, W, Q, D
  <2>3. /\ Begin(P) \in Nat /\ End(P) \in Nat /\ Begin(Q) \in Nat /\ End(Q) \in Nat
        /\ (\E g \in P : g.smallest.key = Begin(P)) /\ (\E g \in P : g.largest.key = End(P))
        /\ \A g \in Q : Begin(Q) <= g.smallest.key /\ g.largest.key <= End(Q)
    BY <1>4, <1>5, Hull, KeyAssumption
  <2>4. Begin(Q) <= Begin(P) /\ End(P) <= End(Q)
    BY <1>3, <1>5, <2>3
  <2>5. \A g \in levels[level + 1] : g.smallest.key \in Nat /\ g.largest.key \in Nat
    BY <1>4, AllRanged DEF Ranged
  <2> HIDE DEF Begin, End
  <2>6. \A g \in levels[level + 1] : Overlaps(g, Begin(P), End(P)) => Overlaps(g, Begin(Q), End(Q))
    BY <2>3, <2>4, <2>5 DEF Overlaps
  <2> QED BY <2>1, <2>2, <2>6
<1> HIDE DEF I
<1>10. ASSUME Clear(P \cup C, a, b) PROVE Below(P \cup C, a) \/ Above(P \cup C, b)
  <2>1. Clear(I, a, b) /\ Clear(P, a, b) /\ Clear(C, a, b)
    BY <1>5, <1>10 DEF Clear
  <2>2. (Below(I, a) => Below(P, a)) /\ (Above(I, b) => Above(P, b))
    BY <1>1, <1>2, <1>3, <2>1, GapBoundary
  <2> HIDE DEF P
  <2>3. (Below(P, a) => Below(C, a)) /\ (Above(P, b) => Above(C, b))
    BY <1>1, <1>3, <1>4, <1>5, <2>1, GapOverlapped
  <2> QED BY <1>8, <2>1, <2>2, <2>3 DEF Below, Above
<1>11. ASSUME Clear(Q \cup D, a, b) PROVE Below(Q \cup D, a) \/ Above(Q \cup D, b)
  <2> DEFINE X == P \cup C
  <2>1. Clear(X, a, b) /\ Clear(W, a, b) /\ Clear(Q, a, b) /\ Clear(D, a, b)
    BY <1>3, <1>5, <1>9, <1>11 DEF Clear
  <2>2. Below(X, a) \/ Above(X, b)
    BY <1>10, <2>1
  <2>3. X \subseteq AllTables /\ X # {} /\ W = OverlappedBy(level, X)
    BY <1>4, <1>5, <1>6, <1>7
  <2> HIDE DEF P, C, W, X
  <2>4. (Below(X, a) => Below(W, a)) /\ (Above(X, b) => Above(W, b))
    BY <1>1, <1>3, <2>1, <2>3, GapOverlapped
  <2>5. (Below(W, a) => Below(Q, a)) /\ (Above(W, b) => Above(Q, b))
    BY <1>1, <1>3, <2>1, GapBoundary
  <2> HIDE DEF Q
  <2>6. (Below(Q, a) => Below(D, a)) /\ (Above(Q, b) => Above(D, b))
    BY <1>1, <1>3, <1>4, <1>5, <2>1, GapOverlapped
  <2> QED BY <2>2, <2>4, <2>5, <2>6 DEF Below, Above
<1> QED BY <1>3, <1>10, <1>11

(* A compaction can be merged into the next level when it begins. *)
LEMMA CanBeMerged ==
  ASSUME Typed, Numbered, NoOverlap, Whole,
         NEW level \in 0..(kNumLevels - 2), NEW f \in levels[level],
         NEW c \in SetupOtherInputs(level, PickCompaction(level, f))
  PROVE  Mergeable(level, c.parents, c.children)
<1> DEFINE I == PickCompaction(level, f)
           W == Widest(level, I)
<1>1. I \subseteq levels[level] /\ I # {}
  BY Picked
<1>2. /\ level \in Levels /\ level + 1 \in Levels
      /\ c.parents # {} /\ c.parents \subseteq levels[level]
      /\ c.children = OverlappedBy(level + 1, c.parents)
      /\ c.parents \in {AddBoundaryInputs(levels[level], I), AddBoundaryInputs(levels[level], W)}
      /\ W # {} /\ W \subseteq levels[level]
  BY <1>1, Setup
<1>3. Takes(level, I)
  BY PickedTaken
<1>4. Takes(level, W)
  <2> DEFINE P == AddBoundaryInputs(levels[level], I)
             X == P \cup OverlappedBy(level + 1, P)
  <2>1. W = OverlappedBy(level, X)
    BY DEF Widest
  <2>2. P \subseteq levels[level] /\ P # {}
    BY <1>1, BoundaryIsLeast
  <2>3. OverlappedBy(level + 1, P) \subseteq levels[level + 1]
    BY <1>2, OverlappedRange, OverlappingInputs
  <2>4. X \subseteq AllTables /\ X # {}
    BY <1>2, <2>2, <2>3 DEF AllTables
  <2> HIDE DEF X, P, W
  <2> QED BY <1>2, <2>1, <2>4, InputsTaken
<1> HIDE DEF I, W
<1>5. \A J : J \subseteq levels[level] /\ J # {} /\ Takes(level, J) =>
        LaterStays(levels[level], AddBoundaryInputs(levels[level], J))
  <2> SUFFICES ASSUME NEW J, J \subseteq levels[level], J # {}, Takes(level, J)
               PROVE  LaterStays(levels[level], AddBoundaryInputs(levels[level], J))
    OBVIOUS
  <2>1. CASE level = 0
    <3>1. AddBoundaryInputs(levels[0], J) = J /\ LaterStays(levels[0], J)
      BY <2>1, NoBoundary0
    <3> QED BY <2>1, <3>1
  <2>2. CASE level # 0
    BY <1>2, <2>2, ParentsTaken
  <2> QED BY <2>1, <2>2
<1>6. LaterStays(levels[level], c.parents)
  BY <1>1, <1>2, <1>3, <1>4, <1>5
<1>7. NoGap(c.parents \cup c.children)
  BY InputsClose
<1> QED BY <1>2, <1>6, <1>7, ChildrenTaken DEF Mergeable
-----------------------------------------------------------------------------
(* Every step keeps the levels in order, when there is no CompactRange *)

(* NewerAbove, table by table *)
NewerTables ==
  /\ \A n \in Levels : \A m \in Levels : n < m =>
       \A f \in levels[n], g \in levels[m] : \A e \in f.entries, d \in g.entries :
         e.key = d.key => e.seq > d.seq
  /\ \A f, g \in levels[0] : f.number > g.number =>
       \A e \in f.entries, d \in g.entries : e.key = d.key => e.seq > d.seq

(* The two say the same. *)
LEMMA TableWise == NewerAbove <=> NewerTables
BY EntryIn DEF NewerAbove, NewerTables

(* They say the same in the next state. *)
LEMMA TableWiseNext == NewerAbove' <=> NewerTables'
BY TableWise, PTL

(* The steps that leave the tables and the compaction alone *)
LEMMA UserLayered ==
  ASSUME Layered, Stocked', UNCHANGED <<tableVars, merge>>,
         \/ \E k \in Keys, del \in BOOLEAN : Write(k, del)
         \/ GetSnapshot
         \/ \E seq \in snapshots : ReleaseSnapshot(seq)
         \/ NewIterator
         \/ \E held \in iterators : DeleteIterator(held)
         \/ UNCHANGED vars
  PROVE  Layered'
<1>1. levels' = levels /\ merge' = merge
  BY DEF tableVars
<1>2. NoOverlap' /\ NewerAbove' /\ Whole'
  BY <1>1 DEF Layered, NoOverlap, NewerAbove, Whole
<1>3. lastSequence \in Nat /\ snapshots \subseteq Nat
  BY BoundAssumption DEF Layered, Stocked, Typed, TypeOK
<1>4. /\ lastSequence' \in {lastSequence, lastSequence + 1}
      /\ snapshots' \subseteq snapshots \cup {lastSequence}
      /\ \A e \in mem' \ mem : e.del => e.key \in DeletedKeys
  BY DEF Write, GetSnapshot, ReleaseSnapshot, NewIterator, DeleteIterator, vars
<1>5. Merging'
  <2>1. Mergeable(merge.level, merge.parents, merge.children)' <=> Mergeable(merge.level, merge.parents, merge.children)
    BY <1>1 DEF Mergeable
  <2>2. Inputs' = Inputs
    BY <1>1 DEF Inputs
  <2> SUFFICES ASSUME merge # NoMerge
               PROVE  merge.oldest <= lastSequence' /\ \A s \in snapshots' : merge.oldest <= s
    BY <1>1, <2>1, <2>2 DEF Merging, Layered
  <2>3. merge.oldest \in Nat /\ merge.oldest <= lastSequence /\ \A s \in snapshots : merge.oldest <= s
    BY DEF Layered, Merging, Stocked, Typed
  <2> QED BY <1>3, <1>4, <2>3
<1>6. Deletions'
  BY <1>1, <1>4 DEF Layered, Deletions, Written
<1> QED BY <1>2, <1>5, <1>6 DEF Layered

(* A memtable becomes a table, perhaps next to a compaction under way. *)
LEMMA FlushLayered ==
  ASSUME Layered, Stocked', CompactMemTable
  PROVE  Layered'
<1>1. Stocked /\ Typed /\ Numbered /\ InPlace
  BY DEF Layered, Stocked
<1>2. PICK level, f : Flushes(level, f)
  BY <1>1, FlushEffect
<1>3. /\ level \in Levels /\ f.entries = mem /\ f.number = nextFile
      /\ f.smallest.key \in Nat /\ f.largest.key \in Nat /\ f.smallest.key <= f.largest.key
      /\ \A e \in f.entries : f.smallest.key <= e.key /\ e.key <= f.largest.key
      /\ level > 0 => \A n \in 0..level : \A g \in levels[n] : ~Overlaps(g, f.smallest.key, f.largest.key)
  BY <1>2, KeyAssumption DEF Flushes
<1>4. levels \in [Levels -> SUBSET Tables] /\ levels' = [levels EXCEPT ![level] = @ \cup {f}]
  BY <1>1, <1>2 DEF Typed, Flushes
<1>5. \A n \in Levels : \A g : g \in levels'[n] <=> g \in levels[n] \/ (n = level /\ g = f)
  BY <1>3, <1>4
<1>6. UNCHANGED <<lastSequence, snapshots, merge>> /\ mem' = {}
  BY DEF CompactMemTable
<1>7. \A n \in Levels : \A g \in levels[n] : Ranged(g)
  BY <1>1, AllRanged DEF AllTables
<1>8. \A n \in Levels : \A g \in levels[n] : \A e \in f.entries, d \in g.entries : e.seq > d.seq
  BY <1>1, <1>3, WrittenIn DEF Numbered
<1>9. \A n \in Levels : \A g \in levels[n] : n <= level /\ level > 0 =>
        /\ g.largest.key < f.smallest.key \/ f.largest.key < g.smallest.key
        /\ \A e \in f.entries, d \in g.entries : e.key # d.key
  <2> SUFFICES ASSUME NEW n \in Levels, NEW g \in levels[n], n <= level, level > 0
               PROVE  /\ g.largest.key < f.smallest.key \/ f.largest.key < g.smallest.key
                      /\ \A e \in f.entries, d \in g.entries : e.key # d.key
    OBVIOUS
  <2>1. ~Overlaps(g, f.smallest.key, f.largest.key)
    BY <1>3, LevelAssumption DEF Levels
  <2>2. g.largest.key < f.smallest.key \/ f.largest.key < g.smallest.key
    BY <1>3, <1>7, <2>1 DEF Overlaps, Ranged
  <2>3. \A e \in f.entries : e.key \in Nat
    BY <1>1, <1>3, KeyAssumption DEF Typed, TypeOK, Entries
  <2> QED BY <1>3, <1>7, <2>2, <2>3 DEF Ranged
<1>10. NoOverlap'
  <2> SUFFICES ASSUME NEW n \in Levels \ {0}, NEW g \in levels'[n], NEW h \in levels'[n]
               PROVE  g = h \/ Before(g.largest, h.smallest) \/ Before(h.largest, g.smallest)
    BY DEF NoOverlap
  <2>1. CASE g \in levels[n] /\ h \in levels[n]
    BY <2>1 DEF Layered, NoOverlap
  <2>2. \A x \in levels[n] : n = level => Before(x.largest, f.smallest) \/ Before(f.largest, x.smallest)
    BY <1>3, <1>9, LevelAssumption DEF Before, Levels
  <2>3. (g \in levels[n] \/ (n = level /\ g = f)) /\ (h \in levels[n] \/ (n = level /\ h = f))
    BY <1>5
  <2> QED BY <2>1, <2>2, <2>3
<1>11. NewerAbove'
  <2>0. NewerTables
    BY TableWise DEF Layered
  <2>1. ASSUME NEW n \in Levels, NEW m \in Levels, n < m, NEW g \in levels'[n], NEW h \in levels'[m],
               NEW e \in g.entries, NEW d \in h.entries, e.key = d.key
        PROVE  e.seq > d.seq
    <3>1. CASE g \in levels[n] /\ h \in levels[m]
      BY <2>0, <2>1, <3>1 DEF NewerTables
    <3>2. CASE n = level /\ g = f /\ h \in levels[m]
      BY <1>8, <3>2
    <3>3. CASE m = level /\ h = f /\ g \in levels[n]
      BY <1>9, <2>1, <3>3, LevelAssumption DEF Levels
    <3>4. n # m
      BY <2>1, LevelAssumption DEF Levels
    <3>5. (g \in levels[n] \/ (n = level /\ g = f)) /\ (h \in levels[m] \/ (m = level /\ h = f))
      BY <1>5
    <3> QED BY <3>1, <3>2, <3>3, <3>4, <3>5
  <2>2. ASSUME NEW g \in levels'[0], NEW h \in levels'[0], g.number > h.number,
               NEW e \in g.entries, NEW d \in h.entries, e.key = d.key
        PROVE  e.seq > d.seq
    <3>1. 0 \in Levels
      BY LevelAssumption DEF Levels
    <3>2. \A x \in levels[0] : x.number \in Nat /\ x.number < nextFile
      BY <1>1, <3>1 DEF Typed, TypeOK
    <3>3. nextFile \in Nat
      BY <1>1 DEF Typed
    <3>4. CASE g \in levels[0] /\ h \in levels[0]
      BY <2>0, <2>2, <3>4 DEF NewerTables
    <3>5. CASE g = f /\ h \in levels[0]
      BY <1>8, <3>1, <3>5
    <3>6. (g \in levels[0] \/ g = f) /\ (h \in levels[0] \/ h = f)
      BY <1>5, <3>1
    <3>7. ~(g = f /\ h = f) /\ ~(g \in levels[0] /\ h = f)
      BY <1>3, <2>2, <3>2, <3>3
    <3> QED BY <3>4, <3>5, <3>6, <3>7
  <2> QED BY <2>1, <2>2, TableWiseNext DEF NewerTables
<1>12. Whole'
  <2> SUFFICES ASSUME NEW n \in Levels \ {0}, NEW g \in levels'[n], NEW h \in levels'[n], g # h,
                      NEW e \in g.entries, NEW d \in h.entries, e.key = d.key
               PROVE  e.key \in SplitKeys
    BY DEF Whole
  <2>1. CASE g \in levels[n] /\ h \in levels[n]
    BY <2>1 DEF Layered, Whole
  <2>2. \A x \in levels[n] : n = level => \A u \in f.entries, v \in x.entries : u.key # v.key
    BY <1>9, LevelAssumption DEF Levels
  <2>3. (g \in levels[n] \/ (n = level /\ g = f)) /\ (h \in levels[n] \/ (n = level /\ h = f))
    BY <1>5
  <2> QED BY <2>1, <2>2, <2>3
<1>13. Merging'
  <2> SUFFICES ASSUME merge # NoMerge
               PROVE  /\ Mergeable(merge.level, merge.parents, merge.children)'
                      /\ \A n \in (merge.level + 2)..(kNumLevels - 1) : \A g \in levels'[n] \ merge.base[n] :
                           \A x \in Inputs : ~Overlaps(g, x.smallest.key, x.largest.key)
                      /\ merge.oldest <= lastSequence
                      /\ \A s \in snapshots : merge.oldest <= s
    BY <1>6 DEF Merging, Inputs
  <2>1. /\ Mergeable(merge.level, merge.parents, merge.children)
        /\ \A n \in (merge.level + 2)..(kNumLevels - 1) : \A g \in levels[n] \ merge.base[n] :
             \A x \in Inputs : ~Overlaps(g, x.smallest.key, x.largest.key)
        /\ merge.oldest <= lastSequence
        /\ \A s \in snapshots : merge.oldest <= s
    BY DEF Layered, Merging
  <2> DEFINE l == merge.level
             P == merge.parents
             C == merge.children
  <2>2. /\ l \in 0..(kNumLevels - 2) /\ P \subseteq levels[l] /\ C \subseteq levels[l + 1]
        /\ l \in Levels /\ l + 1 \in Levels /\ l \in Nat /\ l + 1 > 0 /\ l < l + 1
    BY <1>1, LevelAssumption DEF InPlace, Levels
  <2>3. Inputs = P \cup C
    BY DEF Inputs
  <2> HIDE DEF l, P, C
  <2>4. \A x \in P \cup C : level > l =>
           /\ Ranged(x)
           /\ x.largest.key < f.smallest.key \/ f.largest.key < x.smallest.key
           /\ \A e \in f.entries, d \in x.entries : e.key # d.key
    BY <1>3, <1>7, <1>9, <2>2, LevelAssumption DEF Levels
  <2>5. LaterStays(levels'[l], P)
    <3> SUFFICES ASSUME NEW g \in levels'[l] \ P, NEW e \in g.entries, NEW x \in P, NEW d \in x.entries,
                        e.key = d.key
                 PROVE  e.seq > d.seq
      BY EntryIn DEF LaterStays
    <3>1. LaterStays(levels[l], P)
      BY <2>1 DEF Mergeable, l, P
    <3>2. CASE g \in levels[l]
      BY <3>1, <3>2, EntryIn DEF LaterStays
    <3>3. CASE g = f
      BY <1>8, <2>2, <3>3
    <3> QED BY <1>5, <2>2, <3>2, <3>3
  <2>6. NoGap(P \cup C)
    BY <2>1 DEF Mergeable, P, C
  <2>7. \A g \in levels'[l + 1] \ C : Aside(g, P \cup C)
    <3>1. \A g \in levels[l + 1] \ C : Aside(g, P \cup C)
      BY <2>1 DEF Mergeable, P, C, l
    <3>2. ASSUME level = l + 1 PROVE Aside(f, P \cup C)
      <4>1. \A x \in P \cup C : ~Overlaps(x, f.smallest.key, f.largest.key)
        BY <1>3, <2>2, <2>4, <3>2 DEF Overlaps, Ranged
      <4>2. f.smallest.key \in Keys /\ f.largest.key \in Keys
        BY <1>2 DEF Flushes
      <4>3. \/ \A x \in P \cup C : x.largest.key < f.smallest.key
            \/ \A x \in P \cup C : f.largest.key < x.smallest.key
        BY <1>3, <2>6, <4>1, <4>2 DEF NoGap
      <4>4. \A x \in P \cup C : \A e \in x.entries :
              /\ e.key \in Nat /\ x.smallest.key <= e.key /\ e.key <= x.largest.key
              /\ x.smallest.key \in Nat /\ x.largest.key \in Nat
        BY <2>2, <2>4, <3>2 DEF Ranged
      <4> QED BY <1>3, <4>3, <4>4, EntryIn DEF Aside, Before
    <3> QED BY <1>5, <2>2, <3>1, <3>2
  <2>8. \A g \in levels'[l + 1] \ C : \A e \in g.entries, d \in EntriesOf(P \cup C) : e.key = d.key => e.key \in SplitKeys
    <3>1. \A g \in levels[l + 1] \ C : \A e \in g.entries, d \in EntriesOf(P \cup C) : e.key = d.key => e.key \in SplitKeys
      BY <2>1 DEF Mergeable, P, C, l
    <3>2. level = l + 1 => \A e \in f.entries, d \in EntriesOf(P \cup C) : e.key # d.key
      BY <2>2, <2>4, EntryIn
    <3> QED BY <1>5, <2>2, <3>1, <3>2
  <2>9. Mergeable(merge.level, merge.parents, merge.children)'
    BY <1>6, <2>5, <2>6, <2>7, <2>8 DEF Mergeable, P, C, l
  <2>10. ASSUME NEW n \in (l + 2)..(kNumLevels - 1), NEW g \in levels'[n] \ merge.base[n], NEW x \in Inputs
         PROVE  ~Overlaps(g, x.smallest.key, x.largest.key)
    <3>1. n \in Levels /\ n > l
      BY <2>2, LevelAssumption DEF Levels
    <3>2. CASE g \in levels[n]
      BY <2>1, <3>2 DEF l
    <3>3. CASE n = level /\ g = f
      BY <1>3, <2>3, <2>4, <3>1, <3>3 DEF Overlaps, Ranged
    <3> QED BY <1>5, <3>1, <3>2, <3>3
  <2> QED BY <2>1, <2>9, <2>10 DEF l
<1>14. Deletions'
  <2>1. \A e \in Written' : e \in Written \/ e \in mem
    <3>1. \A e : e \in Written' <=> \E n \in Levels : \E g \in levels'[n] : e \in g.entries
      BY DEF Written, EntriesOf
    <3> QED BY <1>3, <1>5, <3>1, WrittenIn
  <2> QED BY <1>6, <2>1 DEF Layered, Deletions
<1> QED BY <1>10, <1>11, <1>12, <1>13, <1>14 DEF Layered
(* Inputs that can be merged are replaced by tables with entries of theirs. *)
Merges(l, P, C, O) ==
  /\ l \in 0..(kNumLevels - 2) /\ P \subseteq levels[l] /\ C \subseteq levels[l + 1]
  /\ Mergeable(l, P, C)
  /\ levels'[l] = levels[l] \ P
  /\ levels'[l + 1] = (levels[l + 1] \ C) \cup O
  /\ \A n \in Levels \ {l, l + 1} : levels'[n] = levels[n]
  /\ \A o \in O : /\ o.smallest \in o.entries /\ o.largest \in o.entries
                  /\ o.entries \subseteq EntriesOf(P \cup C)
  /\ \A o, p \in O : o = p \/ Before(o.largest, p.smallest) \/ Before(p.largest, o.smallest)
  /\ \A o, p \in O : o # p => \A e \in o.entries, d \in p.entries : e.key = d.key => e.key \in SplitKeys

(* The levels are in order afterwards, and no entry is new. *)
LEMMA MergedSorted ==
  ASSUME Typed, Numbered, NoOverlap, NewerAbove, Whole, NEW l, NEW P, NEW C, NEW O, Merges(l, P, C, O)
  PROVE  /\ NoOverlap' /\ NewerAbove' /\ Whole'
         /\ \A e \in Written' : e \in Written
<1>1. /\ l \in Levels /\ l + 1 \in Levels \ {0} /\ l \in Nat
      /\ P \subseteq levels[l] /\ C \subseteq levels[l + 1]
  BY LevelAssumption DEF Merges, Levels
<1>2. \A g : g \in levels'[l] <=> g \in levels[l] /\ g \notin P
  BY DEF Merges
<1>3. \A g : g \in levels'[l + 1] <=> (g \in levels[l + 1] /\ g \notin C) \/ g \in O
  BY DEF Merges
<1>4. \A n \in Levels : n # l /\ n # l + 1 => levels'[n] = levels[n]
  BY DEF Merges
<1>5. \A o \in O : /\ o.smallest \in EntriesOf(P \cup C) /\ o.largest \in EntriesOf(P \cup C)
                   /\ \A e \in o.entries : e \in EntriesOf(P \cup C)
  BY DEF Merges
<1>6. \A n \in Levels : n # l + 1 => levels'[n] \subseteq levels[n]
  BY <1>2, <1>4
<1>7. \A e \in EntriesOf(P \cup C) : (\E x \in P : e \in x.entries) \/ (\E x \in C : e \in x.entries)
  BY EntryIn
<1>8. /\ \A g \in levels[l + 1] \ C : Aside(g, P \cup C)
      /\ LaterStays(levels[l], P)
      /\ \A g \in levels[l + 1] \ C : \A e \in g.entries, d \in EntriesOf(P \cup C) : e.key = d.key => e.key \in SplitKeys
  BY DEF Merges, Mergeable
<1>9. NoOverlap'
  <2> SUFFICES ASSUME NEW n \in Levels \ {0}, NEW g \in levels'[n], NEW h \in levels'[n]
               PROVE  g = h \/ Before(g.largest, h.smallest) \/ Before(h.largest, g.smallest)
    BY DEF NoOverlap
  <2>1. CASE g \in levels[n] /\ h \in levels[n]
    BY <2>1 DEF NoOverlap
  <2>2. CASE n # l + 1
    BY <1>6, <2>1, <2>2
  <2>3. CASE n = l + 1
    <3>1. \A x \in levels[l + 1] \ C, o \in O : Before(x.largest, o.smallest) \/ Before(o.largest, x.smallest)
      BY <1>5, <1>8 DEF Aside
    <3>2. \A o, p \in O : o = p \/ Before(o.largest, p.smallest) \/ Before(p.largest, o.smallest)
      BY DEF Merges
    <3> QED BY <1>3, <2>1, <2>3, <3>1, <3>2
  <2> QED BY <2>2, <2>3
<1>10. NewerAbove'
  <2>0. NewerTables
    BY TableWise
  <2>1. ASSUME NEW n \in Levels, NEW m \in Levels, n < m, NEW g \in levels'[n], NEW h \in levels'[m],
               NEW e \in g.entries, NEW d \in h.entries, e.key = d.key
        PROVE  e.seq > d.seq
    <3>1. CASE g \in levels[n] /\ h \in levels[m]
      BY <2>0, <2>1, <3>1 DEF NewerTables
    <3>2. CASE n = l + 1 /\ g \in O
      <4>1. m # l /\ m # l + 1 /\ h \in levels[m] /\ l < m /\ l + 1 < m
        BY <1>1, <1>4, <2>1, <3>2, LevelAssumption DEF Levels
      <4>2. \A x \in P : e \in x.entries => e.seq > d.seq
        BY <1>1, <2>0, <2>1, <4>1 DEF NewerTables
      <4>3. \A x \in C : e \in x.entries => e.seq > d.seq
        BY <1>1, <2>0, <2>1, <4>1 DEF NewerTables
      <4>4. e \in EntriesOf(P \cup C)
        BY <1>5, <3>2
      <4> QED BY <1>7, <4>2, <4>3, <4>4
    <3>3. CASE m = l + 1 /\ h \in O
      <4>1. n < l + 1 /\ g \in levels[n] /\ (n < l \/ (n = l /\ g \notin P))
        BY <1>1, <1>2, <1>6, <2>1, <3>3, LevelAssumption DEF Levels
      <4>2. \A x \in C : d \in x.entries => e.seq > d.seq
        BY <1>1, <2>0, <2>1, <4>1 DEF NewerTables
      <4>3. ASSUME NEW x \in P, d \in x.entries PROVE e.seq > d.seq
        <5>1. CASE n < l
          BY <1>1, <2>0, <2>1, <4>1, <4>3, <5>1 DEF NewerTables
        <5>2. CASE n = l /\ g \notin P
          BY <1>8, <2>1, <4>1, <4>3, <5>2, EntryIn DEF LaterStays
        <5> QED BY <4>1, <5>1, <5>2
      <4>4. d \in EntriesOf(P \cup C)
        BY <1>5, <3>3
      <4> QED BY <1>7, <4>2, <4>3, <4>4
    <3>4. g \in levels[n] \/ (n = l + 1 /\ g \in O)
      BY <1>3, <1>6
    <3>5. h \in levels[m] \/ (m = l + 1 /\ h \in O)
      BY <1>3, <1>6
    <3> QED BY <3>1, <3>2, <3>3, <3>4, <3>5
  <2>2. levels'[0] \subseteq levels[0]
    BY <1>1, <1>6, LevelAssumption DEF Levels
  <2>3. \A f, g \in levels'[0] : f.number > g.number =>
          \A e \in f.entries, d \in g.entries : e.key = d.key => e.seq > d.seq
    BY <2>0, <2>2 DEF NewerTables
  <2> QED BY <2>1, <2>3, TableWiseNext DEF NewerTables
<1>11. Whole'
  <2> SUFFICES ASSUME NEW n \in Levels \ {0}, NEW g \in levels'[n], NEW h \in levels'[n], g # h,
                      NEW e \in g.entries, NEW d \in h.entries, e.key = d.key
               PROVE  e.key \in SplitKeys
    BY DEF Whole
  <2>1. CASE g \in levels[n] /\ h \in levels[n]
    BY <2>1 DEF Whole
  <2>2. CASE n # l + 1
    BY <1>6, <2>1, <2>2
  <2>3. CASE n = l + 1
    <3>1. \A x \in levels[l + 1] \ C, o \in O : \A u \in x.entries, v \in o.entries : u.key = v.key => u.key \in SplitKeys
      BY <1>5, <1>8
    <3>2. \A o, p \in O : o # p => \A u \in o.entries, v \in p.entries : u.key = v.key => u.key \in SplitKeys
      BY DEF Merges
    <3>3. (g \in levels[n] \ C \/ g \in O) /\ (h \in levels[n] \ C \/ h \in O)
      BY <1>3, <2>3
    <3> QED BY <2>1, <2>3, <3>1, <3>2, <3>3
  <2> QED BY <2>2, <2>3
<1>12. \A e \in Written' : e \in Written
  <2>1. \A e : e \in Written' <=> \E n \in Levels : \E g \in levels'[n] : e \in g.entries
    BY DEF Written, EntriesOf
  <2>2. \A e \in EntriesOf(P \cup C) : e \in Written
    BY <1>1, <1>7, WrittenIn
  <2> SUFFICES ASSUME NEW n \in Levels, NEW g \in levels'[n], NEW e \in g.entries
               PROVE  e \in Written
    BY <2>1
  <2>3. g \in levels[n] \/ g \in O
    BY <1>3, <1>6
  <2> QED BY <1>5, <2>2, <2>3, WrittenIn
<1> QED BY <1>9, <1>10, <1>11, <1>12

(* A compaction begins, or moves its only table. *)
LEMMA BeginLayered ==
  ASSUME Layered, Stocked', NEW level \in 0..(kNumLevels - 2), BackgroundCompaction(level)
  PROVE  Layered'
<1>1. Stocked /\ Typed /\ Numbered /\ InPlace /\ NoOverlap /\ NewerAbove /\ Whole
  BY DEF Layered, Stocked
<1>2. merge = NoMerge /\ UNCHANGED <<lastSequence, mem, snapshots, iterators>>
  BY DEF BackgroundCompaction
<1>3. PICK f \in levels[level] : BeginMerge(level, PickCompaction(level, f), FALSE)
  BY DEF BackgroundCompaction
<1>4. PICK c \in SetupOtherInputs(level, PickCompaction(level, f)) :
        Begins(level, c) \/ \E g : Moves(level, c, g)
  BY <1>3, BeginEffect
<1>5. Mergeable(level, c.parents, c.children)
  BY <1>1, CanBeMerged
<1>6. /\ level \in Levels /\ level + 1 \in Levels
      /\ c.parents \subseteq levels[level] /\ c.children \subseteq levels[level + 1]
      /\ c.parents \subseteq AllTables
  BY <1>1, Picked, Setup
<1>7. CASE Begins(level, c)
  <2>1. levels' = levels
    BY <1>7 DEF Begins, tableVars
  <2>2. /\ merge'.level = level /\ merge'.parents = c.parents /\ merge'.children = c.children
        /\ merge'.oldest = smallest_snapshot /\ merge'.base = levels
    BY <1>7 DEF Begins
  <2>3. NoOverlap' /\ NewerAbove' /\ Whole' /\ Deletions'
    BY <1>2, <2>1 DEF Layered, NoOverlap, NewerAbove, Whole, Deletions, Written
  <2>4. Mergeable(merge.level, merge.parents, merge.children)'
    BY <1>5, <2>1, <2>2 DEF Mergeable
  <2>5. merge'.oldest <= lastSequence' /\ \A s \in snapshots' : merge'.oldest <= s
    BY <1>1, <1>2, <2>2, SmallestSnapshot
  <2>6. \A n \in Levels : levels'[n] \ merge'.base[n] = {}
    BY <2>1, <2>2
  <2>7. (merge'.level + 2)..(kNumLevels - 1) \subseteq Levels
    BY <1>6, <2>2, LevelAssumption DEF Levels
  <2>8. Merging'
    BY <2>4, <2>5, <2>6, <2>7 DEF Merging
  <2> QED BY <2>3, <2>8 DEF Layered
<1>8. ASSUME NEW g, Moves(level, c, g) PROVE Layered'
  <2>1. c.children = {} /\ c.parents = {g} /\ merge' = merge
    BY <1>8 DEF Moves, TrivialMove
  <2>2. levels \in [Levels -> SUBSET Tables]
    BY <1>1 DEF Typed
  <2>3. levels' = [levels EXCEPT ![level] = @ \ {g}, ![level + 1] = @ \cup {g}]
    BY <1>8 DEF Moves, TrivialMove
  <2>4. g \in AllTables /\ WellFormed(g)
    BY <1>1, <1>6, <2>1, EveryTable
  <2>5. level # level + 1
    OBVIOUS
  <2>6. /\ levels'[level] = levels[level] \ {g}
        /\ levels'[level + 1] = levels[level + 1] \cup {g}
        /\ \A n \in Levels \ {level, level + 1} : levels'[n] = levels[n]
    BY <1>6, <2>2, <2>3, <2>5
  <2>7. g.entries \subseteq EntriesOf({g} \cup {})
    BY EntryIn
  <2>8. {g} \subseteq levels[level] /\ Mergeable(level, {g}, {})
    BY <1>5, <1>6, <2>1
  <2>9. Merges(level, {g}, {}, {g})
    BY <2>4, <2>6, <2>7, <2>8 DEF Merges, WellFormed
  <2>10. NoOverlap' /\ NewerAbove' /\ Whole' /\ \A e \in Written' : e \in Written
    BY <1>1, <2>9, MergedSorted
  <2>11. Merging'
    BY <1>2, <2>1 DEF Merging
  <2>12. Deletions'
    BY <1>2, <2>10 DEF Layered, Deletions
  <2> QED BY <2>10, <2>11, <2>12 DEF Layered
<1> QED BY <1>4, <1>7, <1>8

(* The results of a compaction take the place of its inputs. *)
LEMMA InstallLayered ==
  ASSUME Layered, Stocked', InstallCompactionResults
  PROVE  Layered'
<1>1. Stocked /\ Typed /\ Numbered /\ InPlace /\ NoOverlap /\ NewerAbove /\ Whole /\ Merging
  BY DEF Layered, Stocked
<1>2. PICK entries, cuts, outputs : Installs(entries, cuts, outputs) /\ entries \subseteq Written
  BY <1>1, InstallEffect
<1>3. merge # NoMerge /\ merge' = NoMerge /\ UNCHANGED <<lastSequence, mem, snapshots, iterators>>
  BY DEF InstallCompactionResults
<1> DEFINE l == merge.level
           P == merge.parents
           C == merge.children
<1>4. /\ l \in 0..(kNumLevels - 2) /\ P \subseteq levels[l] /\ C \subseteq levels[l + 1]
      /\ Mergeable(l, P, C)
  BY <1>1, <1>3 DEF InPlace, Merging
<1>5. /\ levels'[l] = levels[l] \ P
      /\ levels'[l + 1] = (levels[l + 1] \ C) \cup outputs
      /\ \A n \in Levels \ {l, l + 1} : levels'[n] = levels[n]
  BY <1>2 DEF Installs
<1>6. /\ entries \subseteq EntriesOf(P \cup C) /\ cuts \in SUBSET entries
      /\ (\A e \in cuts : MayCutBehind(e, entries)) /\ outputs = Outputs(entries, cuts)
  BY <1>2 DEF Installs, Inputs
<1> HIDE DEF l, P, C
<1>7. \A o \in outputs : /\ o.smallest \in o.entries /\ o.largest \in o.entries
                         /\ o.entries \subseteq EntriesOf(P \cup C)
  <2>1. \A o \in outputs : WellFormed(o) /\ \E d \in entries : o.entries = PartOf(entries, cuts, d)
    BY <1>1, <1>2, <1>6, OutputTables
  <2> QED BY <1>6, <2>1 DEF WellFormed, PartOf
<1>8. \A o, p \in outputs : o # p =>
        /\ \/ \A e \in o.entries, d \in p.entries : Before(e, d)
           \/ \A e \in o.entries, d \in p.entries : Before(d, e)
        /\ \A e \in o.entries, d \in p.entries : e.key = d.key => e.key \in SplitKeys
  <2> SUFFICES ASSUME NEW o \in outputs, NEW p \in outputs, o # p
               PROVE  /\ \/ \A e \in o.entries, d \in p.entries : Before(e, d)
                         \/ \A e \in o.entries, d \in p.entries : Before(d, e)
                      /\ \A e \in o.entries, d \in p.entries : e.key = d.key => e.key \in SplitKeys
    OBVIOUS
  <2>1. o \in Outputs(entries, cuts) /\ p \in Outputs(entries, cuts) /\ entries \subseteq Written
    BY <1>2, <1>6
  <2> QED
    BY <1>1, <1>6, <2>1, PartsApart
<1>9. \A o, p \in outputs : o = p \/ Before(o.largest, p.smallest) \/ Before(p.largest, o.smallest)
  BY <1>7, <1>8
<1>10. Merges(l, P, C, outputs)
  BY <1>4, <1>5, <1>7, <1>8, <1>9 DEF Merges
<1>11. NoOverlap' /\ NewerAbove' /\ Whole' /\ \A e \in Written' : e \in Written
  BY <1>1, <1>10, MergedSorted
<1>12. Merging'
  BY <1>3 DEF Merging
<1>13. Deletions'
  BY <1>3, <1>11 DEF Layered, Deletions
<1> QED BY <1>11, <1>12, <1>13 DEF Layered

(* An empty store has its levels in order. *)
LEMMA InitLayered == Init => Layered
<1> SUFFICES ASSUME Init PROVE Layered
  OBVIOUS
<1>1. Stocked
  BY InitStocked
<1>2. (\A n \in Levels : levels[n] = {}) /\ mem = {} /\ merge = NoMerge
  BY DEF Init
<1>3. NoOverlap /\ Whole /\ Merging
  BY <1>2 DEF NoOverlap, Whole, Merging
<1>4. NewerTables
  BY <1>2, LevelAssumption DEF NewerTables, Levels
<1>5. NewerAbove
  BY <1>4, TableWise
<1>6. Deletions
  BY <1>2, WrittenIn DEF Deletions
<1> QED BY <1>1, <1>3, <1>5, <1>6 DEF Layered

(* Every step keeps the levels in order. *)
LEMMA LayeredStep == ~Manual /\ Layered /\ [Next]_vars => Layered'
<1> SUFFICES ASSUME ~Manual, Layered, [Next]_vars PROVE Layered'
  OBVIOUS
<1>1. Stocked'
  BY StockedStep DEF Layered
<1>2. CASE \/ \E k \in Keys, del \in BOOLEAN : Write(k, del)
           \/ GetSnapshot
           \/ \E seq \in snapshots : ReleaseSnapshot(seq)
           \/ NewIterator
           \/ \E held \in iterators : DeleteIterator(held)
           \/ UNCHANGED vars
  <2>1. UNCHANGED <<tableVars, merge>>
    BY <1>2 DEF Write, GetSnapshot, ReleaseSnapshot, NewIterator, DeleteIterator, vars
  <2> QED BY <1>1, <1>2, <2>1, UserLayered
<1>3. CASE CompactMemTable
  BY <1>1, <1>3, FlushLayered
<1>4. CASE \E level \in 0..(kNumLevels - 2) : BackgroundCompaction(level)
  BY <1>1, <1>4, BeginLayered
<1>5. CASE \E level \in 0..(kNumLevels - 2), begin, end \in Keys : CompactRange(level, begin, end)
  BY <1>5 DEF CompactRange
<1>6. CASE InstallCompactionResults
  BY <1>1, <1>6, InstallLayered
<1> QED BY <1>2, <1>3, <1>4, <1>5, <1>6 DEF Next

(* The levels are in order as long as nobody calls CompactRange. *)
THEOREM LayerInvariant == ~Manual => (Spec => []Layered)
<1> SUFFICES ASSUME ~Manual PROVE Spec => []Layered
  OBVIOUS
<1>1. Layered /\ [Next]_vars => Layered'
  BY LayeredStep
<1> QED BY InitLayered, <1>1, PTL DEF Spec

(* "Must not overlap": the tables of a level beyond the first are disjoint, *)
(* whatever is flushed while a compaction runs and wherever its outputs are *)
(* cut (PickLevelForMemTableOutput, SetupOtherInputs, AddBoundaryInputs).   *)
(* A manual compaction can break it: see the README.                        *)
THEOREM LevelsStaySorted == ~Manual => (Spec => []NoOverlap)
<1>1. Layered => NoOverlap
  BY DEF Layered
<1> QED BY <1>1, LayerInvariant, PTL

(* "Entries never hop across levels": a read that stops at the first level *)
(* with a hit has the latest entry (Version::Get).                         *)
THEOREM LaterStaysAbove == ~Manual => (Spec => []NewerAbove)
<1>1. Layered => NewerAbove
  BY DEF Layered
<1> QED BY <1>1, LayerInvariant, PTL
-----------------------------------------------------------------------------
(* What a read finds *)

(* The tables of level 0 have different numbers. *)
Single == \A f, g \in levels[0] : f.number = g.number => f = g
Readable == Layered /\ Single

All == mem \cup Written
Seen(entries, k, seq) == Newest(Hits(entries, k, seq))

(* What was written has a latest entry. *)
LEMMA NewestExists ==
  ASSUME Typed, Numbered, NEW H, H \subseteq All, H # {}
  PROVE  Newest(H) # {}
<1>1. lastSequence \in Nat /\ \A e \in H : e.seq \in 1..lastSequence
  BY AllDistinct DEF All
<1> DEFINE T == {lastSequence - e.seq : e \in H}
<1>2. T \subseteq Nat /\ T # {}
  BY <1>1
<1>3. PICK m \in T : \A n \in T : m <= n
  BY <1>2, LeastNumber
<1>4. PICK e \in H : m = lastSequence - e.seq
  BY <1>3
<1>5. \A d \in H : lastSequence - e.seq <= lastSequence - d.seq
  BY <1>3, <1>4
<1> HIDE DEF T
<1>6. \A d \in H : d.seq <= e.seq
  BY <1>1, <1>5
<1> QED BY <1>6 DEF Newest

(* In level 0 the newest table with a hit has the latest entry. *)
LEMMA ReadLevel0 ==
  ASSUME Readable, NEW k \in Keys, NEW seq \in Nat
  PROVE  GetInLevel(levels, 0, k, seq) = Seen(EntriesOf(levels[0]), k, seq)
<1> DEFINE H(f) == Hits(f.entries, k, seq)
           G == GetInLevel0(levels, k, seq)
<1>1. NewerTables /\ Single /\ Typed /\ Numbered
  BY TableWise DEF Readable, Layered, Stocked
<1>2. \A f \in levels[0] : f.number \in Nat /\ \A e \in f.entries : e.seq \in Nat
  <2>1. levels[0] \subseteq AllTables
    BY LevelAssumption DEF AllTables, Levels
  <2>2. \A f \in levels[0] : f \in Tables
    BY <1>1, <2>1, EveryTable
  <2> QED BY <2>2 DEF Tables, AnyEntry
<1>3. \A e : e \in G <=> \E f \in levels[0] : /\ e \in H(f) /\ \A d \in H(f) : d.seq <= e.seq
                                              /\ \A h \in levels[0] : h.number > f.number => H(h) = {}
  BY DEF GetInLevel0, Newest
<1>4. \A e, f : e \in H(f) <=> e \in f.entries /\ e.key = k /\ e.seq <= seq
  BY DEF Hits
<1>5. \A e : e \in Hits(EntriesOf(levels[0]), k, seq) <=> \E f \in levels[0] : e \in H(f)
  BY EntryIn DEF Hits
<1> HIDE DEF H, G
<1>6. ASSUME NEW e \in G PROVE e \in Seen(EntriesOf(levels[0]), k, seq)
  <2>1. PICK f \in levels[0] : /\ e \in H(f) /\ \A d \in H(f) : d.seq <= e.seq
                               /\ \A h \in levels[0] : h.number > f.number => H(h) = {}
    BY <1>3
  <2>2. ASSUME NEW g \in levels[0], NEW d \in H(g) PROVE d.seq <= e.seq
    <3>1. CASE g.number = f.number
      BY <1>1, <2>1, <2>2, <3>1 DEF Single
    <3>2. CASE f.number > g.number
      <4>1. e.seq > d.seq
        BY <1>1, <1>4, <2>1, <3>2 DEF NewerTables
      <4> QED BY <1>2, <1>4, <2>1, <4>1
    <3>3. CASE g.number > f.number
      BY <2>1, <2>2, <3>3
    <3> QED BY <1>2, <3>1, <3>2, <3>3
  <2> QED BY <1>5, <2>1, <2>2 DEF Seen, Newest
<1>7. ASSUME NEW e \in Seen(EntriesOf(levels[0]), k, seq) PROVE e \in G
  <2>1. PICK f \in levels[0] : e \in H(f)
    BY <1>5 DEF Seen, Newest
  <2>2. \A g \in levels[0] : \A d \in H(g) : d.seq <= e.seq
    BY <1>5 DEF Seen, Newest
  <2>3. ASSUME NEW h \in levels[0], h.number > f.number, NEW d \in H(h) PROVE FALSE
    <3>1. d.seq > e.seq
      BY <1>1, <1>4, <2>1, <2>3 DEF NewerTables
    <3> QED BY <1>2, <1>4, <2>1, <2>2, <3>1
  <2> QED BY <1>3, <2>1, <2>2, <2>3
<1>8. GetInLevel(levels, 0, k, seq) = G
  BY DEF GetInLevel, G
<1> QED BY <1>6, <1>7, <1>8

(* Beyond level 0 the one table that FindFile gives has the latest entry. *)
LEMMA ReadLevel ==
  ASSUME Readable, NEW n \in Levels \ {0}, NEW k \in Keys, NEW seq \in Nat
  PROVE  GetInLevel(levels, n, k, seq) = Seen(EntriesOf(levels[n]), k, seq)
<1> DEFINE H(f) == Hits(f.entries, k, seq)
           G == GetInLevel(levels, n, k, seq)
           here == [key |-> k, seq |-> seq]
<1>1. NoOverlap /\ Typed /\ Numbered /\ k \in Nat
  BY KeyAssumption DEF Readable, Layered, Stocked
<1>2. \A f \in levels[n] : Ranged(f) /\ f.largest \in f.entries
  BY <1>1, AllRanged, EveryTable DEF AllTables, WellFormed
<1>3. \A e \in AnyEntry : e.key \in Nat /\ e.seq \in Nat
  BY KeyAssumption DEF AnyEntry
<1>4. here.key = k /\ here.seq = seq
  OBVIOUS
<1>5. \A f \in levels[n] : f \in FindFile(levels[n], k, seq) <=>
        /\ ~Before(f.largest, here)
        /\ \A g \in levels[n] : g = f \/ Before(g.largest, here) \/ Before(f.smallest, g.smallest)
  BY DEF FindFile, EndsBefore
<1>6. \A e : e \in G <=> \E f \in levels[n] : /\ f \in FindFile(levels[n], k, seq)
                                              /\ e \in H(f) /\ \A d \in H(f) : d.seq <= e.seq
  BY DEF GetInLevel, Newest, FindFile
<1>7. \A e, f : e \in H(f) <=> e \in f.entries /\ e.key = k /\ e.seq <= seq
  BY DEF Hits
<1>8. \A e : e \in Hits(EntriesOf(levels[n]), k, seq) <=> \E f \in levels[n] : e \in H(f)
  BY EntryIn DEF Hits
<1> HIDE DEF H, G, here
<1>9. \A f \in levels[n] : \A e \in H(f) : /\ e \in AnyEntry /\ ~Before(f.largest, here)
                                           /\ e = f.largest \/ Before(e, f.largest)
                                           /\ e = f.smallest \/ Before(f.smallest, e)
  <2> SUFFICES ASSUME NEW f \in levels[n], NEW e \in H(f)
               PROVE  /\ e \in AnyEntry /\ ~Before(f.largest, here)
                      /\ e = f.largest \/ Before(e, f.largest)
                      /\ e = f.smallest \/ Before(f.smallest, e)
    OBVIOUS
  <2>1. /\ e \in AnyEntry /\ f.largest \in AnyEntry /\ e.key = k /\ e.seq <= seq
        /\ e = f.largest \/ Before(e, f.largest)
        /\ e = f.smallest \/ Before(f.smallest, e)
    BY <1>2, <1>7 DEF Ranged
  <2>2. ~Before(f.largest, here)
    BY <1>1, <1>3, <1>4, <2>1 DEF Before
  <2> QED BY <2>1, <2>2
<1>10. \A f, g \in levels[n] : /\ f.smallest \in AnyEntry /\ f.largest \in AnyEntry
                               /\ f.smallest = f.largest \/ Before(f.smallest, f.largest)
                               /\ f = g \/ Before(f.largest, g.smallest) \/ Before(g.largest, f.smallest)
  BY <1>1, <1>2 DEF NoOverlap, Ranged
<1>11. ASSUME NEW e \in G PROVE e \in Seen(EntriesOf(levels[n]), k, seq)
  <2>1. PICK f \in levels[n] : /\ f \in FindFile(levels[n], k, seq)
                               /\ e \in H(f) /\ \A d \in H(f) : d.seq <= e.seq
    BY <1>6
  <2>2. ASSUME NEW g \in levels[n], NEW d \in H(g) PROVE d.seq <= e.seq
    <3>1. CASE g = f
      BY <2>1, <2>2, <3>1
    <3>2. ASSUME g # f PROVE Before(f.smallest, g.smallest)
      BY <1>5, <1>9, <2>1, <2>2, <3>2
    <3>3. ASSUME g # f PROVE Before(f.largest, g.smallest)
      <4>1. ~Before(g.largest, f.smallest)
        BY <1>10, <3>2, <3>3, EntryOrder
      <4> QED BY <1>10, <3>3, <4>1
    <3>4. ASSUME g # f PROVE Before(e, d)
      <4>1. e \in AnyEntry /\ d \in AnyEntry /\ (e = f.largest \/ Before(e, f.largest)) /\ (d = g.smallest \/ Before(g.smallest, d))
        BY <1>9, <2>1, <2>2
      <4>2. Before(e, g.smallest)
        BY <1>10, <3>3, <3>4, <4>1, EntryOrder
      <4> QED BY <1>10, <4>1, <4>2, EntryOrder
    <3>5. e.key = d.key /\ e.seq \in Nat /\ d.seq \in Nat
      BY <1>3, <1>7, <1>9, <2>1, <2>2
    <3> QED BY <1>3, <1>9, <2>1, <2>2, <3>1, <3>4, <3>5 DEF Before
  <2> QED BY <1>8, <2>1, <2>2 DEF Seen, Newest
<1>12. ASSUME NEW e \in Seen(EntriesOf(levels[n]), k, seq) PROVE e \in G
  <2>1. PICK f \in levels[n] : e \in H(f)
    BY <1>8 DEF Seen, Newest
  <2>2. \A g \in levels[n] : \A d \in H(g) : d.seq <= e.seq
    BY <1>8 DEF Seen, Newest
  <2>3. ASSUME NEW g \in levels[n], g # f PROVE Before(g.largest, here) \/ Before(f.smallest, g.smallest)
    <3>1. CASE Before(f.largest, g.smallest)
      BY <1>10, <3>1, EntryOrder
    <3>2. CASE Before(g.largest, f.smallest)
      <4>1. Before(g.largest, e)
        BY <1>9, <1>10, <2>1, <3>2, EntryOrder
      <4>2. e.key = k /\ e.seq <= seq /\ e \in AnyEntry
        BY <1>7, <1>9, <2>1
      <4>3. g.largest \in H(g) => g.largest.seq <= e.seq
        BY <2>2
      <4>4. g.largest.key = k /\ g.largest.seq <= seq => g.largest \in H(g)
        BY <1>2, <1>7
      <4> QED BY <1>1, <1>3, <1>4, <1>10, <4>1, <4>2, <4>3, <4>4 DEF Before
    <3> QED BY <1>10, <2>3, <3>1, <3>2
  <2>4. f \in FindFile(levels[n], k, seq)
    BY <1>5, <1>9, <2>1, <2>3
  <2> QED BY <1>6, <2>1, <2>2, <2>4
<1> QED BY <1>11, <1>12 DEF G

(* Version::Get and the memtables: the first hit is the latest entry. *)
LEMMA GetIsLatest ==
  ASSUME Readable, NEW k \in Keys, NEW seq \in Nat
  PROVE  Get(k, seq) = Seen(All, k, seq)
<1> DEFINE H(n) == Hits(EntriesOf(levels[n]), k, seq)
           G(n) == GetInLevel(levels, n, k, seq)
           M == Hits(mem, k, seq)
<1>1. Typed /\ Numbered /\ NewerAbove
  BY DEF Readable, Layered, Stocked
<1>2. \A n \in Levels : G(n) = Newest(H(n))
  BY ReadLevel0, ReadLevel DEF Seen
<1>3. \A n \in Levels : H(n) \subseteq All
  BY DEF Hits, All, Written
<1>4. \A n \in Levels : G(n) \subseteq H(n) /\ (H(n) # {} => G(n) # {})
  <2>1. \A n \in Levels : H(n) # {} => Newest(H(n)) # {}
    BY <1>1, <1>3, NewestExists
  <2> HIDE DEF H, G
  <2> QED BY <1>2, <2>1 DEF Newest
<1>5. \A e : e \in Hits(All, k, seq) <=> e \in M \/ \E n \in Levels : e \in H(n)
  BY DEF Hits, All, Written
<1>6. \A e \in Hits(All, k, seq) : e.seq \in Nat
  BY <1>1, AllDistinct DEF Hits, All
<1>7. \A n, m \in Levels : n < m => \A e \in H(n), d \in H(m) : e.seq > d.seq
  BY <1>1 DEF NewerAbove, Hits
<1>8. \A n \in Levels : \A e \in M, d \in H(n) : e.seq > d.seq
  BY <1>1 DEF Numbered, Hits, Written
<1>9. \A n \in Levels : n \in Nat /\ 0..(n - 1) \subseteq Levels /\ \A m \in Levels : m < n => m \in 0..(n - 1)
  BY LevelAssumption DEF Levels
<1>10. Get(k, seq) = IF M # {} THEN Newest(M)
                     ELSE UNION {G(n) : n \in {m \in Levels : \A l \in 0..(m - 1) : G(l) = {}}}
  BY DEF Get
<1> HIDE DEF H, G, M
<1>11. CASE M # {}
  <2>1. ASSUME NEW e \in Newest(M) PROVE e \in Seen(All, k, seq)
    BY <1>5, <1>6, <1>8, <2>1 DEF Seen, Newest
  <2>2. ASSUME NEW e \in Seen(All, k, seq) PROVE e \in Newest(M)
    <3>1. PICK x : x \in M
      BY <1>11
    <3>2. e \in Hits(All, k, seq) /\ x.seq <= e.seq
      BY <1>5, <3>1 DEF Seen, Newest
    <3>3. e \in M
      BY <1>5, <1>6, <1>8, <3>1, <3>2
    <3> QED BY <1>5, <3>3 DEF Seen, Newest
  <2> QED BY <1>10, <1>11, <2>1, <2>2
<1>12. CASE M = {}
  <2>1. \A e : e \in Get(k, seq) <=> \E n \in Levels : e \in G(n) /\ \A l \in 0..(n - 1) : G(l) = {}
    BY <1>10, <1>12
  <2>2. ASSUME NEW e \in Get(k, seq) PROVE e \in Seen(All, k, seq)
    <3>1. PICK n \in Levels : e \in G(n) /\ \A l \in 0..(n - 1) : G(l) = {}
      BY <2>1
    <3>2. e \in H(n) /\ \A d \in H(n) : d.seq <= e.seq
      BY <1>2, <3>1 DEF Newest
    <3>3. ASSUME NEW m \in Levels, NEW d \in H(m) PROVE d.seq <= e.seq
      <4>1. ~(m < n)
        BY <1>4, <1>9, <3>1, <3>3
      <4>2. CASE m = n
        BY <3>2, <3>3, <4>2
      <4>3. CASE n < m
        BY <1>5, <1>6, <1>7, <3>2, <3>3, <4>3
      <4> QED BY <1>9, <4>1, <4>2, <4>3
    <3> QED BY <1>5, <1>12, <3>2, <3>3 DEF Seen, Newest
  <2>3. ASSUME NEW e \in Seen(All, k, seq) PROVE e \in Get(k, seq)
    <3>1. e \in Hits(All, k, seq) /\ \A d \in Hits(All, k, seq) : d.seq <= e.seq
      BY DEF Seen, Newest
    <3>2. PICK n \in Levels : e \in H(n)
      BY <1>5, <1>12, <3>1
    <3>3. e \in G(n)
      BY <1>2, <1>5, <3>1, <3>2 DEF Newest
    <3>4. ASSUME NEW l \in 0..(n - 1), NEW d \in G(l) PROVE FALSE
      <4>1. l \in Levels /\ l < n /\ d \in H(l)
        BY <1>4, <1>9, <3>4
      <4>2. d.seq > e.seq /\ d.seq <= e.seq /\ d.seq \in Nat /\ e.seq \in Nat
        BY <1>5, <1>6, <1>7, <3>1, <3>2, <4>1
      <4> QED BY <4>2
    <3> QED BY <2>1, <3>3, <3>4
  <2> QED BY <2>2, <2>3
<1> QED BY <1>11, <1>12
-----------------------------------------------------------------------------
(* Reads and snapshots see a map that only writes change, when there is no *)
(* CompactRange and, where keys are deleted, no key is cut in two.         *)

Value(seen) ==
  LET found == {e.seq : e \in {d \in seen : ~d.del}} IN
  IF found = {} THEN Absent ELSE CHOOSE v \in found : TRUE

(* A read gives the value of the latest of all entries it may see. *)
LEMMA ReadsAll == Readable => \A k \in Keys : \A seq \in Nat : ValueOf(k, seq) = Value(Seen(All, k, seq))
<1> SUFFICES ASSUME Readable, NEW k \in Keys, NEW seq \in Nat
             PROVE  ValueOf(k, seq) = Value(Seen(All, k, seq))
  OBVIOUS
<1>1. Get(k, seq) = Seen(All, k, seq)
  BY GetIsLatest
<1>2. ValueOf(k, seq) = Value(Get(k, seq))
  BY DEF ValueOf, Value
<1> QED BY <1>1, <1>2

(* So it does in the next state. *)
LEMMA ReadsAllNext ==
  Readable' => /\ \A k \in Keys : \A seq \in Nat : ValueOf(k, seq)' = Value(Seen(All', k, seq))
               /\ \A k \in Keys : ValueOf(k, lastSequence)' = Value(Seen(All', k, lastSequence'))
<1>1. Readable => \A k \in Keys : ValueOf(k, lastSequence) = Value(Seen(All, k, lastSequence))
  <2>1. Readable => lastSequence \in Nat
    BY BoundAssumption DEF Readable, Layered, Stocked, Typed, TypeOK
  <2> QED BY <2>1, ReadsAll
<1>2. Readable' => (\A k \in Keys : ValueOf(k, lastSequence) = Value(Seen(All, k, lastSequence)))'
  BY <1>1, PTL
<1>3. Readable' => (\A k \in Keys : \A seq \in Nat : ValueOf(k, seq) = Value(Seen(All, k, seq)))'
  BY ReadsAll, PTL
<1> QED BY <1>2, <1>3 DEF Value, Seen, Newest, Hits

(* Only a flush adds a table to level 0, with a new number. *)
LEMMA SingleStep ==
  ASSUME ~Manual, Stocked, Single, [Next]_vars
  PROVE  Single'
<1>1. Typed /\ Numbered /\ InPlace /\ 0 \in Levels
  BY LevelAssumption DEF Stocked, Levels
<1>2. CASE \/ \E k \in Keys, del \in BOOLEAN : Write(k, del)
           \/ GetSnapshot
           \/ \E seq \in snapshots : ReleaseSnapshot(seq)
           \/ NewIterator
           \/ \E held \in iterators : DeleteIterator(held)
           \/ UNCHANGED vars
  <2>1. levels' = levels
    BY <1>2 DEF Write, GetSnapshot, ReleaseSnapshot, NewIterator, DeleteIterator, vars, tableVars
  <2> QED BY <2>1 DEF Single
<1>3. CASE CompactMemTable
  <2>1. PICK level, f : Flushes(level, f)
    BY <1>3, FlushEffect
  <2>2. levels \in [Levels -> SUBSET Tables] /\ nextFile \in Nat
    BY <1>1 DEF Typed
  <2>3. f.number = nextFile /\ \A g \in levels'[0] : g \in levels[0] \/ g = f
    BY <1>1, <2>1, <2>2 DEF Flushes
  <2>4. \A g \in levels[0] : g.number \in Nat /\ g.number < nextFile
    BY <1>1 DEF Typed, TypeOK
  <2>5. \A g \in levels[0] : g.number # f.number
    BY <2>2, <2>3, <2>4
  <2> QED BY <2>3, <2>5 DEF Single
<1>4. CASE \E level \in 0..(kNumLevels - 2) : BackgroundCompaction(level)
  <2>1. PICK level \in 0..(kNumLevels - 2) : BackgroundCompaction(level)
    BY <1>4
  <2>2. PICK c, f : Begins(level, c) \/ Moves(level, c, f)
    BY <2>1, BeginEffect DEF BackgroundCompaction
  <2>3. levels \in [Levels -> SUBSET Tables]
    BY <1>1 DEF Typed
  <2>4. level \in Levels /\ level + 1 \in Levels /\ level + 1 # 0
    BY LevelAssumption DEF Levels
  <2>5. levels'[0] \subseteq levels[0]
    BY <1>1, <2>2, <2>3, <2>4 DEF Begins, Moves, TrivialMove, tableVars
  <2> QED BY <2>5 DEF Single
<1>5. CASE \E level \in 0..(kNumLevels - 2), begin, end \in Keys : CompactRange(level, begin, end)
  BY <1>5 DEF CompactRange
<1>6. CASE InstallCompactionResults
  <2>1. PICK entries, cuts, outputs : Installs(entries, cuts, outputs)
    BY <1>6, InstallEffect
  <2>2. merge.level \in Nat /\ merge.level + 1 # 0
    BY <1>1, <2>1 DEF InPlace, Installs
  <2>3. levels'[0] \subseteq levels[0]
    BY <1>1, <2>1, <2>2 DEF Installs
  <2> QED BY <2>3 DEF Single
<1> QED BY <1>2, <1>3, <1>4, <1>5, <1>6 DEF Next

(* Every step keeps what reads rely on. *)
LEMMA ReadableStep == ~Manual /\ Readable /\ [Next]_vars => Readable'
BY LayeredStep, SingleStep DEF Readable, Layered

(* A step that keeps the entries keeps what is read. *)
LEMMA SameEntries ==
  ASSUME Readable, Readable', All' = All
  PROVE  \A k \in Keys : \A seq \in Nat : ValueOf(k, seq)' = ValueOf(k, seq)
BY ReadsAll, ReadsAllNext

(* Entries that are moved from the memtable, or down a level, stay. *)
LEMMA FlushKeeps ==
  ASSUME Readable, CompactMemTable
  PROVE  All' = All
<1>1. Stocked /\ Typed
  BY DEF Readable, Layered, Stocked
<1>2. PICK level, f : Flushes(level, f)
  BY <1>1, FlushEffect
<1>3. levels \in [Levels -> SUBSET Tables] /\ level \in Levels /\ f.entries = mem
  BY <1>1, <1>2 DEF Typed, Flushes
<1>4. \A n \in Levels : \A g : g \in levels'[n] <=> g \in levels[n] \/ (n = level /\ g = f)
  BY <1>2, <1>3 DEF Flushes
<1>5. \A e : e \in Written' <=> \E n \in Levels : \E g \in levels'[n] : e \in g.entries
  BY DEF Written, EntriesOf
<1>6. mem' = {}
  BY DEF CompactMemTable
<1>7. \A e : e \in Written' <=> e \in Written \/ e \in mem
  BY <1>3, <1>4, <1>5, WrittenIn
<1> QED BY <1>6, <1>7 DEF All

(* The beginning of a compaction and the move of a table keep all entries. *)
LEMMA BeginKeeps ==
  ASSUME Readable, NEW level \in 0..(kNumLevels - 2), BackgroundCompaction(level)
  PROVE  All' = All
<1>1. Typed /\ Numbered
  BY DEF Readable, Layered, Stocked
<1>2. PICK f \in levels[level] : BeginMerge(level, PickCompaction(level, f), FALSE)
  BY DEF BackgroundCompaction
<1>3. PICK c \in SetupOtherInputs(level, PickCompaction(level, f)) :
        Begins(level, c) \/ \E g : Moves(level, c, g)
  BY <1>2, BeginEffect
<1>4. level \in Levels /\ level + 1 \in Levels /\ c.parents \subseteq levels[level]
  BY <1>1, Picked, Setup
<1>5. mem' = mem
  BY DEF BackgroundCompaction
<1>6. CASE Begins(level, c)
  BY <1>5, <1>6 DEF Begins, tableVars, All, Written
<1>7. ASSUME NEW g, Moves(level, c, g) PROVE All' = All
  <2>1. levels \in [Levels -> SUBSET Tables] /\ g \in levels[level]
    BY <1>1, <1>4, <1>7 DEF Typed, Moves
  <2>2. levels' = [levels EXCEPT ![level] = @ \ {g}, ![level + 1] = @ \cup {g}] /\ level # level + 1
    BY <1>7 DEF Moves, TrivialMove
  <2>3. \A n \in Levels : \A h : h \in levels'[n] <=> (h \in levels[n] /\ ~(n = level /\ h = g)) \/ (n = level + 1 /\ h = g)
    BY <1>4, <2>1, <2>2
  <2>4. \A e : e \in Written' <=> \E n \in Levels : \E h \in levels'[n] : e \in h.entries
    BY DEF Written, EntriesOf
  <2>5. \A e : e \in Written' <=> e \in Written
    <3>1. ASSUME NEW n \in Levels, NEW h \in levels[n] PROVE \E m \in Levels : h \in levels'[m]
      BY <1>4, <2>3, <3>1
    <3>2. ASSUME NEW n \in Levels, NEW h \in levels'[n] PROVE \E m \in Levels : h \in levels[m]
      BY <1>4, <2>1, <2>3, <3>2
    <3> QED BY <2>4, <3>1, <3>2, WrittenIn
  <2> QED BY <1>5, <2>5 DEF All
<1> QED BY <1>3, <1>6, <1>7

(* A compaction drops only entries that nobody can see any more. *)
LEMMA InstallKeeps ==
  ASSUME Readable, InstallCompactionResults, DeletedKeys \cap SplitKeys = {},
         NEW k \in Keys, NEW seq \in snapshots \cup {lastSequence}
  PROVE  Value(Seen(All', k, seq)) = Value(Seen(All, k, seq))
<1>1. /\ Stocked /\ Typed /\ Numbered /\ InPlace
      /\ NewerTables /\ Merging /\ Deletions
  BY TableWise DEF Readable, Layered, Stocked
<1>2. PICK entries, cuts, outputs : Installs(entries, cuts, outputs) /\ entries \subseteq Written
  BY <1>1, InstallEffect
<1>3. merge # NoMerge /\ mem' = mem
  BY DEF InstallCompactionResults
<1> DEFINE l == merge.level
           P == merge.parents
           C == merge.children
           E == EntriesOf(P \cup C)
<1>4. /\ l \in Nat /\ l \in Levels /\ l + 1 \in Levels /\ l # l + 1
      /\ P \subseteq levels[l] /\ C \subseteq levels[l + 1]
  BY <1>1, <1>3, LevelAssumption DEF InPlace, Levels
<1>5. /\ LaterStays(levels[l], P)
      /\ \A g \in levels[l + 1] \ C : \A e \in g.entries, d \in E : e.key = d.key => e.key \in SplitKeys
  BY <1>1, <1>3 DEF Merging, Mergeable
<1>6. \A n \in (l + 2)..(kNumLevels - 1) : \A g \in levels[n] \ merge.base[n] :
        \A f \in P \cup C : ~Overlaps(g, f.smallest.key, f.largest.key)
  BY <1>1, <1>3 DEF Merging, Inputs
<1>7. /\ merge.oldest \in Nat /\ seq \in Nat /\ merge.oldest <= seq
  BY <1>1, <1>3, BoundAssumption DEF Merging, Typed, TypeOK
<1>8. /\ entries = Survivors(E) /\ cuts \in SUBSET entries /\ outputs = Outputs(entries, cuts)
      /\ levels'[l] = levels[l] \ P
      /\ levels'[l + 1] = (levels[l + 1] \ C) \cup outputs
      /\ \A n \in Levels : n # l /\ n # l + 1 => levels'[n] = levels[n]
  BY <1>2 DEF Installs, Inputs
<1>9. \A e : e \in entries <=> \E o \in outputs : e \in o.entries
  <2>0. entries \subseteq Written /\ cuts \in SUBSET entries /\ outputs = Outputs(entries, cuts)
    BY <1>2, <1>8
  <2>1. /\ \A f \in outputs : \E d \in entries : f.entries = PartOf(entries, cuts, d)
        /\ \A d \in entries : \E f \in outputs : d \in f.entries
    <3>1. Typed /\ Numbered /\ entries \subseteq Written /\ cuts \in SUBSET entries
      BY <1>1, <2>0
    <3>2. /\ \A f \in Outputs(entries, cuts) : \E d \in entries : f.entries = PartOf(entries, cuts, d)
          /\ \A d \in entries : \E f \in Outputs(entries, cuts) : d \in f.entries
      BY <3>1, OutputTables
    <3> QED BY <2>0, <3>2
  <2>2. \A f \in outputs : \A e \in f.entries : e \in entries
    BY <2>1 DEF PartOf
  <2> QED BY <2>1, <2>2
<1>10. \A e \in E : e \in entries \/ Dropped(e, E)
  BY <1>8 DEF Survivors
<1>11. \A e \in entries : e \in E /\ ~Dropped(e, E)
  BY <1>8 DEF Survivors
<1>12. \A e : e \in E <=> \E f \in P \cup C : e \in f.entries
  BY EntryIn
<1> HIDE DEF l, P, C, E
<1>13. \A e : e \in Written' <=> \E n \in Levels : \E g \in levels'[n] : e \in g.entries
  BY DEF Written, EntriesOf
<1>14. \A e \in E : e \in Written
  BY <1>4, <1>12, WrittenIn
<1>15. \A n \in Levels : \A g \in levels'[n] :
         \/ g \in levels[n] /\ ~(n = l /\ g \in P) /\ ~(n = l + 1 /\ g \in C)
         \/ g \in outputs
  BY <1>4, <1>8
<1>16. \A e \in All' : e \in All
  <2>1. \A e \in Written' : e \in Written
    BY <1>9, <1>11, <1>13, <1>14, <1>15, WrittenIn
  <2> QED BY <1>3, <2>1 DEF All
<1>17. \A e \in All : e \in All' \/ (e \in E /\ Dropped(e, E))
  <2>1. ASSUME NEW n \in Levels, NEW g \in levels[n], NEW e \in g.entries
        PROVE  e \in Written' \/ (e \in E /\ Dropped(e, E))
    <3>1. CASE g \in levels'[n]
      BY <1>13, <3>1
    <3>2. CASE g \notin levels'[n]
      <4>1. e \in E
        BY <1>8, <1>12, <3>2
      <4>2. e \in entries => e \in Written'
        BY <1>4, <1>8, <1>9, <1>13
      <4> QED BY <1>10, <4>1, <4>2
    <3> QED BY <3>1, <3>2
  <2> QED BY <1>3, <2>1, WrittenIn DEF All
<1>18. \A e \in All : e.seq \in Nat /\ \A d \in All : e.seq = d.seq => e = d
  <2>1. \A e \in All : e.seq \in 1..lastSequence
    BY <1>1, AllDistinct DEF All
  <2> QED BY <1>1, <2>1, AllDistinct DEF Numbered, All
<1>19. \A A : \A e : e \in Seen(A, k, seq) <=>
         /\ e \in A /\ e.key = k /\ e.seq <= seq
         /\ \A d \in A : d.key = k /\ d.seq <= seq => d.seq <= e.seq
  BY DEF Seen, Newest, Hits
<1>20. CASE Seen(All, k, seq) \subseteq All'
  <2>1. \A e \in Seen(All, k, seq) : e \in Seen(All', k, seq)
    BY <1>16, <1>19, <1>20
  <2>2. ASSUME NEW e \in Seen(All', k, seq) PROVE e \in Seen(All, k, seq)
    <3>1. e \in All /\ e.key = k /\ e.seq <= seq
      BY <1>16, <1>19
    <3>2. Hits(All, k, seq) # {} /\ Hits(All, k, seq) \subseteq All
      BY <3>1 DEF Hits
    <3>3. PICK d : d \in Seen(All, k, seq)
      BY <1>1, <3>2, NewestExists DEF Seen
    <3>4. d \in All /\ e.seq <= d.seq /\ d \in Seen(All', k, seq)
      BY <1>19, <2>1, <3>1, <3>3
    <3>5. d.seq <= e.seq
      BY <1>19, <3>4
    <3>6. d = e
      BY <1>18, <3>1, <3>4, <3>5
    <3> QED BY <3>3, <3>6
  <2>3. Seen(All', k, seq) = Seen(All, k, seq)
    BY <2>1, <2>2
  <2> QED BY <2>3
<1>21. ASSUME NEW e \in Seen(All, k, seq), e \notin All'
       PROVE  Value(Seen(All', k, seq)) = Value(Seen(All, k, seq))
  <2>1. /\ e \in All /\ e.key = k /\ e.seq <= seq
        /\ \A d \in All : d.key = k /\ d.seq <= seq => d.seq <= e.seq
    BY <1>19, <1>21
  <2>2. e \in E /\ Dropped(e, E)
    BY <1>17, <1>21, <2>1
  <2>3. \A d \in E : d \in All
    BY <1>14 DEF All
  <2>4. e.del /\ e.seq <= merge.oldest /\ IsBaseLevelForKey(k)
    <3>1. ASSUME NEW d \in E, d.key = e.key, d.seq > e.seq, d.seq <= merge.oldest PROVE FALSE
      <4>1. d \in All /\ d.seq \in Nat /\ e.seq \in Nat
        BY <1>18, <2>1, <2>3
      <4> QED BY <1>7, <2>1, <3>1, <4>1
    <3> QED BY <2>1, <2>2, <3>1 DEF Dropped
  <2>5. k \notin SplitKeys
    BY <1>1, <2>1, <2>4 DEF Deletions, All
  <2>6. PICK x \in P \cup C : e \in x.entries
    BY <1>12, <2>2
  <2>7. ASSUME NEW d \in All', d.key = k, d.seq < e.seq PROVE FALSE
    <3>1. d \notin mem
      <4>1. e \in Written
        BY <1>14, <2>2
      <4>2. d \in mem => d.seq > e.seq
        BY <1>1, <4>1 DEF Numbered
      <4> QED BY <1>16, <1>18, <2>1, <2>7, <4>2
    <3>0. PICK n \in Levels : \E g \in levels'[n] : d \in g.entries
      BY <1>3, <1>13, <3>1 DEF All
    <3>2. PICK g \in levels'[n] : d \in g.entries
      BY <3>0
    <3>3. g \notin outputs
      <4>1. g \in outputs => d \in entries
        BY <1>9, <3>2
      <4>2. d \in E => Dropped(d, E)
        BY <2>1, <2>2, <2>4, <2>7 DEF Dropped
      <4> QED BY <1>11, <4>1, <4>2
    <3>4. g \in levels[n] /\ ~(n = l /\ g \in P) /\ ~(n = l + 1 /\ g \in C)
      BY <1>15, <3>2, <3>3
    <3>5. ~(d.seq > e.seq)
      BY <1>16, <1>18, <2>1, <2>7
    <3>6. CASE n > l + 1
      <4>1. n \in (l + 2)..(kNumLevels - 1)
        BY <1>4, <3>6, LevelAssumption DEF Levels
      <4>2. /\ g \in AllTables /\ x \in AllTables
        BY <1>4, <3>4 DEF AllTables
      <4>3. Ranged(g) /\ Ranged(x)
        BY <1>1, <4>2, AllRanged
      <4>4. /\ g.smallest.key <= k /\ k <= g.largest.key /\ x.smallest.key <= k /\ k <= x.largest.key
            /\ g.smallest.key \in Nat /\ g.largest.key \in Nat /\ x.smallest.key \in Nat /\ x.largest.key \in Nat
            /\ k \in Nat
        BY <2>1, <2>6, <2>7, <3>2, <4>3, KeyAssumption DEF Ranged
      <4>5. Overlaps(g, k, k) /\ Overlaps(g, x.smallest.key, x.largest.key)
        BY <4>4 DEF Overlaps
      <4>6. g \in merge.base[n]
        BY <1>6, <3>4, <4>1, <4>5
      <4> QED BY <2>4, <4>1, <4>5, <4>6 DEF IsBaseLevelForKey, OverlapInLevel, l
    <3>7. CASE n = l + 1
      BY <1>5, <2>1, <2>2, <2>5, <2>7, <3>2, <3>4, <3>7
    <3>8. CASE n = l
      <4>1. CASE x \in P
        BY <1>5, <2>1, <2>6, <2>7, <3>2, <3>4, <3>5, <3>8, <4>1, EntryIn DEF LaterStays
      <4>2. CASE x \in C
        BY <1>1, <1>4, <2>1, <2>6, <2>7, <3>2, <3>4, <3>5, <3>8, <4>2 DEF NewerTables
      <4> QED BY <4>1, <4>2
    <3>9. CASE n < l
      <4>1. n < l + 1 /\ (x \in levels[l] \/ x \in levels[l + 1])
        BY <1>4, <3>9, LevelAssumption DEF Levels
      <4> QED BY <1>1, <1>4, <2>1, <2>6, <2>7, <3>2, <3>4, <3>5, <3>9, <4>1 DEF NewerTables
    <3> QED BY <1>4, <3>6, <3>7, <3>8, <3>9, LevelAssumption DEF Levels
  <2>8. Seen(All', k, seq) = {}
    <3> SUFFICES ASSUME NEW d \in Seen(All', k, seq) PROVE FALSE
      OBVIOUS
    <3>1. d \in All' /\ d \in All /\ d.key = k /\ d.seq <= seq
      BY <1>16, <1>19
    <3>2. d.seq <= e.seq /\ d # e
      BY <1>21, <2>1, <3>1
    <3>3. d.seq < e.seq
      BY <1>18, <2>1, <3>1, <3>2
    <3> QED BY <2>7, <3>1, <3>3
  <2>9. \A d \in Seen(All, k, seq) : d.del
    <3> SUFFICES ASSUME NEW d \in Seen(All, k, seq) PROVE d.del
      OBVIOUS
    <3>1. d \in All /\ d.seq <= e.seq /\ e.seq <= d.seq
      BY <1>19, <2>1, <1>21
    <3>2. d = e
      BY <1>18, <2>1, <3>1
    <3> QED BY <2>4, <3>2
  <2> QED BY <2>8, <2>9 DEF Value
<1> QED BY <1>20, <1>21
(* At first every key is absent. *)
LEMMA InitReads == Init => Readable /\ Map!Init
<1> SUFFICES ASSUME Init PROVE Readable /\ Map!Init
  OBVIOUS
<1>1. (\A n \in Levels : levels[n] = {}) /\ mem = {} /\ lastSequence = 0 /\ snapshots = {} /\ 0 \in Levels
  BY LevelAssumption DEF Init, Levels
<1>2. Readable
  BY <1>1, InitLayered DEF Readable, Single
<1>3. All = {}
  BY <1>1, WrittenIn DEF All
<1>4. \A k \in Keys : ValueOf(k, 0) = Absent
  <2>1. \A k \in Keys : ValueOf(k, 0) = Value(Seen(All, k, 0))
    BY <1>2, ReadsAll
  <2>2. \A k \in Keys : Seen(All, k, 0) = {}
    BY <1>3 DEF Seen, Newest, Hits
  <2> QED BY <2>1, <2>2 DEF Value
<1>5. View(lastSequence) = [k \in Keys |-> Absent]
  BY <1>1, <1>4 DEF View
<1>6. [seq \in snapshots |-> View(seq)] = [t \in {} |-> View(lastSequence)]
  BY <1>1
<1> QED BY <1>1, <1>2, <1>5, <1>6 DEF Map!Init

(* A write changes its key for later reads and nothing for the snapshots. *)
LEMMA WriteSeen ==
  ASSUME Readable, Readable', NEW k \in Keys, NEW del \in BOOLEAN, Write(k, del)
  PROVE  /\ View(lastSequence)' = [View(lastSequence) EXCEPT ![k] = IF del THEN Absent ELSE lastSequence + 1]
         /\ \A seq \in snapshots : View(seq)' = View(seq)
<1>0. PICK t : t = lastSequence
  OBVIOUS
<1> DEFINE new == [key |-> k, seq |-> t + 1, del |-> del]
<1>1. Typed /\ Numbered
  BY DEF Readable, Layered, Stocked
<1>2. t \in Nat /\ snapshots \subseteq 0..t /\ \A e \in All : e.seq \in 1..t
  BY <1>0, <1>1, AllDistinct DEF Typed, TypeOK, All
<1>3. lastSequence' = t + 1 /\ mem' = mem \cup {new} /\ levels' = levels
  BY <1>0 DEF Write, tableVars
<1>4. \A e : e \in All' <=> e \in All \/ e = new
  BY <1>3 DEF All, Written
<1>5. new.key = k /\ new.seq = t + 1 /\ new.del = del
  OBVIOUS
<1> HIDE DEF new
<1>6. \A A, j, s : \A e : e \in Seen(A, j, s) <=>
         /\ e \in A /\ e.key = j /\ e.seq <= s
         /\ \A d \in A : d.key = j /\ d.seq <= s => d.seq <= e.seq
  BY DEF Seen, Newest, Hits
<1>7. \A j \in Keys, s \in 0..t : Seen(All', j, s) = Seen(All, j, s)
  <2> SUFFICES ASSUME NEW j \in Keys, NEW s \in 0..t PROVE Seen(All', j, s) = Seen(All, j, s)
    OBVIOUS
  <2>1. ~(new.seq <= s)
    BY <1>2, <1>5
  <2>2. \A e : e \in All' /\ e.seq <= s <=> e \in All /\ e.seq <= s
    BY <1>4, <2>1
  <2>3. \A e : e \in Seen(All', j, s) <=> e \in Seen(All, j, s)
    BY <1>6, <2>2
  <2> QED BY <2>3
<1>8. \A j \in Keys : j # k => Seen(All', j, t + 1) = Seen(All, j, t)
  <2> SUFFICES ASSUME NEW j \in Keys, j # k PROVE Seen(All', j, t + 1) = Seen(All, j, t)
    OBVIOUS
  <2>1. \A e : e \in All' /\ e.key = j /\ e.seq <= t + 1 <=> e \in All /\ e.key = j /\ e.seq <= t
    BY <1>2, <1>4, <1>5
  <2>2. \A e : e \in Seen(All', j, t + 1) <=> e \in Seen(All, j, t)
    BY <1>6, <2>1
  <2> QED BY <2>2
<1>9. Seen(All', k, t + 1) = {new}
  <2>1. \A e \in All' : e.seq <= t + 1 /\ (t + 1 <= e.seq => e = new)
    BY <1>2, <1>4, <1>5
  <2>2. new \in All'
    BY <1>4
  <2>3. new \in Seen(All', k, t + 1)
    BY <1>2, <1>5, <1>6, <2>1, <2>2
  <2>4. ASSUME NEW e \in Seen(All', k, t + 1) PROVE e = new
    <3>1. e \in All' /\ new.seq <= e.seq
      BY <1>2, <1>5, <1>6, <2>2
    <3> QED BY <1>5, <2>1, <3>1
  <2> QED BY <2>3, <2>4
<1>10. Value({new}) = IF del THEN Absent ELSE t + 1
  <2>1. CASE del
    BY <1>5, <2>1 DEF Value
  <2>2. CASE ~del
    <3>1. {e.seq : e \in {d \in {new} : ~d.del}} = {t + 1}
      BY <1>5, <2>2
    <3> QED BY <2>2, <3>1 DEF Value
  <2> QED BY <2>1, <2>2
<1>11. /\ \A j \in Keys : \A s \in Nat : ValueOf(j, s) = Value(Seen(All, j, s)) /\ ValueOf(j, s)' = Value(Seen(All', j, s))
       /\ \A j \in Keys : ValueOf(j, lastSequence)' = Value(Seen(All', j, t + 1))
  BY <1>3, ReadsAll, ReadsAllNext
<1>12. View(lastSequence)' = [j \in Keys |-> ValueOf(j, lastSequence)']
  BY DEF View
<1>13. View(lastSequence) = [j \in Keys |-> ValueOf(j, t)]
  BY <1>0 DEF View
<1>14. \A j \in Keys : j # k => ValueOf(j, lastSequence)' = ValueOf(j, t)
  BY <1>2, <1>8, <1>11
<1>15. ValueOf(k, lastSequence)' = IF del THEN Absent ELSE t + 1
  BY <1>9, <1>10, <1>11
<1>16. View(lastSequence)' = [View(lastSequence) EXCEPT ![k] = IF del THEN Absent ELSE t + 1]
  BY <1>12, <1>13, <1>14, <1>15
<1>17. \A s \in snapshots : \A j \in Keys : ValueOf(j, s)' = ValueOf(j, s)
  BY <1>2, <1>7, <1>11
<1>18. \A s \in snapshots : View(s)' = View(s)
  BY <1>17 DEF View
<1> QED BY <1>0, <1>16, <1>18
(* What is read stays the same when the values do. *)
LEMMA SameViews ==
  ASSUME Readable, Readable', lastSequence' = lastSequence,
         NEW S, S \subseteq snapshots \cup {lastSequence},
         \A k \in Keys : \A seq \in snapshots \cup {lastSequence} :
           Value(Seen(All', k, seq)) = Value(Seen(All, k, seq))
  PROVE  /\ View(lastSequence)' = View(lastSequence)
         /\ \A seq \in S : View(seq)' = View(seq)
<1>1. lastSequence \in Nat /\ snapshots \subseteq Nat
  BY BoundAssumption DEF Readable, Layered, Stocked, Typed, TypeOK
<1>2. \A k \in Keys : ValueOf(k, lastSequence)' = ValueOf(k, lastSequence)
  BY <1>1, ReadsAll, ReadsAllNext
<1>3. \A k \in Keys : \A seq \in S : ValueOf(k, seq)' = ValueOf(k, seq)
  BY <1>1, ReadsAll, ReadsAllNext
<1>4. View(lastSequence)' = View(lastSequence)
  BY <1>2 DEF View
<1> QED BY <1>3, <1>4 DEF View

kept == [seq \in snapshots |-> View(seq)]

(* Every step is a write, a snapshot taken or released, or not seen. *)
LEMMA MapStep ==
  ASSUME ~Manual, DeletedKeys \cap SplitKeys = {}, Readable, Readable', [Next]_vars
  PROVE  [Map!Next]_<<lastSequence, View(lastSequence), kept>>
<1>1. lastSequence \in Nat /\ snapshots \subseteq Nat
  BY BoundAssumption DEF Readable, Layered, Stocked, Typed, TypeOK
<1>2. DOMAIN kept = snapshots /\ DOMAIN kept' = snapshots'
  BY DEF kept
<1>3. CASE \E k \in Keys, del \in BOOLEAN : Write(k, del)
  <2>1. PICK k \in Keys, del \in BOOLEAN : Write(k, del)
    BY <1>3
  <2>2. /\ View(lastSequence)' = [View(lastSequence) EXCEPT ![k] = IF del THEN Absent ELSE lastSequence + 1]
        /\ \A seq \in snapshots : View(seq)' = View(seq)
    BY <2>1, WriteSeen
  <2>3. snapshots' = snapshots /\ lastSequence' = lastSequence + 1
    BY <2>1 DEF Write
  <2>4. kept' = kept
    BY <2>2, <2>3 DEF kept
  <2>5. (IF del THEN Absent ELSE lastSequence + 1) \in {lastSequence + 1, Absent}
    OBVIOUS
  <2>6. Map!Write(k, IF del THEN Absent ELSE lastSequence + 1)
    BY <2>2, <2>3, <2>4 DEF Map!Write, kept
  <2>7. Map!Next
    BY <2>5, <2>6 DEF Map!Next
  <2> QED BY <2>7
<1>4. CASE GetSnapshot
  <2>1. /\ lastSequence' = lastSequence /\ snapshots' = snapshots \cup {lastSequence}
        /\ mem' = mem /\ levels' = levels
    BY <1>4 DEF GetSnapshot, tableVars
  <2>2. All' = All
    BY <2>1 DEF All, Written
  <2>3. View(lastSequence)' = View(lastSequence) /\ \A seq \in snapshots \cup {lastSequence} : View(seq)' = View(seq)
    BY <2>1, <2>2, SameViews
  <2>4. kept' = [t \in snapshots' |-> IF t = lastSequence THEN View(lastSequence) ELSE kept[t]]
    BY <2>1, <2>3 DEF kept
  <2>5. Map!Take
    BY <1>2, <2>1, <2>3, <2>4 DEF Map!Take, kept
  <2>6. Map!Next
    BY <2>5 DEF Map!Next
  <2> QED BY <2>6
<1>5. CASE \E seq \in snapshots : ReleaseSnapshot(seq)
  <2>1. PICK t \in snapshots : ReleaseSnapshot(t)
    BY <1>5
  <2>2. /\ lastSequence' = lastSequence /\ snapshots' = snapshots \ {t}
        /\ mem' = mem /\ levels' = levels
    BY <2>1 DEF ReleaseSnapshot, tableVars
  <2>3. All' = All
    BY <2>2 DEF All, Written
  <2>4. View(lastSequence)' = View(lastSequence) /\ \A seq \in snapshots : View(seq)' = View(seq)
    BY <2>2, <2>3, SameViews
  <2>5. kept' = [s \in snapshots' |-> kept[s]]
    BY <2>2, <2>4 DEF kept
  <2>6. Map!Release(t)
    BY <1>2, <2>2, <2>4, <2>5 DEF Map!Release, kept
  <2>7. Map!Next
    BY <1>2, <2>6 DEF Map!Next, kept
  <2> QED BY <2>7
<1>6. ASSUME UNCHANGED <<lastSequence, snapshots>>,
             \A k \in Keys : \A seq \in snapshots \cup {lastSequence} :
               Value(Seen(All', k, seq)) = Value(Seen(All, k, seq))
      PROVE  [Map!Next]_<<lastSequence, View(lastSequence), kept>>
  <2>1. View(lastSequence)' = View(lastSequence) /\ \A seq \in snapshots : View(seq)' = View(seq)
    BY <1>6, SameViews
  <2>2. kept' = kept
    BY <1>6, <2>1 DEF kept
  <2> QED BY <1>6, <2>1, <2>2
<1>7. CASE NewIterator \/ (\E held \in iterators : DeleteIterator(held)) \/ UNCHANGED vars
  <2>1. UNCHANGED <<lastSequence, snapshots, mem, levels>>
    BY <1>7 DEF NewIterator, DeleteIterator, vars, tableVars
  <2>2. All' = All
    BY <2>1 DEF All, Written
  <2> QED BY <1>6, <2>1, <2>2
<1>8. CASE CompactMemTable
  <2>1. UNCHANGED <<lastSequence, snapshots>> /\ All' = All
    BY <1>8, FlushKeeps DEF CompactMemTable
  <2> QED BY <1>6, <2>1
<1>9. CASE \E level \in 0..(kNumLevels - 2) : BackgroundCompaction(level)
  <2>1. UNCHANGED <<lastSequence, snapshots>> /\ All' = All
    BY <1>9, BeginKeeps DEF BackgroundCompaction
  <2> QED BY <1>6, <2>1
<1>10. CASE \E level \in 0..(kNumLevels - 2), begin, end \in Keys : CompactRange(level, begin, end)
  BY <1>10 DEF CompactRange
<1>11. CASE InstallCompactionResults
  <2>1. UNCHANGED <<lastSequence, snapshots>>
    BY <1>11 DEF InstallCompactionResults
  <2>2. \A k \in Keys : \A seq \in snapshots \cup {lastSequence} :
          Value(Seen(All', k, seq)) = Value(Seen(All, k, seq))
    BY <1>11, InstallKeeps
  <2> QED BY <1>6, <2>1, <2>2
<1> QED BY <1>3, <1>4, <1>5, <1>7, <1>8, <1>9, <1>10, <1>11 DEF Next

(* Reads and snapshots see what was written, through every order of writes, *)
(* flushes, moves and compactions, whatever these drop (Version::Get,       *)
(* DoCompactionWork, IsBaseLevelForKey), for as long as nobody calls        *)
(* CompactRange and no output ends between the entries of a key that is     *)
(* deleted: where one may it is not true, as version_set_boundary shows.    *)
THEOREM SnapshotsKept == ~Manual /\ DeletedKeys \cap SplitKeys = {} => (Spec => KeepsSnapshots)
<1> SUFFICES ASSUME ~Manual, DeletedKeys \cap SplitKeys = {} PROVE Spec => KeepsSnapshots
  OBVIOUS
<1>1. Init => Readable /\ Map!Init
  BY InitReads
<1>2. Readable /\ [Next]_vars => Readable'
  BY ReadableStep
<1>3. Readable /\ Readable' /\ [Next]_vars => [Map!Next]_<<lastSequence, View(lastSequence), kept>>
  BY MapStep
<1> QED BY <1>1, <1>2, <1>3, PTL DEF Spec, KeepsSnapshots, Map!Spec, kept
=============================================================================
