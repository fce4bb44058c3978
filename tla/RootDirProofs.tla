--------------------------- MODULE RootDirProofs ----------------------------
(***************************************************************************)
(* Proofs about the root directory and what its entries say: that scans    *)
(* over buffers find what is there and that writing back whole clusters    *)
(* changes one slot at a time (RootDir, Directory); the conversion of      *)
(* names, for fields of any length (FatName); and that on a volume         *)
(* formatted as mkfs.vfat does it no two clusters and no two table entries *)
(* share a place (Layout).                                                 *)
(***************************************************************************)
EXTENDS RootDir, FatName, Layout, WellFoundedInduction, FiniteSetTheorems, TLAPS

-----------------------------------------------------------------------------
(* Slots, clusters and sectors.                                            *)

\* A set of numbers that is not empty has a least member.
LEMMA Least ==
    ASSUME NEW S, S \subseteq Nat, S # {}
    PROVE  \E m \in S : \A k \in S : m <= k
<1> DEFINE R == OpToRel(<, Nat)
<1>1. IsWellFoundedOn(R, Nat)  BY NatLessThanWellFounded
<1> HIDE DEF R
<1>2. PICK m \in S : \A k \in S : ~ (<<k, m>> \in R)  BY <1>1, WFMin
<1>3. \A k \in S : ~ (k < m)  BY <1>2 DEF R, OpToRel
<1> QED BY <1>3

LEMMA DivMod ==
    ASSUME NEW a \in Nat, NEW b \in Nat \ {0}
    PROVE  /\ a \div b \in Nat /\ a % b \in 0 .. b - 1
           /\ a = b * (a \div b) + (a % b)
OBVIOUS

\* The same, as rows of equal length are counted.
LEMMA RowAndPlace ==
    ASSUME NEW n \in Nat \ {0}, NEW a \in Nat
    PROVE  /\ a \div n \in Nat /\ a % n \in 0 .. n - 1
           /\ a = (a \div n) * n + (a % n)
BY SMT

LEMMA DivBelow ==
    ASSUME NEW a \in Nat, NEW b \in Nat \ {0}, NEW n \in Nat, a < n * b
    PROVE  a \div b < n
<1> DEFINE q == a \div b
<1>1. q \in Nat /\ a >= b * q
  BY DivMod
<1> HIDE DEF q
<1>2. ASSUME q >= n PROVE FALSE
  <2>1. PICK d \in Nat : q = n + d
    <3>1. q - n \in Nat /\ q = n + (q - n)
      BY <1>1, <1>2
    <3> QED BY <3>1
  <2>2. b * q = n * b + d * b
    BY <2>1
  <2>3. d * b \in Nat /\ n * b \in Nat
    OBVIOUS
  <2> QED BY <1>1, <2>2, <2>3
<1> QED BY <1>1, <1>2 DEF q

\* A quotient and a rest are those of the number they make.
LEMMA DivIs ==
    ASSUME NEW b \in Nat \ {0}, NEW q \in Nat, NEW m \in 0 .. b - 1
    PROVE  (q * b + m) \div b = q /\ (q * b + m) % b = m
<1> DEFINE a == q * b + m
<1>1. a \in Nat /\ q * b \in Nat
  OBVIOUS
<1> DEFINE x == a \div b
           r == a % b
<1>2. x \in Nat /\ r \in 0 .. b - 1 /\ a = b * x + r
  BY <1>1, DivMod
<1>3. a = q * b + m
  OBVIOUS
<1> HIDE DEF a, x, r
<1>4. ASSUME x > q PROVE FALSE
  <2>1. PICK d \in Nat \ {0} : x = q + d
    <3>1. x - q \in Nat \ {0} /\ x = q + (x - q)
      BY <1>2, <1>4
    <3> QED BY <3>1
  <2>2. b * x = q * b + d * b /\ d * b >= b /\ d * b \in Nat
    BY <2>1
  <2> QED BY <1>1, <1>2, <1>3, <2>2
<1>5. ASSUME x < q PROVE FALSE
  <2>1. PICK d \in Nat \ {0} : q = x + d
    <3>1. q - x \in Nat \ {0} /\ q = x + (q - x)
      BY <1>2, <1>5
    <3> QED BY <3>1
  <2>2. q * b = b * x + d * b /\ d * b >= b /\ d * b \in Nat /\ b * x \in Nat
    BY <1>2, <2>1
  <2> QED BY <1>1, <1>2, <1>3, <2>2
<1>6. x = q
  BY <1>2, <1>4, <1>5
<1>7. r = m
  BY <1>1, <1>2, <1>3, <1>6
<1> QED BY <1>6, <1>7 DEF a, x, r

LEMMA Sizes ==
    /\ PerClus \in Nat \ {0} /\ NumRoot \in Nat \ {0} /\ SecPerClus \in Nat \ {0}
    /\ SlotsPerSec \in Nat \ {0} /\ PerClus = SecPerClus * SlotsPerSec
    /\ NumRoot * PerClus \in Nat
<1>1. \A a, b \in Nat \ {0} : a * b \in Nat \ {0}
  OBVIOUS
<1> QED BY <1>1, RootDirAssumption DEF PerClus

\* The slots before cluster c.
Start(c) == (c - 1) * PerClus

LEMMA StartIs ==
    ASSUME NEW c \in 1 .. NumRoot
    PROVE  /\ Start(c) \in Nat /\ Start(1) = 0 /\ Start(c + 1) = Start(c) + PerClus
           /\ Start(c) + PerClus <= NumRoot * PerClus
           /\ \A i : SlotAt(c, i) = Start(c) + i
           /\ c = NumRoot => Start(c) + PerClus = NumRoot * PerClus
<1>1. c \in Nat /\ c - 1 \in Nat /\ PerClus \in Nat /\ NumRoot \in Nat
  BY Sizes
<1>2. (c - 1) * PerClus \in Nat /\ ((c + 1) - 1) * PerClus = (c - 1) * PerClus + PerClus
  BY <1>1
<1>3. c * PerClus <= NumRoot * PerClus
  <2>1. PICK d \in Nat : NumRoot = c + d
    <3>1. NumRoot - c \in Nat /\ NumRoot = c + (NumRoot - c)
      BY <1>1
    <3> QED BY <3>1
  <2>2. NumRoot * PerClus = c * PerClus + d * PerClus /\ d * PerClus \in Nat /\ c * PerClus \in Nat
    BY <1>1, <2>1
  <2> QED BY <2>2
<1>4. c * PerClus = (c - 1) * PerClus + PerClus
  BY <1>1
<1>5. (1 - 1) * PerClus = 0
  BY <1>1
<1> QED BY <1>2, <1>3, <1>4, <1>5 DEF Start, SlotAt

LEMMA SlotIs ==
    ASSUME NEW c \in 1 .. NumRoot, NEW i \in Indices
    PROVE  /\ SlotAt(c, i) \in Slots /\ SlotAt(c, i) = Start(c) + i
           /\ ClusterOf(SlotAt(c, i)) = c /\ IndexOf(SlotAt(c, i)) = i
<1>1. /\ PerClus \in Nat \ {0} /\ Start(c) \in Nat /\ SlotAt(c, i) = Start(c) + i
      /\ Start(c) + PerClus <= NumRoot * PerClus
      /\ NumRoot * PerClus \in Nat /\ i \in 1 .. PerClus /\ c - 1 \in Nat /\ c \in Nat
  BY Sizes, StartIs DEF Indices
<1>2. i - 1 \in 0 .. PerClus - 1
  BY <1>1
<1> DEFINE x == (c - 1) * PerClus + (i - 1)
<1>3. x \div PerClus = c - 1 /\ x % PerClus = i - 1
  BY <1>1, <1>2, DivIs
<1>4. SlotAt(c, i) - 1 = x
  BY <1>1 DEF Start
<1>5. SlotAt(c, i) \in Slots
  BY <1>1 DEF Slots
<1>6. (c - 1) + 1 = c /\ (i - 1) + 1 = i
  BY <1>1
<1> HIDE DEF x
<1> QED BY <1>1, <1>3, <1>4, <1>5, <1>6 DEF ClusterOf, IndexOf

LEMMA PlaceIs ==
    ASSUME NEW s \in Slots
    PROVE  /\ ClusterOf(s) \in 1 .. NumRoot /\ IndexOf(s) \in Indices
           /\ SlotAt(ClusterOf(s), IndexOf(s)) = s /\ s \in Nat \ {0}
<1>1. PerClus \in Nat \ {0} /\ NumRoot \in Nat /\ NumRoot * PerClus \in Nat
  BY Sizes
<1>2. s - 1 \in Nat /\ s \in Nat \ {0} /\ s - 1 < NumRoot * PerClus
  BY <1>1 DEF Slots
<1> DEFINE q == (s - 1) \div PerClus
           m == (s - 1) % PerClus
<1>3. q \in Nat /\ m \in 0 .. PerClus - 1 /\ s - 1 = PerClus * q + m /\ q < NumRoot
  BY <1>1, <1>2, DivMod, DivBelow
<1>4. ClusterOf(s) = q + 1 /\ IndexOf(s) = m + 1
  BY DEF ClusterOf, IndexOf
<1> HIDE DEF q, m
<1>5. (q + 1) - 1 = q /\ q * PerClus = PerClus * q /\ PerClus * q \in Nat
  BY <1>1, <1>3
<1>6. SlotAt(q + 1, m + 1) = s
  BY <1>1, <1>2, <1>3, <1>5 DEF SlotAt
<1>7. q + 1 \in 1 .. NumRoot /\ m + 1 \in Indices
  BY <1>1, <1>3 DEF Indices
<1> QED BY <1>2, <1>4, <1>6, <1>7

LEMMA SectorIs ==
    ASSUME NEW i \in Indices
    PROVE  SectorOf(i) \in 1 .. SecPerClus
<1>1. /\ SlotsPerSec \in Nat \ {0} /\ SecPerClus \in Nat /\ i - 1 \in Nat
      /\ i - 1 < SecPerClus * SlotsPerSec
  BY Sizes DEF Indices
<1>2. (i - 1) \div SlotsPerSec \in Nat /\ (i - 1) \div SlotsPerSec < SecPerClus
  BY <1>1, DivMod, DivBelow
<1> DEFINE q == (i - 1) \div SlotsPerSec
<1>3. q \in Nat /\ q < SecPerClus
  BY <1>2
<1> HIDE DEF q
<1>4. q + 1 \in 1 .. SecPerClus
  BY <1>1, <1>3
<1> QED BY <1>4 DEF q, SectorOf

-----------------------------------------------------------------------------
(* Lowest slots.                                                           *)

LEMMA MinIs ==
    ASSUME NEW S, S \subseteq Nat, S # {}
    PROVE  Min(S) \in S /\ \A k \in S : Min(S) <= k
<1>1. \E m \in S : \A k \in S : m <= k
  BY Least
<1> QED BY <1>1 DEF Min

LEMMA LowestIs ==
    ASSUME NEW S, S \subseteq Nat, NEW m \in S, \A k \in S : m <= k
    PROVE  Dir!Lowest(S) = m
<1>1. S # {} /\ m \in Nat
  OBVIOUS
<1>2. Min(S) \in S /\ Min(S) \in Nat /\ Min(S) <= m /\ m <= Min(S)
  BY <1>1, MinIs
<1>3. Min(S) = m
  BY <1>1, <1>2
<1>4. Dir!Lowest(S) = Min(S)
  BY <1>1 DEF Dir!Lowest, Dir!Min, Min
<1> QED BY <1>3, <1>4

-----------------------------------------------------------------------------
(* What stands where in a directory R.                                     *)

Called(e, n) == Dir!Live(e) /\ e.name = n

\* Slot s has the first entry of that name.
FirstIs(R, n, s) == /\ s \in Slots /\ Called(R[s], n)
                    /\ \A t \in Slots : t <= s => R[t].kind # "end"
                    /\ \A t \in Slots : t < s => ~Called(R[t], n)

\* There is no entry of that name before the end.
NoneIs(R, n) == \A s \in Slots : Called(R[s], n) => \E t \in Slots : t <= s /\ R[t].kind = "end"

FileIs(R, n, s) == /\ s \in Slots /\ R[s].kind = "file" /\ R[s].name = n
                   /\ \A t \in Slots : t <= s => R[t].kind # "end"
                   /\ \A t \in Slots : t < s => ~(R[t].kind = "file" /\ R[t].name = n)

NoFileIs(R, n) == \A s \in Slots : R[s].kind = "file" /\ R[s].name = n =>
                     \E t \in Slots : t <= s /\ R[t].kind = "end"

\* Slot s is the first vacant one; there is none up to m.
VacantIs(R, s) == /\ s \in Slots /\ Dir!Vacant(R[s])
                  /\ \A t \in Slots : t < s => ~Dir!Vacant(R[t])

NoVacant(R, m) == \A t \in Slots : t <= m => ~Dir!Vacant(R[t])

LEMMA SlotsAre == /\ Slots \subseteq Nat \ {0}
                  /\ \A s \in Slots : \A t : t \in 1 .. s <=> t \in Slots /\ t <= s
<1> DEFINE N == NumRoot * PerClus
<1>1. N \in Nat
  BY Sizes
<1> HIDE DEF N
<1>2. 1 .. N \subseteq Nat \ {0}
  BY <1>1
<1>3. \A s \in 1 .. N : \A t : t \in 1 .. s <=> t \in 1 .. N /\ t <= s
  BY <1>1
<1> QED BY <1>2, <1>3 DEF Slots, N

LEMMA ListedIs ==
    ASSUME DOMAIN root = Slots, NEW s
    PROVE  s \in Dir!Listed <=> s \in Slots /\ \A t \in Slots : t <= s => root[t].kind # "end"
<1>1. s \in Slots => s \in Nat \ {0} /\ \A t : t \in 1 .. s <=> t \in Slots /\ t <= s
  BY SlotsAre
<1> QED BY <1>1 DEF Dir!Listed

LEMMA NamedIs ==
    ASSUME DOMAIN root = Slots, NEW n, NEW s, FirstIs(root, n, s)
    PROVE  Dir!FirstNamed(n) = s
<1> DEFINE S == {t \in Dir!Listed : Dir!Live(root[t]) /\ root[t].name = n}
<1>0. Slots \subseteq Nat
  BY SlotsAre
<1>1. S \subseteq Nat /\ s \in S /\ \A t \in S : s <= t
  <2>1. \A t \in S : t \in Slots
    BY ListedIs
  <2>2. s \in S
    BY ListedIs DEF FirstIs, Called
  <2>3. \A t \in S : ~(t < s)
    BY <2>1 DEF FirstIs, Called
  <2>4. s \in Slots
    BY DEF FirstIs
  <2> HIDE DEF S
  <2> QED BY <1>0, <2>1, <2>2, <2>3, <2>4
<1> HIDE DEF S
<1>2. Dir!Lowest(S) = s
  BY <1>1, LowestIs
<1> QED BY <1>2 DEF S, Dir!FirstNamed

LEMMA NotNamedIs ==
    ASSUME DOMAIN root = Slots, NEW n, NoneIs(root, n)
    PROVE  Dir!FirstNamed(n) = 0
<1>1. {t \in Dir!Listed : Dir!Live(root[t]) /\ root[t].name = n} = {}
  BY ListedIs DEF NoneIs, Called
<1> QED BY <1>1 DEF Dir!FirstNamed, Dir!Lowest

LEMMA FirstFileIs ==
    ASSUME DOMAIN root = Slots, NEW n, NEW s, FileIs(root, n, s)
    PROVE  Dir!FirstFile(n) = s
<1> DEFINE S == {t \in Dir!Listed : root[t].kind = "file" /\ root[t].name = n}
<1>0. Slots \subseteq Nat
  BY SlotsAre
<1>1. S \subseteq Nat /\ s \in S /\ \A t \in S : s <= t
  <2>1. \A t \in S : t \in Slots
    BY ListedIs
  <2>2. s \in S
    BY ListedIs DEF FileIs
  <2>3. \A t \in S : ~(t < s)
    BY <2>1 DEF FileIs
  <2>4. s \in Slots
    BY DEF FileIs
  <2> HIDE DEF S
  <2> QED BY <1>0, <2>1, <2>2, <2>3, <2>4
<1> HIDE DEF S
<1>2. Dir!Lowest(S) = s
  BY <1>1, LowestIs
<1> QED BY <1>2 DEF S, Dir!FirstFile

LEMMA NotFileIs ==
    ASSUME DOMAIN root = Slots, NEW n, NoFileIs(root, n)
    PROVE  Dir!FirstFile(n) = 0
<1>1. {t \in Dir!Listed : root[t].kind = "file" /\ root[t].name = n} = {}
  BY ListedIs DEF NoFileIs
<1> QED BY <1>1 DEF Dir!FirstFile, Dir!Lowest

LEMMA FirstVacantIs ==
    ASSUME DOMAIN root = Slots, NEW s, VacantIs(root, s)
    PROVE  Dir!FirstVacant = s
<1> DEFINE S == {t \in DOMAIN root : Dir!Vacant(root[t])}
<1>1. S \subseteq Nat /\ s \in S
  BY SlotsAre DEF VacantIs
<1>2. ASSUME NEW t \in S PROVE s <= t
  <2>0. Slots \subseteq Nat
    BY SlotsAre
  <2>1. t \in Slots /\ s \in Slots
    BY DEF VacantIs
  <2>2. t \in Nat /\ s \in Nat
    BY <2>0, <2>1
  <2>3. ~(t < s)
    BY <2>1 DEF VacantIs
  <2> QED BY <2>2, <2>3
<1> HIDE DEF S
<1>3. Dir!Lowest(S) = s
  BY <1>1, <1>2, LowestIs
<1> QED BY <1>3 DEF S, Dir!FirstVacant

LEMMA NotVacantIs ==
    ASSUME DOMAIN root = Slots, \A t \in Slots : ~Dir!Vacant(root[t])
    PROVE  Dir!FirstVacant = 0
BY DEF Dir!FirstVacant, Dir!Lowest

-----------------------------------------------------------------------------
(* Types.                                                                  *)

Entries == [kind : {"end", "skip", "deleted", "file", "dir", "bytes", "junk"},
            name : Names \cup {"none"}, val : 0 .. 1]

Jobs == [slot : Slots \cup {0}, new : BOOLEAN, val : 0 .. 1, ret : {"return", "build"}]

Types == /\ root \in [Slots -> Entries]
         /\ buf \in [Indices -> Entries]
         /\ clus \in 1 .. NumRoot
         /\ hit \in Slots \cup {0} /\ slot \in Slots \cup {0}
         /\ job \in Jobs /\ sec \in 1 .. SecPerClus
         /\ failed \in BOOLEAN /\ bad \in Nat
         /\ pc # "idle" => name \in Names
         /\ pc \in {"store", "put", "build"} => job.slot \in Slots

LEMMA EntriesAre ==
    /\ Junk \in Entries /\ Bytes \in Entries
    /\ \A k \in {"end", "skip", "deleted"} : Dir!Blank(k) \in Entries
    /\ \A n \in Names : Dir!Folder(n) \in Entries /\ \A v \in 0 .. 1 : Dir!File(n, v) \in Entries
    /\ \A e \in Entries, v \in 0 .. 1 : [e EXCEPT !.val = v] \in Entries
    /\ Leftovers \subseteq Entries
    /\ NoJob \in Jobs
BY DEF Entries, Junk, Bytes, Dir!Blank, Dir!Folder, Dir!File, Leftovers, NoJob, Jobs

LEMMA ReadTyped ==
    ASSUME Types, NEW c \in 1 .. NumRoot, NEW lost, NEW junk \in Leftovers
    PROVE  read_cluster(c, lost, junk) \in [Indices -> Entries]
<1>1. \A i \in Indices : SlotAt(c, i) \in Slots
  BY SlotIs
<1>2. junk \in Entries
  BY EntriesAre
<1> QED BY <1>1, <1>2 DEF read_cluster, Types

\* A cluster read without a failure.
LEMMA ReadWell ==
    ASSUME NEW lost \in SUBSET (1 .. SecPerClus), NEW n \in Nat, Fail(Cardinality(lost) + n),
           failed \in BOOLEAN
    PROVE  ~failed' => ~failed /\ lost = {} /\ n = 0
<1>1. IsFiniteSet(1 .. SecPerClus)
  <2>1. SecPerClus \in Int /\ 1 \in Int
    BY Sizes
  <2> QED BY <2>1, FS_Interval
<1>2. IsFiniteSet(lost)
  BY <1>1, FS_Subset
<1>3. Cardinality(lost) \in Nat /\ (Cardinality(lost) = 0 <=> lost = {})
  BY <1>2, FS_CardinalityType, FS_EmptySet
<1>4. failed' = (failed \/ Cardinality(lost) + n > 0)
  BY DEF Fail
<1> DEFINE m == Cardinality(lost)
<1>5. m \in Nat /\ (m = 0 <=> lost = {}) /\ failed' = (failed \/ m + n > 0)
  BY <1>3, <1>4
<1> HIDE DEF m
<1>6. m + n > 0 \/ (m = 0 /\ n = 0)
  BY <1>5
<1> QED BY <1>5, <1>6

LEMMA ReadGives ==
    ASSUME NEW c, NEW junk, NEW i \in Indices
    PROVE  read_cluster(c, {}, junk)[i] = root[SlotAt(c, i)]
BY DEF read_cluster

LEMMA FailTyped ==
    ASSUME Types, NEW n, n \in Int, n >= 0, Fail(n)
    PROVE  failed' \in BOOLEAN /\ bad' \in Nat
BY DEF Fail, Types

LEMMA LostCount ==
    ASSUME NEW lost \in SUBSET (1 .. SecPerClus)
    PROVE  Cardinality(lost) \in Nat
<1>1. IsFiniteSet(1 .. SecPerClus)
  <2>1. SecPerClus \in Int /\ 1 \in Int
    BY Sizes
  <2> QED BY <2>1, FS_Interval
<1> QED BY <1>1, FS_Subset, FS_CardinalityType

-----------------------------------------------------------------------------
(* What is shown of a row of entries.                                      *)

Rows(f, before, b, n) ==
    f = [i \in 0 .. n |-> IF i = 0 THEN before
                          ELSE IF Dir!Live(b[i]) THEN Append(f[i - 1], b[i]) ELSE f[i - 1]]

\* One row more or none.
Row(s, e) == IF Dir!Live(e) THEN Append(s, e) ELSE s

LEMMA RowsExist ==
    ASSUME NEW before, NEW b, NEW n \in Nat
    PROVE  \E f : Rows(f, before, b, n)
<1> DEFINE S == {k \in Nat : ~ \E f : Rows(f, before, b, k)}
<1> SUFFICES ASSUME S # {} PROVE FALSE
  OBVIOUS
<1>1. PICK k \in S : \A j \in S : k <= j
  <2>1. S \subseteq Nat
    OBVIOUS
  <2> HIDE DEF S
  <2> QED BY <2>1, Least
<1>2. k \in Nat /\ ~ \E f : Rows(f, before, b, k)
  BY <1>1
<1>3. CASE k = 0
  <2>1. Rows([i \in 0 .. 0 |-> before], before, b, 0)
    BY DEF Rows
  <2> QED BY <1>2, <1>3, <2>1
<1>4. CASE k # 0
  <2>1. k - 1 \in Nat /\ k - 1 \notin S
    BY <1>1, <1>2, <1>4
  <2>2. PICK f : Rows(f, before, b, k - 1)
    BY <2>1
  <2> DEFINE g == [i \in 0 .. k |-> IF i = 0 THEN before ELSE Row(f[i - 1], b[i])]
  <2>3. \A i \in 0 .. k - 1 : g[i] = f[i]
    <3>1. \A i \in 0 .. k - 1 : f[i] = IF i = 0 THEN before ELSE Row(f[i - 1], b[i])
      BY <2>2 DEF Rows, Row
    <3> QED BY <1>2, <3>1
  <2>4. \A i \in 0 .. k : i # 0 => i - 1 \in 0 .. k - 1
    BY <1>2
  <2>5. Rows(g, before, b, k)
    <3>1. \A i \in 0 .. k : (IF i = 0 THEN before ELSE Row(f[i - 1], b[i]))
                              = IF i = 0 THEN before ELSE Row(g[i - 1], b[i])
      BY <2>3, <2>4
    <3> QED BY <3>1 DEF Rows, Row
  <2> HIDE DEF g
  <2> QED BY <1>2, <2>5
<1> QED BY <1>3, <1>4

LEMMA ShownIs ==
    ASSUME NEW before, NEW b, NEW n \in Nat
    PROVE  \E f : Rows(f, before, b, n) /\ Dir!Shown(before, b, n) = f[n]
<1>1. \E f : Rows(f, before, b, n)
  BY RowsExist
<1>2. \E f : f = [i \in 0 .. n |-> IF i = 0 THEN before
                          ELSE IF Dir!Live(b[i]) THEN Append(f[i - 1], b[i]) ELSE f[i - 1]]
  BY <1>1 DEF Rows
<1> DEFINE g == CHOOSE f : f = [i \in 0 .. n |-> IF i = 0 THEN before
                          ELSE IF Dir!Live(b[i]) THEN Append(f[i - 1], b[i]) ELSE f[i - 1]]
<1>3. g = [i \in 0 .. n |-> IF i = 0 THEN before
                          ELSE IF Dir!Live(b[i]) THEN Append(g[i - 1], b[i]) ELSE g[i - 1]]
  BY <1>2
<1>4. Dir!Shown(before, b, n) = g[n]
  BY DEF Dir!Shown
<1> HIDE DEF g
<1> QED BY <1>3, <1>4 DEF Rows

\* The rows up to an entry are those before it and its own.
LEMMA ShownStep ==
    ASSUME NEW before, NEW b, NEW n \in Nat \ {0}
    PROVE  /\ Dir!Shown(before, b, 0) = before
           /\ Dir!Shown(before, b, n) = Row(Dir!Shown(before, b, n - 1), b[n])
<1>0. PICK e : Rows(e, before, b, 0) /\ Dir!Shown(before, b, 0) = e[0]
  BY ShownIs
<1>1. Dir!Shown(before, b, 0) = before
  BY <1>0 DEF Rows
<1>2. PICK f : Rows(f, before, b, n) /\ Dir!Shown(before, b, n) = f[n]
  BY ShownIs
<1>3. PICK g : Rows(g, before, b, n - 1) /\ Dir!Shown(before, b, n - 1) = g[n - 1]
  BY ShownIs
<1>4. \A i \in 0 .. n : f[i] = IF i = 0 THEN before ELSE Row(f[i - 1], b[i])
  BY <1>2 DEF Rows, Row
<1>5. \A i \in 0 .. n - 1 : g[i] = IF i = 0 THEN before ELSE Row(g[i - 1], b[i])
  BY <1>3 DEF Rows, Row
<1> DEFINE S == {i \in 0 .. n - 1 : f[i] # g[i]}
<1>6. ASSUME S # {} PROVE FALSE
  <2>1. PICK k \in S : \A j \in S : k <= j
    <3>1. S \subseteq Nat
      OBVIOUS
    <3> HIDE DEF S
    <3> QED BY <1>6, <3>1, Least
  <2>2. k \in 0 .. n - 1 /\ f[k] # g[k]
    BY <2>1
  <2>3. k # 0
    BY <1>4, <1>5, <2>2
  <2>4. k - 1 \in 0 .. n - 1 /\ k - 1 \notin S /\ k \in 0 .. n
    BY <2>1, <2>2, <2>3
  <2>5. f[k - 1] = g[k - 1]
    BY <2>4
  <2> QED BY <1>4, <1>5, <2>2, <2>3, <2>4, <2>5
<1>7. n - 1 \in 0 .. n - 1 /\ n \in 0 .. n /\ n # 0
  OBVIOUS
<1>8. f[n - 1] = g[n - 1]
  BY <1>6, <1>7
<1> QED BY <1>1, <1>2, <1>3, <1>4, <1>7, <1>8

\* What is shown of a cluster behind the clusters before it is what is shown of all.
LEMMA ShownOn ==
    ASSUME NEW z \in Nat, NEW c \in Nat, NEW b, NEW R, \A i \in 1 .. c : b[i] = R[z + i],
           NEW before, before = Dir!Shown(<<>>, R, z)
    PROVE  Dir!Shown(before, b, c) = Dir!Shown(<<>>, R, z + c)
<1> DEFINE S == {k \in 0 .. c : Dir!Shown(before, b, k) # Dir!Shown(<<>>, R, z + k)}
<1>1. ASSUME S # {} PROVE FALSE
  <2>1. PICK k \in S : \A j \in S : k <= j
    <3>1. S \subseteq Nat
      OBVIOUS
    <3> HIDE DEF S
    <3> QED BY <1>1, <3>1, Least
  <2>2. k \in 0 .. c /\ Dir!Shown(before, b, k) # Dir!Shown(<<>>, R, z + k)
    BY <2>1
  <2>3. k # 0
    <3>1. Dir!Shown(before, b, 0) = before
      <4>1. 1 \in Nat \ {0}
        OBVIOUS
      <4> QED BY <4>1, ShownStep
    <3>2. z + 0 = z
      OBVIOUS
    <3> QED BY <2>2, <3>1, <3>2
  <2>4. k - 1 \in 0 .. c /\ k - 1 \notin S /\ k \in 1 .. c /\ k \in Nat \ {0}
    BY <2>1, <2>2, <2>3
  <2>5. Dir!Shown(before, b, k - 1) = Dir!Shown(<<>>, R, z + (k - 1))
    BY <2>4
  <2>6. Dir!Shown(before, b, k) = Row(Dir!Shown(before, b, k - 1), b[k])
    BY <2>4, ShownStep
  <2>7. PICK m : m = z + k
    OBVIOUS
  <2>8. m \in Nat \ {0} /\ m - 1 = z + (k - 1)
    BY <2>4, <2>7
  <2>9. Dir!Shown(<<>>, R, m) = Row(Dir!Shown(<<>>, R, m - 1), R[m])
    BY <2>8, ShownStep
  <2>10. b[k] = R[m]
    BY <2>4, <2>7
  <2> QED BY <2>2, <2>5, <2>6, <2>7, <2>8, <2>9, <2>10
<1>2. c \in 0 .. c
  OBVIOUS
<1> QED BY <1>1, <1>2

-----------------------------------------------------------------------------
(* Steps that write one slot.                                              *)

\* The directory lets e be put in slot s of R.
Permits(R, s, e) ==
    \E n \in Names :
        \/ VacantIs(R, s) /\ NoneIs(R, n) /\ e = Dir!File(n, 0)
        \/ VacantIs(R, s) /\ e = Dir!Folder(n)
        \/ FirstIs(R, n, s) /\ R[s].kind = "file" /\ \E v \in 0 .. 1 : e = Dir!File(n, v)
        \/ FirstIs(R, n, s) /\ R[s].kind = "dir" /\ e = Dir!Blank("deleted")

LEMMA PermitsStep ==
    ASSUME DOMAIN root = Slots, NEW s, NEW e, Permits(root, s, e), root' = [root EXCEPT ![s] = e]
    PROVE  Dir!Next
<1>0. 0 \notin Slots
  BY SlotsAre
<1>1. PICK n \in Names :
        \/ VacantIs(root, s) /\ NoneIs(root, n) /\ e = Dir!File(n, 0)
        \/ VacantIs(root, s) /\ e = Dir!Folder(n)
        \/ FirstIs(root, n, s) /\ root[s].kind = "file" /\ \E v \in 0 .. 1 : e = Dir!File(n, v)
        \/ FirstIs(root, n, s) /\ root[s].kind = "dir" /\ e = Dir!Blank("deleted")
  BY DEF Permits
<1>2. CASE VacantIs(root, s) /\ NoneIs(root, n) /\ e = Dir!File(n, 0)
  <2>1. Dir!FirstNamed(n) = 0 /\ Dir!FirstVacant = s /\ s # 0
    BY <1>0, <1>2, NotNamedIs, FirstVacantIs DEF VacantIs
  <2>2. Dir!AddFile(n)
    BY <1>2, <2>1 DEF Dir!AddFile, Dir!Change
  <2> QED BY <2>2 DEF Dir!Next
<1>3. CASE VacantIs(root, s) /\ e = Dir!Folder(n)
  <2>1. Dir!FirstVacant = s /\ s # 0
    BY <1>0, <1>3, FirstVacantIs DEF VacantIs
  <2>2. Dir!AddDir(n)
    BY <1>3, <2>1 DEF Dir!AddDir, Dir!Change
  <2> QED BY <2>2 DEF Dir!Next
<1>4. CASE FirstIs(root, n, s) /\ root[s].kind = "file" /\ \E v \in 0 .. 1 : e = Dir!File(n, v)
  <2>1. Dir!FirstNamed(n) = s /\ s # 0
    BY <1>0, <1>4, NamedIs DEF FirstIs
  <2>2. PICK v \in 0 .. 1 : e = Dir!File(n, v)
    BY <1>4
  <2>3. Dir!SetFile(n, v)
    BY <1>4, <2>1, <2>2 DEF Dir!SetFile, Dir!Change
  <2> QED BY <2>1, <2>3 DEF Dir!Next
<1>5. CASE FirstIs(root, n, s) /\ root[s].kind = "dir" /\ e = Dir!Blank("deleted")
  <2>1. Dir!FirstNamed(n) = s /\ s # 0
    BY <1>0, <1>5, NamedIs DEF FirstIs
  <2>2. Dir!RemoveDir(n)
    BY <1>5, <2>1 DEF Dir!RemoveDir, Dir!Change
  <2> QED BY <2>1, <2>2 DEF Dir!Next
<1> QED BY <1>1, <1>2, <1>3, <1>4, <1>5

-----------------------------------------------------------------------------
(* The invariant.                                                          *)

\* The scan of a call o about name n stops at an entry.
Stops(o, n, e) == CASE o = "mkdir" -> Dir!Vacant(e)
                    [] o = "list"  -> e.kind = "end"
                    [] o = "find"  -> e.kind = "end" \/ (e.kind = "file" /\ e.name = n)
                    [] OTHER       -> e.kind = "end" \/ Called(e, n)

NoStop(R, o, n, m) == \A s \in Slots : s <= m => ~Stops(o, n, R[s])

\* z is the first vacant one of the slots up to m, or there is none.
FreeTo(R, z, m) == \/ z = 0 /\ NoVacant(R, m)
                   \/ z <= m /\ VacantIs(R, z)

\* x is what is shown of the entries up to m.
ShownTo(R, o, x, m) == o = "list" => x = Dir!Shown(<<>>, R, m)

\* Nothing of the name comes before the slot that is written, nor the end.
Behind(R, n, s) == \A t \in Slots : t < s => R[t].kind # "end" /\ ~Called(R[t], n)

\* The scan has come to its end at slot p, or at the end of the chain.
EndsAt(R, o, n, p) == /\ p \in Slots /\ Stops(o, n, R[p])
                      /\ \A s \in Slots : s < p => ~Stops(o, n, R[s])

RestHeld == /\ pc = "idle" => clus = 1 /\ hit = 0 /\ slot = 0 /\ out = <<>>
            /\ pc # "put" => sec = 1

ScanHeld == pc = "scan" /\ ~failed =>
               /\ NoStop(root, op, name, Start(clus))
               /\ FreeTo(root, slot, Start(clus)) /\ ShownTo(root, op, out, Start(clus))

FoundHeld == pc = "found" /\ ~failed =>
                /\ \A i \in Indices : buf[i] = root[SlotAt(clus, i)]
                /\ \/ /\ hit = 0 /\ NoStop(root, op, name, NumRoot * PerClus)
                      /\ FreeTo(root, slot, NumRoot * PerClus)
                      /\ ShownTo(root, op, out, NumRoot * PerClus)
                   \/ \E p : /\ EndsAt(root, op, name, p) /\ ClusterOf(p) = clus
                             /\ hit = IF Called(root[p], name) THEN p ELSE 0
                             /\ FreeTo(root, slot, p) /\ ShownTo(root, op, out, p)

\* The entry that is going to be stored goes where it should.
StoreHeld == pc = "store" /\ ~failed =>
                IF job.new THEN VacantIs(root, job.slot) /\ NoneIs(root, name) /\ job.val = 0
                ELSE FirstIs(root, name, job.slot) /\ root[job.slot].kind = "file"

BuildHeld == pc = "build" /\ ~failed =>
                FirstIs(root, name, job.slot) /\ root[job.slot].kind = "file"

\* The buffer is the cluster, but for the one entry.
PutAs(R, b, s, z) == \A i \in Indices : i # IndexOf(s) \/ SectorOf(i) < z => b[i] = R[SlotAt(ClusterOf(s), i)]

PutHeld == pc = "put" /\ ~failed =>
             /\ PutAs(root, buf, job.slot, sec)
             /\ \/ buf[IndexOf(job.slot)] = root[job.slot]
                \/ Permits(root, job.slot, buf[IndexOf(job.slot)])
             /\ job.ret = "build" => /\ \E v \in 0 .. 1 : buf[IndexOf(job.slot)] = Dir!File(name, v)
                                     /\ Behind(root, name, job.slot)

\* The calls that do not look at what their write returns put back their scan's buffer.
RetHeld == op \in {"mkdir", "rmdir"} => /\ pc \notin {"store", "build"}
                                        /\ pc = "put" => job.ret = "return"

DirHeld == Types /\ RestHeld /\ ScanHeld /\ FoundHeld /\ StoreHeld /\ BuildHeld /\ PutHeld /\ RetHeld

LEMMA StopsIs ==
    \A e : /\ Ends(e) <=> Stops(op, name, e)
           /\ IsNamed(e) <=> Called(e, name)
BY DEF Ends, Stops, IsNamed, Called

\* Of the slots up to one in cluster c, those beyond the clusters before it are in it.
LEMMA Within ==
    ASSUME NEW c \in 1 .. NumRoot, NEW s \in Slots, s > Start(c), NEW k \in Indices, s <= Start(c) + k
    PROVE  s - Start(c) \in Indices /\ s - Start(c) <= k /\ SlotAt(c, s - Start(c)) = s
<1>1. Start(c) \in Nat /\ s \in Nat /\ k \in 1 .. PerClus /\ PerClus \in Nat
  BY StartIs, SlotsAre, Sizes DEF Indices
<1>2. s - Start(c) \in Indices /\ s - Start(c) <= k
  BY <1>1 DEF Indices
<1>3. SlotAt(c, s - Start(c)) = Start(c) + (s - Start(c))
  BY <1>2, SlotIs
<1> QED BY <1>1, <1>2, <1>3

\* The first vacant slot, one cluster on.
LEMMA FreeOn ==
    ASSUME NEW c \in 1 .. NumRoot, c = clus, FreeTo(root, slot, Start(c)), NEW b, NEW k \in Indices,
           \A i \in Indices : b[i] = root[SlotAt(c, i)]
    PROVE  FreeTo(root, SlotAfter(b, k), Start(c) + k)
<1>0. /\ Start(c) \in Nat /\ k \in 1 .. PerClus /\ PerClus \in Nat
      /\ \A i \in Indices : SlotAt(c, i) = Start(c) + i /\ SlotAt(c, i) \in Slots /\ i \in Nat \ {0}
  BY StartIs, SlotIs, Sizes DEF Indices
<1>s. Slots \subseteq Nat \ {0}
  BY SlotsAre
<1> DEFINE free == {i \in 1 .. k : Dir!Vacant(b[i])}
<1>1. SlotAfter(b, k) = IF slot # 0 \/ free = {} THEN slot ELSE SlotAt(c, Min(free))
  BY DEF SlotAfter
<1>2. \A i \in 1 .. k : i \in Indices /\ i \in Nat
  BY <1>0 DEF Indices
<1>3. CASE slot # 0
  <2>1. VacantIs(root, slot) /\ slot <= Start(c) /\ slot \in Nat
    BY <1>s, <1>3 DEF FreeTo, VacantIs
  <2>2. slot <= Start(c) + k
    BY <1>0, <2>1
  <2> QED BY <1>1, <1>3, <2>1, <2>2 DEF FreeTo
<1>4. CASE slot = 0 /\ free = {}
  <2>1. NoVacant(root, Start(c))
    BY <1>0, <1>4, <1>s DEF FreeTo, VacantIs
  <2>2. NoVacant(root, Start(c) + k)
    <3> SUFFICES ASSUME NEW t \in Slots, t <= Start(c) + k, Dir!Vacant(root[t]) PROVE FALSE
      BY DEF NoVacant
    <3>1. t \in Nat /\ t > Start(c)
      BY <1>0, <1>s, <2>1 DEF NoVacant
    <3>2. PICK i : i = t - Start(c)
      OBVIOUS
    <3>3. i \in Indices /\ i <= k /\ SlotAt(c, i) = t
      BY <3>1, <3>2, Within
    <3>0. i >= 1
      BY <3>3, <1>0 DEF Indices
    <3>4. i \in 1 .. k
      BY <3>0, <3>1, <3>2, <1>0
    <3> QED BY <1>4, <3>3, <3>4
  <2> QED BY <1>1, <1>4, <2>2 DEF FreeTo
<1>5. CASE slot = 0 /\ free # {}
  <2>1. free \subseteq Nat
    BY <1>2
  <2>2. PICK i : i = Min(free)
    OBVIOUS
  <2>3. i \in free /\ \A j \in free : i <= j
    <3> HIDE DEF free
    <3> QED BY <1>5, <2>1, <2>2, MinIs
  <2>4. i \in 1 .. k /\ i \in Indices /\ Dir!Vacant(b[i]) /\ \A j \in 1 .. k : Dir!Vacant(b[j]) => i <= j
    BY <1>2, <2>3
  <2>5. PICK z : z = SlotAt(c, i)
    OBVIOUS
  <2>6. SlotAfter(b, k) = z /\ z \in Slots /\ z = Start(c) + i /\ Dir!Vacant(root[z]) /\ z \in Nat
    BY <1>0, <1>1, <1>5, <2>2, <2>4, <2>5, <1>s
  <2>7. NoVacant(root, Start(c))
    BY <1>0, <1>5, <1>s DEF FreeTo, VacantIs
  <2>8. ASSUME NEW t \in Slots, t < z, Dir!Vacant(root[t]) PROVE FALSE
    <3>1. t \in Nat /\ t > Start(c) /\ t <= Start(c) + k
      BY <1>0, <1>s, <2>4, <2>6, <2>7, <2>8 DEF NoVacant
    <3>2. PICK j : j = t - Start(c)
      OBVIOUS
    <3>3. j \in Indices /\ j <= k /\ SlotAt(c, j) = t
      BY <3>1, <3>2, Within
    <3>4. j \in 1 .. k /\ Dir!Vacant(b[j])
      <4>0. j >= 1
        BY <3>3, <1>0 DEF Indices
      <4>1. j \in 1 .. k
        BY <4>0, <3>1, <3>2, <1>0
      <4>2. b[j] = root[t]
        BY <3>3
      <4> QED BY <2>8, <4>1, <4>2
    <3>5. i <= j /\ j < i
      BY <1>0, <2>4, <2>6, <2>8, <3>1, <3>2, <3>4
    <3> QED BY <1>0, <2>4, <3>4, <3>5
  <2>9. z <= Start(c) + k
    BY <1>0, <2>4, <2>6
  <2> QED BY <2>6, <2>8, <2>9 DEF FreeTo, VacantIs
<1> QED BY <1>3, <1>4, <1>5

\* The entries that do not stop the scan, one cluster on.
LEMMA StopOn ==
    ASSUME NEW c \in 1 .. NumRoot, NEW o, NEW n, NoStop(root, o, n, Start(c)), NEW b, NEW k \in Indices,
           \A i \in Indices : b[i] = root[SlotAt(c, i)],
           \A i \in Indices : i < k => ~Stops(o, n, b[i])
    PROVE  \A s \in Slots : s < Start(c) + k => ~Stops(o, n, root[s])
<1> SUFFICES ASSUME NEW s \in Slots, s < Start(c) + k, Stops(o, n, root[s]) PROVE FALSE
  OBVIOUS
<1>0. Start(c) \in Nat /\ k \in 1 .. PerClus /\ PerClus \in Nat /\ s \in Nat
  BY StartIs, Sizes, SlotsAre DEF Indices
<1>1. s > Start(c) /\ s <= Start(c) + k
  BY <1>0 DEF NoStop
<1>2. PICK i : i = s - Start(c)
  OBVIOUS
<1>3. i \in Indices /\ i <= k /\ SlotAt(c, i) = s
  BY <1>1, <1>2, Within
<1>4. i < k
  BY <1>0, <1>2, <1>3
<1> QED BY <1>3, <1>4

\* One turn of the loop over clusters.
LEMMA ScanTyped ==
    ASSUME DirHeld, Scan
    PROVE  Types'
<1>1. PICK lost \in SUBSET (1 .. SecPerClus), junk \in Leftovers, next \in 0 .. NumRoot :
        LET b     == read_cluster(clus, lost, junk)
            ends  == {i \in Indices : Ends(b[i])}
            stop  == IF ends = {} THEN PerClus ELSE Min(ends)
            right == IF clus = NumRoot \/ ends # {} THEN 0 ELSE clus + 1
        IN /\ Fail(Cardinality(lost) + IF next # right THEN 1 ELSE 0)
           /\ buf' = b
           /\ slot' = SlotAfter(b, stop)
           /\ hit' = IF ends # {} /\ IsNamed(b[stop]) THEN SlotAt(clus, stop) ELSE 0
           /\ pc' = IF next = 0 THEN "found" ELSE "scan"
           /\ clus' = IF next = 0 THEN clus ELSE next
  BY DEF Scan
<1> DEFINE b     == read_cluster(clus, lost, junk)
           ends  == {i \in Indices : Ends(b[i])}
           stop  == IF ends = {} THEN PerClus ELSE Min(ends)
           right == IF clus = NumRoot \/ ends # {} THEN 0 ELSE clus + 1
           free  == {i \in 1 .. stop : Dir!Vacant(b[i])}
<1>2. Types /\ clus \in 1 .. NumRoot /\ pc = "scan" /\ UNCHANGED <<root, op, name, job, sec>>
  BY DEF DirHeld, Types, Scan
<1>3. b \in [Indices -> Entries]
  BY <1>2, ReadTyped
<1>4. ends \subseteq Nat /\ ends \subseteq Indices /\ PerClus \in Nat \ {0}
  BY Sizes DEF Indices
<1>5. /\ Fail(Cardinality(lost) + IF next # right THEN 1 ELSE 0)
      /\ buf' = b
      /\ slot' = SlotAfter(b, stop)
      /\ hit' = IF ends # {} /\ IsNamed(b[stop]) THEN SlotAt(clus, stop) ELSE 0
      /\ pc' = IF next = 0 THEN "found" ELSE "scan"
      /\ clus' = IF next = 0 THEN clus ELSE next
  BY <1>1
<1> HIDE DEF b, ends, right
<1>6. stop \in Indices /\ stop \in 1 .. PerClus
  <2>1. ends # {} => Min(ends) \in Indices
    BY <1>4, MinIs
  <2>2. PerClus \in Indices
    BY <1>4 DEF Indices
  <2> QED BY <2>1, <2>2 DEF Indices
<1>7. SlotAfter(b, stop) \in Slots \cup {0}
  <2>1. free \subseteq Indices /\ free \subseteq Nat
    BY <1>4, <1>6 DEF Indices
  <2>2. free # {} => Min(free) \in free
    <3> HIDE DEF free
    <3> QED BY <2>1, MinIs
  <2>3. free # {} => SlotAt(clus, Min(free)) \in Slots
    <3>1. free # {} => Min(free) \in Indices
      BY <2>1, <2>2
    <3> QED BY <3>1, <1>2, SlotIs
  <2>4. SlotAfter(b, stop) = IF slot # 0 \/ free = {} THEN slot ELSE SlotAt(clus, Min(free))
    BY DEF SlotAfter
  <2> HIDE DEF free
  <2> QED BY <2>3, <2>4, <1>2 DEF Types
<1>8. SlotAt(clus, stop) \in Slots
  BY <1>2, <1>6, SlotIs
<1>9. failed' \in BOOLEAN /\ bad' \in Nat
  <2>1. Cardinality(lost) \in Nat
    BY LostCount
  <2> DEFINE m == Cardinality(lost) + IF next # right THEN 1 ELSE 0
  <2>2. m \in Int /\ m >= 0
    BY <2>1
  <2>3. Fail(m)
    BY <1>5
  <2> HIDE DEF m
  <2> QED BY <1>2, <2>2, <2>3, FailTyped
<1> HIDE DEF stop
<1>10. pc' \in {"found", "scan"} /\ clus' \in 1 .. NumRoot
  BY <1>2, <1>5, Sizes
<1> QED BY <1>2, <1>3, <1>5, <1>7, <1>8, <1>9, <1>10 DEF Types

\* What a turn of it leaves when its reads have not failed.
LEMMA ScanWell ==
    ASSUME DirHeld, Scan, ~failed'
    PROVE  /\ ScanHeld' /\ FoundHeld'
<1>1. PICK lost \in SUBSET (1 .. SecPerClus), junk \in Leftovers, next \in 0 .. NumRoot :
        LET b     == read_cluster(clus, lost, junk)
            ends  == {i \in Indices : Ends(b[i])}
            stop  == IF ends = {} THEN PerClus ELSE Min(ends)
            right == IF clus = NumRoot \/ ends # {} THEN 0 ELSE clus + 1
        IN /\ Fail(Cardinality(lost) + IF next # right THEN 1 ELSE 0)
           /\ buf' = b
           /\ slot' = SlotAfter(b, stop)
           /\ hit' = IF ends # {} /\ IsNamed(b[stop]) THEN SlotAt(clus, stop) ELSE 0
           /\ out' = IF op = "list" THEN Dir!Shown(out, b, stop) ELSE out
           /\ pc' = IF next = 0 THEN "found" ELSE "scan"
           /\ clus' = IF next = 0 THEN clus ELSE next
  BY DEF Scan
<1> DEFINE b     == read_cluster(clus, lost, junk)
           ends  == {i \in Indices : Ends(b[i])}
           stop  == IF ends = {} THEN PerClus ELSE Min(ends)
           right == IF clus = NumRoot \/ ends # {} THEN 0 ELSE clus + 1
           z     == Start(clus)
<1>2. /\ Types /\ clus \in 1 .. NumRoot /\ clus \in Nat /\ pc = "scan" /\ NumRoot \in Nat
      /\ UNCHANGED <<root, op, name, job, sec>> /\ failed \in BOOLEAN
  BY Sizes DEF DirHeld, Types, Scan
<1>3. /\ Fail(Cardinality(lost) + IF next # right THEN 1 ELSE 0)
      /\ buf' = b
      /\ slot' = SlotAfter(b, stop)
      /\ hit' = IF ends # {} /\ IsNamed(b[stop]) THEN SlotAt(clus, stop) ELSE 0
      /\ out' = IF op = "list" THEN Dir!Shown(out, b, stop) ELSE out
      /\ pc' = IF next = 0 THEN "found" ELSE "scan"
      /\ clus' = IF next = 0 THEN clus ELSE next
  BY <1>1
<1>4. ~failed /\ lost = {} /\ next = right
  <2> DEFINE m == IF next # right THEN 1 ELSE 0
  <2>1. m \in Nat /\ (m = 0 => next = right)
    OBVIOUS
  <2>2. Fail(Cardinality(lost) + m)
    BY <1>3
  <2> HIDE DEF m
  <2>3. ~failed' => ~failed /\ lost = {} /\ m = 0
    BY <1>2, <2>1, <2>2, ReadWell
  <2> QED BY <2>1, <2>3
<1>5. \A i \in Indices : b[i] = root[SlotAt(clus, i)]
  BY <1>4, ReadGives
<1>6. /\ NoStop(root, op, name, z) /\ FreeTo(root, slot, z) /\ ShownTo(root, op, out, z)
  BY <1>2, <1>4 DEF DirHeld, ScanHeld
<1>7. ends \subseteq Nat /\ ends \subseteq Indices /\ PerClus \in Nat \ {0}
  BY Sizes DEF Indices
<1>8. \A i \in Indices : (i \in ends <=> Stops(op, name, b[i]))
  BY StopsIs
<1> HIDE DEF b, ends
<1>9. /\ stop \in Indices /\ stop \in 1 .. PerClus /\ (ends # {} => stop \in ends)
      /\ \A i \in Indices : i < stop => i \notin ends
  <2>1. CASE ends = {}
    BY <1>7, <2>1 DEF Indices
  <2>2. CASE ends # {}
    <3>1. Min(ends) \in ends /\ \A i \in ends : Min(ends) <= i
      BY <1>7, <2>2, MinIs
    <3>2. stop = Min(ends)
      BY <2>2
    <3>3. \A i \in Indices : i < stop => i \notin ends
      <4>1. PICK m : m = Min(ends)
        OBVIOUS
      <4>2. m \in Nat /\ stop = m /\ \A i \in ends : m <= i
        BY <1>7, <3>1, <3>2, <4>1
      <4>3. \A i \in Indices : i \in Nat
        BY DEF Indices
      <4> HIDE DEF stop
      <4> QED BY <4>2, <4>3
    <3> QED BY <1>7, <3>1, <3>2, <3>3 DEF Indices
  <2> QED BY <2>1, <2>2
<1>10. /\ z \in Nat /\ z + PerClus <= NumRoot * PerClus /\ Start(clus + 1) = z + PerClus
       /\ (clus = NumRoot => z + PerClus = NumRoot * PerClus) /\ NumRoot * PerClus \in Nat
  BY <1>2, StartIs, Sizes
<1>11. FreeTo(root, slot', z + stop)
  BY <1>2, <1>3, <1>5, <1>6, <1>9, FreeOn
<1>12. \A s \in Slots : s < z + stop => ~Stops(op, name, root[s])
  BY <1>2, <1>5, <1>6, <1>8, <1>9, StopOn
<1>13. ShownTo(root, op, out', z + stop)
  <2> SUFFICES ASSUME op = "list" PROVE out' = Dir!Shown(<<>>, root, z + stop)
    BY DEF ShownTo
  <2>1. out = Dir!Shown(<<>>, root, z)
    BY <1>6 DEF ShownTo
  <2>2. \A i \in 1 .. stop : b[i] = root[z + i]
    <3>1. \A i \in 1 .. stop : i \in Indices
      BY <1>7, <1>9 DEF Indices
    <3>2. \A i \in Indices : SlotAt(clus, i) = z + i
      BY <1>2, StartIs
    <3> QED BY <1>5, <3>1, <3>2
  <2>3. stop \in Nat
    BY <1>9
  <2>4. Dir!Shown(out, b, stop) = Dir!Shown(<<>>, root, z + stop)
    <3> HIDE DEF stop, z
    <3> QED BY <1>10, <2>1, <2>2, <2>3, ShownOn
  <2> QED BY <1>3, <2>4
<1>14. CASE ends = {}
  <2>1. stop = PerClus /\ hit' = 0
    BY <1>3, <1>14
  <2>2. NoStop(root, op, name, z + PerClus)
    <3> SUFFICES ASSUME NEW s \in Slots, s <= z + PerClus, Stops(op, name, root[s]) PROVE FALSE
      BY DEF NoStop
    <3>1. s = z + PerClus
      BY <1>7, <1>10, <1>12, <2>1, SlotsAre
    <3>2. PerClus \in Indices /\ SlotAt(clus, PerClus) = s
      BY <1>2, <1>9, <2>1, <3>1, StartIs
    <3> QED BY <1>5, <1>8, <1>14, <3>2
  <2>3. CASE clus = NumRoot
    <3>1. pc' = "found" /\ clus' = clus
      BY <1>3, <1>4, <2>3
    <3> HIDE DEF z, stop
    <3> QED BY <1>2, <1>3, <1>5, <1>10, <1>11, <1>13, <2>1, <2>2, <2>3, <3>1 DEF ScanHeld, FoundHeld
  <2>4. CASE clus # NumRoot
    <3>1. pc' = "scan" /\ clus' = clus + 1
      BY <1>2, <1>3, <1>4, <1>14, <2>4
    <3>2. Start(clus)' = z + PerClus
      <4>1. Start(clus)' = Start(clus')
        BY DEF Start
      <4> QED BY <1>10, <3>1, <4>1
    <3> HIDE DEF z, stop
    <3> QED BY <1>2, <1>11, <1>13, <2>1, <2>2, <3>1, <3>2 DEF ScanHeld, FoundHeld
  <2> QED BY <2>3, <2>4
<1>15. CASE ends # {}
  <2>1. pc' = "found" /\ clus' = clus
    BY <1>3, <1>4, <1>15
  <2>2. PICK p : p = SlotAt(clus, stop)
    OBVIOUS
  <2>3. p = z + stop /\ p \in Slots /\ ClusterOf(p) = clus /\ b[stop] = root[p]
    BY <1>2, <1>5, <1>9, <2>2, SlotIs
  <2>4. Stops(op, name, root[p])
    BY <1>8, <1>9, <1>15, <2>3
  <2>5. hit' = IF Called(root[p], name) THEN p ELSE 0
    BY <1>3, <1>15, <2>2, <2>3, StopsIs
  <2>6. EndsAt(root, op, name, p)
    BY <1>12, <2>3, <2>4 DEF EndsAt
  <2>7. ClusterOf(p) = clus'
    BY <2>1, <2>3
  <2> HIDE DEF z, stop
  <2>8. FoundHeld'
    BY <1>2, <1>3, <1>5, <1>11, <1>13, <2>1, <2>3, <2>5, <2>6, <2>7 DEF FoundHeld
  <2> QED BY <2>1, <2>8 DEF ScanHeld
<1> QED BY <1>14, <1>15

LEMMA ScanKeeps == ASSUME DirHeld, Scan PROVE DirHeld'
<1>1. pc' \in {"scan", "found"} /\ sec' = sec /\ sec = 1
  BY DEF Scan, DirHeld, RestHeld
<1>2. Types'
  BY ScanTyped
<1>3. failed' \in BOOLEAN
  BY <1>2 DEF Types
<1>4. ScanHeld' /\ FoundHeld'
  <2>1. CASE failed'
    BY <2>1 DEF ScanHeld, FoundHeld
  <2>2. CASE ~failed'
    BY <2>2, ScanWell
  <2> QED BY <2>1, <2>2
<1> QED BY <1>1, <1>2, <1>4 DEF DirHeld, RestHeld, StoreHeld, BuildHeld, PutHeld, RetHeld

\* A call begins.
LEMMA CallKeeps == ASSUME DirHeld, NEW o, NEW n \in Names, Call(o, n), n = name' PROVE DirHeld'
<1>1. /\ pc = "idle" /\ pc' = "scan" /\ op' = o /\ name' = n
      /\ UNCHANGED <<root, buf, clus, hit, slot, out, job, sec, failed, bad>>
      /\ clus = 1 /\ slot = 0 /\ out = <<>> /\ sec = 1 /\ Types
  BY DEF Call, DirHeld, RestHeld
<1>2. Start(1) = 0 /\ \A s \in Slots : ~(s <= 0)
  <2>1. Start(1) = 0
    <3>1. 1 \in 1 .. NumRoot
      BY Sizes
    <3> QED BY <3>1, StartIs
  <2>2. Slots \subseteq Nat \ {0}
    BY SlotsAre
  <2> QED BY <2>1, <2>2
<1>3. Dir!Shown(<<>>, root, 0) = <<>>
  <2>1. 1 \in Nat \ {0}
    OBVIOUS
  <2> QED BY <2>1, ShownStep
<1>4. Types'
  BY <1>1 DEF Types
<1>5. ScanHeld'
  <2>1. Start(clus)' = 0
    BY <1>1, <1>2 DEF Start
  <2> QED BY <1>1, <1>2, <1>3, <2>1 DEF ScanHeld, NoStop, FreeTo, NoVacant, ShownTo
<1> QED BY <1>1, <1>4, <1>5 DEF DirHeld, RestHeld, FoundHeld, StoreHeld, BuildHeld, PutHeld, RetHeld

LEMMA RequestKeeps == ASSUME DirHeld, Request PROVE DirHeld'
<1>1. PICK n \in Names, o \in {"create", "write", "append", "mkdir", "rmdir", "find", "list"} : Call(o, n)
  BY DEF Request, fat32_list_files, fs_create_file, fs_write_file, fs_append_file, make_dir, remove_dir, fs_find_file
<1>2. n = name'
  BY <1>1 DEF Call
<1> QED BY <1>1, <1>2, CallKeeps

\* An append of a file without clusters scans again.
LEMMA AgainKeeps == ASSUME DirHeld, AppendWrites PROVE DirHeld'
<1>1. /\ pc = "found" /\ pc' = "scan" /\ op' = "write" /\ clus' = 1 /\ hit' = 0 /\ slot' = 0
      /\ UNCHANGED <<root, name, buf, out, job, sec, failed, bad>> /\ sec = 1 /\ Types
  BY DEF AppendWrites, DirHeld, RestHeld
<1>2. Start(1) = 0 /\ \A s \in Slots : ~(s <= 0)
  <2>1. Start(1) = 0
    <3>1. 1 \in 1 .. NumRoot
      BY Sizes
    <3> QED BY <3>1, StartIs
  <2>2. Slots \subseteq Nat \ {0}
    BY SlotsAre
  <2> QED BY <2>1, <2>2
<1>3. 1 \in 1 .. NumRoot
  BY Sizes
<1>4. Types'
  BY <1>1, <1>3 DEF Types
<1>5. ScanHeld'
  <2>1. Start(clus)' = 0
    BY <1>1, <1>2 DEF Start
  <2> QED BY <1>1, <1>2, <2>1 DEF ScanHeld, NoStop, FreeTo, NoVacant, ShownTo
<1> QED BY <1>1, <1>4, <1>5 DEF DirHeld, RestHeld, FoundHeld, StoreHeld, BuildHeld, PutHeld, RetHeld

LEMMA ForgetKeeps == ASSUME DirHeld, Forget PROVE DirHeld'
<1>1. /\ pc' = "idle" /\ buf' = [i \in Indices |-> Junk] /\ clus' = 1 /\ hit' = 0 /\ slot' = 0
      /\ out' = <<>> /\ job' = NoJob /\ sec' = 1 /\ failed' = FALSE /\ UNCHANGED <<root, bad>> /\ Types
  BY DEF Forget, DirHeld
<1>2. 1 \in 1 .. NumRoot /\ 1 \in 1 .. SecPerClus
  BY Sizes
<1>3. Types'
  BY <1>1, <1>2, EntriesAre DEF Types
<1> QED BY <1>1, <1>3 DEF DirHeld, RestHeld, ScanHeld, FoundHeld, StoreHeld, BuildHeld, PutHeld, RetHeld

-----------------------------------------------------------------------------
(* What a call does with what it has found.                                *)

\* The first entry of a name, for calls that look at files and directories.
LEMMA FoundNamed ==
    ASSUME DirHeld, pc = "found", ~failed, op \notin {"mkdir", "list", "find"}
    PROVE  (hit # 0 /\ FirstIs(root, name, hit)) \/ (hit = 0 /\ NoneIs(root, name))
<1>s. Slots \subseteq Nat \ {0} /\ \A s \in Slots : s <= NumRoot * PerClus
  <2>1. Slots \subseteq Nat \ {0}
    BY SlotsAre
  <2> QED BY <2>1 DEF Slots
<1>1. \A e : Stops(op, name, e) <=> e.kind = "end" \/ Called(e, name)
  BY DEF Stops
<1>2. CASE hit = 0 /\ NoStop(root, op, name, NumRoot * PerClus)
  BY <1>s, <1>1, <1>2 DEF NoStop, NoneIs
<1>3. ASSUME NEW p, EndsAt(root, op, name, p), hit = IF Called(root[p], name) THEN p ELSE 0
      PROVE  (hit # 0 /\ FirstIs(root, name, hit)) \/ (hit = 0 /\ NoneIs(root, name))
  <2>1. /\ p \in Slots /\ p \in Nat \ {0} /\ (root[p].kind = "end" \/ Called(root[p], name))
        /\ \A s \in Slots : s < p => root[s].kind # "end" /\ ~Called(root[s], name)
    BY <1>s, <1>1, <1>3 DEF EndsAt
  <2>2. \A s \in Slots : s <= p => s < p \/ s = p
    BY <1>s, <2>1
  <2>3. CASE Called(root[p], name)
    <3>1. root[p].kind # "end"
      BY <2>3 DEF Called, Dir!Live
    <3> QED BY <1>3, <2>1, <2>2, <2>3, <3>1 DEF FirstIs
  <2>4. CASE ~Called(root[p], name)
    <3>1. \A s \in Slots : Called(root[s], name) => ~(s < p)
      BY <2>1
    <3>2. \A s \in Slots : ~(s < p) => p <= s
      BY <1>s, <2>1
    <3> QED BY <1>3, <2>1, <2>4, <3>1, <3>2 DEF NoneIs
  <2> QED BY <2>3, <2>4
<1> QED BY <1>2, <1>3 DEF DirHeld, FoundHeld

\* The first vacant slot, for calls that look for one.
LEMMA FoundVacant ==
    ASSUME DirHeld, pc = "found", ~failed, op \notin {"list", "find"}, hit = 0
    PROVE  (slot # 0 /\ VacantIs(root, slot)) \/ (slot = 0 /\ \A s \in Slots : ~Dir!Vacant(root[s]))
<1>s. Slots \subseteq Nat \ {0} /\ \A s \in Slots : s <= NumRoot * PerClus
  <2>1. Slots \subseteq Nat \ {0}
    BY SlotsAre
  <2> QED BY <2>1 DEF Slots
<1>1. \A e : Stops(op, name, e) => Dir!Vacant(e) \/ Called(e, name)
  BY DEF Stops, Dir!Vacant
<1>2. CASE FreeTo(root, slot, NumRoot * PerClus)
  BY <1>s, <1>2 DEF FreeTo, NoVacant, VacantIs
<1>3. ASSUME NEW p, EndsAt(root, op, name, p), hit = (IF Called(root[p], name) THEN p ELSE 0), FreeTo(root, slot, p)
      PROVE  slot # 0 /\ VacantIs(root, slot)
  <2>1. p \in Slots /\ p # 0 /\ Stops(op, name, root[p])
    BY <1>s, <1>3 DEF EndsAt
  <2>2. Dir!Vacant(root[p])
    BY <1>1, <1>3, <2>1
  <2>3. p <= p
    BY <1>s, <2>1
  <2> QED BY <1>s, <1>3, <2>1, <2>2, <2>3 DEF FreeTo, NoVacant, VacantIs
<1> QED BY <1>2, <1>3 DEF DirHeld, FoundHeld

\* The buffer still has the cluster of what was found.
LEMMA FoundHere ==
    ASSUME DirHeld, pc = "found", ~failed
    PROVE  hit # 0 => hit \in Slots /\ ClusterOf(hit) = clus /\ hit_entry = root[hit]
<1>1. CASE hit # 0
  <2>1. hit \in Slots /\ ClusterOf(hit) = clus
    BY <1>1 DEF DirHeld, FoundHeld, Types
  <2>2. IndexOf(hit) \in Indices /\ SlotAt(ClusterOf(hit), IndexOf(hit)) = hit
    BY <2>1, PlaceIs
  <2>3. \A i \in Indices : buf[i] = root[SlotAt(clus, i)]
    BY DEF DirHeld, FoundHeld
  <2>4. buf[IndexOf(hit)] = root[hit]
    BY <2>1, <2>2, <2>3
  <2> QED BY <2>1, <2>4 DEF hit_entry
<1> QED BY <1>1

LEMMA DoneKeeps == ASSUME DirHeld, pc \in {"found", "build"}, Done, UNCHANGED <<root, call, clus, sec, failed, bad>>
                   PROVE  DirHeld'
<1>1. /\ pc' = "return" /\ UNCHANGED <<buf, job, root, op, name, hit, slot, out, clus, sec, failed, bad>>
      /\ sec = 1 /\ Types /\ pc # "idle"
  BY DEF Done, call, DirHeld, RestHeld
<1>2. Types'
  BY <1>1 DEF Types
<1> QED BY <1>1, <1>2 DEF DirHeld, RestHeld, ScanHeld, FoundHeld, StoreHeld, BuildHeld, PutHeld, RetHeld

\* A call goes on to store an entry, a new one or the size of the first of its name.
LEMMA StoreKeeps ==
    ASSUME DirHeld, pc = "found", Keep, NEW s \in Slots, NEW new \in BOOLEAN, NEW ret \in {"return", "build"},
           Store(s, new, 0, ret), op \notin {"mkdir", "rmdir"},
           ~failed => IF new THEN VacantIs(root, s) /\ NoneIs(root, name)
                      ELSE FirstIs(root, name, s) /\ root[s].kind = "file"
    PROVE  DirHeld'
<1>1. /\ pc' = "store" /\ job' = [slot |-> s, new |-> new, val |-> 0, ret |-> ret]
      /\ UNCHANGED <<buf, root, op, name, hit, slot, out, clus, sec, failed, bad>>
      /\ sec = 1 /\ Types
  BY DEF Store, Keep, call, DirHeld, RestHeld
<1>2. job' \in Jobs /\ job'.slot = s /\ job'.new = new /\ job'.val = 0
  BY <1>1 DEF Jobs
<1>3. Types'
  BY <1>1, <1>2 DEF Types
<1>4. StoreHeld'
  BY <1>1, <1>2 DEF StoreHeld
<1> QED BY <1>1, <1>3, <1>4 DEF DirHeld, RestHeld, ScanHeld, FoundHeld, BuildHeld, PutHeld, RetHeld

LEMMA NoJobIs == \A s \in Slots : /\ [NoJob EXCEPT !.slot = s] \in Jobs
                                  /\ [NoJob EXCEPT !.slot = s].slot = s
                                  /\ [NoJob EXCEPT !.slot = s].ret = "return"
<1> SUFFICES ASSUME NEW s \in Slots
             PROVE  /\ [NoJob EXCEPT !.slot = s] \in Jobs
                    /\ [NoJob EXCEPT !.slot = s].slot = s
                    /\ [NoJob EXCEPT !.slot = s].ret = "return"
  OBVIOUS
<1>1. \A j \in Jobs : [j EXCEPT !.slot = s] \in Jobs
  BY DEF Jobs
<1>2. [NoJob EXCEPT !.slot = s] \in Jobs
  BY <1>1, EntriesAre
<1>3. [NoJob EXCEPT !.slot = s].slot = s /\ [NoJob EXCEPT !.slot = s].ret = "return"
  BY DEF NoJob
<1> QED BY <1>2, <1>3

\* A call puts back the cluster that its scan ended in, one entry changed.
LEMMA PutBackKeeps ==
    ASSUME DirHeld, pc = "found", Keep, NEW s \in Slots, NEW e \in Entries, PutBack(s, e),
           ~failed => ClusterOf(s) = clus /\ Permits(root, s, e)
    PROVE  DirHeld'
<1>1. /\ pc' = "put" /\ buf' = [buf EXCEPT ![IndexOf(s)] = e] /\ job' = [NoJob EXCEPT !.slot = s]
      /\ UNCHANGED <<root, op, name, hit, slot, out, clus, sec, failed, bad>>
      /\ sec = 1 /\ Types
  BY DEF PutBack, Keep, call, DirHeld, RestHeld
<1>2. job' \in Jobs /\ job'.slot = s /\ job'.ret = "return"
  BY NoJobIs, <1>1
<1>3. IndexOf(s) \in Indices
  BY PlaceIs
<1>4. Types'
  BY <1>1, <1>2, <1>3 DEF Types
<1>5. buf'[IndexOf(s)] = e /\ \A i \in Indices : i # IndexOf(s) => buf'[i] = buf[i]
  BY <1>1, <1>3 DEF Types
<1>6. ASSUME ~failed' PROVE PutHeld'
  <2>1. ~failed /\ ClusterOf(s) = clus /\ Permits(root, s, e)
    BY <1>1, <1>6
  <2>2. \A i \in Indices : buf[i] = root[SlotAt(clus, i)]
    BY <2>1 DEF DirHeld, FoundHeld
  <2>3. \A i \in Indices : ~(SectorOf(i) < 1)
    BY SectorIs
  <2>4. PutAs(root, buf', s, 1)
    BY <1>5, <2>1, <2>2, <2>3 DEF PutAs
  <2> QED BY <1>1, <1>2, <1>5, <2>1, <2>4 DEF PutHeld
<1> QED BY <1>1, <1>2, <1>4, <1>6 DEF DirHeld, RestHeld, ScanHeld, FoundHeld, StoreHeld, BuildHeld, PutHeld, RetHeld

LEMMA HitSlot == DirHeld => /\ hit # 0 => hit \in Slots
                            /\ slot # 0 => slot \in Slots
                            /\ pc = "found" => name \in Names
BY DEF DirHeld, Types

LEMMA KindOfHit ==
    ASSUME DirHeld, pc = "found", ~failed, hit # 0, op \notin {"mkdir", "list", "find"}, hit_entry.kind # "dir"
    PROVE  FirstIs(root, name, hit) /\ root[hit].kind = "file"
<1>1. FirstIs(root, name, hit) /\ hit_entry = root[hit]
  BY FoundNamed, FoundHere
<1> QED BY <1>1 DEF FirstIs, Called, Dir!Live

LEMMA CreateKeeps == ASSUME DirHeld, Create PROVE DirHeld'
<1>1. /\ pc = "found" /\ op = "create" /\ Keep
      /\ \/ Done
         \/ hit = 0 /\ slot # 0 /\ Store(slot, TRUE, 0, "return")
  BY DEF Create
<1>2. CASE Done
  BY <1>1, <1>2, DoneKeeps DEF Keep
<1>3. CASE hit = 0 /\ slot # 0 /\ Store(slot, TRUE, 0, "return")
  <2>1. ~failed => VacantIs(root, slot) /\ NoneIs(root, name)
    BY <1>1, <1>3, FoundNamed, FoundVacant
  <2> QED BY <1>1, <1>3, <2>1, HitSlot, StoreKeeps
<1> QED BY <1>1, <1>2, <1>3

LEMMA WriteKeeps == ASSUME DirHeld, Write PROVE DirHeld'
<1>1. /\ pc = "found" /\ op = "write" /\ Keep
      /\ \/ Done
         \/ hit # 0 /\ hit_entry.kind # "dir" /\ Store(hit, FALSE, 0, "build")
         \/ hit = 0 /\ slot # 0 /\ Store(slot, TRUE, 0, "build")
  BY DEF Write
<1>2. CASE Done
  BY <1>1, <1>2, DoneKeeps DEF Keep
<1>3. CASE hit = 0 /\ slot # 0 /\ Store(slot, TRUE, 0, "build")
  <2>1. ~failed => VacantIs(root, slot) /\ NoneIs(root, name)
    BY <1>1, <1>3, FoundNamed, FoundVacant
  <2> QED BY <1>1, <1>3, <2>1, HitSlot, StoreKeeps
<1>4. CASE hit # 0 /\ hit_entry.kind # "dir" /\ Store(hit, FALSE, 0, "build")
  <2>1. ~failed => FirstIs(root, name, hit) /\ root[hit].kind = "file"
    BY <1>1, <1>4, KindOfHit
  <2> QED BY <1>1, <1>4, <2>1, HitSlot, StoreKeeps
<1> QED BY <1>1, <1>2, <1>3, <1>4

LEMMA AppendKeeps == ASSUME DirHeld, Append_ PROVE DirHeld'
<1>1. /\ pc = "found" /\ op = "append" /\ hit # 0 /\ Keep
      /\ \/ Done
         \/ hit_entry.kind # "dir" /\ pc' = "build" /\ job' = [NoJob EXCEPT !.slot = hit] /\ UNCHANGED buf
  BY DEF Append_
<1>2. CASE Done
  BY <1>1, <1>2, DoneKeeps DEF Keep
<1>3. CASE hit_entry.kind # "dir" /\ pc' = "build" /\ job' = [NoJob EXCEPT !.slot = hit] /\ UNCHANGED buf
  <2>1. ~failed => FirstIs(root, name, hit) /\ root[hit].kind = "file"
    BY <1>1, <1>3, KindOfHit
  <2>2. /\ UNCHANGED <<buf, root, op, name, hit, slot, out, clus, sec, failed, bad>>
        /\ sec = 1 /\ Types /\ hit \in Slots
    BY <1>1, <1>3, HitSlot DEF Keep, call, DirHeld, RestHeld
  <2>3. job' \in Jobs /\ job'.slot = hit
    BY NoJobIs, <1>3, <2>2
  <2>4. Types'
    BY <1>1, <1>3, <2>2, <2>3 DEF Types
  <2>5. BuildHeld'
    BY <2>1, <2>2, <2>3 DEF BuildHeld
  <2> QED BY <1>1, <1>3, <2>2, <2>4, <2>5 DEF DirHeld, RestHeld, ScanHeld, FoundHeld, StoreHeld, PutHeld, RetHeld
<1> QED BY <1>1, <1>2, <1>3

LEMMA MakeDirKeeps == ASSUME DirHeld, MakeDir PROVE DirHeld'
<1>1. /\ pc = "found" /\ op = "mkdir" /\ Keep
      /\ Done \/ (slot # 0 /\ PutBack(slot, Dir!Folder(name)))
  BY DEF MakeDir
<1>2. CASE Done
  BY <1>1, <1>2, DoneKeeps DEF Keep
<1>3. CASE slot # 0 /\ PutBack(slot, Dir!Folder(name))
  <2>1. slot \in Slots /\ name \in Names /\ Dir!Folder(name) \in Entries
    BY <1>1, <1>3, HitSlot, EntriesAre
  <2>2. ASSUME ~failed PROVE ClusterOf(slot) = clus /\ VacantIs(root, slot)
    <3>0. Slots \subseteq Nat \ {0} /\ \A s \in Slots : s <= NumRoot * PerClus
      <4>1. Slots \subseteq Nat \ {0}
        BY SlotsAre
      <4> QED BY <4>1 DEF Slots
    <3>1. \A e : Stops(op, name, e) <=> Dir!Vacant(e)
      BY <1>1 DEF Stops
    <3>2. ASSUME NoStop(root, op, name, NumRoot * PerClus), FreeTo(root, slot, NumRoot * PerClus) PROVE FALSE
      BY <1>3, <2>1, <3>0, <3>1, <3>2 DEF NoStop, FreeTo, VacantIs
    <3>3. ASSUME NEW p, EndsAt(root, op, name, p), ClusterOf(p) = clus, FreeTo(root, slot, p)
          PROVE  ClusterOf(slot) = clus /\ VacantIs(root, slot)
      <4>1. slot <= p /\ VacantIs(root, slot)
        BY <1>3, <3>3 DEF FreeTo
      <4>2. ~(slot < p) /\ p \in Slots
        BY <2>1, <3>1, <3>3, <4>1 DEF EndsAt, VacantIs
      <4>3. slot = p
        BY <2>1, <3>0, <4>1, <4>2
      <4> QED BY <3>3, <4>1, <4>3
    <3> QED BY <1>1, <2>2, <3>2, <3>3 DEF DirHeld, FoundHeld
  <2>3. ~failed => Permits(root, slot, Dir!Folder(name))
    BY <2>1, <2>2 DEF Permits
  <2> QED BY <1>1, <1>3, <2>1, <2>2, <2>3, PutBackKeeps
<1> QED BY <1>1, <1>2, <1>3

LEMMA RemoveDirKeeps == ASSUME DirHeld, RemoveDir PROVE DirHeld'
<1>1. /\ pc = "found" /\ op = "rmdir" /\ Keep
      /\ Done \/ (hit # 0 /\ hit_entry.kind = "dir" /\ PutBack(hit, Dir!Blank("deleted")))
  BY DEF RemoveDir
<1>2. CASE Done
  BY <1>1, <1>2, DoneKeeps DEF Keep
<1>3. CASE hit # 0 /\ hit_entry.kind = "dir" /\ PutBack(hit, Dir!Blank("deleted"))
  <2>1. hit \in Slots /\ name \in Names /\ Dir!Blank("deleted") \in Entries
    BY <1>1, <1>3, HitSlot, EntriesAre
  <2>2. ~failed => ClusterOf(hit) = clus /\ FirstIs(root, name, hit) /\ root[hit].kind = "dir"
    BY <1>1, <1>3, FoundNamed, FoundHere
  <2>3. ~failed => Permits(root, hit, Dir!Blank("deleted"))
    BY <2>1, <2>2 DEF Permits
  <2> QED BY <1>1, <1>3, <2>1, <2>2, <2>3, PutBackKeeps
<1> QED BY <1>1, <1>2, <1>3

LEMMA FindOrListKeeps == ASSUME DirHeld, FindOrList PROVE DirHeld'
BY DoneKeeps DEF FindOrList, Keep

\* alloc_and_write lets the bytes of the file through the buffer.
LEMMA BuildKeeps == ASSUME DirHeld, Build PROVE DirHeld'
<1>1. /\ pc = "build" /\ UNCHANGED <<root, op, name, hit, slot, out, clus, sec, failed, bad>>
      /\ sec = 1 /\ Types
  BY DEF Build, Keep, call, DirHeld, RestHeld
<1>2. buf' \in [Indices -> Entries]
  <2>1. PICK n \in Indices \union {0} :
               buf' = IF n = 0 THEN buf
                      ELSE [i \in Indices |-> IF i <= n THEN Bytes ELSE Dir!Blank("end")]
    BY DEF Build
  <2>2. Bytes \in Entries /\ Dir!Blank("end") \in Entries
    BY EntriesAre
  <2> QED BY <1>1, <2>1, <2>2 DEF Types
<1>3. CASE pc' = "return" /\ UNCHANGED job
  <2>1. Types'
    BY <1>1, <1>2, <1>3 DEF Types
  <2> QED BY <1>1, <1>3, <2>1 DEF DirHeld, RestHeld, ScanHeld, FoundHeld, StoreHeld, BuildHeld, PutHeld, RetHeld
<1>4. CASE pc' = "store" /\ job' = [job EXCEPT !.new = FALSE, !.val = 1, !.ret = "return"]
  <2>1. job' \in Jobs /\ job'.slot = job.slot /\ job'.new = FALSE /\ job.slot \in Slots
    <3>1. \A j \in Jobs : [j EXCEPT !.new = FALSE, !.val = 1, !.ret = "return"] \in Jobs
      <4>1. \A j \in Jobs : [j EXCEPT !.new = FALSE] \in Jobs
        BY DEF Jobs
      <4>2. \A j \in Jobs : [j EXCEPT !.val = 1] \in Jobs
        BY DEF Jobs
      <4>3. \A j \in Jobs : [j EXCEPT !.ret = "return"] \in Jobs
        BY DEF Jobs
      <4>4. \A j \in Jobs : [[[j EXCEPT !.new = FALSE] EXCEPT !.val = 1] EXCEPT !.ret = "return"] \in Jobs
        BY <4>1, <4>2, <4>3
      <4> QED BY <4>4
    <3>2. \A j \in Jobs : [j EXCEPT !.new = FALSE, !.val = 1, !.ret = "return"].slot = j.slot
      BY DEF Jobs
    <3>3. \A j \in Jobs : [j EXCEPT !.new = FALSE, !.val = 1, !.ret = "return"].new = FALSE
      BY DEF Jobs
    <3> QED BY <1>1, <1>4, <3>1, <3>2, <3>3 DEF Types
  <2>2. Types'
    BY <1>1, <1>2, <1>4, <2>1 DEF Types
  <2>3. StoreHeld'
    BY <1>1, <2>1 DEF DirHeld, BuildHeld, StoreHeld
  <2>4. RetHeld'
    BY <1>1, <1>4 DEF DirHeld, RetHeld
  <2> QED BY <1>1, <1>4, <2>2, <2>3, <2>4 DEF DirHeld, RestHeld, ScanHeld, FoundHeld, BuildHeld, PutHeld
<1> QED BY <1>3, <1>4 DEF Build

\* The cluster is read again and gets its entry.
LEMMA StoreEntryKeeps == ASSUME DirHeld, StoreEntry PROVE DirHeld'
<1>1. /\ pc = "store" /\ pc' = "put" /\ UNCHANGED <<root, op, name, hit, slot, out, clus, job, sec>>
      /\ sec = 1 /\ Types /\ job.slot \in Slots /\ job \in Jobs /\ name \in Names
  BY DEF StoreEntry, call, DirHeld, RestHeld, Types
<1> DEFINE s == job.slot
           k == IndexOf(s)
           c == ClusterOf(s)
           E(e) == IF job.new THEN Dir!File(name, job.val) ELSE [e EXCEPT !.val = job.val]
<1>2. PICK lost \in SUBSET (1 .. SecPerClus), junk \in Leftovers :
          /\ Fail(Cardinality(lost))
          /\ buf' = [read_cluster(c, lost, junk) EXCEPT ![k] =
                        IF job.new THEN Dir!File(name, job.val) ELSE [@ EXCEPT !.val = job.val]]
  BY DEF StoreEntry
<1>3. c \in 1 .. NumRoot /\ k \in Indices /\ SlotAt(c, k) = s
  BY <1>1, PlaceIs
<1> DEFINE b == read_cluster(c, lost, junk)
<1>4. b \in [Indices -> Entries]
  BY <1>1, <1>3, ReadTyped
<1>5. buf' = [b EXCEPT ![k] = E(b[k])]
  BY <1>2
<1> HIDE DEF b
<1>6. b[k] \in Entries /\ job.val \in 0 .. 1 /\ job.new \in BOOLEAN /\ job.ret \in {"return", "build"}
  BY <1>1, <1>3, <1>4 DEF Jobs
<1>7. E(b[k]) \in Entries
  BY <1>1, <1>6, EntriesAre
<1>8. failed' \in BOOLEAN /\ bad' \in Nat
  <2> DEFINE m == Cardinality(lost)
  <2>1. m \in Nat /\ Fail(m)
    BY <1>2, LostCount
  <2> HIDE DEF m
  <2>2. m \in Int /\ m >= 0
    BY <2>1
  <2> QED BY <1>1, <2>1, <2>2, FailTyped
<1> HIDE DEF E
<1>9. buf' \in [Indices -> Entries] /\ buf'[k] = E(b[k]) /\ \A i \in Indices : i # k => buf'[i] = b[i]
  BY <1>3, <1>4, <1>5, <1>7
<1>10. Types'
  BY <1>1, <1>8, <1>9 DEF Types
<1>11. RetHeld'
  BY <1>1 DEF DirHeld, RetHeld
<1>12. ASSUME ~failed' PROVE PutHeld'
  <2>1. ~failed /\ lost = {}
    <3>1. Fail(Cardinality(lost) + 0)
      <4> DEFINE m == Cardinality(lost)
      <4>1. m \in Nat /\ Fail(m)
        BY <1>2, LostCount
      <4> HIDE DEF m
      <4>2. m + 0 = m
        BY <4>1
      <4>3. Fail(m + 0)
        BY <4>1, <4>2
      <4> QED BY <4>3 DEF m
    <3>2. failed \in BOOLEAN /\ 0 \in Nat
      BY <1>1 DEF Types
    <3> QED BY <1>12, <3>1, <3>2, ReadWell
  <2>2. \A i \in Indices : b[i] = root[SlotAt(c, i)]
    BY <2>1, ReadGives DEF b
  <2>3. \A i \in Indices : ~(SectorOf(i) < 1)
    BY SectorIs
  <2>4. PutAs(root, buf', s, 1)
    BY <1>9, <2>2, <2>3 DEF PutAs
  <2>5. CASE job.new
    <3>1. VacantIs(root, s) /\ NoneIs(root, name) /\ E(b[k]) = Dir!File(name, 0)
      BY <1>1, <2>1, <2>5 DEF DirHeld, StoreHeld, E
    <3>2. Permits(root, s, E(b[k]))
      BY <1>1, <3>1 DEF Permits
    <3>3. Behind(root, name, s)
      <4>1. Slots \subseteq Nat
        BY SlotsAre
      <4> SUFFICES ASSUME NEW t \in Slots, t < s PROVE root[t].kind # "end" /\ ~Called(root[t], name)
        BY DEF Behind
      <4>2. \A u \in Slots : u < s => root[u].kind # "end"
        BY <3>1 DEF VacantIs, Dir!Vacant
      <4>3. \A u \in Slots : u <= t => u < s
        <5>1. s \in Nat /\ t \in Nat /\ t < s
          BY <1>1, <4>1
        <5> HIDE DEF s
        <5> QED BY <4>1, <5>1
      <4> QED BY <3>1, <4>2, <4>3 DEF NoneIs
    <3>4. 0 \in 0 .. 1
      OBVIOUS
    <3> QED BY <1>1, <1>9, <2>4, <3>1, <3>2, <3>3, <3>4 DEF PutHeld
  <2>6. CASE ~job.new
    <3>1. FirstIs(root, name, s) /\ root[s].kind = "file" /\ b[k] = root[s]
      BY <1>1, <1>3, <2>1, <2>2, <2>6 DEF DirHeld, StoreHeld
    <3>2. E(b[k]) = Dir!File(name, job.val)
      <4>1. root[s].name = name /\ root[s] \in Entries
        BY <1>1, <3>1 DEF FirstIs, Called, Types
      <4>2. root[s] = [kind |-> "file", name |-> name, val |-> root[s].val]
        BY <3>1, <4>1 DEF Entries
      <4> QED BY <2>6, <3>1, <4>2 DEF E, Dir!File
    <3>3. Permits(root, s, E(b[k]))
      BY <1>1, <1>6, <3>1, <3>2 DEF Permits
    <3>4. Behind(root, name, s)
      <4>1. Slots \subseteq Nat
        BY SlotsAre
      <4>2. \A t \in Slots : t < s => t <= s
        <5>1. s \in Nat
          BY <1>1, <4>1
        <5> HIDE DEF s
        <5> QED BY <4>1, <5>1
      <4> QED BY <3>1, <4>2 DEF Behind, FirstIs
    <3> QED BY <1>1, <1>6, <1>9, <2>4, <3>2, <3>3, <3>4 DEF PutHeld
  <2> QED BY <2>5, <2>6
<1> QED BY <1>1, <1>10, <1>11, <1>12 DEF DirHeld, RestHeld, ScanHeld, FoundHeld, StoreHeld, BuildHeld, PutHeld

\* What the write of one sector does to the disk, when no read has failed.
LEMMA SectorWrites ==
    ASSUME Types, NEW s \in Slots, PutAs(root, buf, s, sec),
           root' = [t \in Slots |-> IF ClusterOf(t) = ClusterOf(s) /\ SectorOf(IndexOf(t)) = sec
                                    THEN buf[IndexOf(t)] ELSE root[t]]
    PROVE  \/ SectorOf(IndexOf(s)) = sec /\ root' = [root EXCEPT ![s] = buf[IndexOf(s)]]
           \/ SectorOf(IndexOf(s)) # sec /\ root' = root
<1> DEFINE c == ClusterOf(s)
           k == IndexOf(s)
<1>1. c \in 1 .. NumRoot /\ k \in Indices /\ SlotAt(c, k) = s /\ root \in [Slots -> Entries]
  BY PlaceIs DEF Types
<1>2. ASSUME NEW t \in Slots, ClusterOf(t) = c, SectorOf(IndexOf(t)) = sec, t # s
      PROVE  buf[IndexOf(t)] = root[t]
  <2>1. IndexOf(t) \in Indices /\ SlotAt(c, IndexOf(t)) = t
    BY <1>2, PlaceIs
  <2>2. IndexOf(t) # k
    BY <1>1, <1>2, <2>1
  <2> QED BY <2>1, <2>2 DEF PutAs
<1>3. CASE SectorOf(k) = sec
  <2>1. \A t \in Slots : root'[t] = IF t = s THEN buf[k] ELSE root[t]
    BY <1>2, <1>3
  <2>2. root' = [root EXCEPT ![s] = buf[k]]
    BY <1>1, <2>1
  <2> QED BY <1>3, <2>2
<1>4. CASE SectorOf(k) # sec
  <2>1. \A t \in Slots : root'[t] = root[t]
    BY <1>2, <1>4
  <2>2. root' = root
    BY <1>1, <2>1
  <2> QED BY <1>4, <2>2
<1> QED BY <1>3, <1>4

LEMMA WriteTyped ==
    ASSUME DirHeld, WriteSector
    PROVE  Types' /\ sec' \in 1 .. SecPerClus
<1>1. PICK w \in Outcomes :
          /\ root' = IF w = "lost" THEN root
                     ELSE [s \in Slots |->
                              IF ClusterOf(s) = ClusterOf(job.slot) /\ SectorOf(IndexOf(s)) = sec
                              THEN buf[IndexOf(s)] ELSE root[s]]
          /\ IF w = "ok" /\ sec < SecPerClus
             THEN sec' = sec + 1 /\ UNCHANGED pc
             ELSE sec' = 1 /\ pc' = IF w = "ok" \/ Unchecked THEN job.ret ELSE "return"
  BY DEF WriteSector
<1>2. /\ pc = "put" /\ UNCHANGED <<op, name, hit, slot, out, buf, clus, job, failed, bad>> /\ Types
      /\ job.slot \in Slots
  BY DEF WriteSector, call, DirHeld, Types
<1>3. sec' \in 1 .. SecPerClus
  <2>1. sec \in 1 .. SecPerClus /\ SecPerClus \in Nat \ {0}
    BY <1>2, Sizes DEF Types
  <2> QED BY <1>1, <2>1
<1>4. root' \in [Slots -> Entries]
  <2>1. \A s \in Slots : IndexOf(s) \in Indices
    BY PlaceIs
  <2> QED BY <1>1, <1>2, <2>1 DEF Types
<1> QED BY <1>2, <1>3, <1>4 DEF Types

\* One turn of write_cluster's loop.
LEMMA WriteSectorKeeps == ASSUME DirHeld, WriteSector PROVE DirHeld'
<1>1. PICK w \in Outcomes :
          /\ root' = IF w = "lost" THEN root
                     ELSE [s \in Slots |->
                              IF ClusterOf(s) = ClusterOf(job.slot) /\ SectorOf(IndexOf(s)) = sec
                              THEN buf[IndexOf(s)] ELSE root[s]]
          /\ IF w = "ok" /\ sec < SecPerClus
             THEN sec' = sec + 1 /\ UNCHANGED pc
             ELSE sec' = 1 /\ pc' = IF w = "ok" \/ Unchecked THEN job.ret ELSE "return"
  BY DEF WriteSector
<1> DEFINE s == job.slot
           k == IndexOf(s)
           c == ClusterOf(s)
<1>2. /\ pc = "put" /\ UNCHANGED <<op, name, hit, slot, out, buf, clus, job, failed, bad>> /\ Types
      /\ s \in Slots /\ job.ret \in {"return", "build"} /\ sec \in 1 .. SecPerClus /\ failed \in BOOLEAN
  BY DEF WriteSector, call, DirHeld, Types, Jobs
<1>3. c \in 1 .. NumRoot /\ k \in Indices /\ SlotAt(c, k) = s /\ SectorOf(k) \in 1 .. SecPerClus
  BY <1>2, PlaceIs, SectorIs
<1>4. Unchecked => job.ret = "return"
  BY <1>2 DEF Unchecked, DirHeld, RetHeld
<1>5. /\ pc' \in {"put", "return", "build"} /\ (pc' # "put" => sec' = 1)
      /\ pc' = "put" => sec' = sec + 1 /\ w = "ok"
      /\ pc' = "build" => w = "ok" /\ sec = SecPerClus /\ job.ret = "build" /\ ~Unchecked
  <2>1. sec < SecPerClus \/ sec = SecPerClus
    BY <1>2, Sizes
  <2>2. job.ret # "put" /\ "return" # "put"
    BY <1>2
  <2> QED BY <1>1, <1>2, <1>4, <2>1, <2>2
<1>6. Types'
  BY WriteTyped
<1>7. RetHeld'
  BY <1>2, <1>5 DEF DirHeld, RetHeld, Unchecked
<1>8. CASE failed
  BY <1>2, <1>5, <1>6, <1>7, <1>8 DEF DirHeld, RestHeld, ScanHeld, FoundHeld, StoreHeld, BuildHeld, PutHeld
<1>9. CASE ~failed
  <2>1. /\ PutAs(root, buf, s, sec)
        /\ buf[k] = root[s] \/ Permits(root, s, buf[k])
        /\ job.ret = "build" => (\E v \in 0 .. 1 : buf[k] = Dir!File(name, v)) /\ Behind(root, name, s)
    BY <1>2, <1>9 DEF DirHeld, PutHeld
  <2>2. \/ SectorOf(k) = sec /\ root' = [root EXCEPT ![s] = buf[k]]
        \/ SectorOf(k) # sec /\ root' = root
        \/ w = "lost" /\ root' = root
    <3>1. CASE w = "lost"
      BY <1>1, <3>1
    <3>2. CASE w # "lost"
      BY <1>1, <1>2, <2>1, <3>2, SectorWrites
    <3> QED BY <3>1, <3>2
  <2>3. root \in [Slots -> Entries]
    BY <1>2 DEF Types
  <2>4. \A t \in Slots : t # s => root'[t] = root[t]
    BY <2>2, <2>3
  <2> HIDE DEF s
  <2>5. ASSUME pc' = "put" PROVE PutHeld'
    <3>1. sec' = sec + 1 /\ w # "lost"
      BY <1>5, <2>5
    <3>2. PutAs(root', buf, s, sec + 1)
      <4> SUFFICES ASSUME NEW i \in Indices, i # k \/ SectorOf(i) < sec + 1
                   PROVE  buf[i] = root'[SlotAt(c, i)]
        BY DEF PutAs
      <4>1. SlotAt(c, i) \in Slots /\ IndexOf(SlotAt(c, i)) = i
        BY <1>3, SlotIs
      <4>2. CASE i # k
        <5>1. SlotAt(c, i) # s
          BY <4>1, <4>2
        <5>2. buf[i] = root[SlotAt(c, i)]
          BY <2>1, <4>2 DEF PutAs
        <5> QED BY <2>4, <4>1, <5>1, <5>2
      <4>3. CASE i = k /\ SectorOf(k) = sec
        BY <1>2, <1>3, <2>2, <2>3, <3>1, <4>3
      <4>4. CASE i = k /\ SectorOf(k) # sec
        <5>1. SectorOf(k) < sec
          <6>1. PICK x : x = SectorOf(k)
            OBVIOUS
          <6>2. x \in Int /\ sec \in Int /\ x < sec + 1 /\ x # sec
            BY <1>2, <1>3, <4>4, <6>1
          <6> QED BY <6>1, <6>2
        <5>2. root' = root
          BY <2>2, <4>4
        <5> QED BY <2>1, <4>4, <5>1, <5>2 DEF PutAs
      <4> QED BY <4>2, <4>3, <4>4
    <3>3. buf[k] = root'[s] \/ Permits(root', s, buf[k])
      <4>1. root' = root \/ root'[s] = buf[k]
        BY <1>2, <2>2, <2>3
      <4> QED BY <2>1, <4>1
    <3>4. job.ret = "build" => Behind(root', name, s)
      <4>1. Slots \subseteq Nat
        BY SlotsAre
      <4>2. \A t \in Slots : t < s => t # s
        BY <1>2, <4>1
      <4> QED BY <2>1, <2>4, <4>2 DEF Behind
    <3> QED BY <1>2, <2>1, <3>1, <3>2, <3>3, <3>4 DEF PutHeld, s
  <2>6. ASSUME pc' = "build" PROVE BuildHeld'
    <3>1. /\ w = "ok" /\ sec = SecPerClus /\ (\E v \in 0 .. 1 : buf[k] = Dir!File(name, v))
          /\ Behind(root, name, s)
      BY <1>5, <2>1, <2>6
    <3>2. root'[s] = buf[k]
      <4>1. CASE SectorOf(k) = sec
        BY <1>2, <2>2, <2>3, <3>1, <4>1
      <4>2. CASE SectorOf(k) # sec
        <5>1. SectorOf(k) < sec
          <6>1. PICK x : x = SectorOf(k)
            OBVIOUS
          <6>2. x \in 1 .. SecPerClus /\ x # sec
            BY <1>3, <4>2, <6>1
          <6> QED BY <3>1, <6>1, <6>2, Sizes
        <5>2. root' = root
          BY <2>2, <3>1, <4>2
        <5>3. buf[k] = root[SlotAt(c, k)]
          BY <1>3, <2>1, <5>1 DEF PutAs
        <5> QED BY <1>3, <5>2, <5>3
      <4> QED BY <4>1, <4>2
    <3>3. Called(root'[s], name) /\ root'[s].kind = "file"
      BY <3>1, <3>2 DEF Called, Dir!Live, Dir!File
    <3>4. Slots \subseteq Nat
      BY SlotsAre
    <3>5. \A t \in Slots : t < s => t # s
      BY <1>2, <3>4
    <3>6. \A t \in Slots : t <= s => t < s \/ t = s
      BY <1>2, <3>4
    <3>7. \A t \in Slots : t < s => root'[t].kind # "end" /\ ~Called(root'[t], name)
      BY <2>4, <3>1, <3>5 DEF Behind
    <3>8. root'[s].kind # "end"
      BY <3>3
    <3>9. FirstIs(root', name, s)
      BY <1>2, <3>3, <3>6, <3>7, <3>8 DEF FirstIs
    <3> QED BY <1>2, <3>3, <3>9 DEF BuildHeld, s
  <2>7. pc' # "put" => PutHeld'
    BY DEF PutHeld
  <2>8. pc' # "build" => BuildHeld'
    BY DEF BuildHeld
  <2> QED BY <1>2, <1>5, <1>6, <1>7, <2>5, <2>6, <2>7, <2>8 DEF DirHeld, RestHeld, ScanHeld, FoundHeld, StoreHeld
<1> QED BY <1>2, <1>8, <1>9

LEMMA DirInit == Init => DirHeld
<1> SUFFICES ASSUME Init PROVE DirHeld
  OBVIOUS
<1>1. /\ root = [s \in Slots |-> IF s = 1 THEN Dir!Blank("skip") ELSE Dir!Blank("end")]
      /\ pc = "idle" /\ op = "none" /\ name = "none"
      /\ buf = [i \in Indices |-> Junk]
      /\ clus = 1 /\ hit = 0 /\ slot = 0 /\ out = <<>>
      /\ job = NoJob /\ sec = 1 /\ failed = FALSE /\ bad = 0
  BY DEF Init
<1>2. 1 \in 1 .. NumRoot /\ 1 \in 1 .. SecPerClus
  BY Sizes
<1>3. root \in [Slots -> Entries]
  <2>1. Dir!Blank("skip") \in Entries /\ Dir!Blank("end") \in Entries
    BY EntriesAre
  <2> QED BY <1>1, <2>1
<1>4. Types
  BY <1>1, <1>2, <1>3, EntriesAre DEF Types
<1> QED BY <1>1, <1>4 DEF DirHeld, RestHeld, ScanHeld, FoundHeld, StoreHeld, BuildHeld, PutHeld, RetHeld

LEMMA DirNext == DirHeld /\ [Next]_vars => DirHeld'
<1> SUFFICES ASSUME DirHeld, [Next]_vars PROVE DirHeld'
  OBVIOUS
<1>1. CASE Request
  BY <1>1, RequestKeeps
<1>2. CASE Scan
  BY <1>2, ScanKeeps
<1>3. CASE Create
  BY <1>3, CreateKeeps
<1>4. CASE Write
  BY <1>4, WriteKeeps
<1>5. CASE AppendWrites
  BY <1>5, AgainKeeps
<1>6. CASE Append_
  BY <1>6, AppendKeeps
<1>7. CASE MakeDir
  BY <1>7, MakeDirKeeps
<1>8. CASE RemoveDir
  BY <1>8, RemoveDirKeeps
<1>9. CASE FindOrList
  BY <1>9, FindOrListKeeps
<1>10. CASE Build
  BY <1>10, BuildKeeps
<1>11. CASE StoreEntry
  BY <1>11, StoreEntryKeeps
<1>12. CASE WriteSector
  BY <1>12, WriteSectorKeeps
<1>13. CASE Return \/ CutShort
  BY <1>13, ForgetKeeps DEF Return, CutShort
<1>14. CASE UNCHANGED vars
  <2>1. UNCHANGED <<root, pc, op, name, buf, clus, hit, slot, out, job, sec, failed, bad>>
    BY <1>14 DEF vars
  <2> QED BY <2>1 DEF DirHeld, Types, RestHeld, ScanHeld, FoundHeld, StoreHeld, BuildHeld, PutHeld, RetHeld, Start
<1> QED BY <1>1, <1>2, <1>3, <1>4, <1>5, <1>6, <1>7, <1>8, <1>9, <1>10, <1>11, <1>12, <1>13, <1>14 DEF Next

-----------------------------------------------------------------------------
(* What the scans find.                                                    *)

\* The rows before the end are the listing.
LEMMA ListingIs ==
    ASSUME DOMAIN root = Slots, NEW m \in 0 .. NumRoot * PerClus,
           \A s \in Slots : s <= m => root[s].kind # "end",
           m + 1 \in Slots => root[m + 1].kind = "end"
    PROVE  Dir!Listing = Dir!Shown(<<>>, root, m)
<1> DEFINE N == NumRoot * PerClus
<1>0. N \in Nat /\ m \in Nat /\ m \in 0 .. N
  BY Sizes
<1>1. Dir!Listed = 1 .. m
  <2>1. ASSUME NEW s \in 1 .. m PROVE s \in Dir!Listed
    <3>1. s \in Slots /\ \A t \in Slots : t <= s => t <= m
      <4> HIDE DEF N
      <4>1. s \in 1 .. N
        BY <1>0
      <4>2. \A t \in 1 .. N : t <= s => t <= m
        BY <1>0
      <4> QED BY <4>1, <4>2 DEF Slots, N
    <3> QED BY <3>1, ListedIs
  <2>2. ASSUME NEW s \in Dir!Listed PROVE s \in 1 .. m
    <3>1. s \in Slots /\ \A t \in Slots : t <= s => root[t].kind # "end"
      BY ListedIs
    <3>2. s \in 1 .. N
      BY <3>1 DEF Slots
    <3>3. ASSUME s > m PROVE FALSE
      <4>1. m + 1 \in 1 .. N /\ m + 1 <= s
        <5> HIDE DEF N
        <5> QED BY <1>0, <3>2, <3>3
      <4>2. m + 1 \in Slots
        BY <4>1 DEF Slots
      <4> QED BY <3>1, <4>1, <4>2
    <3> HIDE DEF N
    <3> QED BY <1>0, <3>2, <3>3
  <2> QED BY <2>1, <2>2
<1>2. Cardinality(1 .. m) = m
  <2>1. m \in Int /\ 1 \in Int
    BY <1>0
  <2>2. Cardinality(1 .. m) = IF 1 > m THEN 0 ELSE m - 1 + 1
    BY <2>1, FS_Interval
  <2>3. PICK z : z = Cardinality(1 .. m)
    OBVIOUS
  <2>4. z = m
    BY <1>0, <2>2, <2>3
  <2> QED BY <2>3, <2>4
<1>3. \A S : Dir!Cardinality(S) = Cardinality(S)
  BY DEF Dir!Cardinality, Cardinality
<1>4. Dir!Listing = Dir!Shown(<<>>, root, Dir!Cardinality(1 .. m))
  BY <1>1 DEF Dir!Listing
<1> QED BY <1>2, <1>3, <1>4

LEMMA FindsFile ==
    ASSUME DirHeld, pc = "found", ~failed, op = "find"
    PROVE  hit = Dir!FirstFile(name)
<1>s. Slots \subseteq Nat \ {0} /\ \A s \in Slots : s <= NumRoot * PerClus
  <2>1. Slots \subseteq Nat \ {0}
    BY SlotsAre
  <2> QED BY <2>1 DEF Slots
<1>d. DOMAIN root = Slots
  BY DEF DirHeld, Types
<1>1. \A e : Stops(op, name, e) <=> e.kind = "end" \/ (e.kind = "file" /\ e.name = name)
  BY DEF Stops
<1>2. CASE hit = 0 /\ NoStop(root, op, name, NumRoot * PerClus)
  <2>1. NoFileIs(root, name)
    BY <1>s, <1>1, <1>2 DEF NoStop, NoFileIs
  <2> QED BY <1>d, <1>2, <2>1, NotFileIs
<1>3. ASSUME NEW p, EndsAt(root, op, name, p), hit = IF Called(root[p], name) THEN p ELSE 0
      PROVE  hit = Dir!FirstFile(name)
  <2>1. /\ p \in Slots /\ (root[p].kind = "end" \/ (root[p].kind = "file" /\ root[p].name = name))
        /\ \A s \in Slots : s < p => root[s].kind # "end" /\ ~(root[s].kind = "file" /\ root[s].name = name)
    BY <1>1, <1>3 DEF EndsAt
  <2>2. \A s \in Slots : (s <= p => s < p \/ s = p) /\ (~(s < p) => p <= s)
    BY <1>s, <2>1
  <2>3. CASE root[p].kind = "file"
    <3>1. root[p].kind # "end" /\ root[p].name = name /\ hit = p
      BY <1>3, <2>1, <2>3 DEF Called, Dir!Live
    <3>2. FileIs(root, name, p)
      BY <2>1, <2>2, <2>3, <3>1 DEF FileIs
    <3> QED BY <1>d, <3>1, <3>2, FirstFileIs
  <2>4. CASE root[p].kind = "end"
    <3>1. hit = 0
      BY <1>3, <2>4 DEF Called, Dir!Live
    <3>2. NoFileIs(root, name)
      BY <2>1, <2>2, <2>4 DEF NoFileIs
    <3> QED BY <1>d, <3>1, <3>2, NotFileIs
  <2> QED BY <2>1, <2>3, <2>4
<1> QED BY <1>2, <1>3 DEF DirHeld, FoundHeld

LEMMA Lists ==
    ASSUME DirHeld, pc = "found", ~failed, op = "list"
    PROVE  out = Dir!Listing
<1> DEFINE N == NumRoot * PerClus
<1>s. Slots \subseteq Nat \ {0} /\ \A s \in Slots : s \in 1 .. N
  <2>1. Slots \subseteq Nat \ {0}
    BY SlotsAre
  <2> QED BY <2>1 DEF Slots
<1>d. DOMAIN root = Slots /\ N \in Nat
  BY Sizes DEF DirHeld, Types
<1>1. \A e : Stops(op, name, e) <=> e.kind = "end"
  BY DEF Stops
<1>2. CASE NoStop(root, op, name, N) /\ ShownTo(root, op, out, N)
  <2>1. out = Dir!Shown(<<>>, root, N)
    BY <1>2 DEF ShownTo
  <2>2. \A s \in Slots : s <= N => root[s].kind # "end"
    BY <1>1, <1>2 DEF NoStop
  <2>3. N + 1 \notin Slots /\ N \in 0 .. N
    <3>1. N + 1 \notin 1 .. N /\ N \in 0 .. N
      <4> HIDE DEF N
      <4> QED BY <1>d
    <3> QED BY <1>s, <3>1
  <2> QED BY <1>d, <2>1, <2>2, <2>3, ListingIs
<1>3. ASSUME NEW p, EndsAt(root, op, name, p), ShownTo(root, op, out, p)
      PROVE  out = Dir!Listing
  <2>1. /\ p \in Slots /\ p \in Nat \ {0} /\ root[p].kind = "end"
        /\ \A s \in Slots : s < p => root[s].kind # "end"
    BY <1>s, <1>1, <1>3 DEF EndsAt
  <2>2. out = Dir!Shown(<<>>, root, p)
    BY <1>3 DEF ShownTo
  <2>3. Dir!Shown(<<>>, root, p) = Dir!Shown(<<>>, root, p - 1)
    <3>1. Dir!Shown(<<>>, root, p) = Row(Dir!Shown(<<>>, root, p - 1), root[p])
      BY <2>1, ShownStep
    <3> QED BY <2>1, <3>1 DEF Row, Dir!Live
  <2>4. PICK m : m = p - 1
    OBVIOUS
  <2>5. m \in 0 .. N /\ m + 1 = p
    <3>1. p \in 1 .. N
      BY <1>s, <2>1
    <3> HIDE DEF N
    <3> QED BY <1>d, <2>1, <2>4, <3>1
  <2>6. \A s \in Slots : s <= m => root[s].kind # "end"
    <3>1. \A s \in Slots : s <= m => s < p
      BY <1>s, <2>1, <2>4
    <3> QED BY <2>1, <3>1
  <2>7. Dir!Listing = Dir!Shown(<<>>, root, m)
    BY <1>d, <2>1, <2>5, <2>6, ListingIs
  <2> QED BY <2>2, <2>3, <2>4, <2>7
<1> QED BY <1>2, <1>3 DEF DirHeld, FoundHeld

LEMMA FoundRight == DirHeld => ScansAreRight
<1> SUFFICES ASSUME DirHeld, pc = "found", ~failed
             PROVE  /\ op \in Scanners \union {"rmdir"} => hit = Dir!FirstNamed(name)
                    /\ op \in Scanners /\ hit = 0 => slot = Dir!FirstVacant
                    /\ op = "mkdir" => slot = Dir!FirstVacant
                    /\ op = "find" => hit = Dir!FirstFile(name)
                    /\ op = "list" => out = Dir!Listing
  BY DEF ScansAreRight
<1>1. DOMAIN root = Slots
  BY DEF DirHeld, Types
<1>2. op \in Scanners \union {"rmdir"} => hit = Dir!FirstNamed(name)
  BY <1>1, FoundNamed, NamedIs, NotNamedIs DEF Scanners
<1>3. op \in Scanners /\ hit = 0 => slot = Dir!FirstVacant
  BY <1>1, FoundVacant, FirstVacantIs, NotVacantIs DEF Scanners
<1>4. op = "mkdir" => slot = Dir!FirstVacant
  <2> SUFFICES ASSUME op = "mkdir" PROVE slot = Dir!FirstVacant
    OBVIOUS
  <2>1. \A e : Stops(op, name, e) <=> Dir!Vacant(e)
    BY DEF Stops
  <2>2. hit = 0
    <3>1. \A e : Dir!Vacant(e) => ~Called(e, name)
      BY DEF Dir!Vacant, Called, Dir!Live
    <3> QED BY <2>1, <3>1 DEF DirHeld, FoundHeld, EndsAt
  <2> QED BY <1>1, <2>2, FoundVacant, FirstVacantIs, NotVacantIs
<1> QED BY <1>2, <1>3, <1>4, FindsFile, Lists

\* Without a failed read, the scans cluster by cluster find what is there: the first
\* entry of a name, the first vacant slot, all that is to be listed (scan_root,
\* make_dir, remove_dir, fs_find_file, fat32_list_files).
THEOREM ScansFind == Spec => []ScansAreRight
<1>1. Init => DirHeld
  BY DirInit
<1>2. DirHeld /\ [Next]_vars => DirHeld'
  BY DirNext
<1>3. DirHeld => ScansAreRight
  BY FoundRight
<1> QED BY <1>1, <1>2, <1>3, PTL DEF Spec

-----------------------------------------------------------------------------
(* Every step is one of Directory.                                         *)

LEMMA WriteChanges == ASSUME DirHeld, WriteSector PROVE Dir!Next
<1>1. PICK w \in Outcomes :
             root' = IF w = "lost" THEN root
                     ELSE [s \in Slots |->
                              IF ClusterOf(s) = ClusterOf(job.slot) /\ SectorOf(IndexOf(s)) = sec
                              THEN buf[IndexOf(s)] ELSE root[s]]
  BY DEF WriteSector
<1>2. /\ pc = "put" /\ Types /\ job.slot \in Slots /\ failed \in BOOLEAN /\ DOMAIN root = Slots
  BY DEF WriteSector, DirHeld, Types
<1>3. CASE root' = root
  BY <1>3 DEF Dir!Next
<1>4. CASE w # "lost" /\ failed
  <2>1. DOMAIN root' = Slots /\ \A s \in Slots : root'[s] # root[s] => ClusterOf(s) = ClusterOf(job.slot)
    BY <1>1, <1>4
  <2>2. \A s, t \in Slots : ClusterOf(s) = ClusterOf(t) => Dir!Cluster(s) = Dir!Cluster(t)
    <3> SUFFICES ASSUME NEW s \in Slots, NEW t \in Slots, ClusterOf(s) = ClusterOf(t)
                 PROVE  Dir!Cluster(s) = Dir!Cluster(t)
      OBVIOUS
    <3>1. \A u \in Slots : u - 1 \in Nat
      BY SlotsAre
    <3>2. PICK x, y : x = (s - 1) \div PerClus /\ y = (t - 1) \div PerClus
      OBVIOUS
    <3>3. PerClus \in Nat \ {0}
      BY Sizes
    <3>4. x \in Nat /\ y \in Nat
      BY <3>1, <3>2, <3>3, DivMod
    <3>5. x + 1 = y + 1
      BY <3>2 DEF ClusterOf
    <3>6. x = y
      BY <3>4, <3>5
    <3> QED BY <3>2, <3>6 DEF Dir!Cluster
  <2>3. Dir!Spoil
    BY <1>2, <1>4, <2>1, <2>2 DEF Dir!Spoil
  <2> QED BY <2>3 DEF Dir!Next
<1>5. CASE w # "lost" /\ ~failed
  <2>1. /\ PutAs(root, buf, job.slot, sec)
        /\ buf[IndexOf(job.slot)] = root[job.slot] \/ Permits(root, job.slot, buf[IndexOf(job.slot)])
    BY <1>2, <1>5 DEF DirHeld, PutHeld
  <2>2. root' = [root EXCEPT ![job.slot] = buf[IndexOf(job.slot)]] \/ root' = root
    BY <1>1, <1>2, <1>5, <2>1, SectorWrites
  <2>3. CASE root' = [root EXCEPT ![job.slot] = buf[IndexOf(job.slot)]]
    <3>1. CASE buf[IndexOf(job.slot)] = root[job.slot]
      <4>1. root' = root
        BY <1>2, <2>3, <3>1 DEF Types
      <4> QED BY <4>1 DEF Dir!Next
    <3>2. CASE Permits(root, job.slot, buf[IndexOf(job.slot)])
      BY <1>2, <2>3, <3>2, PermitsStep
    <3> QED BY <2>1, <3>1, <3>2
  <2>4. CASE root' = root
    BY <2>4 DEF Dir!Next
  <2> QED BY <2>2, <2>3, <2>4
<1> QED BY <1>1, <1>2, <1>3, <1>4, <1>5

LEMMA OthersKeep == [Next]_vars => WriteSector \/ UNCHANGED root
BY DEF Next, vars, Request, fat32_list_files, fs_create_file, fs_write_file, fs_append_file, make_dir, remove_dir,
       fs_find_file, Call, Scan, Create, Write, AppendWrites, Append_, MakeDir, RemoveDir, FindOrList, Build,
       StoreEntry, Return, CutShort, Forget, Keep

LEMMA DirStep == DirHeld /\ [Next]_vars => [Dir!Next]_<<root, failed>>
<1>1. UNCHANGED root => Dir!Next
  BY DEF Dir!Next
<1> QED BY <1>1, WriteChanges, OthersKeep

\* Scanned into buffers and written back sector by sector, with reads and writes that
\* fail and calls cut short in between, the directory changes one slot at a time, in
\* one piece, and the right one; after a failed read, those of one cluster at most
\* (all of fs.c's directory access).
THEOREM DirectoryRefined == Spec => RefinesDirectory
<1>1. Init => DirHeld /\ Dir!Init
  <2>1. Init => Dir!Init
    BY DEF Init, Dir!Init
  <2> QED BY <2>1, DirInit
<1>2. DirHeld /\ [Next]_vars => DirHeld'
  BY DirNext
<1>3. DirHeld /\ [Next]_vars => [Dir!Next]_<<root, failed>>
  BY DirStep
<1> QED BY <1>1, <1>2, <1>3, PTL DEF Spec, RefinesDirectory, Dir!Spec
-----------------------------------------------------------------------------
(* FatName: what it should is kept apart, and nothing else.                *)

\* Characters are bytes but NUL.
Text == Seq(1 .. 255)

-----------------------------------------------------------------------------
\* There is a first dot, or no dot before the end.
LEMMA StopThere ==
    ASSUME NEW text \in Text
    PROVE  /\ Stop(text) \in 0 .. Len(text)
           /\ \A i \in 1 .. Stop(text) : text[i] # Dot
           /\ Stop(text) = Len(text) \/ text[Stop(text) + 1] = Dot
<1> DEFINE P(k) == /\ \A i \in 1 .. k : text[i] # Dot
                   /\ k = Len(text) \/ text[k + 1] = Dot
           dots == {k \in 0 .. Len(text) - 1 : text[k + 1] = Dot}
<1>1. Len(text) \in Nat  BY DEF Text
<1>2. \E k \in 0 .. Len(text) : P(k)
  <2>1. CASE dots = {}
    <3>1. \A i \in 1 .. Len(text) : text[i] # Dot
      <4> SUFFICES ASSUME NEW i \in 1 .. Len(text), text[i] = Dot PROVE FALSE  OBVIOUS
      <4>1. i - 1 \in 0 .. Len(text) - 1 /\ (i - 1) + 1 = i  BY <1>1
      <4> QED BY <4>1, <2>1
    <3> QED BY <3>1, <1>1
  <2>2. CASE dots # {}
    <3>0. dots \subseteq Nat  BY <1>1
    <3>1. PICK m \in dots : \A k \in dots : m <= k
      <4> HIDE DEF dots
      <4> QED BY <3>0, <2>2, Least
    <3>2. \A i \in 1 .. m : text[i] # Dot
      <4> SUFFICES ASSUME NEW i \in 1 .. m, text[i] = Dot PROVE FALSE  OBVIOUS
      <4>1. i - 1 \in 0 .. Len(text) - 1 /\ (i - 1) + 1 = i /\ ~(m <= i - 1)  BY <1>1
      <4> QED BY <4>1, <3>1
    <3>3. m \in 0 .. Len(text) /\ text[m + 1] = Dot  BY <1>1
    <3> WITNESS m \in 0 .. Len(text)
    <3> QED BY <3>2, <3>3
  <2> QED BY <2>1, <2>2
<1>3. Stop(text) = CHOOSE k \in 0 .. Len(text) : P(k)  BY DEF Stop
<1> HIDE DEF P
<1>4. Stop(text) \in 0 .. Len(text) /\ P(Stop(text))  BY <1>2, <1>3
<1> QED BY <1>4 DEF P

\* There is one place to stop.
LEMMA StopIs ==
    ASSUME NEW text \in Text, NEW k \in 0 .. Len(text),
           \A i \in 1 .. k : text[i] # Dot,
           k = Len(text) \/ text[k + 1] = Dot
    PROVE  Stop(text) = k
<1>1. Len(text) \in Nat  BY DEF Text
<1>2. /\ Stop(text) \in 0 .. Len(text)
      /\ \A i \in 1 .. Stop(text) : text[i] # Dot
      /\ Stop(text) = Len(text) \/ text[Stop(text) + 1] = Dot
  BY StopThere
<1>3. ~(k < Stop(text))
  <2> SUFFICES ASSUME k < Stop(text) PROVE FALSE  OBVIOUS
  <2>1. k + 1 \in 1 .. Stop(text) /\ k # Len(text)  BY <1>1, <1>2
  <2> QED BY <2>1, <1>2
<1>4. ~(Stop(text) < k)
  <2> SUFFICES ASSUME Stop(text) < k PROVE FALSE  OBVIOUS
  <2>1. Stop(text) + 1 \in 1 .. k /\ Stop(text) # Len(text)  BY <1>1, <1>2
  <2> QED BY <2>1, <1>2
<1> QED BY <1>1, <1>2, <1>3, <1>4

\* Case does not make a dot, and takes none away.
LEMMA UpperDot == ASSUME NEW c \in 1 .. 255, NEW d \in 1 .. 255, upper(c) = upper(d)
                  PROVE  c = Dot <=> d = Dot
BY DEF upper, Dot

\* Only a space converts to a space.
LEMMA UpperSpace == ASSUME NEW c \in 1 .. 255, upper(c) = Space PROVE c = Space
BY DEF upper, Space

-----------------------------------------------------------------------------
\* Two names that differ in case only are one name on the volume.
THEOREM CaseNeverMatters == ASSUME NEW a \in Text, NEW b \in Text PROVE CaseIgnored(a, b)
<1> SUFFICES ASSUME SameUpToCase(a, b) PROVE format_fat_name(a) = format_fat_name(b)
  BY DEF CaseIgnored
<1>1. /\ Len(a) \in Nat /\ Len(b) = Len(a) /\ DOMAIN a = 1 .. Len(a) /\ DOMAIN b = 1 .. Len(a)
      /\ \A i \in 1 .. Len(a) : a[i] \in 1 .. 255 /\ b[i] \in 1 .. 255 /\ upper(a[i]) = upper(b[i])
  BY DEF SameUpToCase, Text
<1>2. \A i \in 1 .. Len(a) : a[i] = Dot <=> b[i] = Dot  BY <1>1, UpperDot
<1>3. Stop(b) = Stop(a)
  <2>1. /\ Stop(a) \in 0 .. Len(a)
        /\ \A i \in 1 .. Stop(a) : a[i] # Dot
        /\ Stop(a) = Len(a) \/ a[Stop(a) + 1] = Dot
    BY StopThere
  <2>2. \A i \in 1 .. Stop(a) : b[i] # Dot  BY <2>1, <1>1, <1>2
  <2>3. Stop(a) = Len(b) \/ b[Stop(a) + 1] = Dot  BY <2>1, <1>1, <1>2
  <2> QED BY <2>1, <2>2, <2>3, <1>1, StopIs
<1>4. ASSUME NEW p \in Out
      PROVE  /\ Present(a, p) <=> Present(b, p)
             /\ Present(a, p) => upper(a[Source(a, p)]) = upper(b[Source(b, p)])
  <2>1. Source(a, p) = Source(b, p)  BY <1>3 DEF Source
  <2>2. Stop(a) \in 0 .. Len(a)  BY StopThere
  <2>3. p \in Nat  BY NameAssumption DEF Out
  <2>4. Present(a, p) => Source(a, p) \in 1 .. Len(a)
    BY <1>1, <2>2, <2>3, NameAssumption DEF Present, Source
  <2> QED BY <1>1, <1>3, <2>1, <2>4 DEF Present
<1> QED BY <1>4 DEF format_fat_name

\* What is known of the length of a name that fits.
LEMMA FittingName ==
    ASSUME NEW n \in Text, Fits83(n)
    PROVE  /\ Len(n) \in Nat /\ DOMAIN n = 1 .. Len(n)
           /\ \A i \in 1 .. Len(n) : n[i] \in 1 .. 255 /\ n[i] # Space
           /\ Stop(n) \in Nat /\ Stop(n) <= Len(n) /\ Stop(n) <= BaseLength
           /\ Stop(n) = Len(n) \/ n[Stop(n) + 1] = Dot
           /\ Len(n) <= Stop(n) + 1 + ExtLength /\ Len(n) # Stop(n) + 1
BY StopThere DEF Fits83, Text

\* Where there is a character, there is no space.
LEMMA PresentShows ==
    ASSUME NEW n \in Text, Fits83(n), NEW p \in Out
    PROVE  Present(n, p) <=> format_fat_name(n)[p] # Space
<1>1. p \in Nat  BY NameAssumption DEF Out
<1>2. ASSUME Present(n, p) PROVE upper(n[Source(n, p)]) # Space
  <2>1. CASE p < BaseLength
    <3>1. Source(n, p) = p + 1 /\ p < Stop(n)  BY <1>2, <2>1 DEF Present, Source
    <3>2. Source(n, p) \in 1 .. Len(n)  BY <3>1, <1>1, FittingName
    <3> QED BY <3>2, FittingName, UpperSpace
  <2>2. CASE ~(p < BaseLength)
    <3>1. Source(n, p) = Stop(n) + 2 + (p - BaseLength) /\ Source(n, p) <= Len(n)
      BY <1>2, <2>2 DEF Present, Source
    <3>2. Source(n, p) \in 1 .. Len(n)
      BY <3>1, <2>2, <1>1, FittingName, NameAssumption
    <3> QED BY <3>2, FittingName, UpperSpace
  <2> QED BY <2>1, <2>2
<1> QED BY <1>2 DEF format_fat_name

\* Names with characters in the same places have their dot in the same place
\* and end in the same place.
SamePlaces(a, b) == \A p \in Out : Present(a, p) <=> Present(b, p)

\* Of two names that fill the same places, neither stops before the other.
LEMMA NotShorterBase ==
    ASSUME NEW a \in Text, Fits83(a), NEW b \in Text, Fits83(b), SamePlaces(a, b)
    PROVE  ~(Stop(a) < Stop(b))
<1> SUFFICES ASSUME Stop(a) < Stop(b) PROVE FALSE  OBVIOUS
<1>1. Stop(a) \in Out /\ Stop(a) < BaseLength
  BY FittingName, NameAssumption DEF Out
<1>2. Present(b, Stop(a)) /\ ~Present(a, Stop(a))
  BY <1>1, FittingName DEF Present
<1> QED BY <1>1, <1>2 DEF SamePlaces

\* Nor does one end before the other.
LEMMA NotShorterExt ==
    ASSUME NEW a \in Text, Fits83(a), NEW b \in Text, Fits83(b), SamePlaces(a, b),
           Stop(a) = Stop(b)
    PROVE  ~(Len(a) < Len(b))
<1> SUFFICES ASSUME Len(a) < Len(b) PROVE FALSE  OBVIOUS
<1> DEFINE s == Stop(b)
           la == Len(a)
           lb == Len(b)
           p == BaseLength + (lb - s - 2)
<1>1. /\ la \in Nat /\ lb \in Nat /\ s \in Nat
      /\ s <= la /\ la < lb /\ lb # s + 1 /\ lb <= s + 1 + ExtLength
  BY FittingName
<1>2. Stop(a) = s /\ Stop(b) = s /\ Len(a) = la /\ Len(b) = lb  OBVIOUS
<1> HIDE DEF s, la, lb
<1>3. p \in Out /\ ~(p < BaseLength) /\ s + 2 + (p - BaseLength) = lb
  BY <1>1, NameAssumption DEF Out
<1> HIDE DEF p
<1>4. ~(lb <= la)  BY <1>1
<1>5. Present(b, p) /\ ~Present(a, p)  BY <1>1, <1>2, <1>3, <1>4 DEF Present, Source
<1> QED BY <1>3, <1>5 DEF SamePlaces

\* Two names that fit, and differ in more than case, are two names.
THEOREM NamesAreKeptApart == ASSUME NEW a \in Text, NEW b \in Text PROVE KeptApart(a, b)
<1> SUFFICES ASSUME Fits83(a), Fits83(b),
                    fat_name_equal(format_fat_name(a), format_fat_name(b))
             PROVE  SameUpToCase(a, b)
  BY DEF KeptApart
<1>1. \A p \in Out : format_fat_name(a)[p] = format_fat_name(b)[p]  BY DEF fat_name_equal
<1>2. SamePlaces(a, b) /\ SamePlaces(b, a)  BY <1>1, PresentShows DEF SamePlaces
<1>3. Stop(a) = Stop(b)  BY <1>2, NotShorterBase, FittingName
<1>4. Len(a) = Len(b)  BY <1>2, <1>3, NotShorterExt, FittingName
<1>5. ASSUME NEW p \in Out, Present(a, p)
      PROVE  upper(a[Source(a, p)]) = upper(b[Source(b, p)])
  BY <1>1, <1>2, <1>5 DEF format_fat_name, SamePlaces
<1>6. ASSUME NEW i \in 1 .. Len(a) PROVE upper(a[i]) = upper(b[i])
  <2> DEFINE s == Stop(a)
  <2>0. /\ i \in Nat /\ i >= 1 /\ i <= Len(a) /\ Len(a) \in Nat
        /\ s \in Nat /\ s <= BaseLength /\ Len(a) <= s + 1 + ExtLength
        /\ Stop(a) = s /\ Stop(b) = s
    BY <1>3, FittingName
  <2> HIDE DEF s
  <2>1. CASE i <= s
    <3>1. i - 1 \in Out /\ i - 1 < BaseLength /\ i - 1 < s /\ (i - 1) + 1 = i
      BY <2>0, <2>1, NameAssumption DEF Out
    <3>2. Source(a, i - 1) = i /\ Source(b, i - 1) = i /\ Present(a, i - 1)
      BY <2>0, <3>1 DEF Source, Present
    <3> QED BY <3>1, <3>2, <1>5
  <2>2. CASE i = s + 1
    <3>1. s # Len(a)  BY <2>0, <2>2
    <3>2. a[i] = Dot /\ b[i] = Dot  BY <2>0, <2>2, <3>1, <1>4, FittingName
    <3> QED BY <3>2
  <2>3. CASE i > s + 1
    <3> DEFINE p == BaseLength + (i - s - 2)
    <3>1. p \in Out /\ ~(p < BaseLength) /\ s + 2 + (p - BaseLength) = i
      BY <2>0, <2>3, NameAssumption DEF Out
    <3> HIDE DEF p
    <3>2. Source(a, p) = i /\ Source(b, p) = i /\ Present(a, p)
      BY <3>1, <2>0 DEF Source, Present
    <3> QED BY <3>1, <3>2, <1>5
  <2> QED BY <2>0, <2>1, <2>2, <2>3
<1> QED BY <1>4, <1>6, FittingName DEF SameUpToCase

-----------------------------------------------------------------------------
(* Layout: the places of clusters and table entries on a formatted disk.   *)

\* Arithmetic of whole rows: r rows of n before, and some place in the next.
LEMMA RowBelow ==
    ASSUME NEW n \in Nat, NEW r \in Nat, NEW s \in Nat, r < s
    PROVE  r * n + n <= s * n
<1>1. PICK d \in Nat : s = r + 1 + d  BY s - r - 1 \in Nat
<1>2. d * n \in Nat  BY SMT
<1>3. (r + 1 + d) * n = r * n + n + d * n  BY SMT
<1> QED BY <1>1, <1>2, <1>3

\* A place in rows of n is one row and one place in it.
LEMMA SamePlace ==
    ASSUME NEW n \in Nat, NEW r \in Nat, NEW s \in Nat, NEW i \in 0 .. n - 1, NEW j \in 0 .. n - 1,
           r * n + i = s * n + j
    PROVE  r = s /\ i = j
<1>0. r * n \in Nat /\ s * n \in Nat  BY SMT
<1>1. ~(r < s)
  <2> SUFFICES ASSUME r < s PROVE FALSE  OBVIOUS
  <2>1. r * n + n <= s * n  BY RowBelow
  <2> QED BY <1>0, <2>1
<1>2. ~(s < r)
  <2> SUFFICES ASSUME s < r PROVE FALSE  OBVIOUS
  <2>1. s * n + n <= r * n  BY RowBelow
  <2> QED BY <1>0, <2>1
<1> QED BY <1>0, <1>1, <1>2

\* What is below the modulus stays.
LEMMA ModSmall == ASSUME NEW n \in Nat, NEW a \in Nat, a < n PROVE a % n = a
BY SMT

\* A sector that the disk has is the one that ata.c hands on.
LEMMA AddressedSmall ==
    ASSUME NEW a \in Nat, a < DiskSectors PROVE Addressed(a) = a
<1>1. a % Word = a  BY ModSmall, LayoutAssumption
<1>2. a % DiskSectors = a  BY ModSmall, LayoutAssumption
<1> QED BY <1>1, <1>2 DEF Addressed

-----------------------------------------------------------------------------
(* The volume.                                                             *)

Volume(v) == v \in Volumes(0 .. Word - 1) /\ Mounted(v) /\ Formatted(v)

\* What the fields of a formatted volume are bounded by.
LEMMA VolumeSizes ==
    ASSUME NEW v, Volume(v)
    PROVE  /\ v.reserved_sectors \in Nat /\ v.num_fats \in Nat /\ v.fat_size_32 \in Nat
           /\ v.sec_per_clus \in Nat \ {0} /\ v.total_sectors \in Nat
           /\ v.num_fats * v.fat_size_32 \in Nat
           /\ data_sec(v) = v.reserved_sectors + v.num_fats * v.fat_size_32
           /\ data_sec(v) \in Nat /\ data_sec(v) <= v.total_sectors
           /\ total_clusters(v) \in Nat
           /\ total_clusters(v) * v.sec_per_clus <= v.total_sectors - data_sec(v)
           /\ total_clusters(v) <= DiskSectors
<1> DEFINE d == v.reserved_sectors + v.num_fats * v.fat_size_32
           w == v.total_sectors - d
<1>1. /\ v.reserved_sectors \in Nat /\ v.num_fats \in Nat /\ v.fat_size_32 \in Nat
      /\ v.sec_per_clus \in Nat \ {0} /\ v.total_sectors \in Nat
      /\ v.total_sectors < Word
  BY LayoutAssumption DEF Volume, Volumes, Mounted
<1>2. v.num_fats * v.fat_size_32 \in Nat  BY <1>1, SMT
<1>3. d \in Nat /\ d <= v.total_sectors  BY <1>1, <1>2 DEF Volume, Formatted
<1>4. data_sec(v) = d
  <2>1. d < Word  BY <1>1, <1>3, LayoutAssumption
  <2> QED BY <2>1, <1>3, ModSmall, LayoutAssumption DEF data_sec
<1>5. w \in Nat /\ w < Word  BY <1>1, <1>3, LayoutAssumption
<1>6. total_clusters(v) = w \div v.sec_per_clus
  BY <1>4, <1>5, ModSmall, LayoutAssumption DEF total_clusters
<1> HIDE DEF w
<1>7. total_clusters(v) \in Nat /\ total_clusters(v) * v.sec_per_clus <= w
  <2>1. /\ w \div v.sec_per_clus \in Nat
        /\ w % v.sec_per_clus \in 0 .. v.sec_per_clus - 1
        /\ w = (w \div v.sec_per_clus) * v.sec_per_clus + (w % v.sec_per_clus)
    BY <1>1, <1>5, RowAndPlace, Zenon
  <2>2. (w \div v.sec_per_clus) * v.sec_per_clus \in Nat  BY <2>1, <1>1, SMT
  <2>3. w % v.sec_per_clus \in Nat  BY <2>1, <1>1
  <2> QED BY <2>1, <2>2, <2>3, <1>5, <1>6
<1>8. total_clusters(v) <= w
  <2>0. v.sec_per_clus - 1 \in Nat  BY <1>1
  <2>1. PICK k \in Nat : v.sec_per_clus = 1 + k  BY <2>0, <1>1
  <2>2. total_clusters(v) * k \in Nat  BY <2>1, <1>7, SMT
  <2>3. total_clusters(v) * (1 + k) = total_clusters(v) + total_clusters(v) * k
    BY <2>1, <1>7, SMT
  <2> QED BY <2>1, <2>2, <2>3, <1>5, <1>7
<1>9. w <= DiskSectors
  BY <1>1, <1>3, LayoutAssumption DEF Volume, Formatted, w
<1> QED BY <1>1, <1>2, <1>3, <1>4, <1>5, <1>7, <1>8, <1>9, LayoutAssumption DEF w

\* The address of a cluster's sector, which no wrap has changed.
LEMMA ClusterAddress ==
    ASSUME NEW v, Volume(v), NEW c \in Searched(v), NEW i \in 0 .. v.sec_per_clus - 1
    PROVE  /\ c - 2 \in Nat /\ (c - 2) * v.sec_per_clus \in Nat
           /\ ClusterSector(v, c, i)
                 = FS_PARTITION_LBA + data_sec(v) + (c - 2) * v.sec_per_clus + i
           /\ ClusterSector(v, c, i) < FS_PARTITION_LBA + v.total_sectors
<1> DEFINE n == v.sec_per_clus
           p == (c - 2) * n
           lba == FS_PARTITION_LBA + data_sec(v) + p
<1>1. n \in Nat \ {0} /\ i \in 0 .. n - 1  BY VolumeSizes
<1>2. c - 2 \in Nat /\ c - 2 < total_clusters(v)  BY VolumeSizes DEF Searched
<1>3. p \in Nat  BY <1>1, <1>2, SMT
<1>4. p + n <= total_clusters(v) * n  BY <1>1, <1>2, VolumeSizes, RowBelow
<1>5. total_clusters(v) * n \in Nat  BY <1>1, VolumeSizes, SMT
<1>6. FS_PARTITION_LBA + v.total_sectors <= DiskSectors  BY DEF Volume, Formatted
<1>7. total_clusters(v) * n <= v.total_sectors - data_sec(v)  BY VolumeSizes
<1> HIDE DEF p, n
<1>8. /\ lba \in Nat /\ lba + i \in Nat
      /\ lba + i < FS_PARTITION_LBA + v.total_sectors
  BY <1>1, <1>3, <1>4, <1>5, <1>7, VolumeSizes, LayoutAssumption
<1>9. lba + i < DiskSectors /\ lba < Word
  BY <1>1, <1>6, <1>8, VolumeSizes, LayoutAssumption
<1>10. calculate_LBA(v, c) = lba
  BY <1>8, <1>9, ModSmall, LayoutAssumption DEF calculate_LBA, p, n
<1> HIDE DEF lba
<1>11. ClusterSector(v, c, i) = lba + i
  BY <1>8, <1>9, <1>10, AddressedSmall DEF ClusterSector
<1> QED BY <1>2, <1>3, <1>8, <1>11 DEF lba, p, n

\* Writing one cluster changes no other: no two clusters share a sector.
THEOREM ClustersAreApart == ASSUME NEW v, Volume(v) PROVE ClustersApart(v)
<1> SUFFICES ASSUME NEW c \in Searched(v), NEW d \in Searched(v),
                    NEW i \in 0 .. v.sec_per_clus - 1, NEW j \in 0 .. v.sec_per_clus - 1,
                    ClusterSector(v, c, i) = ClusterSector(v, d, j)
             PROVE  c = d /\ i = j
  BY DEF ClustersApart
<1> DEFINE n == v.sec_per_clus
           p == (c - 2) * n
           q == (d - 2) * n
           b == FS_PARTITION_LBA + data_sec(v)
<1>1. n \in Nat /\ i \in 0 .. n - 1 /\ j \in 0 .. n - 1  BY VolumeSizes
<1>2. c - 2 \in Nat /\ d - 2 \in Nat /\ p \in Nat /\ q \in Nat
  BY ClusterAddress
<1>3. b + p + i = b + q + j  BY ClusterAddress
<1>4. b \in Nat  BY VolumeSizes, LayoutAssumption
<1> HIDE DEF n, p, q, b
<1>5. p + i = q + j  BY <1>1, <1>2, <1>3, <1>4
<1>6. c - 2 = d - 2 /\ i = j  BY <1>1, <1>2, <1>5, SamePlace DEF p, q
<1>7. c \in Int /\ d \in Int  BY VolumeSizes DEF Searched
<1> QED BY <1>6, <1>7

\* No write of a cluster hits the tables or leaves the volume.
THEOREM ClustersAreInside == ASSUME NEW v, Volume(v) PROVE ClustersInside(v)
<1> SUFFICES ASSUME NEW c \in Searched(v), NEW i \in 0 .. v.sec_per_clus - 1
             PROVE  /\ FS_PARTITION_LBA + data_sec(v) <= ClusterSector(v, c, i)
                    /\ ClusterSector(v, c, i) < FS_PARTITION_LBA + v.total_sectors
  BY DEF ClustersInside
<1>1. i \in Nat  BY VolumeSizes
<1> QED BY <1>1, ClusterAddress, VolumeSizes, LayoutAssumption
-----------------------------------------------------------------------------
-----------------------------------------------------------------------------
(* The table.                                                              *)

\* The row of a cluster's entry in its copy of the table.
TableRow(c) == fat_offset(c) \div bytes_per_sec

\* An entry's place in its row, and its row in the table.
LEMMA EntryPlace ==
    ASSUME NEW v, Volume(v), NEW c \in Searched(v)
    PROVE  /\ c \in Nat /\ TableRow(c) \in Nat /\ TableRow(c) < v.fat_size_32
           /\ ent_offset(c) \in 0 .. bytes_per_sec - 1
           /\ 4 * c = TableRow(c) * bytes_per_sec + ent_offset(c)
<1> DEFINE n == bytes_per_sec
           o == c * 4
<1>1. n \in Nat \ {0} /\ n = 4 * EntriesPerSector  BY LayoutAssumption DEF bytes_per_sec
<1>2. /\ c \in Nat /\ c <= total_clusters(v) + 1
      /\ c < v.fat_size_32 * EntriesPerSector
  BY VolumeSizes DEF Searched
<1>3. o \in Nat /\ o < Word
  BY <1>2, VolumeSizes, LayoutAssumption
<1>4. fat_offset(c) = o  BY <1>3, ModSmall, LayoutAssumption DEF fat_offset
<1> HIDE DEF n
<1>5. /\ TableRow(c) \in Nat /\ ent_offset(c) \in 0 .. n - 1
      /\ o = TableRow(c) * n + ent_offset(c)
  <2> HIDE DEF o
  <2>1. /\ o \div n \in Nat /\ o % n \in 0 .. n - 1
        /\ o = (o \div n) * n + (o % n)
    BY <1>1, <1>3, RowAndPlace, Zenon
  <2> QED BY <2>1, <1>4 DEF TableRow, ent_offset, n
<1>6. v.fat_size_32 * EntriesPerSector \in Nat /\ v.fat_size_32 \in Nat
  BY VolumeSizes, LayoutAssumption, SMT
<1>7. v.fat_size_32 * n = 4 * (v.fat_size_32 * EntriesPerSector)
  BY <1>1, <1>6, LayoutAssumption, SMT
<1>8. TableRow(c) * n \in Nat  BY <1>1, <1>5, SMT
<1>9. TableRow(c) * n < v.fat_size_32 * n
  <2> DEFINE a == TableRow(c) * n
             z == v.fat_size_32 * EntriesPerSector
  <2>1. a + ent_offset(c) = o /\ ent_offset(c) \in Nat /\ a \in Nat  BY <1>1, <1>5, <1>8
  <2>2. c < z /\ z \in Nat  BY <1>2, <1>6
  <2> HIDE DEF a, z
  <2>3. a < 4 * z  BY <2>1, <2>2, <1>2
  <2> QED BY <2>3, <1>7 DEF a, z
<1>10. ~(v.fat_size_32 < TableRow(c)) /\ v.fat_size_32 # TableRow(c)
  <2>1. v.fat_size_32 # TableRow(c)  BY <1>5, <1>6, <1>8, <1>9
  <2>2. SUFFICES ASSUME v.fat_size_32 < TableRow(c) PROVE FALSE  BY <2>1
  <2>3. v.fat_size_32 * n + n <= TableRow(c) * n  BY <2>2, <1>1, <1>5, <1>6, RowBelow
  <2>4. v.fat_size_32 * n \in Nat  BY <1>1, <1>6, SMT
  <2> QED BY <2>3, <2>4, <1>1, <1>8, <1>9
<1>11. TableRow(c) < v.fat_size_32  BY <1>5, <1>6, <1>10
<1>12. 4 * c = o  BY <1>2
<1> QED BY <1>2, <1>5, <1>11, <1>12 DEF n

\* The sector of an entry, which no wrap has changed.
LEMMA EntrySector ==
    ASSUME NEW v, Volume(v), NEW c \in Searched(v), NEW f \in 0 .. v.num_fats - 1
    PROVE  /\ f \in Nat /\ f * v.fat_size_32 \in Nat
           /\ f * v.fat_size_32 + TableRow(c) < v.num_fats * v.fat_size_32
           /\ fat_sector(v, f, c)
                 = FS_PARTITION_LBA + v.reserved_sectors + f * v.fat_size_32 + TableRow(c)
<1> DEFINE n == v.fat_size_32
           p == f * n
           t == v.num_fats * n
           a == FS_PARTITION_LBA + v.reserved_sectors + p + TableRow(c)
<1>1. n \in Nat /\ v.num_fats \in Nat /\ f \in Nat /\ f < v.num_fats /\ t \in Nat
  BY VolumeSizes
<1>2. p \in Nat  BY <1>1, SMT
<1> HIDE DEF n
<1>3. p + n <= t  BY <1>1, RowBelow
<1>4. TableRow(c) \in Nat /\ TableRow(c) < n  BY EntryPlace DEF n
<1>5. v.reserved_sectors + t <= v.total_sectors /\ v.reserved_sectors \in Nat
  BY VolumeSizes DEF n
<1>6. FS_PARTITION_LBA + v.total_sectors <= DiskSectors  BY DEF Volume, Formatted
<1> HIDE DEF p, t
<1>7. p + TableRow(c) < t  BY <1>1, <1>2, <1>3, <1>4
<1>8. a \in Nat /\ a < DiskSectors
  BY <1>1, <1>2, <1>4, <1>5, <1>6, <1>7, VolumeSizes, LayoutAssumption
<1>9. fat_sector(v, f, c) = a
  BY <1>8, AddressedSmall DEF fat_sector, TableRow, p, n
<1> QED BY <1>1, <1>2, <1>7, <1>9 DEF p, n, t

\* No entry lies in the reserved sectors or where clusters are.
THEOREM TablesAreInside == ASSUME NEW v, Volume(v) PROVE TablesInside(v)
<1> SUFFICES ASSUME NEW c \in Searched(v), NEW f \in 0 .. v.num_fats - 1
             PROVE  /\ FS_PARTITION_LBA + v.reserved_sectors <= fat_sector(v, f, c)
                    /\ fat_sector(v, f, c) < FS_PARTITION_LBA + data_sec(v)
  BY DEF TablesInside
<1> DEFINE p == f * v.fat_size_32
           t == v.num_fats * v.fat_size_32
<1>1. /\ p \in Nat /\ TableRow(c) \in Nat /\ p + TableRow(c) < t
      /\ fat_sector(v, f, c) = FS_PARTITION_LBA + v.reserved_sectors + p + TableRow(c)
  BY EntrySector, EntryPlace
<1>2. t \in Nat /\ v.reserved_sectors \in Nat /\ data_sec(v) = v.reserved_sectors + t
  BY VolumeSizes
<1> HIDE DEF p, t
<1> QED BY <1>1, <1>2, LayoutAssumption

\* Writing one entry of one copy changes no other entry and no other copy.
THEOREM EntriesAreApart == ASSUME NEW v, Volume(v) PROVE EntriesApart(v)
<1> SUFFICES ASSUME NEW c \in Searched(v), NEW d \in Searched(v),
                    NEW f \in 0 .. v.num_fats - 1, NEW g \in 0 .. v.num_fats - 1,
                    fat_sector(v, f, c) = fat_sector(v, g, d), ent_offset(c) = ent_offset(d)
             PROVE  f = g /\ c = d
  BY DEF EntriesApart
<1> DEFINE n == v.fat_size_32
           p == f * n
           q == g * n
           b == FS_PARTITION_LBA + v.reserved_sectors
<1>1. /\ f \in Nat /\ g \in Nat /\ p \in Nat /\ q \in Nat
      /\ b + p + TableRow(c) = b + q + TableRow(d)
  BY EntrySector
<1>2. b \in Nat /\ n \in Nat  BY VolumeSizes, LayoutAssumption
<1> HIDE DEF n, p, q, b
<1>3. TableRow(c) \in 0 .. n - 1 /\ TableRow(d) \in 0 .. n - 1  BY EntryPlace, <1>2 DEF n
<1>4. p + TableRow(c) = q + TableRow(d)  BY <1>1, <1>2, <1>3
<1>5. f = g /\ TableRow(c) = TableRow(d)  BY <1>1, <1>2, <1>3, <1>4, SamePlace DEF p, q
<1>6. 4 * c = 4 * d /\ c \in Nat /\ d \in Nat
  <2>1. /\ 4 * c = TableRow(c) * bytes_per_sec + ent_offset(c)
        /\ 4 * d = TableRow(d) * bytes_per_sec + ent_offset(d)
        /\ c \in Nat /\ d \in Nat
    BY EntryPlace
  <2> QED BY <2>1, <1>5, Zenon
<1> QED BY <1>5, <1>6
=============================================================================
