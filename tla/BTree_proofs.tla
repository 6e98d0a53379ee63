---------------------------- MODULE BTree_proofs ----------------------------
(***************************************************************************)
(* Theorems about module BTree, for every size of page and record, every   *)
(* set of keys and every number of pages and trees: the pages never        *)
(* overflow, and insertNonFull is only called on a node with room.         *)
(***************************************************************************)
EXTENDS BTree, TLAPS, FiniteSetTheorems, SequenceTheorems,
        WellFoundedInduction

-----------------------------------------------------------------------------
(* Arithmetic.                                                             *)

LEMMA Word16Id ==
  ASSUME NEW n \in Int, 0 <= n, n < 65536
  PROVE  Word16(n) = n
BY DEF Word16

(* A nonempty set of naturals has a least element, the one Min chooses.    *)
LEMMA MinExists ==
  ASSUME NEW S, S \subseteq Nat, S # {}
  PROVE  Min(S) \in S /\ \A j \in S : Min(S) <= j
<1>1. \E R : /\ IsWellFoundedOn(R, Nat)
             /\ \A ss \in Nat \X Nat : ss \in R <=> ss[1] < ss[2]
  <2>1. \A ss \in Nat \X Nat : ss \in OpToRel(<, Nat) <=> ss[1] < ss[2]
    BY Zenon DEF OpToRel
  <2>2. QED
    BY <2>1, NatLessThanWellFounded, Zenon
<1>2. PICK R : /\ IsWellFoundedOn(R, Nat)
               /\ \A ss \in Nat \X Nat : ss \in R <=> ss[1] < ss[2]
  BY <1>1
<1>3. PICK x \in S : \A y \in S : ~(<<y, x>> \in R)
  BY <1>2, WFMin
<1>4. ASSUME NEW y \in S
      PROVE  x <= y
  <2>1. <<y, x>> \in Nat \X Nat /\ <<y, x>>[1] = y /\ <<y, x>>[2] = x
    OBVIOUS
  <2>2. ~(y < x)
    BY <1>2, <1>3, <2>1
  <2>3. QED
    BY <2>2
<1>5. QED
  BY <1>4 DEF Min
-----------------------------------------------------------------------------
(* The functions on nodes.                                                 *)

(* find_position returns a position of the node or the one after its last  *)
(* cell; the cells before it have smaller keys, the cell at it has not.    *)
LEMMA PositionFound ==
  ASSUME NEW n \in BTreeNode, NEW key \in Nat
  PROVE  LET i == find_position(n, key)
         IN  /\ i \in 1 .. Len(n.cells) + 1
             /\ \A j \in 1 .. Len(n.cells) : j < i => n.cells[j].key < key
             /\ i <= Len(n.cells) => n.cells[i].key >= key
<1>1. n.cells \in Seq(BTreeCell) /\ Len(n.cells) \in Nat
  BY DEF BTreeNode
<1>2. ASSUME NEW j \in 1 .. Len(n.cells)
      PROVE  n.cells[j].key \in Nat
  <2>1. n.cells[j] \in BTreeCell
    BY <1>1
  <2>2. QED
    BY <2>1 DEF BTreeCell
<1>3. AtOrAfter(n, key) \subseteq 1 .. Len(n.cells)
  BY DEF AtOrAfter
<1>4. CASE AtOrAfter(n, key) = {}
  <2>1. find_position(n, key) = Len(n.cells) + 1
    BY <1>4 DEF find_position
  <2>2. \A j \in 1 .. Len(n.cells) : n.cells[j].key < key
    BY <1>2, <1>4 DEF AtOrAfter
  <2>3. QED
    BY <1>1, <2>1, <2>2
<1>5. CASE AtOrAfter(n, key) # {}
  <2> DEFINE i == Min(AtOrAfter(n, key))
  <2>1. AtOrAfter(n, key) \subseteq Nat
    BY <1>1, <1>3
  <2>2. i \in AtOrAfter(n, key) /\ \A j \in AtOrAfter(n, key) : i <= j
    BY <1>5, <2>1, MinExists
  <2>3. find_position(n, key) = i
    BY <1>5 DEF find_position
  <2>4. i \in 1 .. Len(n.cells) /\ n.cells[i].key >= key
    BY <2>2 DEF AtOrAfter
  <2>5. ASSUME NEW j \in 1 .. Len(n.cells), j < i
        PROVE  n.cells[j].key < key
    <3>1. j \notin AtOrAfter(n, key)
      BY <1>1, <2>2, <2>4, <2>5
    <3>2. QED
      BY <1>2, <3>1 DEF AtOrAfter
  <2> HIDE DEF i
  <2>6. QED
    BY <1>1, <2>3, <2>4, <2>5
<1>6. QED
  BY <1>4, <1>5

(* InsertAt shifts the cells from position i on by one.                    *)
LEMMA InsertAtCells ==
  ASSUME NEW cells \in Seq(BTreeCell), NEW c \in BTreeCell,
         NEW i \in 1 .. Len(cells) + 1
  PROVE  LET s == InsertAt(cells, i, c)
         IN  /\ s \in Seq(BTreeCell)
             /\ Len(s) = Len(cells) + 1
             /\ s[i] = c
             /\ \A j \in 1 .. Len(cells) :
                  s[IF j < i THEN j ELSE j + 1] = cells[j]
<1> DEFINE pre == SubSeq(cells, 1, i - 1)
           post == SubSeq(cells, i, Len(cells))
           s == InsertAt(cells, i, c)
<1>1. Len(cells) \in Nat /\ i \in Nat
  OBVIOUS
<1>2. /\ pre \in Seq(BTreeCell) /\ Len(pre) = i - 1
      /\ \A j \in 1 .. i - 1 : pre[j] = cells[j]
  BY <1>1
<1>3. /\ post \in Seq(BTreeCell) /\ Len(post) = Len(cells) - i + 1
      /\ \A j \in 1 .. Len(cells) - i + 1 : post[j] = cells[j + i - 1]
  BY <1>1
<1>4. s = (pre \o <<c>>) \o post
  BY DEF InsertAt
<1> HIDE DEF pre, post, s
<1>5. s \in Seq(BTreeCell) /\ Len(s) = Len(cells) + 1
  <2> DEFINE fore == pre \o <<c>>
  <2>1. fore \in Seq(BTreeCell) /\ Len(fore) = Len(pre) + 1
    <3>1. <<c>> \in Seq(BTreeCell) /\ Len(<<c>>) = 1
      OBVIOUS
    <3>2. fore \in Seq(BTreeCell) /\ Len(fore) = Len(pre) + Len(<<c>>)
      BY <1>2, <3>1, ConcatProperties
    <3>3. QED
      BY <3>1, <3>2
  <2>2. s = fore \o post
    BY <1>4
  <2> HIDE DEF fore
  <2>3. s \in Seq(BTreeCell) /\ Len(s) = Len(fore) + Len(post)
    BY <1>3, <2>1, <2>2, ConcatProperties
  <2>4. (i - 1) + 1 + (Len(cells) - i + 1) = Len(cells) + 1
    BY <1>1
  <2>5. QED
    BY <1>2, <1>3, <2>1, <2>3, <2>4
<1>6. s[i] = c
  BY <1>1, <1>2, <1>3, <1>4
<1>7. ASSUME NEW j \in 1 .. Len(cells)
      PROVE  s[IF j < i THEN j ELSE j + 1] = cells[j]
  <2>1. CASE j < i
    BY <1>1, <1>2, <1>3, <1>4, <2>1
  <2>2. CASE ~(j < i)
    <3>1. j + 1 - i \in 1 .. Len(cells) - i + 1 /\ j + 1 > i
      BY <1>1, <2>2
    <3>2. s[j + 1] = post[j + 1 - i]
      BY <1>1, <1>2, <1>3, <1>4, <3>1
    <3>3. post[j + 1 - i] = cells[(j + 1 - i) + i - 1]
      BY <1>3, <3>1
    <3>4. (j + 1 - i) + i - 1 = j
      BY <1>1
    <3>5. QED
      BY <2>2, <3>2, <3>3, <3>4
  <2>3. QED
    BY <2>1, <2>2
<1>8. QED
  BY <1>5, <1>6, <1>7 DEF s

(* The cells with long records are at most all of them.                    *)
LEMMA LongCellsType ==
  ASSUME NEW t, NEW cells \in Seq(BTreeCell)
  PROVE  /\ IsFiniteSet(LongCells(t, cells))
         /\ Cardinality(LongCells(t, cells)) \in Nat
         /\ Cardinality(LongCells(t, cells)) <= Len(cells)
<1>1. LongCells(t, cells) \subseteq 1 .. Len(cells)
  BY DEF LongCells
<1>2. IsFiniteSet(1 .. Len(cells)) /\ Cardinality(1 .. Len(cells)) = Len(cells)
  <2>1. Len(cells) \in Nat /\ 1 \in Int
    OBVIOUS
  <2>2. QED
    BY <2>1, FS_Interval, SMTT(30)
<1>3. QED
  BY <1>1, <1>2, FS_Subset, FS_CardinalityType

(* A run of consecutive cells has no more long records than the whole.     *)
LEMMA LongCellsOfRun ==
  ASSUME NEW t, NEW cells \in Seq(BTreeCell),
         NEW a \in 1 .. Len(cells) + 1, NEW b \in 0 .. Len(cells), a <= b + 1
  PROVE  /\ SubSeq(cells, a, b) \in Seq(BTreeCell)
         /\ Len(SubSeq(cells, a, b)) = b + 1 - a
         /\ Cardinality(LongCells(t, SubSeq(cells, a, b)))
              <= Cardinality(LongCells(t, cells))
<1> DEFINE s == SubSeq(cells, a, b)
           f == [j \in LongCells(t, s) |-> j + a - 1]
<1>1. s \in Seq(BTreeCell) /\ Len(s) = b + 1 - a
  OBVIOUS
<1>2. \A j \in 1 .. b + 1 - a : s[j] = cells[j + a - 1]
  OBVIOUS
<1>3. \A j \in LongCells(t, s) : j \in Nat /\ j + a - 1 \in LongCells(t, cells)
  <2>1. SUFFICES ASSUME NEW j \in LongCells(t, s)
                 PROVE  j \in Nat /\ j + a - 1 \in LongCells(t, cells)
    OBVIOUS
  <2> HIDE DEF s
  <2>2. j \in 1 .. b + 1 - a /\ t = TABLE_LEAF /\ s[j].val \in LongRecords
    BY <1>1 DEF LongCells
  <2>3. j + a - 1 \in 1 .. Len(cells) /\ cells[j + a - 1].val \in LongRecords
    BY <1>2, <2>2
  <2>4. QED
    BY <2>2, <2>3 DEF LongCells
<1> HIDE DEF s
<1>4. f \in Injection(LongCells(t, s), LongCells(t, cells))
  <2>1. f \in [LongCells(t, s) -> LongCells(t, cells)]
    BY <1>3
  <2>2. \A j, k \in LongCells(t, s) : f[j] = f[k] => j = k
    BY <1>3
  <2> HIDE DEF f
  <2>3. QED
    BY <2>1, <2>2 DEF Injection, IsInjective
<1>5. IsFiniteSet(LongCells(t, cells))
  BY LongCellsType
<1> HIDE DEF f
<1>6. Cardinality(LongCells(t, s)) <= Cardinality(LongCells(t, cells))
  BY <1>4, <1>5, FS_Injection
<1>7. QED
  BY <1>1, <1>6 DEF s
(* One more cell adds one to them if its record is long.                   *)
LEMMA LongCellsOfInsertAt ==
  ASSUME NEW t, NEW cells \in Seq(BTreeCell), NEW c \in BTreeCell,
         NEW i \in 1 .. Len(cells) + 1
  PROVE  Cardinality(LongCells(t, InsertAt(cells, i, c)))
           = Cardinality(LongCells(t, cells))
             + IF t = TABLE_LEAF /\ c.val \in LongRecords THEN 1 ELSE 0
<1> DEFINE s == InsertAt(cells, i, c)
           L == LongCells(t, cells)
           shift(j) == IF j < i THEN j ELSE j + 1
           f == [j \in L |-> shift(j)]
           T == {shift(j) : j \in L}
<1>1. /\ s \in Seq(BTreeCell) /\ Len(s) = Len(cells) + 1 /\ s[i] = c
      /\ \A j \in 1 .. Len(cells) : s[shift(j)] = cells[j]
  BY InsertAtCells
<1>2. Len(cells) \in Nat /\ i \in Nat /\ i <= Len(cells) + 1 /\ i >= 1
  OBVIOUS
<1> HIDE DEF s
<1>3. L \subseteq 1 .. Len(cells)
  BY DEF LongCells
<1>4. IsFiniteSet(L) /\ Cardinality(L) \in Nat
  BY LongCellsType
<1>5. IsFiniteSet(T) /\ Cardinality(T) = Cardinality(L) /\ i \notin T
  <2>1. f \in [L -> T]
    OBVIOUS
  <2>2. \A j, k \in L : f[j] = f[k] => j = k
    BY <1>2, <1>3
  <2>3. \A x \in T : \E j \in L : f[j] = x
    OBVIOUS
  <2>4. i \notin T
    BY <1>2, <1>3
  <2> HIDE DEF f, T
  <2>5. f \in Bijection(L, T)
    BY <2>1, <2>2, <2>3 DEF Bijection, Injection, Surjection, IsInjective
  <2>6. QED
    BY <1>4, <2>4, <2>5, FS_Bijection DEF ExistsBijection
<1>6. T \subseteq LongCells(t, s)
  <2>1. SUFFICES ASSUME NEW j \in L PROVE shift(j) \in LongCells(t, s)
    OBVIOUS
  <2>2. t = TABLE_LEAF /\ cells[j].val \in LongRecords /\ j \in 1 .. Len(cells)
    BY DEF LongCells
  <2>3. shift(j) \in 1 .. Len(s) /\ s[shift(j)] = cells[j]
    BY <1>1, <1>2, <2>2
  <2>4. QED
    BY <2>2, <2>3 DEF LongCells
<1>7. LongCells(t, s) \subseteq T \cup {i}
  <2>1. SUFFICES ASSUME NEW k \in LongCells(t, s), k # i PROVE k \in T
    OBVIOUS
  <2>2. k \in 1 .. Len(cells) + 1 /\ t = TABLE_LEAF /\ s[k].val \in LongRecords
    BY <1>1 DEF LongCells
  <2>3. PICK j \in 1 .. Len(cells) : shift(j) = k
    <3>1. CASE k < i
      <4>1. k \in 1 .. Len(cells) /\ shift(k) = k
        BY <1>2, <2>2, <3>1
      <4>2. QED
        BY <4>1
    <3>2. CASE k > i
      <4>1. k - 1 \in 1 .. Len(cells) /\ shift(k - 1) = k
        BY <1>2, <2>2, <3>2
      <4>2. QED
        BY <4>1
    <3>3. QED
      BY <1>2, <2>1, <2>2, <3>1, <3>2
  <2>4. j \in L
    BY <1>1, <2>2, <2>3 DEF LongCells
  <2>5. QED
    BY <2>3, <2>4
<1>8. i \in LongCells(t, s) <=> t = TABLE_LEAF /\ c.val \in LongRecords
  BY <1>1, <1>2 DEF LongCells
<1> HIDE DEF T, L
<1>9. LongCells(t, s) = IF t = TABLE_LEAF /\ c.val \in LongRecords
                        THEN T \cup {i} ELSE T
  BY <1>6, <1>7, <1>8
<1>10. Cardinality(T \cup {i}) = Cardinality(T) + 1
  BY <1>5, FS_AddElement
<1>11. QED
  BY <1>4, <1>5, <1>9, <1>10 DEF s, L
-----------------------------------------------------------------------------
(* Bytes.                                                                  *)

LongExtra == LongSize - ShortSize
MaxCellSize(t) == ShortCellSize(t) + (IF t = TABLE_LEAF THEN LongExtra ELSE 0)
Extra(t, c) == IF t = TABLE_LEAF /\ c.val \in LongRecords THEN LongExtra ELSE 0

USE DEF TABLE_INTERNAL, TABLE_LEAF, INDEX_INTERNAL, INDEX_LEAF

LEMMA CellSizes ==
  ASSUME NEW t \in NodeTypes, NEW c \in BTreeCell
  PROVE  /\ LongExtra \in Nat
         /\ ShortCellSize(t) \in Nat
         /\ ShortCellSize(t) >= 8
         /\ MaxCellSize(t) \in Nat
         /\ cell_size(t, c) \in Nat
         /\ cell_size(t, c) = ShortCellSize(t) + Extra(t, c)
         /\ cell_size(t, c) <= MaxCellSize(t)
         /\ MaxCellSize(t) <= PageSize + 16
         /\ is_internal(t) => cell_size(t, c) = ShortCellSize(t)
<1>1. LongExtra \in Nat /\ LongSize \in Nat /\ ShortSize \in Nat
      /\ PageSize \in Nat /\ LongExtra <= LongSize /\ LongSize <= PageSize
  BY ConstantsAssumption DEF LongExtra
<1>2. CASE t = TABLE_LEAF
  <2>1. ShortCellSize(t) = 8 + ShortSize /\ MaxCellSize(t) = 8 + LongSize
    BY <1>1, <1>2 DEF ShortCellSize, MaxCellSize, LongExtra
  <2>2. cell_size(t, c) = 8 + data_size(c.val) /\ ~is_internal(t)
    BY <1>2 DEF cell_size, is_internal
  <2>3. CASE c.val \in LongRecords
    <3>1. data_size(c.val) = LongSize /\ Extra(t, c) = LongExtra
      BY <1>2, <2>3 DEF data_size, Extra
    <3>2. QED
      BY <1>1, <2>1, <2>2, <3>1, ConstantsAssumption DEF LongExtra
  <2>4. CASE c.val \notin LongRecords
    <3>1. data_size(c.val) = ShortSize /\ Extra(t, c) = 0
      BY <1>2, <2>4 DEF data_size, Extra
    <3>2. QED
      BY <1>1, <2>1, <2>2, <3>1, ConstantsAssumption DEF LongExtra
  <2>5. QED
    BY <2>3, <2>4
<1>3. CASE t # TABLE_LEAF
  <2>1. Extra(t, c) = 0 /\ MaxCellSize(t) = ShortCellSize(t) + 0
    BY <1>3 DEF Extra, MaxCellSize
  <2>2. /\ cell_size(t, c) = ShortCellSize(t)
        /\ ShortCellSize(t) \in {8, 12, 16}
    BY <1>3 DEF cell_size, ShortCellSize, NodeTypes
  <2>3. QED
    BY <1>1, <2>1, <2>2
<1>4. QED
  BY <1>2, <1>3

LEMMA SizeTypes ==
  ASSUME NEW t \in NodeTypes
  PROVE  /\ LongExtra \in Nat
         /\ ShortCellSize(t) \in Nat /\ ShortCellSize(t) >= 8
         /\ MaxCellSize(t) \in Nat /\ MaxCellSize(t) <= PageSize + 16
<1> DEFINE c == [key |-> 0, val |-> NoValue, child |-> 0]
<1>1. c \in BTreeCell
  BY ConstantsAssumption DEF BTreeCell
<1> HIDE DEF c
<1>2. QED
  BY <1>1, CellSizes

LEMMA StoredType ==
  ASSUME NEW t \in NodeTypes, NEW c \in BTreeCell
  PROVE  /\ Stored(t, c) \in BTreeCell
         /\ t = TABLE_LEAF => Stored(t, c).val = c.val
         /\ Stored(t, c).child = IF is_internal(t) THEN c.child ELSE 0
<1>1. c.key \in Nat /\ c.val \in Vals \cup {NoValue} /\ c.child \in 0 .. MaxPages
  BY DEF BTreeCell
<1>2. varint32(c.key) \in Nat
  BY <1>1 DEF varint32
<1>3. MaxPages \in Nat
  BY ConstantsAssumption
<1>4. QED
  BY <1>1, <1>2, <1>3 DEF Stored, BTreeCell

LEMMA Distribute ==
  ASSUME NEW x \in Nat, NEW y \in Nat
  PROVE  x * (y + 1) = x * y + x /\ x * y \in Nat
OBVIOUS

LEMMA Monotone ==
  ASSUME NEW x \in Nat, NEW y \in Nat, NEW z \in Nat, y <= z
  PROVE  x * y <= x * z /\ x * y \in Nat /\ x * z \in Nat
OBVIOUS

(* The bytes of the cells of a node lie between those of as many short     *)
(* ones and as many long ones; a run of them takes no more.                *)
LEMMA CellBytesBounds ==
  ASSUME NEW t \in NodeTypes, NEW cells \in Seq(BTreeCell)
  PROVE  /\ CellBytes(t, cells) \in Nat
         /\ ShortCellSize(t) * Len(cells) <= CellBytes(t, cells)
         /\ CellBytes(t, cells) <= MaxCellSize(t) * Len(cells)
<1> DEFINE a == ShortCellSize(t)
           n == Len(cells)
           L == Cardinality(LongCells(t, cells))
<1>1. a \in Nat /\ LongExtra \in Nat /\ n \in Nat
  BY SizeTypes
<1>2. L \in Nat /\ L <= n
  BY LongCellsType
<1>3. CellBytes(t, cells) = a * n + LongExtra * L
  BY DEF CellBytes, LongExtra
<1>4. CASE t = TABLE_LEAF
  <2>1. MaxCellSize(t) = a + LongExtra
    BY <1>4 DEF MaxCellSize
  <2> HIDE DEF a, n, L
  <2>2. LongExtra * L <= LongExtra * n /\ LongExtra * L \in Nat
        /\ LongExtra * n \in Nat
    BY <1>1, <1>2, Monotone
  <2>3. (a + LongExtra) * n = a * n + LongExtra * n /\ a * n \in Nat
    BY <1>1
  <2>4. QED
    BY <1>3, <2>1, <2>2, <2>3 DEF a, n
<1>5. CASE t # TABLE_LEAF
  <2>1. MaxCellSize(t) = a + 0
    BY <1>5 DEF MaxCellSize
  <2>2. L = 0
    <3>1. LongCells(t, cells) = {}
      BY <1>5 DEF LongCells
    <3>2. QED
      BY <3>1, FS_EmptySet
  <2> HIDE DEF a, n, L
  <2>3. LongExtra * L = 0 /\ a * n \in Nat
    BY <1>1, <2>2
  <2>4. MaxCellSize(t) = a
    BY <1>1, <2>1
  <2>5. CellBytes(t, cells) = a * n
    BY <1>3, <2>3
  <2>6. QED
    BY <2>3, <2>4, <2>5 DEF a, n
<1>6. QED
  BY <1>4, <1>5

LEMMA CellBytesOfRun ==
  ASSUME NEW t \in NodeTypes, NEW cells \in Seq(BTreeCell),
         NEW a \in 1 .. Len(cells) + 1, NEW b \in 0 .. Len(cells), a <= b + 1
  PROVE  LET run == SubSeq(cells, a, b)
         IN  /\ run \in Seq(BTreeCell)
             /\ Len(run) = b + 1 - a
             /\ CellBytes(t, run) + ShortCellSize(t) * (Len(cells) - Len(run))
                  <= CellBytes(t, cells)
<1> DEFINE run == SubSeq(cells, a, b)
           x == ShortCellSize(t)
           n == Len(cells)
           k == Len(run)
           L == Cardinality(LongCells(t, cells))
           K == Cardinality(LongCells(t, run))
<1>1. run \in Seq(BTreeCell) /\ k = b + 1 - a /\ K <= L
  BY LongCellsOfRun
<1>2. n \in Nat /\ k \in Nat /\ k <= n
  BY <1>1
<1>3. x \in Nat /\ LongExtra \in Nat
  BY SizeTypes
<1> HIDE DEF run
<1>4. L \in Nat /\ K \in Nat
  BY <1>1, LongCellsType
<1>5. /\ CellBytes(t, cells) = x * n + LongExtra * L
      /\ CellBytes(t, run) = x * k + LongExtra * K
  BY DEF CellBytes, LongExtra
<1> HIDE DEF x, n, k, L, K
<1>6. LongExtra * K <= LongExtra * L /\ LongExtra * K \in Nat
      /\ LongExtra * L \in Nat
  BY <1>1, <1>3, <1>4, Monotone
<1>7. x * (n - k) = x * n - x * k /\ x * n \in Nat /\ x * k \in Nat
  BY <1>2, <1>3
<1>8. CellBytes(t, run) + x * (n - k) <= CellBytes(t, cells)
  BY <1>5, <1>6, <1>7
<1>9. QED
  BY <1>1, <1>8 DEF x, n, k, run

LEMMA CellBytesOfInsertAt ==
  ASSUME NEW t \in NodeTypes, NEW cells \in Seq(BTreeCell),
         NEW c \in BTreeCell, NEW i \in 1 .. Len(cells) + 1
  PROVE  CellBytes(t, InsertAt(cells, i, Stored(t, c)))
           = CellBytes(t, cells) + cell_size(t, c)
<1> DEFINE s == InsertAt(cells, i, Stored(t, c))
           x == ShortCellSize(t)
           n == Len(cells)
           L == Cardinality(LongCells(t, cells))
           M == Cardinality(LongCells(t, s))
<1>1. Stored(t, c) \in BTreeCell /\ (t = TABLE_LEAF => Stored(t, c).val = c.val)
  BY StoredType
<1>2. Len(s) = n + 1 /\ n \in Nat
  BY <1>1, InsertAtCells
<1>3. M = L + IF t = TABLE_LEAF /\ c.val \in LongRecords THEN 1 ELSE 0
  BY <1>1, LongCellsOfInsertAt
<1>4. L \in Nat
  BY LongCellsType
<1>5. /\ x \in Nat /\ LongExtra \in Nat
      /\ cell_size(t, c) = x + Extra(t, c)
  BY CellSizes
<1>6. /\ CellBytes(t, cells) = x * n + LongExtra * L
      /\ CellBytes(t, s) = x * (n + 1) + LongExtra * M
  BY <1>2 DEF CellBytes, LongExtra
<1> HIDE DEF s, x, n, L, M
<1>7. x * (n + 1) = x * n + x /\ x * n \in Nat
  BY <1>2, <1>5, Distribute
<1>8. LongExtra * M = LongExtra * L + Extra(t, c) /\ LongExtra * L \in Nat
  <2>1. CASE t = TABLE_LEAF /\ c.val \in LongRecords
    <3>1. M = L + 1 /\ Extra(t, c) = LongExtra
      BY <1>3, <2>1 DEF Extra
    <3>2. QED
      BY <1>4, <1>5, <3>1, Distribute
  <2>2. CASE ~(t = TABLE_LEAF /\ c.val \in LongRecords)
    <3>1. M = L /\ Extra(t, c) = 0
      BY <1>3, <1>4, <2>2 DEF Extra
    <3>2. QED
      BY <1>4, <1>5, <3>1, Distribute
  <2>3. QED
    BY <2>1, <2>2
<1>9. Extra(t, c) \in Nat
  BY <1>5 DEF Extra
<1>10. QED
  BY <1>5, <1>6, <1>7, <1>8, <1>9 DEF s
-----------------------------------------------------------------------------
(* The layout of a node.                                                   *)

Slack(n) == n.cells_offset - n.free_offset

LEMMA HeaderSizes ==
  ASSUME NEW p \in Pages, NEW t
  PROVE  /\ node_header_base(p) \in Nat
         /\ node_header_base(p) <= FileHeader
         /\ node_header_size(t) \in {8, 12}
         /\ ~is_internal(t) => node_header_size(t) = 8
         /\ PageSize \in Nat /\ PageSize <= 32768
         /\ FileHeader \in Nat
         /\ MaxPages \in Nat
BY ConstantsAssumption DEF node_header_base, node_header_size

(* In a node with a true header the offsets are numbers no larger than the *)
(* page, and uint16_t arithmetic on them does not wrap around.             *)
LEMMA FullMeansNoSlack ==
  ASSUME NEW p \in Pages, NEW n \in BTreeNode, n.type \in NodeTypes,
         Layout(p, n), NEW c \in BTreeCell
  PROVE  /\ Slack(n) \in Nat /\ n.cells_offset \in Nat /\ n.free_offset \in Nat
         /\ n.cells_offset <= PageSize
         /\ n.cells \in Seq(BTreeCell)
         /\ n.right_page \in 0 .. MaxPages
         /\ Full(n, c) <=> Slack(n) < cell_size(n.type, c) + 2
<1>1. /\ n.cells \in Seq(BTreeCell) /\ n.cells_offset \in Nat
      /\ n.free_offset \in Nat /\ n.right_page \in 0 .. MaxPages
  BY DEF BTreeNode
<1>2. CellBytes(n.type, n.cells) \in Nat
  BY <1>1, CellBytesBounds
<1>3. PageSize \in Nat /\ PageSize <= 32768
  BY HeaderSizes
<1>4. n.cells_offset <= PageSize /\ Slack(n) \in Nat /\ Slack(n) < 65536
  BY <1>1, <1>2, <1>3 DEF Layout, Slack
<1>5. /\ cell_size(n.type, c) + 2 \in Nat
      /\ cell_size(n.type, c) + 2 < 65536
  BY <1>3, CellSizes
<1>6. /\ node_free_space(n) = Slack(n)
      /\ Word16(cell_size(n.type, c) + 2) = cell_size(n.type, c) + 2
  BY <1>4, <1>5, Word16Id DEF node_free_space, Slack
<1>7. QED
  BY <1>1, <1>4, <1>6 DEF Full

(* insertCell on a node with room keeps the header true, and takes the     *)
(* cell's bytes and a slot of the cell array from the room.                *)
LEMMA InsertCellKeepsLayout ==
  ASSUME NEW p \in Pages, NEW n \in BTreeNode, n.type \in NodeTypes,
         Layout(p, n), NEW c \in BTreeCell, ~Full(n, c),
         NEW i \in 1 .. Len(n.cells) + 1
  PROVE  LET new == insertCell(n, i, c)
         IN  /\ new \in BTreeNode
             /\ Layout(p, new)
             /\ new.type = n.type
             /\ new.right_page = n.right_page
             /\ new.cells = InsertAt(n.cells, i, Stored(n.type, c))
             /\ Slack(new) = Slack(n) - cell_size(n.type, c) - 2
<1> DEFINE new == insertCell(n, i, c)
           s == InsertAt(n.cells, i, Stored(n.type, c))
           size == cell_size(n.type, c)
<1>1. /\ Slack(n) \in Nat /\ n.cells_offset \in Nat /\ n.free_offset \in Nat
      /\ n.cells_offset <= PageSize /\ n.cells \in Seq(BTreeCell)
      /\ Slack(n) >= size + 2 /\ size \in Nat
  BY FullMeansNoSlack, CellSizes
<1>2. PageSize \in Nat /\ PageSize <= 32768
  BY HeaderSizes
<1>3. /\ s \in Seq(BTreeCell) /\ Len(s) = Len(n.cells) + 1
      /\ CellBytes(n.type, s) = CellBytes(n.type, n.cells) + size
  BY <1>1, StoredType, InsertAtCells, CellBytesOfInsertAt
<1>4. /\ Word16(n.cells_offset - size) = n.cells_offset - size
      /\ Word16(n.free_offset + 2) = n.free_offset + 2
  <2>1. /\ n.cells_offset - size \in Int /\ 0 <= n.cells_offset - size
        /\ n.cells_offset - size < 65536
        /\ n.free_offset + 2 \in Int /\ 0 <= n.free_offset + 2
        /\ n.free_offset + 2 < 65536
    BY <1>1, <1>2, SMTT(30) DEF Slack
  <2>2. QED
    BY <2>1, Word16Id
<1>5. new = [n EXCEPT !.cells = s, !.cells_offset = n.cells_offset - size,
                      !.free_offset = n.free_offset + 2]
  BY <1>4 DEF insertCell
<1>6. /\ new.type = n.type /\ new.right_page = n.right_page /\ new.cells = s
      /\ new.cells_offset = n.cells_offset - size
      /\ new.free_offset = n.free_offset + 2
  BY <1>5 DEF BTreeNode
<1>7. new \in BTreeNode
  <2>1. n.cells_offset - size \in Nat /\ n.free_offset + 2 \in Nat
    BY <1>1 DEF Slack
  <2> HIDE DEF s, size, new
  <2>2. QED
    BY <1>3, <1>5, <2>1 DEF BTreeNode
<1> HIDE DEF new
<1>8. Slack(new) = Slack(n) - size - 2 /\ Slack(new) \in Nat
  BY <1>1, <1>6, SMTT(30) DEF Slack
<1>9. Layout(p, new)
  <2>1. new.free_offset =
          node_header_base(p) + node_header_size(new.type) + 2 * Len(new.cells)
    <3>1. node_header_base(p) \in Nat /\ node_header_size(n.type) \in Nat
      BY HeaderSizes
    <3>2. Len(n.cells) \in Nat
      BY <1>1
    <3>3. n.free_offset =
            node_header_base(p) + node_header_size(n.type) + 2 * Len(n.cells)
      BY DEF Layout
    <3>4. QED
      BY <1>3, <1>6, <3>1, <3>2, <3>3
  <2>2. new.cells_offset = PageSize - CellBytes(new.type, new.cells)
    <3>1. n.cells_offset = PageSize - CellBytes(n.type, n.cells)
      BY DEF Layout
    <3>2. CellBytes(n.type, n.cells) \in Nat
      BY <1>1, CellBytesBounds
    <3>3. QED
      BY <1>1, <1>2, <1>3, <1>6, <3>1, <3>2
  <2>3. new.free_offset <= new.cells_offset
    BY <1>1, <1>6, <1>8, SMTT(30) DEF Slack
  <2>4. QED
    BY <2>1, <2>2, <2>3 DEF Layout
<1>10. QED
  BY <1>6, <1>7, <1>8, <1>9 DEF new
(* A page that is filled from empty with cells that fit has a true header. *)
FilledNode(p, t, cells, right) ==
    [InsertCells(initEmptyNode(p, t), cells) EXCEPT !.right_page = right]

BytesFor(t, cells) == node_header_size(t) + 2 * Len(cells) + CellBytes(t, cells)

LEMMA FilledNodeLayout ==
  ASSUME NEW p \in Pages, NEW t \in NodeTypes, NEW cells \in Seq(BTreeCell),
         NEW right \in 0 .. MaxPages,
         node_header_base(p) + BytesFor(t, cells) <= PageSize
  PROVE  LET new == FilledNode(p, t, cells, right)
         IN  /\ new \in BTreeNode
             /\ Layout(p, new)
             /\ new.type = t /\ new.cells = cells /\ new.right_page = right
             /\ Slack(new) = PageSize - node_header_base(p) - BytesFor(t, cells)
<1> DEFINE new == FilledNode(p, t, cells, right)
           base == node_header_base(p)
           hdr == node_header_size(t)
           n == Len(cells)
           bytes == CellBytes(t, cells)
<1>1. base \in Nat /\ hdr \in Nat /\ n \in Nat /\ bytes \in Nat
      /\ PageSize \in Nat /\ PageSize <= 32768
  BY HeaderSizes, CellBytesBounds, SMTT(30)
<1>2. base + hdr + 2 * n + bytes <= PageSize
  BY <1>1 DEF BytesFor
<1> HIDE DEF base, hdr, n, bytes
<1>3. /\ Word16(base + hdr) = base + hdr /\ Word16(PageSize) = PageSize
      /\ Word16(PageSize - bytes) = PageSize - bytes
      /\ Word16(base + hdr + 2 * n) = base + hdr + 2 * n
  <2>1. /\ base + hdr \in Int /\ 0 <= base + hdr /\ base + hdr < 65536
        /\ PageSize \in Int /\ 0 <= PageSize /\ PageSize < 65536
        /\ PageSize - bytes \in Int /\ 0 <= PageSize - bytes
        /\ PageSize - bytes < 65536
        /\ base + hdr + 2 * n \in Int /\ 0 <= base + hdr + 2 * n
        /\ base + hdr + 2 * n < 65536
    BY <1>1, <1>2
  <2>2. QED
    BY <2>1, Word16Id
<1>4. initEmptyNode(p, t) = [type |-> t, free_offset |-> base + hdr,
        cells_offset |-> PageSize, cells |-> <<>>, right_page |-> 0]
  BY <1>3 DEF initEmptyNode, base, hdr
<1>5. InsertCells(initEmptyNode(p, t), cells)
        = [type |-> t, free_offset |-> base + hdr + 2 * n,
           cells_offset |-> PageSize - bytes, cells |-> cells, right_page |-> 0]
  <2> DEFINE e == initEmptyNode(p, t)
  <2>1. /\ e.type = t /\ e.cells_offset = PageSize
        /\ e.free_offset = base + hdr
    BY <1>4
  <2>2. e = [type |-> t, free_offset |-> base + hdr,
             cells_offset |-> PageSize, cells |-> <<>>, right_page |-> 0]
    BY <1>4
  <2> HIDE DEF e
  <2>3. InsertCells(e, cells)
          = [e EXCEPT !.cells = cells, !.cells_offset = PageSize - bytes,
                      !.free_offset = base + hdr + 2 * n]
    BY <1>3, <2>1 DEF InsertCells, n, bytes
  <2>4. InsertCells(e, cells)
          = [type |-> t, free_offset |-> base + hdr + 2 * n,
             cells_offset |-> PageSize - bytes, cells |-> cells,
             right_page |-> 0]
    BY <2>2, <2>3
  <2>5. QED
    BY <2>4 DEF e
<1>6. new = [type |-> t, free_offset |-> base + hdr + 2 * n,
             cells_offset |-> PageSize - bytes, cells |-> cells,
             right_page |-> right]
  BY <1>5 DEF FilledNode
<1>7. new \in BTreeNode
  <2>1. base + hdr + 2 * n \in Nat /\ PageSize - bytes \in Nat
    BY <1>1, <1>2
  <2>2. QED
    BY <1>6, <2>1 DEF BTreeNode
<1>8. /\ new.type = t /\ new.cells = cells /\ new.right_page = right
      /\ new.free_offset = base + hdr + 2 * n
      /\ new.cells_offset = PageSize - bytes
  BY <1>6
<1> HIDE DEF new
<1>9. Layout(p, new)
  BY <1>1, <1>2, <1>8 DEF Layout, base, hdr, n, bytes
<1>10. Slack(new) = PageSize - base - BytesFor(t, cells)
  <2>1. BytesFor(t, cells) = hdr + 2 * n + bytes
    BY DEF BytesFor, hdr, n, bytes
  <2>2. QED
    BY <1>1, <1>8, <2>1 DEF Slack
<1>11. QED
  BY <1>7, <1>8, <1>9, <1>10 DEF new, base

(* What a node with a true header says of the bytes of its cells.          *)
LEMMA SlackIsWhatIsLeft ==
  ASSUME NEW p \in Pages, NEW n \in BTreeNode, n.type \in NodeTypes,
         Layout(p, n)
  PROVE  /\ Slack(n) = PageSize - node_header_base(p) - BytesFor(n.type, n.cells)
         /\ Slack(n) \in Nat /\ BytesFor(n.type, n.cells) \in Nat
<1>1. n.cells \in Seq(BTreeCell) /\ n.cells_offset \in Nat /\ n.free_offset \in Nat
  BY DEF BTreeNode
<1>2. /\ node_header_base(p) \in Nat /\ node_header_size(n.type) \in Nat
      /\ PageSize \in Nat /\ Len(n.cells) \in Nat
      /\ CellBytes(n.type, n.cells) \in Nat
  <2>1. node_header_base(p) \in Nat /\ node_header_size(n.type) \in {8, 12}
        /\ PageSize \in Nat
    BY HeaderSizes
  <2>2. Len(n.cells) \in Nat /\ CellBytes(n.type, n.cells) \in Nat
    BY <1>1, CellBytesBounds
  <2>3. QED
    BY <2>1, <2>2
<1>3. /\ n.free_offset =
           node_header_base(p) + node_header_size(n.type) + 2 * Len(n.cells)
      /\ n.cells_offset = PageSize - CellBytes(n.type, n.cells)
      /\ n.free_offset <= n.cells_offset
  BY DEF Layout
<1>4. ASSUME NEW b \in Nat, NEW h \in Nat, NEW len \in Nat, NEW by \in Nat,
             NEW f \in Nat, NEW c \in Nat,
             f = b + h + 2 * len, c = PageSize - by, f <= c
      PROVE  /\ c - f = PageSize - b - (h + 2 * len + by)
             /\ c - f \in Nat /\ h + 2 * len + by \in Nat
  BY <1>2, <1>4
<1>5. QED
  BY <1>1, <1>2, <1>3, <1>4 DEF Slack, BytesFor

(* A node is crowded if it holds at least as many cells as one that had no *)
(* room: enough, with SafeSizes, for both of its halves to have room.      *)
LeafCrowd(n, long) == n * long > LeafRoom - long
Crowded(N) ==
    IF is_internal(N.type) THEN Len(N.cells) >= 1
    ELSE LeafCrowd(Len(N.cells), MaxCellSize(N.type) + 2)

LEMMA FullIsCrowded ==
  ASSUME SafeSizes,
         NEW p \in Pages, NEW n \in BTreeNode, n.type \in NodeTypes,
         Layout(p, n), NEW c \in BTreeCell, Full(n, c)
  PROVE  Crowded(n)
<1> DEFINE len == Len(n.cells)
           long == MaxCellSize(n.type) + 2
           size == cell_size(n.type, c)
           base == node_header_base(p)
           hdr == node_header_size(n.type)
           bytes == CellBytes(n.type, n.cells)
<1>1. /\ n.cells \in Seq(BTreeCell) /\ Slack(n) < size + 2 /\ Slack(n) \in Nat
  BY FullMeansNoSlack
<1>2. /\ size \in Nat /\ size + 2 <= long /\ long \in Nat /\ len \in Nat
      /\ base \in Nat /\ base <= FileHeader /\ hdr \in Nat
      /\ PageSize \in Nat /\ FileHeader \in Nat
  BY <1>1, CellSizes, SizeTypes, HeaderSizes, SMTT(30)
<1>3. /\ bytes \in Nat /\ bytes <= MaxCellSize(n.type) * len
      /\ MaxCellSize(n.type) \in Nat
  BY <1>1, CellBytesBounds, SizeTypes
<1>4. Slack(n) = PageSize - base - (hdr + 2 * len + bytes)
  BY SlackIsWhatIsLeft DEF BytesFor
<1>5. len * long = MaxCellSize(n.type) * len + 2 * len
      /\ MaxCellSize(n.type) * len \in Nat
  <2> DEFINE m == MaxCellSize(n.type)
  <2>1. m \in Nat /\ len \in Nat /\ long = m + 2
    BY <1>2, <1>3
  <2> HIDE DEF m, len, long
  <2>2. len * (m + 2) = m * len + 2 * len /\ m * len \in Nat
    BY <2>1
  <2>3. QED
    BY <2>1, <2>2 DEF m
<1> HIDE DEF len, long, size, base, hdr, bytes
<1>6. PageSize - FileHeader - hdr - size - 2 < 2 * len + bytes
  BY <1>1, <1>2, <1>3, <1>4
<1>7. CASE ~is_internal(n.type)
  <2>1. hdr = 8
    BY <1>7, HeaderSizes DEF hdr
  <2>2. len * long > PageSize - FileHeader - 8 - long
    BY <1>2, <1>3, <1>5, <1>6, <2>1
  <2>3. QED
    BY <1>7, <2>2 DEF Crowded, LeafCrowd, LeafRoom, len, long
<1>8. CASE is_internal(n.type)
  <2>1. size <= 16 /\ hdr = 12
    BY <1>8, CellSizes DEF size, hdr, is_internal, ShortCellSize,
       node_header_size
  <2>2. CASE len = 0
    <3>1. bytes = 0
      <4>1. MaxCellSize(n.type) * len = 0
        BY <1>3, <2>2
      <4>2. QED
        BY <1>3, <4>1
    <3>2. QED
      BY <1>2, <1>6, <2>1, <2>2, <3>1 DEF SafeSizes
  <2>3. CASE len # 0
    BY <1>2, <1>8, <2>3 DEF Crowded, len
  <2>4. QED
    BY <2>2, <2>3
<1>9. QED
  BY <1>7, <1>8
-----------------------------------------------------------------------------
(* Splitting.                                                              *)

LEMMA Halving ==
  ASSUME NEW n \in Nat
  PROVE  /\ n \div 2 \in Nat
         /\ 2 * (n \div 2) <= n
         /\ n <= 2 * (n \div 2) + 1
OBVIOUS

(* The bytes that a run of the cells of a node leaves out.                 *)
LEMMA RunLeavesRoom ==
  ASSUME NEW t \in NodeTypes, NEW cells \in Seq(BTreeCell),
         NEW a \in 1 .. Len(cells) + 1, NEW b \in 0 .. Len(cells), a <= b + 1,
         NEW left \in Nat, left = Len(cells) - (b + 1 - a),
         (ShortCellSize(t) + 2) * left >= MaxCellSize(t) + 2
  PROVE  /\ SubSeq(cells, a, b) \in Seq(BTreeCell)
         /\ BytesFor(t, SubSeq(cells, a, b)) + MaxCellSize(t) + 2
              <= BytesFor(t, cells)
<1> DEFINE run == SubSeq(cells, a, b)
           x == ShortCellSize(t)
           n == Len(cells)
           k == Len(run)
           long == MaxCellSize(t)
           hdr == node_header_size(t)
           rb == CellBytes(t, run)
           cb == CellBytes(t, cells)
<1>1. run \in Seq(BTreeCell) /\ k = b + 1 - a /\ rb + x * (n - k) <= cb
  BY CellBytesOfRun
<1>2. x \in Nat /\ long \in Nat
  BY SizeTypes
<1>3. n \in Nat /\ k \in Nat /\ left = n - k
  BY <1>1
<1>4. rb \in Nat /\ cb \in Nat
  BY <1>1, CellBytesBounds
<1>5. hdr \in Nat
  BY DEF node_header_size
<1> HIDE DEF run, x, n, k, long, hdr, rb, cb
<1>6. (x + 2) * left = x * left + 2 * left /\ x * left \in Nat
  BY <1>2
<1>7. (x + 2) * left >= long + 2
  BY DEF x, long
<1>8. hdr + 2 * k + rb + long + 2 <= hdr + 2 * n + cb
  <2>1. rb + x * left <= cb
    BY <1>1, <1>3
  <2>2. n = k + left
    BY <1>3
  <2>3. QED
    BY <1>2, <1>3, <1>4, <1>5, <1>6, <1>7, <2>1, <2>2
<1>9. /\ BytesFor(t, run) = hdr + 2 * k + rb
      /\ BytesFor(t, cells) = hdr + 2 * n + cb
  BY DEF BytesFor, hdr, k, n, rb, cb
<1>10. QED
  BY <1>1, <1>8, <1>9 DEF run, long

(* The two halves of a crowded node leave room for one more cell in each.  *)
LEMMA HalvesFit ==
  ASSUME SafeSizes,
         NEW p \in Pages, NEW N \in BTreeNode, N.type \in NodeTypes,
         Layout(p, N), Crowded(N),
         NEW m \in Nat, 2 * m <= Len(N.cells), Len(N.cells) <= 2 * m + 1,
         NEW cut \in Nat, cut = IF is_internal(N.type) THEN m ELSE m + 1
  PROVE  /\ m + 1 \in 1 .. Len(N.cells)
         /\ \A run \in {SubSeq(N.cells, 1, cut),
                        SubSeq(N.cells, m + 2, Len(N.cells))} :
              /\ run \in Seq(BTreeCell)
              /\ BytesFor(N.type, run) + MaxCellSize(N.type) + 2
                   <= BytesFor(N.type, N.cells)
<1> DEFINE n == Len(N.cells)
           x == ShortCellSize(N.type) + 2
           long == MaxCellSize(N.type) + 2
<1>1. N.cells \in Seq(BTreeCell)
  BY DEF BTreeNode
<1>2. n \in Nat /\ m \in Nat /\ 2 * m <= n /\ n <= 2 * m + 1
  BY <1>1
<1>3. x \in Nat /\ long \in Nat /\ x >= 10 /\ long >= 2
  BY SizeTypes
<1>4. n \in 0 .. PageSize
  <2>1. Slack(N) = PageSize - node_header_base(p) - BytesFor(N.type, N.cells)
        /\ Slack(N) \in Nat
    BY SlackIsWhatIsLeft
  <2>2. /\ CellBytes(N.type, N.cells) \in Nat
        /\ node_header_base(p) \in Nat /\ PageSize \in Nat
        /\ node_header_size(N.type) \in Nat
    BY <1>1, CellBytesBounds, HeaderSizes DEF node_header_size
  <2>3. BytesFor(N.type, N.cells)
          = node_header_size(N.type) + 2 * n + CellBytes(N.type, N.cells)
    BY DEF BytesFor
  <2> HIDE DEF n
  <2>4. QED
    BY <1>2, <2>1, <2>2, <2>3
<1>5. /\ m + 1 \in 1 .. n
      /\ \E l \in Nat : l = n - cut /\ x * l >= long
      /\ \E l \in Nat : l = m + 1 /\ x * l >= long
  <2>1. CASE is_internal(N.type)
    <3>1. n >= 1 /\ long = x /\ cut = m
      <4>1. MaxCellSize(N.type) = ShortCellSize(N.type) + 0
        BY <2>1 DEF MaxCellSize, is_internal
      <4>2. QED
        BY <2>1, <4>1, SizeTypes DEF Crowded
    <3> HIDE DEF n, x, long
    <3>2. \A l \in Nat : l >= 1 => x * l >= x
      BY <1>3
    <3>3. n - m \in Nat /\ n - m >= 1 /\ m + 1 \in 1 .. n
      BY <1>2, <3>1
    <3>4. QED
      BY <1>2, <3>1, <3>2, <3>3
  <2>2. CASE ~is_internal(N.type)
    <3>1. n * long > LeafRoom - long /\ cut = m + 1
      BY <2>2 DEF Crowded, LeafCrowd
    <3>2. HalvesHaveRoom(x, long)
      <4>1. CASE N.type = TABLE_LEAF
        <5>1. x = ShortSize + 10 /\ long = LongSize + 10
          BY <4>1, ConstantsAssumption, SMTT(30) DEF ShortCellSize, MaxCellSize, LongExtra
        <5>2. QED
          BY <5>1 DEF SafeSizes
      <4>2. CASE N.type = INDEX_LEAF
        <5>1. x = 14 /\ long = 14
          BY <4>2 DEF ShortCellSize, MaxCellSize
        <5>2. QED
          BY <5>1 DEF SafeSizes
      <4>3. QED
        BY <2>2, <4>1, <4>2 DEF NodeTypes, is_internal
    <3>3. (n - m - 1) * x >= long
      <4>1. (n - (n \div 2) - 1) * x >= long
        BY <1>4, <3>1, <3>2 DEF HalvesHaveRoom
      <4>2. n \div 2 = m
        <5> DEFINE h == n \div 2
        <5>1. h \in Nat /\ 2 * h <= n /\ n <= 2 * h + 1
          BY <1>2, Halving
        <5> HIDE DEF h, n
        <5>2. h = m
          BY <1>2, <5>1
        <5>3. QED
          BY <5>2 DEF h
      <4>3. QED
        BY <4>1, <4>2
    <3> HIDE DEF n, x, long
    <3>4. n - m - 1 \in Nat /\ n - m - 1 <= m + 1 /\ n - m - 1 >= 1
      <4>1. CASE n - m - 1 <= 0
        <5>1. n - m - 1 = 0 \/ n - m - 1 = -1
          BY <1>2, <4>1
        <5>2. (n - m - 1) * x <= 0
          BY <1>2, <1>3, <5>1
        <5>3. QED
          BY <1>2, <1>3, <3>3, <5>2
      <4>2. CASE n - m - 1 > 0
        BY <1>2, <4>2
      <4>3. QED
        BY <1>2, <4>1, <4>2
    <3>5. x * (n - m - 1) = (n - m - 1) * x /\ n - cut = n - m - 1
      BY <1>2, <1>3, <3>1, <3>4
    <3>6. x * (m + 1) >= x * (n - m - 1)
      BY <1>2, <1>3, <3>4, Monotone
    <3>7. x * (m + 1) \in Nat /\ x * (n - m - 1) \in Nat
      BY <1>2, <1>3, <3>4
    <3>8. x * (n - m - 1) >= long /\ x * (m + 1) >= long
      BY <1>3, <3>3, <3>5, <3>6, <3>7
    <3>9. n - cut = n - m - 1 /\ m + 1 \in 1 .. n /\ m + 1 \in Nat
      BY <1>2, <3>4, <3>5
    <3>10. QED
      BY <3>4, <3>8, <3>9
  <2>3. QED
    BY <2>1, <2>2
<1>6. cut \in 0 .. n /\ m + 2 \in 1 .. n + 1
  BY <1>2, <1>5
<1>7. /\ SubSeq(N.cells, 1, cut) \in Seq(BTreeCell)
      /\ BytesFor(N.type, SubSeq(N.cells, 1, cut)) + MaxCellSize(N.type) + 2
           <= BytesFor(N.type, N.cells)
  <2>1. PICK l \in Nat : l = n - cut /\ x * l >= long
    BY <1>5
  <2>2. l = n - (cut + 1 - 1) /\ 1 \in 1 .. n + 1 /\ 1 <= cut + 1
    BY <1>2, <1>6, <2>1
  <2>3. QED
    BY <1>1, <1>6, <2>1, <2>2, RunLeavesRoom
<1>8. /\ SubSeq(N.cells, m + 2, n) \in Seq(BTreeCell)
      /\ BytesFor(N.type, SubSeq(N.cells, m + 2, n)) + MaxCellSize(N.type) + 2
           <= BytesFor(N.type, N.cells)
  <2>1. PICK l \in Nat : l = m + 1 /\ x * l >= long
    BY <1>5
  <2>2. l = n - (n + 1 - (m + 2)) /\ n \in 0 .. n /\ m + 2 <= n + 1
    BY <1>2, <1>6, <2>1
  <2>3. QED
    BY <1>1, <1>6, <2>1, <2>2, RunLeavesRoom
<1>9. QED
  BY <1>2, <1>5, <1>7, <1>8
(* A cell that fits in the slack a node has left for the largest one.      *)
LEMMA RoomForAny ==
  ASSUME NEW p \in Pages, NEW n \in BTreeNode, n.type \in NodeTypes,
         Layout(p, n), Slack(n) >= MaxCellSize(n.type) + 2,
         NEW c \in BTreeCell
  PROVE  ~Full(n, c)
<1>1. Full(n, c) <=> Slack(n) < cell_size(n.type, c) + 2
  BY FullMeansNoSlack
<1>2. /\ cell_size(n.type, c) <= MaxCellSize(n.type) /\ Slack(n) \in Nat
      /\ cell_size(n.type, c) \in Nat /\ MaxCellSize(n.type) \in Nat
  BY FullMeansNoSlack, CellSizes
<1>3. QED
  BY <1>1, <1>2

LEMMA ChildrenType ==
  ASSUME NEW n \in BTreeNode
  PROVE  /\ Children(n) \subseteq 0 .. MaxPages
         /\ is_internal(n.type) =>
              /\ n.right_page \in Children(n)
              /\ \A i \in 1 .. Len(n.cells) : n.cells[i].child \in Children(n)
<1>1. n.cells \in Seq(BTreeCell) /\ n.right_page \in 0 .. MaxPages
  BY DEF BTreeNode
<1>2. ASSUME NEW i \in 1 .. Len(n.cells)
      PROVE  n.cells[i].child \in 0 .. MaxPages
  <2>1. n.cells[i] \in BTreeCell
    BY <1>1
  <2>2. QED
    BY <2>1 DEF BTreeCell
<1>3. QED
  BY <1>1, <1>2 DEF Children

(* What a split does to the three pages it writes.                         *)
LEMMA SplitPages ==
  ASSUME SafeSizes, NEW ns \in [Pages -> BTreeNode],
         NEW parent \in Pages, NEW child \in Pages, NEW nM \in Pages,
         parent # child, nM # parent, nM # child, nM # 1,
         ns[child].type \in NodeTypes, Layout(child, ns[child]),
         Crowded(ns[child]),
         ns[parent].type \in NodeTypes, is_internal(ns[parent].type),
         Layout(parent, ns[parent]),
         Slack(ns[parent]) >= MaxCellSize(ns[parent].type) + 2,
         NEW i \in 1 .. Len(ns[parent].cells) + 1
  PROVE  LET new == split(ns, parent, child, i, nM)
         IN  /\ new \in [Pages -> BTreeNode]
             /\ \A q \in Pages \ {parent, child, nM} : new[q] = ns[q]
             /\ new[child].type = ns[child].type
             /\ new[nM].type = ns[child].type
             /\ new[parent].type = ns[parent].type
             /\ \A q \in {parent, child, nM} : Layout(q, new[q])
             /\ \A q \in {child, nM} :
                  /\ Slack(new[q]) >= MaxCellSize(new[q].type) + 2
                  /\ Children(new[q]) \subseteq Children(ns[child])
             /\ \E c \in BTreeCell :
                  /\ c.child = nM
                  /\ new[parent] = insertCell(ns[parent], i, c)
<1> DEFINE N == ns[child]
           t == N.type
           P == ns[parent]
           m == Len(N.cells) \div 2
           median == N.cells[m + 1]
           cut == IF is_internal(t) THEN m ELSE m + 1
           lower == SubSeq(N.cells, 1, cut)
           upper == SubSeq(N.cells, m + 2, Len(N.cells))
           right == IF is_internal(t) THEN median.child ELSE 0
           A == FilledNode(nM, t, lower, right)
           B == FilledNode(child, t, upper, N.right_page)
           c == [median EXCEPT !.child = nM]
           C == insertCell(P, i, c)
           new == split(ns, parent, child, i, nM)
<1>1. N \in BTreeNode /\ P \in BTreeNode
  OBVIOUS
<1>2. N.cells \in Seq(BTreeCell) /\ N.right_page \in 0 .. MaxPages
  BY <1>1 DEF BTreeNode
<1>3. m \in Nat /\ 2 * m <= Len(N.cells) /\ Len(N.cells) <= 2 * m + 1
  <2>1. Len(N.cells) \in Nat
    BY <1>2
  <2>2. QED
    BY <2>1, Halving
<1>4. new = [ns EXCEPT ![nM] = A, ![child] = B, ![parent] = C]
  <2>1. new = [ns EXCEPT ![nM] = A, ![child] = B, ![parent] = insertCell(@, i, c)]
    BY DEF split, FilledNode
  <2> HIDE DEF A, B, c, N
  <2>2. QED
    BY <2>1
<1> HIDE DEF m
<1>5. m + 1 \in 1 .. Len(N.cells)
      /\ \A run \in {lower, upper} :
           /\ run \in Seq(BTreeCell)
           /\ BytesFor(t, run) + MaxCellSize(t) + 2 <= BytesFor(t, N.cells)
  <2>1. cut \in Nat
    BY <1>3
  <2>2. QED
    BY <1>1, <1>3, <2>1, HalvesFit
<1>6. median \in BTreeCell
  BY <1>2, <1>5
<1>7. c \in BTreeCell /\ c.child = nM
  <2>1. MaxPages \in Nat /\ nM \in 0 .. MaxPages
    BY ConstantsAssumption DEF Pages
  <2> HIDE DEF median
  <2>2. QED
    BY <1>6, <2>1 DEF BTreeCell
<1>8. right \in 0 .. MaxPages
  <2>1. median.child \in 0 .. MaxPages /\ MaxPages \in Nat
    BY <1>6, ConstantsAssumption DEF BTreeCell
  <2>2. QED
    BY <2>1
<1>9. /\ node_header_base(child) \in Nat /\ node_header_base(nM) = 0
      /\ PageSize \in Nat /\ MaxCellSize(t) \in Nat
      /\ BytesFor(t, N.cells) \in Nat
      /\ node_header_base(child) + BytesFor(t, N.cells) <= PageSize
  <2>1. Slack(N) = PageSize - node_header_base(child) - BytesFor(t, N.cells)
        /\ Slack(N) \in Nat /\ BytesFor(t, N.cells) \in Nat
    BY <1>1, SlackIsWhatIsLeft
  <2>2. node_header_base(child) \in Nat /\ PageSize \in Nat
    BY HeaderSizes
  <2>3. node_header_base(nM) = 0
    BY DEF node_header_base
  <2>4. MaxCellSize(t) \in Nat
    BY SizeTypes
  <2> HIDE DEF N, t
  <2>5. QED
    BY <2>1, <2>2, <2>3, <2>4
<1>10. \A run \in {lower, upper} : BytesFor(t, run) \in Nat
  <2>1. ASSUME NEW run \in Seq(BTreeCell)
        PROVE  BytesFor(t, run) \in Nat
    BY <2>1, CellBytesBounds DEF BytesFor, node_header_size
  <2>2. QED
    BY <1>5, <2>1
<1> HIDE DEF N, t, P, lower, upper, right, median, c, cut
<1>11. /\ A \in BTreeNode /\ Layout(nM, A) /\ A.type = t
       /\ A.cells = lower /\ A.right_page = right
       /\ Slack(A) >= MaxCellSize(t) + 2
  <2>1. node_header_base(nM) + BytesFor(t, lower) <= PageSize
        /\ PageSize - node_header_base(nM) - BytesFor(t, lower)
             >= MaxCellSize(t) + 2
    BY <1>5, <1>9, <1>10, SMTT(30)
  <2>2. t \in NodeTypes /\ lower \in Seq(BTreeCell)
    BY <1>5 DEF t, N
  <2>3. QED
    BY <1>8, <2>1, <2>2, FilledNodeLayout
<1>12. /\ B \in BTreeNode /\ Layout(child, B) /\ B.type = t
       /\ B.cells = upper /\ B.right_page = N.right_page
       /\ Slack(B) >= MaxCellSize(t) + 2
  <2>1. node_header_base(child) + BytesFor(t, upper) <= PageSize
        /\ PageSize - node_header_base(child) - BytesFor(t, upper)
             >= MaxCellSize(t) + 2
    <3>1. /\ BytesFor(t, upper) \in Nat
          /\ BytesFor(t, upper) + MaxCellSize(t) + 2 <= BytesFor(t, N.cells)
      BY <1>5, <1>10
    <3>2. QED
      BY <1>9, <3>1
  <2>2. t \in NodeTypes /\ upper \in Seq(BTreeCell)
    BY <1>5 DEF t, N
  <2>3. QED
    BY <1>2, <2>1, <2>2, FilledNodeLayout
<1>13. C \in BTreeNode /\ Layout(parent, C) /\ C.type = P.type
  <2>1. ~Full(P, c)
    BY <1>1, <1>7, RoomForAny DEF P
  <2>2. QED
    BY <1>1, <1>7, <2>1, InsertCellKeepsLayout DEF P
<1>14. Children(A) \subseteq Children(N) /\ Children(B) \subseteq Children(N)
  <2>1. CASE ~is_internal(t)
    BY <1>11, <1>12, <2>1 DEF Children
  <2>2. CASE is_internal(t)
    <3>1. right = median.child
      BY <2>2 DEF right
    <3>2. /\ N.right_page \in Children(N)
          /\ \A j \in 1 .. Len(N.cells) : N.cells[j].child \in Children(N)
      BY <1>1, <2>2, ChildrenType DEF t
    <3>3. right \in Children(N)
      BY <1>5, <3>1, <3>2 DEF median
    <3>4. ASSUME NEW j \in 1 .. Len(lower)
          PROVE  lower[j].child \in Children(N)
      <4>1. cut \in 0 .. Len(N.cells)
        BY <1>3, <1>5 DEF cut
      <4>2. Len(lower) = cut /\ lower[j] = N.cells[j]
        BY <1>2, <4>1, <3>4 DEF lower
      <4>3. j \in 1 .. Len(N.cells)
        BY <1>2, <4>1, <4>2
      <4>4. QED
        BY <3>2, <4>2, <4>3
    <3>5. ASSUME NEW j \in 1 .. Len(upper)
          PROVE  upper[j].child \in Children(N)
      <4>1. Len(upper) = Len(N.cells) - m - 1 /\ upper[j] = N.cells[j + m + 1]
        BY <1>2, <1>3, <1>5, <3>5 DEF upper
      <4>2. j + m + 1 \in 1 .. Len(N.cells)
        BY <1>2, <1>3, <4>1
      <4>3. QED
        BY <3>2, <4>1, <4>2
    <3>6. QED
      BY <1>11, <1>12, <3>2, <3>3, <3>4, <3>5, ZenonT(40) DEF Children
  <2>3. QED
    BY <2>1, <2>2
<1> HIDE DEF A, B, C, new
<1>15. /\ new \in [Pages -> BTreeNode]
       /\ new[child] = B /\ new[nM] = A /\ new[parent] = C
       /\ \A q \in Pages \ {parent, child, nM} : new[q] = ns[q]
  BY <1>4, <1>11, <1>12, <1>13
<1>16. QED
  BY <1>7, <1>11, <1>12, <1>13, <1>14, <1>15 DEF new, C, P, N, t
(* A separator c inserted at the position where a key is searched: the key *)
(* is searched next in the new child, or where it was searched before.     *)
LEMMA SeparatorInserted ==
  ASSUME NEW P \in BTreeNode, P.type \in NodeTypes, is_internal(P.type),
         NEW c \in BTreeCell, NEW i \in 1 .. Len(P.cells) + 1,
         NEW C \in BTreeNode, C.type = P.type, C.right_page = P.right_page,
         C.cells = InsertAt(P.cells, i, Stored(P.type, c))
  PROVE  /\ Children(C) \subseteq Children(P) \cup {c.child}
         /\ \A key \in Nat : i = find_position(P, key) =>
              ChildFor(C, key) \in {c.child, child_at(P, i)}
<1> DEFINE s == Stored(P.type, c)
           shift(j) == IF j < i THEN j ELSE j + 1
<1>1. P.cells \in Seq(BTreeCell) /\ Len(P.cells) \in Nat
  BY DEF BTreeNode
<1>2. s \in BTreeCell /\ s.child = c.child
  BY StoredType
<1>3. /\ Len(C.cells) = Len(P.cells) + 1 /\ C.cells[i] = s
      /\ \A j \in 1 .. Len(P.cells) : C.cells[shift(j)] = P.cells[j]
  <2> DEFINE cells == P.cells
             d == InsertAt(cells, i, s)
  <2>1. C.cells = d
    OBVIOUS
  <2> HIDE DEF s, cells
  <2>2. s \in BTreeCell /\ cells \in Seq(BTreeCell) /\ i \in 1 .. Len(cells) + 1
    BY <1>1, <1>2 DEF cells
  <2>3. /\ Len(d) = Len(cells) + 1 /\ d[i] = s
        /\ \A j \in 1 .. Len(cells) : d[IF j < i THEN j ELSE j + 1] = cells[j]
    BY ONLY <2>2, InsertAtCells
  <2> HIDE DEF d
  <2>4. QED
    BY <2>1, <2>3 DEF cells
<1> HIDE DEF s
<1>4. /\ i \in Nat /\ i >= 1 /\ i <= Len(P.cells) + 1
  BY <1>1
<1>5. Children(C) \subseteq Children(P) \cup {c.child}
  <2>1. /\ P.right_page \in Children(P)
        /\ \A j \in 1 .. Len(P.cells) : P.cells[j].child \in Children(P)
    BY ChildrenType
  <2>2. ASSUME NEW k \in 1 .. Len(C.cells)
        PROVE  C.cells[k].child \in Children(P) \cup {c.child}
    <3>1. CASE k = i
      BY <1>2, <1>3, <3>1
    <3>2. CASE k < i
      <4>1. k \in 1 .. Len(P.cells) /\ shift(k) = k
        BY <1>1, <1>3, <1>4, <3>2
      <4>2. QED
        BY <1>3, <2>1, <4>1
    <3>3. CASE k > i
      <4>1. k - 1 \in 1 .. Len(P.cells) /\ shift(k - 1) = k
        BY <1>1, <1>3, <1>4, <3>3
      <4>2. QED
        BY <1>3, <2>1, <4>1
    <3>4. QED
      BY <1>1, <1>3, <1>4, <3>1, <3>2, <3>3
  <2>3. QED
    BY <2>1, <2>2 DEF Children
<1>6. ASSUME NEW key \in Nat, i = find_position(P, key)
      PROVE  ChildFor(C, key) \in {c.child, child_at(P, i)}
  <2> DEFINE j == find_position(C, key)
  <2>1. /\ \A k \in 1 .. Len(P.cells) : k < i => P.cells[k].key < key
        /\ i <= Len(P.cells) => P.cells[i].key >= key
    BY <1>6, PositionFound
  <2>2. /\ j \in 1 .. Len(C.cells) + 1
        /\ \A k \in 1 .. Len(C.cells) : k < j => C.cells[k].key < key
        /\ j <= Len(C.cells) => C.cells[j].key >= key
    BY PositionFound
  <2>3. ASSUME NEW k \in 1 .. Len(C.cells)
        PROVE  C.cells[k].key \in Nat
    <3>1. C.cells \in Seq(BTreeCell)
      BY DEF BTreeNode
    <3>2. C.cells[k] \in BTreeCell
      BY <3>1
    <3>3. QED
      BY <3>2 DEF BTreeCell
  <2>4. ChildFor(C, key) = child_at(C, j)
    BY DEF ChildFor
  <2> HIDE DEF j
  <2>5. j >= i
    <3>1. SUFFICES ASSUME j < i PROVE FALSE
      BY <1>3, <1>4, <2>2
    <3>2. j \in 1 .. Len(P.cells) /\ shift(j) = j
      BY <1>1, <1>4, <2>2, <3>1
    <3>3. C.cells[j] = P.cells[j] /\ j \in 1 .. Len(C.cells)
      BY <1>1, <1>3, <3>2
    <3>4. C.cells[j].key < key /\ C.cells[j].key >= key
      BY <2>1, <2>2, <3>1, <3>2, <3>3
    <3>5. QED
      BY <2>3, <3>3, <3>4
  <2>6. CASE j = i
    <3>1. child_at(C, j) = c.child
      BY <1>1, <1>2, <1>3, <1>4, <2>6 DEF child_at
    <3>2. QED
      BY <2>4, <3>1
  <2>7. CASE j > i
    <3>1. j = i + 1
      <4>1. CASE i = Len(P.cells) + 1
        BY <1>1, <1>3, <2>2, <2>7, <4>1
      <4>2. CASE i <= Len(P.cells)
        <5>1. i \in 1 .. Len(P.cells) /\ shift(i) = i + 1
          BY <1>1, <1>4, <4>2
        <5>2. C.cells[i + 1] = P.cells[i] /\ i + 1 \in 1 .. Len(C.cells)
          BY <1>1, <1>3, <5>1
        <5>3. ~(i + 1 < j)
          BY <2>1, <2>2, <2>3, <4>2, <5>2
        <5>4. QED
          BY <1>3, <1>4, <2>2, <2>7, <5>3
      <4>3. QED
        BY <1>4, <4>1, <4>2
    <3>2. child_at(C, j) = child_at(P, i)
      <4>1. CASE i = Len(P.cells) + 1
        BY <1>1, <1>3, <3>1, <4>1 DEF child_at
      <4>2. CASE i <= Len(P.cells)
        <5>1. i \in 1 .. Len(P.cells) /\ shift(i) = i + 1
          BY <1>1, <1>4, <4>2
        <5>2. C.cells[i + 1] = P.cells[i]
          BY <1>3, <5>1
        <5>3. i # Len(P.cells) + 1 /\ i + 1 # Len(C.cells) + 1
          BY <1>1, <1>3, <5>1
        <5>4. QED
          BY <3>1, <5>2, <5>3 DEF child_at
      <4>3. QED
        BY <1>4, <4>1, <4>2
    <3>3. QED
      BY <2>4, <3>2
  <2>8. QED
    BY <1>3, <1>4, <2>2, <2>5, <2>6, <2>7
<1>7. QED
  BY <1>5, <1>6

(* A page that has just been initialised.                                  *)
LEMMA EmptyNodeLayout ==
  ASSUME SafeSizes, NEW p \in Pages, NEW t \in NodeTypes,
         NEW right \in 0 .. MaxPages
  PROVE  LET new == [initEmptyNode(p, t) EXCEPT !.right_page = right]
         IN  /\ new \in BTreeNode /\ Layout(p, new)
             /\ new.type = t /\ new.cells = <<>> /\ new.right_page = right
             /\ Slack(new) >= 36
<1> DEFINE new == [initEmptyNode(p, t) EXCEPT !.right_page = right]
           base == node_header_base(p)
           hdr == node_header_size(t)
<1>1. /\ base \in Nat /\ base <= FileHeader /\ hdr \in Nat /\ hdr <= 12
      /\ PageSize \in Nat /\ PageSize <= 32768 /\ FileHeader \in Nat
  BY HeaderSizes DEF node_header_size
<1>2. PageSize - FileHeader - 12 >= 36
  BY DEF SafeSizes
<1> HIDE DEF base, hdr
<1>3. Word16(base + hdr) = base + hdr /\ Word16(PageSize) = PageSize
  <2>1. /\ base + hdr \in Int /\ 0 <= base + hdr /\ base + hdr < 65536
        /\ PageSize \in Int /\ 0 <= PageSize /\ PageSize < 65536
    BY <1>1, <1>2
  <2>2. QED
    BY <2>1, Word16Id
<1>4. new = [type |-> t, free_offset |-> base + hdr, cells_offset |-> PageSize,
             cells |-> <<>>, right_page |-> right]
  BY <1>3 DEF initEmptyNode, base, hdr
<1>5. CellBytes(t, <<>>) = 0
  <2>1. LongCells(t, <<>>) = {} /\ Len(<<>>) = 0
    BY DEF LongCells
  <2>2. Cardinality(LongCells(t, <<>>)) = 0
    BY <2>1, FS_EmptySet
  <2>3. ShortCellSize(t) \in Nat /\ LongExtra \in Nat
    BY SizeTypes
  <2>4. ShortCellSize(t) * 0 = 0 /\ LongExtra * 0 = 0
    BY <2>3
  <2>5. QED
    BY <2>1, <2>2, <2>4 DEF CellBytes, LongExtra
<1>6. /\ new.type = t /\ new.cells = <<>> /\ new.right_page = right
      /\ new.free_offset = base + hdr /\ new.cells_offset = PageSize
  BY <1>4
<1> HIDE DEF new
<1>7. new \in BTreeNode
  <2> DEFINE top == base + hdr
  <2>1. top \in Nat /\ PageSize \in Nat
    BY <1>1
  <2>2. << >> \in Seq(BTreeCell)
    OBVIOUS
  <2> HIDE DEF top
  <2>3. [type |-> t, free_offset |-> top, cells_offset |-> PageSize,
         cells |-> << >>, right_page |-> right] \in BTreeNode
    BY <2>1, <2>2 DEF BTreeNode
  <2>4. QED
    BY <1>4, <2>3 DEF top
<1>8. Layout(p, new)
  <2>1. Len(new.cells) = 0
    BY <1>6
  <2>2. QED
    BY <1>1, <1>2, <1>5, <1>6, <2>1 DEF Layout, base, hdr
<1>9. Slack(new) >= 36
  BY <1>1, <1>2, <1>6 DEF Slack
<1>10. QED
  BY <1>6, <1>7, <1>8, <1>9 DEF new
-----------------------------------------------------------------------------
(* Splits in a file of pages.                                              *)

(* What the invariant says of node n in page p when `count` pages are in   *)
(* use.                                                                    *)
GoodNode(p, n, count) ==
    /\ n.type \in NodeTypes
    /\ Layout(p, n)
    /\ Children(n) \subseteq (1 .. count) \ {p}

(* Room for one more cell of any kind that the node takes.                 *)
Roomy(n) == Slack(n) >= MaxCellSize(n.type) + 2

(* The child that a search descends to is a page in use, and another one.  *)
LEMMA ChildForGood ==
  ASSUME NEW n \in BTreeNode, NEW p, NEW count, GoodNode(p, n, count),
         is_internal(n.type), NEW key \in Nat
  PROVE  /\ child_at(n, find_position(n, key)) \in (1 .. count) \ {p}
         /\ ChildFor(n, key) = child_at(n, find_position(n, key))
<1> DEFINE i == find_position(n, key)
<1>1. i \in 1 .. Len(n.cells) + 1
  BY PositionFound
<1>2. n.cells \in Seq(BTreeCell) /\ Len(n.cells) \in Nat
  BY DEF BTreeNode
<1>3. Children(n) \subseteq (1 .. count) \ {p}
  BY DEF GoodNode
<1>4. child_at(n, i) \in Children(n)
  <2> HIDE DEF i
  <2>1. CASE i = Len(n.cells) + 1
    BY <2>1, ChildrenType DEF child_at
  <2>2. CASE i # Len(n.cells) + 1
    <3>1. i \in 1 .. Len(n.cells)
      BY <1>1, <1>2, <2>2
    <3>2. QED
      BY <2>2, <3>1, ChildrenType DEF child_at
  <2>3. QED
    BY <2>1, <2>2
<1>5. QED
  BY <1>3, <1>4 DEF ChildFor

(* A split of a crowded child under a parent with room for a separator     *)
(* makes good pages of the three that it writes; the child that covers the *)
(* key afterwards is one of the two halves, and both have room.            *)
LEMMA SplitWritesGood ==
  ASSUME SafeSizes, NEW ns \in [Pages -> BTreeNode],
         NEW count \in Nat, NEW nM \in Pages, nM = count + 1,
         NEW parent \in 1 .. count, is_internal(ns[parent].type),
         GoodNode(parent, ns[parent], count), Roomy(ns[parent]),
         NEW key \in Nat, NEW i, i = find_position(ns[parent], key),
         NEW child, child = child_at(ns[parent], i), Crowded(ns[child]),
         GoodNode(child, ns[child], count)
  PROVE  LET new == split(ns, parent, child, i, nM)
         IN  /\ new \in [Pages -> BTreeNode]
             /\ \A q \in Pages \ {parent, child, nM} : new[q] = ns[q]
             /\ \A q \in {parent, child, nM} : GoodNode(q, new[q], nM)
             /\ new[parent].type = ns[parent].type
             /\ Slack(new[parent])
                  = Slack(ns[parent]) - MaxCellSize(ns[parent].type) - 2
             /\ ChildFor(new[parent], key) \in {child, nM}
             /\ child \in 1 .. count /\ child # parent
             /\ Roomy(new[child]) /\ Roomy(new[nM])
<1> DEFINE P == ns[parent]
           new == split(ns, parent, child, i, nM)
           C == new[parent]
<1>1. /\ \A p \in 1 .. count : p \in Pages /\ ns[p] \in BTreeNode /\ p # nM
      /\ 1 .. nM = (1 .. count) \cup {nM}
      /\ MaxPages \in Nat
  BY ConstantsAssumption DEF Pages
<1>2. /\ child \in 1 .. count /\ child # parent /\ nM # parent /\ nM # child
      /\ nM # 1
  <2>1. P \in BTreeNode /\ GoodNode(parent, P, count)
    BY <1>1
  <2>2. child \in (1 .. count) \ {parent}
    BY <2>1, ChildForGood
  <2>3. QED
    BY <1>1, <2>2
<1>3. /\ P \in BTreeNode /\ P.type \in NodeTypes /\ Layout(parent, P)
      /\ Children(P) \subseteq (1 .. count) \ {parent}
      /\ Slack(P) >= MaxCellSize(P.type) + 2
  BY <1>1 DEF GoodNode, Roomy
<1>4. /\ ns[child] \in BTreeNode /\ ns[child].type \in NodeTypes
      /\ Layout(child, ns[child])
      /\ Children(ns[child]) \subseteq (1 .. count) \ {child}
  BY <1>1, <1>2 DEF GoodNode
<1>5. i \in 1 .. Len(P.cells) + 1
  BY <1>3, PositionFound
<1>6. /\ new \in [Pages -> BTreeNode]
      /\ \A q \in Pages \ {parent, child, nM} : new[q] = ns[q]
      /\ new[child].type = ns[child].type
      /\ new[nM].type = ns[child].type
      /\ new[parent].type = ns[parent].type
      /\ \A q \in {parent, child, nM} : Layout(q, new[q])
      /\ \A q \in {child, nM} :
           /\ Slack(new[q]) >= MaxCellSize(new[q].type) + 2
           /\ Children(new[q]) \subseteq Children(ns[child])
      /\ \E c \in BTreeCell :
           /\ c.child = nM
           /\ new[parent] = insertCell(ns[parent], i, c)
  <2>1. parent \in Pages /\ child \in Pages
    BY <1>1, <1>2
  <2>2. /\ ns \in [Pages -> BTreeNode] /\ nM \in Pages
        /\ parent # child /\ nM # parent /\ nM # child /\ nM # 1
        /\ ns[child].type \in NodeTypes /\ Layout(child, ns[child])
        /\ Crowded(ns[child])
        /\ ns[parent].type \in NodeTypes /\ is_internal(ns[parent].type)
        /\ Layout(parent, ns[parent])
        /\ Slack(ns[parent]) >= MaxCellSize(ns[parent].type) + 2
        /\ i \in 1 .. Len(ns[parent].cells) + 1
    BY <1>2, <1>3, <1>4, <1>5
  <2>3. new = split(ns, parent, child, i, nM)
    OBVIOUS
  <2> HIDE DEF new
  <2>4. /\ new \in [Pages -> BTreeNode]
        /\ \A q \in Pages \ {parent, child, nM} : new[q] = ns[q]
        /\ new[child].type = ns[child].type
        /\ new[nM].type = ns[child].type
        /\ new[parent].type = ns[parent].type
        /\ \A q \in {parent, child, nM} : Layout(q, new[q])
    BY ONLY SafeSizes, <2>1, <2>2, <2>3, SplitPages
  <2>5. \A q \in {child, nM} :
           /\ Slack(new[q]) >= MaxCellSize(new[q].type) + 2
           /\ Children(new[q]) \subseteq Children(ns[child])
    <3>1. ASSUME NEW q \in {child, nM}
          PROVE  Slack(new[q]) >= MaxCellSize(new[q].type) + 2
      BY ONLY SafeSizes, <2>1, <2>2, <2>3, <3>1, SplitPages
    <3>2. ASSUME NEW q \in {child, nM}
          PROVE  Children(new[q]) \subseteq Children(ns[child])
      BY ONLY SafeSizes, <2>1, <2>2, <2>3, <3>2, SplitPages, ZenonT(40)
    <3>3. QED
      BY <3>1, <3>2
  <2>6. \E c \in BTreeCell :
           /\ c.child = nM
           /\ new[parent] = insertCell(ns[parent], i, c)
    BY ONLY SafeSizes, <2>1, <2>2, <2>3, SplitPages
  <2>7. QED
    BY <2>4, <2>5, <2>6
<1> HIDE DEF new
<1>7. PICK c \in BTreeCell : c.child = nM /\ C = insertCell(P, i, c)
  BY <1>6
<1>8. ~Full(P, c)
  BY <1>1, <1>3, RoomForAny
<1>9. /\ C \in BTreeNode /\ C.type = P.type /\ C.right_page = P.right_page
      /\ C.cells = InsertAt(P.cells, i, Stored(P.type, c))
      /\ Slack(C) = Slack(P) - cell_size(P.type, c) - 2
  <2>1. parent \in Pages
    BY <1>1
  <2>2. QED
    BY <1>3, <1>5, <1>7, <1>8, <2>1, InsertCellKeepsLayout
<1>10. cell_size(P.type, c) = MaxCellSize(P.type)
  <2>1. cell_size(P.type, c) = ShortCellSize(P.type)
        /\ ShortCellSize(P.type) \in Nat
    BY <1>3, CellSizes
  <2>2. QED
    BY <2>1 DEF MaxCellSize, is_internal
<1>11. /\ Children(C) \subseteq Children(P) \cup {nM}
       /\ ChildFor(C, key) \in {nM, child}
  BY <1>3, <1>5, <1>7, <1>9, SeparatorInserted
<1>12. ASSUME NEW p \in {parent, child, nM}
       PROVE  GoodNode(p, new[p], nM)
  <2>1. CASE p = parent
    BY <1>1, <1>2, <1>3, <1>6, <1>11, <2>1 DEF GoodNode
  <2>2. CASE p = child \/ p = nM
    <3>1. Layout(p, new[p]) /\ Children(new[p]) \subseteq Children(ns[child])
          /\ new[p].type \in NodeTypes
      BY <1>4, <1>6, <2>2
    <3>2. Children(ns[child]) \subseteq (1 .. nM) \ {p}
      BY <1>1, <1>4, <2>2
    <3>3. QED
      BY <3>1, <3>2 DEF GoodNode
  <2>3. QED
    BY <2>1, <2>2
<1>13. QED
  BY <1>2, <1>6, <1>9, <1>10, <1>11, <1>12 DEF new, Roomy

(* So it keeps every page good.                                            *)
LEMMA SplitKeepsGood ==
  ASSUME SafeSizes, NEW ns \in [Pages -> BTreeNode],
         NEW count \in Nat, NEW nM \in Pages, nM = count + 1,
         \A p \in 1 .. count : GoodNode(p, ns[p], count),
         NEW parent \in 1 .. count, is_internal(ns[parent].type),
         Roomy(ns[parent]),
         NEW key \in Nat, NEW i, i = find_position(ns[parent], key),
         NEW child, child = child_at(ns[parent], i), Crowded(ns[child])
  PROVE  LET new == split(ns, parent, child, i, nM)
         IN  /\ new \in [Pages -> BTreeNode]
             /\ \A p \in 1 .. nM : GoodNode(p, new[p], nM)
             /\ new[parent].type = ns[parent].type
             /\ Slack(new[parent])
                  = Slack(ns[parent]) - MaxCellSize(ns[parent].type) - 2
             /\ ChildFor(new[parent], key) \in {child, nM}
             /\ child \in 1 .. count /\ child # parent
             /\ Roomy(new[child]) /\ Roomy(new[nM])
<1> DEFINE new == split(ns, parent, child, i, nM)
<1>1. /\ \A p \in 1 .. count : p \in Pages /\ p # nM
      /\ 1 .. nM = (1 .. count) \cup {nM}
  BY ConstantsAssumption DEF Pages
<1>2. GoodNode(parent, ns[parent], count) /\ ns[parent] \in BTreeNode
  BY <1>1
<1>3. child \in 1 .. count
  BY <1>2, ChildForGood
<1>4. GoodNode(child, ns[child], count)
  BY <1>3
<1>5. /\ new \in [Pages -> BTreeNode]
      /\ \A q \in Pages \ {parent, child, nM} : new[q] = ns[q]
      /\ \A q \in {parent, child, nM} : GoodNode(q, new[q], nM)
      /\ new[parent].type = ns[parent].type
      /\ Slack(new[parent])
           = Slack(ns[parent]) - MaxCellSize(ns[parent].type) - 2
      /\ ChildFor(new[parent], key) \in {child, nM}
      /\ child \in 1 .. count /\ child # parent
      /\ Roomy(new[child]) /\ Roomy(new[nM])
  BY <1>2, <1>4, SplitWritesGood, SMTT(30)
<1> HIDE DEF new
<1>6. ASSUME NEW p \in 1 .. nM
      PROVE  GoodNode(p, new[p], nM)
  <2>1. CASE p \in {parent, child, nM}
    BY <1>5, <2>1
  <2>2. CASE p \notin {parent, child, nM}
    <3>1. p \in 1 .. count /\ p \in Pages
      BY <1>1, <2>2
    <3>2. new[p] = ns[p] /\ GoodNode(p, ns[p], count)
      BY <1>5, <2>2, <3>1
    <3>3. QED
      BY <1>1, <3>2 DEF GoodNode
  <2>3. QED
    BY <2>1, <2>2
<1>7. QED
  BY <1>5, <1>6 DEF new

(* A split of the root first copies it to page nC and makes an empty       *)
(* internal node of it, and then splits page nC.                           *)
Copied(ns, r, nC) == FilledNode(nC, ns[r].type, ns[r].cells, ns[r].right_page)
Emptied(ns, r, nC) ==
    [initEmptyNode(r, IF is_index(ns[r].type) THEN INDEX_INTERNAL ELSE TABLE_INTERNAL)
       EXCEPT !.right_page = nC]

(* The root keeps its page, and has room for another separator.            *)
LEMMA SplitRootWritesGood ==
  ASSUME SafeSizes, NEW ns \in [Pages -> BTreeNode],
         NEW count \in Nat, NEW nC \in Pages, NEW nM \in Pages,
         nC = count + 1, nM = count + 2,
         NEW r \in 1 .. count, GoodNode(r, ns[r], count), Crowded(ns[r])
  PROVE  LET new == splitRoot(ns, r, nC, nM)
         IN  /\ new \in [Pages -> BTreeNode]
             /\ \A q \in Pages \ {r, nC, nM} : new[q] = ns[q]
             /\ \A q \in {r, nC, nM} : GoodNode(q, new[q], nM)
             /\ GoodNode(nC, Copied(ns, r, nC), nC) /\ GoodNode(r, Emptied(ns, r, nC), nC)
             /\ Copied(ns, r, nC) \in BTreeNode /\ Emptied(ns, r, nC) \in BTreeNode
             /\ is_internal(new[r].type)
             /\ Roomy(new[r])
<1> DEFINE root == ns[r]
           tt == IF is_index(root.type) THEN INDEX_INTERNAL ELSE TABLE_INTERNAL
           C == FilledNode(nC, root.type, root.cells, root.right_page)
           top == [initEmptyNode(r, tt) EXCEPT !.right_page = nC]
           mid == [ns EXCEPT ![nC] = C, ![r] = top]
           new == split(mid, r, nC, 1, nM)
<1>1. splitRoot(ns, r, nC, nM) = new
  BY DEF splitRoot, FilledNode
<1>2. /\ \A p \in 1 .. count : p \in Pages /\ ns[p] \in BTreeNode /\ p # nC
      /\ 1 .. nC = (1 .. count) \cup {nC}
      /\ nC # 1 /\ nC # r /\ nM = nC + 1 /\ nC \in 0 .. MaxPages /\ nC \in Nat
      /\ MaxPages \in Nat
  BY ConstantsAssumption DEF Pages
<1>3. /\ root \in BTreeNode /\ root.type \in NodeTypes /\ Layout(r, root)
      /\ Children(root) \subseteq (1 .. count) \ {r}
      /\ root.cells \in Seq(BTreeCell) /\ root.right_page \in 0 .. MaxPages
  BY <1>2 DEF GoodNode, BTreeNode
<1>4. tt \in NodeTypes /\ is_internal(tt)
  BY DEF NodeTypes, is_internal
<1>5. /\ C \in BTreeNode /\ Layout(nC, C) /\ C.type = root.type
      /\ C.cells = root.cells /\ C.right_page = root.right_page
  <2>1. /\ Slack(root) = PageSize - node_header_base(r)
                           - BytesFor(root.type, root.cells)
        /\ Slack(root) \in Nat /\ BytesFor(root.type, root.cells) \in Nat
    BY <1>2, <1>3, SlackIsWhatIsLeft
  <2>2. node_header_base(r) \in Nat /\ node_header_base(nC) = 0
        /\ PageSize \in Nat
    BY <1>2, HeaderSizes DEF node_header_base
  <2>3. node_header_base(nC) + BytesFor(root.type, root.cells) <= PageSize
    BY <2>1, <2>2
  <2>4. QED
    BY <1>3, <2>3, FilledNodeLayout
<1>6. /\ top \in BTreeNode /\ Layout(r, top) /\ top.type = tt
      /\ top.cells = << >> /\ top.right_page = nC /\ Slack(top) >= 36
  BY <1>2, <1>4, EmptyNodeLayout
<1>7. Crowded(C)
  BY <1>5 DEF Crowded
<1>8. Children(C) = Children(root)
  BY <1>5 DEF Children
<1>9. Children(top) = {nC}
  <2>1. Len(top.cells) = 0
    BY <1>6
  <2>2. QED
    BY <1>4, <1>6, <2>1 DEF Children
<1> HIDE DEF C, top, tt
<1>10. /\ mid \in [Pages -> BTreeNode] /\ mid[nC] = C /\ mid[r] = top
       /\ \A p \in Pages \ {nC, r} : mid[p] = ns[p]
  BY <1>2, <1>5, <1>6
<1> HIDE DEF mid
<1>11. GoodNode(nC, mid[nC], nC) /\ GoodNode(r, mid[r], nC)
  <2>1. GoodNode(nC, C, nC)
    BY <1>2, <1>3, <1>5, <1>8 DEF GoodNode
  <2>2. GoodNode(r, top, nC)
    BY <1>2, <1>4, <1>6, <1>9 DEF GoodNode
  <2>3. QED
    BY <1>10, <2>1, <2>2
<1>12. /\ MaxCellSize(tt) \in Nat /\ MaxCellSize(tt) <= 16
  BY <1>4 DEF MaxCellSize, ShortCellSize, NodeTypes, is_internal
<1>13. Slack(top) \in Nat
  BY <1>2, <1>4, <1>6, SlackIsWhatIsLeft
<1>14. /\ new \in [Pages -> BTreeNode]
       /\ \A p \in Pages \ {r, nC, nM} : new[p] = mid[p]
       /\ \A p \in {r, nC, nM} : GoodNode(p, new[p], nM)
       /\ new[r].type = tt
       /\ Slack(new[r]) = Slack(top) - MaxCellSize(tt) - 2
  <2>1. Roomy(top)
    BY <1>6, <1>12, <1>13 DEF Roomy
  <2>2. find_position(top, 0) = 1 /\ child_at(top, 1) = nC
    <3>1. Len(top.cells) = 0
      BY <1>6
    <3>2. find_position(top, 0) \in 1 .. Len(top.cells) + 1
      BY <1>6, PositionFound
    <3>3. find_position(top, 0) = 1
      BY <3>1, <3>2
    <3>4. QED
      BY <1>6, <3>1, <3>3 DEF child_at
  <2>3. r \in 1 .. nC /\ is_internal(mid[r].type)
    BY <1>2, <1>4, <1>6, <1>10
  <2>4. /\ Roomy(mid[r]) /\ 1 = find_position(mid[r], 0)
        /\ nC = child_at(mid[r], 1) /\ Crowded(mid[nC])
    BY <1>7, <1>10, <2>1, <2>2
  <2>5. nC \in Nat /\ nM = nC + 1 /\ mid \in [Pages -> BTreeNode] /\ 0 \in Nat
    BY <1>2, <1>10
  <2>6. /\ new \in [Pages -> BTreeNode]
        /\ \A p \in Pages \ {r, nC, nM} : new[p] = mid[p]
        /\ \A p \in {r, nC, nM} : GoodNode(p, new[p], nM)
        /\ new[r].type = mid[r].type
        /\ Slack(new[r]) = Slack(mid[r]) - MaxCellSize(mid[r].type) - 2
    BY ONLY SafeSizes, nM \in Pages, <1>11, <2>3, <2>4, <2>5, SplitWritesGood,
       SMTT(30)
  <2>7. QED
    BY <1>6, <1>10, <2>6
<1> HIDE DEF new
<1>15. Roomy(new[r])
  BY <1>6, <1>12, <1>13, <1>14 DEF Roomy
<1>16. \A p \in Pages \ {r, nC, nM} : new[p] = ns[p]
  BY <1>10, <1>14
<1>17. /\ GoodNode(nC, C, nC) /\ GoodNode(r, top, nC)
       /\ C \in BTreeNode /\ top \in BTreeNode
  BY <1>5, <1>6, <1>10, <1>11
<1>18. QED
  BY <1>1, <1>4, <1>14, <1>15, <1>16, <1>17 DEF C, top, tt, root, Copied, Emptied

(* So it keeps every page good.                                            *)
LEMMA SplitRootKeepsGood ==
  ASSUME SafeSizes, NEW ns \in [Pages -> BTreeNode],
         NEW count \in Nat, NEW nC \in Pages, NEW nM \in Pages,
         nC = count + 1, nM = count + 2,
         \A p \in 1 .. count : GoodNode(p, ns[p], count),
         NEW r \in 1 .. count, Crowded(ns[r])
  PROVE  LET new == splitRoot(ns, r, nC, nM)
         IN  /\ new \in [Pages -> BTreeNode]
             /\ \A p \in 1 .. nM : GoodNode(p, new[p], nM)
             /\ is_internal(new[r].type)
             /\ Roomy(new[r])
<1> DEFINE new == splitRoot(ns, r, nC, nM)
<1>1. /\ \A p \in 1 .. count : p \in Pages
      /\ 1 .. nM = (1 .. count) \cup {nC, nM}
  BY ConstantsAssumption DEF Pages
<1>2. GoodNode(r, ns[r], count)
  OBVIOUS
<1>3. /\ new \in [Pages -> BTreeNode]
      /\ \A q \in Pages \ {r, nC, nM} : new[q] = ns[q]
      /\ \A q \in {r, nC, nM} : GoodNode(q, new[q], nM)
      /\ is_internal(new[r].type) /\ Roomy(new[r])
  BY <1>2, SplitRootWritesGood, SMTT(30)
<1> HIDE DEF new
<1>4. ASSUME NEW p \in 1 .. nM
      PROVE  GoodNode(p, new[p], nM)
  <2>1. CASE p \in {r, nC, nM}
    BY <1>3, <2>1
  <2>2. CASE p \notin {r, nC, nM}
    <3>1. p \in 1 .. count /\ p \in Pages
      BY <1>1, <2>2
    <3>2. new[p] = ns[p] /\ GoodNode(p, ns[p], count)
      BY <1>3, <2>2, <3>1
    <3>3. QED
      BY <1>1, <3>2 DEF GoodNode
  <2>3. QED
    BY <2>1, <2>2
<1>5. QED
  BY <1>3, <1>4 DEF new
-----------------------------------------------------------------------------
(* The invariant.                                                          *)

(* PageInv, read page by page.                                             *)
LEMMA GoodPages ==
  (WellLinked /\ NoPageOverflows)
    <=> /\ \A p \in 1 .. n_pages : GoodNode(p, nodes[p], n_pages)
        /\ op # Idle => op.nroot \in roots /\ op.npage \in 1 .. n_pages
BY DEF WellLinked, NoPageOverflows, GoodNode, Allocated

(* The types of the parts of an insert.                                    *)
LEMMA InsertionType ==
  ASSUME NEW o \in Insertion
  PROVE  /\ o # Idle /\ o.npage \in Pages /\ o.btc \in BTreeCell
         /\ o.btc.key \in Nat
         /\ \A p \in Pages : /\ [o EXCEPT !.npage = p] \in Insertion
                            /\ [o EXCEPT !.npage = p].nroot = o.nroot
                            /\ [o EXCEPT !.npage = p].npage = p
                            /\ [o EXCEPT !.npage = p].btc = o.btc
BY ConstantsAssumption DEF Insertion, BTreeCell

LEMMA InitPageInv ==
  SafeSizes /\ Init => PageInv
<1> SUFFICES ASSUME SafeSizes, Init PROVE PageInv
  OBVIOUS
<1>1. 1 \in Pages /\ Pages \subseteq Nat /\ 0 \in 0 .. MaxPages
  BY ConstantsAssumption DEF Pages
<1>2. ASSUME NEW p \in Pages, NEW t \in NodeTypes \cup {Unallocated}
      PROVE  initEmptyNode(p, t) \in BTreeNode
  <2>1. node_header_base(p) + node_header_size(t) \in Nat /\ PageSize \in Nat
    BY ConstantsAssumption DEF node_header_base, node_header_size
  <2>2. \A n \in Nat : Word16(n) \in Nat
    BY DEF Word16
  <2>3. << >> \in Seq(BTreeCell)
    OBVIOUS
  <2> DEFINE free == Word16(node_header_base(p) + node_header_size(t))
             cells == Word16(PageSize)
  <2>4. free \in Nat /\ cells \in Nat
    BY <2>1, <2>2
  <2> HIDE DEF free, cells
  <2>5. [type |-> t, free_offset |-> free, cells_offset |-> cells,
         cells |-> << >>, right_page |-> 0] \in BTreeNode
    BY <1>1, <2>3, <2>4 DEF BTreeNode
  <2>6. QED
    BY <2>5 DEF initEmptyNode, free, cells
<1>3. TABLE_LEAF \in NodeTypes /\ ~is_internal(TABLE_LEAF)
  BY DEF NodeTypes, is_internal
<1>4. TypeOK
  <2>1. nodes \in [Pages -> BTreeNode]
    BY <1>1, <1>2, <1>3 DEF Init
  <2>2. QED
    BY <1>1, <2>1 DEF Init, TypeOK
<1>5. GoodNode(1, nodes[1], 1)
  <2> DEFINE new == [initEmptyNode(1, TABLE_LEAF) EXCEPT !.right_page = 0]
  <2>1. nodes[1] = initEmptyNode(1, TABLE_LEAF)
    BY <1>1 DEF Init
  <2>2. nodes[1] = new
    BY <2>1 DEF initEmptyNode
  <2>3. new \in BTreeNode /\ Layout(1, new) /\ new.type = TABLE_LEAF
    BY <1>1, <1>3, EmptyNodeLayout
  <2> HIDE DEF new
  <2>4. Children(new) = {}
    BY <1>3, <2>3 DEF Children
  <2>5. QED
    BY <1>3, <2>2, <2>3, <2>4 DEF GoodNode
<1>6. WellLinked /\ NoPageOverflows
  <2>1. n_pages = 1 /\ 1 .. 1 = {1} /\ op = Idle
    BY DEF Init
  <2>2. QED
    BY <1>5, <2>1, GoodPages
<1>7. QED
  BY <1>4, <1>6 DEF PageInv, RoomWhereInsertGoes, Init

(* An insert's first step, with the root whole or split.                   *)
LEMMA InsertKeepsPageInv ==
  ASSUME SafeSizes, PageInv, NEW r \in roots, NEW c \in BTreeCell,
         Insert(r, c)
  PROVE  PageInv'
<1> USE DEF PageInv
<1>1. /\ n_pages \in Pages /\ nodes \in [Pages -> BTreeNode]
      /\ r \in 1 .. n_pages /\ r \in Pages /\ roots \subseteq 1 .. n_pages
      /\ MaxPages \in Nat /\ rc \in {"OK", "EDUPLICATE"}
  BY ConstantsAssumption DEF TypeOK, Pages
<1>2. \A p \in 1 .. n_pages : GoodNode(p, nodes[p], n_pages)
  BY GoodPages
<1>3. /\ op' = [nroot |-> r, npage |-> r, btc |-> c]
      /\ op' \in Insertion /\ op'.npage = r /\ op'.nroot = r /\ op'.btc = c
      /\ roots' = roots /\ rc' = rc
  BY <1>1 DEF Insert, Insertion
<1>4. CASE ~Full(nodes[r], c) /\ UNCHANGED <<nodes, n_pages>>
  <2>1. TypeOK'
    BY <1>1, <1>3, <1>4 DEF TypeOK
  <2>2. (WellLinked /\ NoPageOverflows)'
    BY <1>1, <1>3, <1>4 DEF WellLinked, NoPageOverflows, Allocated
  <2>3. RoomWhereInsertGoes'
    BY <1>3, <1>4 DEF RoomWhereInsertGoes
  <2>4. QED
    BY <2>1, <2>2, <2>3
<1>5. CASE /\ Full(nodes[r], c)
           /\ n_pages + 2 <= MaxPages
           /\ n_pages' = n_pages + 2
           /\ nodes' = splitRoot(nodes, r, n_pages + 1, n_pages + 2)
  <2>1. /\ n_pages + 1 \in Pages /\ n_pages + 2 \in Pages /\ n_pages \in Nat
        /\ 1 .. n_pages \subseteq 1 .. n_pages'
    BY <1>1, <1>5 DEF Pages
  <2>2. Crowded(nodes[r])
    <3>1. nodes[r] \in BTreeNode /\ nodes[r].type \in NodeTypes
          /\ Layout(r, nodes[r])
      BY <1>1, <1>2 DEF GoodNode
    <3>2. QED
      BY <1>1, <1>5, <3>1, FullIsCrowded
  <2>3. /\ nodes' \in [Pages -> BTreeNode]
        /\ \A p \in 1 .. n_pages' : GoodNode(p, nodes'[p], n_pages')
        /\ is_internal(nodes'[r].type)
        /\ Roomy(nodes'[r])
    BY <1>1, <1>2, <1>5, <2>1, <2>2, SplitRootKeepsGood
  <2>4. TypeOK'
    BY <1>1, <1>3, <1>5, <2>1, <2>3 DEF TypeOK
  <2>5. (WellLinked /\ NoPageOverflows)'
    BY <1>1, <1>3, <2>1, <2>3 DEF WellLinked, NoPageOverflows, GoodNode, Allocated
  <2>6. ~Full(nodes'[r], c)
    <3>1. nodes'[r] \in BTreeNode /\ nodes'[r].type \in NodeTypes
          /\ Layout(r, nodes'[r])
      BY <1>1, <2>1, <2>3 DEF GoodNode
    <3>2. QED
      BY <1>1, <2>3, <3>1, RoomForAny DEF Roomy
  <2>7. QED
    BY <1>3, <2>4, <2>5, <2>6 DEF RoomWhereInsertGoes
<1>6. QED
  BY <1>4, <1>5 DEF Insert

LEMMA InsertedCellType ==
  /\ \A k \in TableKeys, d \in Records :
       [key |-> k, val |-> d, child |-> 0] \in BTreeCell
  /\ \A k \in IndexKeys, pk \in KeyPks :
       [key |-> k, val |-> pk, child |-> 0] \in BTreeCell
BY ConstantsAssumption DEF BTreeCell, Vals

(* A new tree is an empty leaf in a new page.                              *)
LEMMA NewTreeKeepsPageInv ==
  ASSUME SafeSizes, PageInv, NEW t \in LeafTypes, NewTree(t)
  PROVE  PageInv'
<1> USE DEF PageInv
<1>1. /\ n_pages \in Pages /\ nodes \in [Pages -> BTreeNode]
      /\ roots \subseteq 1 .. n_pages /\ MaxPages \in Nat
      /\ rc \in {"OK", "EDUPLICATE"}
  BY ConstantsAssumption DEF TypeOK, Pages
<1>2. \A p \in 1 .. n_pages : GoodNode(p, nodes[p], n_pages)
  BY GoodPages
<1>3. /\ op = Idle /\ op' = Idle /\ n_pages' = n_pages + 1 /\ rc' = rc
      /\ roots' = roots \cup {n_pages'} /\ n_pages < MaxPages
  BY DEF NewTree
<1>4. n_pages' \in Pages /\ 1 .. n_pages' = (1 .. n_pages) \cup {n_pages'}
      /\ \A p \in 1 .. n_pages : p \in Pages /\ p # n_pages'
  BY <1>1, <1>3 DEF Pages
<1>5. t \in NodeTypes /\ ~is_internal(t)
  BY DEF LeafTypes, NodeTypes, is_internal
<1> DEFINE new == [initEmptyNode(n_pages', t) EXCEPT !.right_page = 0]
<1>6. nodes' = [nodes EXCEPT ![n_pages'] = new]
  BY DEF NewTree, initEmptyNode
<1>7. new \in BTreeNode /\ Layout(n_pages', new) /\ new.type = t
  BY <1>1, <1>4, <1>5, EmptyNodeLayout
<1> HIDE DEF new
<1>8. Children(new) = {}
  BY <1>5, <1>7 DEF Children
<1>9. GoodNode(n_pages', new, n_pages')
  BY <1>5, <1>7, <1>8 DEF GoodNode
<1>10. TypeOK'
  BY <1>1, <1>3, <1>4, <1>6, <1>7 DEF TypeOK
<1>11. ASSUME NEW p \in 1 .. n_pages'
       PROVE  GoodNode(p, nodes'[p], n_pages')
  <2>1. CASE p = n_pages'
    BY <1>1, <1>4, <1>6, <1>9, <2>1
  <2>2. CASE p # n_pages'
    <3>1. p \in 1 .. n_pages /\ nodes'[p] = nodes[p]
      BY <1>1, <1>4, <1>6, <2>2
    <3>2. GoodNode(p, nodes[p], n_pages)
      BY <1>2, <3>1
    <3>3. QED
      BY <1>4, <3>1, <3>2 DEF GoodNode
  <2>3. QED
    BY <2>1, <2>2
<1>12. (WellLinked /\ NoPageOverflows)'
  BY <1>3, <1>11 DEF WellLinked, NoPageOverflows, GoodNode, Allocated
<1>13. QED
  BY <1>3, <1>10, <1>12 DEF RoomWhereInsertGoes

(* A step down to a child that has room.                                   *)
LEMMA DescendKeepsPageInv ==
  ASSUME SafeSizes, PageInv, Descend
  PROVE  PageInv'
<1> USE DEF PageInv
<1> DEFINE here == op.npage
           child == ChildFor(nodes[here], op.btc.key)
<1>1. op \in Insertion /\ nodes \in [Pages -> BTreeNode] /\ n_pages \in Pages
      /\ here \in Pages /\ here \in 1 .. n_pages /\ op.nroot \in roots
  BY InsertionType DEF Descend, AtInternal, TypeOK, WellLinked, Allocated
<1>2. nodes[here] \in BTreeNode /\ GoodNode(here, nodes[here], n_pages)
      /\ is_internal(nodes[here].type) /\ op.btc.key \in Nat
  BY <1>1, GoodPages, InsertionType DEF Descend, AtInternal
<1>3. child \in 1 .. n_pages
  BY <1>2, ChildForGood
<1>4. child \in Pages
  BY <1>1, <1>3, ConstantsAssumption DEF Pages
<1>5. /\ op' = [op EXCEPT !.npage = child] /\ ~Full(nodes[child], op.btc)
      /\ UNCHANGED <<nodes, n_pages, roots, rc>>
  BY DEF Descend
<1> HIDE DEF child
<1>6. /\ op' \in Insertion /\ op'.npage = child /\ op'.btc = op.btc
      /\ op'.nroot = op.nroot
  BY <1>1, <1>4, <1>5, InsertionType
<1>7. TypeOK'
  BY <1>5, <1>6 DEF TypeOK
<1>8. (WellLinked /\ NoPageOverflows)'
  BY <1>1, <1>3, <1>5, <1>6 DEF WellLinked, NoPageOverflows, Allocated
<1>9. RoomWhereInsertGoes'
  BY <1>5, <1>6 DEF RoomWhereInsertGoes
<1>10. QED
  BY <1>7, <1>8, <1>9

(* A step down that splits the child first, and chooses one of its halves. *)
LEMMA SplitAndDescendKeepsPageInv ==
  ASSUME SafeSizes, PageInv, SplitAndDescend
  PROVE  PageInv'
<1> USE DEF PageInv
<1> DEFINE here == op.npage
           key == op.btc.key
           pos == find_position(nodes[here], key)
           child == child_at(nodes[here], pos)
           next == ChildFor(nodes'[here], key)
<1>1. /\ op \in Insertion /\ nodes \in [Pages -> BTreeNode] /\ n_pages \in Pages
      /\ roots \subseteq 1 .. n_pages /\ rc \in {"OK", "EDUPLICATE"}
      /\ here \in Pages /\ here \in 1 .. n_pages /\ op.nroot \in roots
      /\ key \in Nat /\ op.btc \in BTreeCell
      /\ is_internal(nodes[here].type)
  BY InsertionType DEF SplitAndDescend, AtInternal, TypeOK, WellLinked, Allocated
<1>2. /\ \A p \in 1 .. n_pages : GoodNode(p, nodes[p], n_pages)
      /\ MaxPages \in Nat /\ n_pages \in Nat
  BY <1>1, GoodPages, ConstantsAssumption DEF Pages
<1>3. /\ nodes[here] \in BTreeNode /\ nodes[here].type \in NodeTypes
      /\ Layout(here, nodes[here]) /\ GoodNode(here, nodes[here], n_pages)
  BY <1>1, <1>2 DEF GoodNode
<1>4. Roomy(nodes[here])
  <2>1. ~Full(nodes[here], op.btc)
    BY <1>1, InsertionType DEF RoomWhereInsertGoes
  <2>2. ~(Slack(nodes[here]) < cell_size(nodes[here].type, op.btc) + 2)
        /\ Slack(nodes[here]) \in Nat
    BY <1>1, <1>3, <2>1, FullMeansNoSlack
  <2>3. /\ cell_size(nodes[here].type, op.btc) = ShortCellSize(nodes[here].type)
        /\ ShortCellSize(nodes[here].type) \in Nat
    BY <1>1, <1>3, CellSizes
  <2>4. MaxCellSize(nodes[here].type) = ShortCellSize(nodes[here].type)
    BY <1>1, <2>3 DEF MaxCellSize, is_internal
  <2>5. QED
    BY <2>2, <2>3, <2>4 DEF Roomy
<1>5. child \in (1 .. n_pages) \ {here}
  BY <1>1, <1>3, ChildForGood
<1>6. /\ Full(nodes[child], op.btc)
      /\ n_pages' = n_pages + 1 /\ n_pages < MaxPages
      /\ nodes' = split(nodes, here, child, pos, n_pages + 1)
      /\ op' = [op EXCEPT !.npage = next]
      /\ roots' = roots /\ rc' = rc
  BY DEF SplitAndDescend
<1>7. /\ n_pages + 1 \in Pages /\ 1 .. n_pages' = (1 .. n_pages) \cup {n_pages'}
      /\ \A p \in 1 .. n_pages' : p \in Pages
  BY <1>1, <1>2, <1>6 DEF Pages
<1>8. Crowded(nodes[child])
  <2>1. /\ nodes[child] \in BTreeNode /\ nodes[child].type \in NodeTypes
        /\ Layout(child, nodes[child]) /\ child \in Pages
    BY <1>1, <1>2, <1>5, <1>7 DEF GoodNode
  <2>2. QED
    BY <1>1, <1>6, <2>1, FullIsCrowded
<1>9. /\ nodes' \in [Pages -> BTreeNode]
      /\ \A p \in 1 .. n_pages' : GoodNode(p, nodes'[p], n_pages')
      /\ next \in {child, n_pages'}
      /\ Roomy(nodes'[child]) /\ Roomy(nodes'[n_pages'])
  <2>1. pos = find_position(nodes[here], key) /\ child = child_at(nodes[here], pos)
    OBVIOUS
  <2> HIDE DEF pos, child
  <2>2. QED
    <3>1. /\ nodes \in [Pages -> BTreeNode] /\ n_pages \in Nat
          /\ n_pages' \in Pages /\ n_pages' = n_pages + 1
          /\ nodes' = split(nodes, here, child, pos, n_pages')
          /\ \A p \in 1 .. n_pages : GoodNode(p, nodes[p], n_pages)
          /\ here \in 1 .. n_pages /\ is_internal(nodes[here].type)
          /\ Roomy(nodes[here]) /\ key \in Nat /\ Crowded(nodes[child])
      BY <1>1, <1>2, <1>4, <1>6, <1>7, <1>8
    <3>2. QED
      BY ONLY SafeSizes, <2>1, <3>1, SplitKeepsGood, SMTT(30)
<1>10. next \in 1 .. n_pages' /\ Roomy(nodes'[next]) /\ next \in Pages
  BY <1>5, <1>7, <1>9
<1> HIDE DEF next, child, pos
<1>11. /\ op' \in Insertion /\ op'.npage = next /\ op'.btc = op.btc
       /\ op'.nroot = op.nroot
  BY <1>1, <1>6, <1>10, InsertionType
<1>12. TypeOK'
  BY <1>1, <1>6, <1>7, <1>9, <1>11 DEF TypeOK
<1>13. (WellLinked /\ NoPageOverflows)'
  BY <1>1, <1>6, <1>9, <1>10, <1>11
     DEF WellLinked, NoPageOverflows, GoodNode, Allocated
<1>14. ~Full(nodes'[next], op.btc)
  <2>1. nodes'[next] \in BTreeNode /\ nodes'[next].type \in NodeTypes
        /\ Layout(next, nodes'[next])
    BY <1>9, <1>10 DEF GoodNode
  <2>2. QED
    BY <1>1, <1>10, <2>1, RoomForAny DEF Roomy
<1>15. QED
  BY <1>11, <1>12, <1>13, <1>14 DEF RoomWhereInsertGoes

(* A leaf that holds the key is left alone, one that does not takes the    *)
(* cell, for which it has room.                                            *)
LEMMA AtLeafKeepsPageInv ==
  ASSUME SafeSizes, PageInv, RejectDuplicate \/ InsertInLeaf
  PROVE  PageInv'
<1> USE DEF PageInv
<1> DEFINE here == op.npage
           pos == find_position(nodes[here], op.btc.key)
<1>1. /\ op \in Insertion /\ nodes \in [Pages -> BTreeNode] /\ n_pages \in Pages
      /\ here \in Pages /\ here \in 1 .. n_pages
      /\ op.btc.key \in Nat /\ op.btc \in BTreeCell /\ op # Idle
      /\ ~is_internal(nodes[here].type)
  BY InsertionType
     DEF RejectDuplicate, InsertInLeaf, AtLeaf, TypeOK, WellLinked, Allocated
<1>2. op' = Idle /\ rc' \in {"OK", "EDUPLICATE"} /\ UNCHANGED <<n_pages, roots>>
  BY DEF RejectDuplicate, InsertInLeaf
<1>3. /\ nodes' \in [Pages -> BTreeNode]
      /\ \A p \in 1 .. n_pages : GoodNode(p, nodes'[p], n_pages)
  <2>1. CASE RejectDuplicate
    BY <1>1, <2>1, GoodPages DEF RejectDuplicate
  <2>2. CASE InsertInLeaf
    <3> DEFINE new == insertCell(nodes[here], pos, op.btc)
    <3>1. nodes' = [nodes EXCEPT ![here] = new]
      BY <1>1, <2>2 DEF InsertInLeaf
    <3>2. /\ nodes[here] \in BTreeNode /\ nodes[here].type \in NodeTypes
          /\ Layout(here, nodes[here]) /\ ~Full(nodes[here], op.btc)
      BY <1>1, GoodPages DEF GoodNode, RoomWhereInsertGoes
    <3>3. pos \in 1 .. Len(nodes[here].cells) + 1
      BY <1>1, <3>2, PositionFound
    <3>4. /\ new \in BTreeNode /\ Layout(here, new)
          /\ new.type = nodes[here].type
      BY <1>1, <3>2, <3>3, InsertCellKeepsLayout
    <3> HIDE DEF new
    <3>5. GoodNode(here, new, n_pages)
      BY <1>1, <3>2, <3>4 DEF GoodNode, Children
    <3>6. QED
      BY <1>1, <3>1, <3>4, <3>5, GoodPages
  <2>3. QED
    BY <2>1, <2>2
<1>4. TypeOK'
  BY <1>1, <1>2, <1>3 DEF TypeOK
<1>5. (WellLinked /\ NoPageOverflows)'
  BY <1>2, <1>3 DEF WellLinked, NoPageOverflows, GoodNode, Allocated
<1>6. QED
  BY <1>2, <1>4, <1>5 DEF RoomWhereInsertGoes

LEMMA StutterKeepsPageInv ==
  ASSUME PageInv, UNCHANGED vars
  PROVE  PageInv'
<1>1. UNCHANGED <<nodes, n_pages, roots, op, rc>>
  BY DEF vars
<1>2. TypeOK'
  BY <1>1 DEF PageInv, TypeOK
<1>3. (WellLinked /\ NoPageOverflows)'
  BY <1>1 DEF PageInv, WellLinked, NoPageOverflows, Allocated
<1>4. RoomWhereInsertGoes'
  BY <1>1 DEF PageInv, RoomWhereInsertGoes
<1>5. QED
  BY <1>2, <1>3, <1>4 DEF PageInv

LEMMA NextKeepsPageInv ==
  SafeSizes /\ PageInv /\ [Next]_vars => PageInv'
<1> SUFFICES ASSUME SafeSizes, PageInv, [Next]_vars
             PROVE  PageInv'
  OBVIOUS
<1>1. CASE \E t \in LeafTypes : NewTree(t)
  BY <1>1, NewTreeKeepsPageInv
<1>2. CASE \E r \in roots, k \in TableKeys, d \in Records : InsertInTable(r, k, d)
  BY <1>2, InsertKeepsPageInv, InsertedCellType DEF InsertInTable
<1>3. CASE \E r \in roots, k \in IndexKeys, pk \in KeyPks : InsertInIndex(r, k, pk)
  BY <1>3, InsertKeepsPageInv, InsertedCellType DEF InsertInIndex
<1>4. CASE Descend
  BY <1>4, DescendKeepsPageInv
<1>5. CASE SplitAndDescend
  BY <1>5, SplitAndDescendKeepsPageInv
<1>6. CASE RejectDuplicate \/ InsertInLeaf
  BY <1>6, AtLeafKeepsPageInv
<1>7. CASE UNCHANGED vars
  BY <1>7, StutterKeepsPageInv
<1>8. QED
  BY <1>1, <1>2, <1>3, <1>4, <1>5, <1>6, <1>7 DEF Next, InsertNonFull
-----------------------------------------------------------------------------
(* The theorems.  All assume SafeSizes: without it the second and third    *)
(* are false, as the run btree_long_records shows.                         *)

(* PageInv holds in every state of every behavior: it holds after the file *)
(* is created, and newNode, insert, insertNonFull and split preserve it.   *)
THEOREM PagesStayWell ==
  ASSUME SafeSizes
  PROVE  Spec => []PageInv
<1>1. Init => PageInv
  BY InitPageInv
<1>2. PageInv /\ [Next]_vars => PageInv'
  BY NextKeepsPageInv
<1>3. QED
  BY <1>1, <1>2, PTL DEF Spec

(* Every node read from the file is a node, whatever is inserted.          *)
THEOREM TypeCorrect ==
  ASSUME SafeSizes
  PROVE  Spec => []TypeOK
<1>1. PageInv => TypeOK
  BY DEF PageInv
<1>2. QED
  BY <1>1, PagesStayWell, PTL

(* No insert and no split ever writes the cells of a page over its cell    *)
(* offset array: the assumption that chidb_Btree_insertCell states and     *)
(* does not test always holds.                                             *)
THEOREM PagesNeverOverflow ==
  ASSUME SafeSizes
  PROVE  Spec => []NoPageOverflows
<1>1. PageInv => NoPageOverflows
  BY DEF PageInv
<1>2. QED
  BY <1>1, PagesStayWell, PTL

(* insertNonFull is only called on a node with room for the cell, also     *)
(* after a split, whose halves it does not measure again.                  *)
THEOREM InsertFindsRoom ==
  ASSUME SafeSizes
  PROVE  Spec => []RoomWhereInsertGoes
<1>1. PageInv => RoomWhereInsertGoes
  BY DEF PageInv
<1>2. QED
  BY <1>1, PagesStayWell, PTL

(* Every page an insert visits or a node points to is a page in use, and   *)
(* no node is its own child: no read of a page is ever refused.            *)
THEOREM LinksStayInUse ==
  ASSUME SafeSizes
  PROVE  Spec => []WellLinked
<1>1. PageInv => WellLinked
  BY DEF PageInv
<1>2. QED
  BY <1>1, PagesStayWell, PTL
=============================================================================
