-------------------------- MODULE Database_proofs --------------------------
(***************************************************************************)
(* Theorems about module Database, for every set of handles, every set of  *)
(* statements and every file of the format: statements that are prepared,  *)
(* stepped and abandoned in any order leave the schema sound, indexes that *)
(* point only to rows, and what a statement that is done has promised.     *)
(***************************************************************************)
EXTENDS Database, TLAPS, FiniteSetTheorems, WellFoundedInduction

-----------------------------------------------------------------------------
(* Numbers.                                                                *)

(* Sets of keys.                                                           *)
Keys == 0 .. KeyWord - 1

(* A key of a tree is one of the KeyWord keys.                              *)
LEMMA KeysAreKeys ==
  ASSUME NEW i \in Int
  PROVE  chidb_key(i) \in Keys
BY KeyWordAssumption DEF chidb_key, Keys

(* A key that comes back from a register is the key that went in.          *)
LEMMA KeysComeBack ==
  ASSUME NEW k \in Keys
  PROVE  int32(k) \in Int /\ chidb_key(int32(k)) = k
<1>1. KeyWord \in Nat /\ KeyWord > 1 /\ k \in Int /\ 0 <= k /\ k < KeyWord
  BY KeyWordAssumption DEF Keys
<1>2. k % KeyWord = k
  BY <1>1
<1>3. (k - KeyWord) % KeyWord = k
  BY <1>1
<1>4. QED
  BY <1>1, <1>2, <1>3 DEF chidb_key, int32

(* A nonempty set of naturals has a least element, the one Min chooses.    *)
LEMMA LeastOfSet ==
  ASSUME NEW S, S \subseteq Nat, S # {}
  PROVE  Min(S) \in S /\ \A j \in S : Min(S) <= j
<1>1. \E R : /\ IsWellFoundedOn(R, Nat)
             /\ \A ss \in Nat \X Nat : ss \in R <=> ss[1] < ss[2]
  <2>1. \A ss \in Nat \X Nat : ss \in OpToRel(<, Nat) <=> ss[1] < ss[2]
    BY Zenon DEF OpToRel
  <2>2. QED
    BY <2>1, NatLessThanWellFounded, Zenon
<1>2. PICK R : /\ IsWellFoundedOn(R, Nat)
               /\ \A ss \in Nat \X Nat : ss \in R <=> ss[1] < ss[2]
  BY <1>1
<1>3. PICK x \in S : \A y \in S : ~(<<y, x>> \in R)
  BY <1>2, WFMin
<1>4. ASSUME NEW y \in S
      PROVE  x <= y
  <2>1. <<y, x>> \in Nat \X Nat /\ <<y, x>>[1] = y /\ <<y, x>>[2] = x
    OBVIOUS
  <2>2. ~(y < x)
    BY <1>2, <1>3, <2>1
  <2>3. QED
    BY <2>2
<1>5. QED
  BY <1>4 DEF Min

(* A nonempty set of naturals with a bound has a greatest element.         *)
LEMMA GreatestOfSet ==
  ASSUME NEW S, S \subseteq Nat, S # {}, NEW bound \in Nat, \A i \in S : i <= bound
  PROVE  Max(S) \in S /\ \A j \in S : Max(S) >= j
<1> DEFINE Bounds == {b \in Nat : \A i \in S : i <= b}
<1>1. Bounds \subseteq Nat /\ Bounds # {}
  OBVIOUS
<1> DEFINE least == Min(Bounds)
<1>2. least \in Bounds /\ \A b \in Bounds : least <= b
  BY <1>1, LeastOfSet
<1> HIDE DEF least
<1>3. least \in S
  <2>1. SUFFICES ASSUME least \notin S PROVE FALSE
    OBVIOUS
  <2>2. \A i \in S : i < least
    BY <1>2, <2>1
  <2>3. PICK i \in S : TRUE
    OBVIOUS
  <2>4. least - 1 \in Nat /\ \A j \in S : j <= least - 1
    BY <1>2, <2>2, <2>3
  <2>5. QED
    BY <1>2, <2>4
<1>4. QED
  BY <1>2, <1>3 DEF Max
-----------------------------------------------------------------------------
(* Nth and Selected.                                                       *)

Below(numbers, i) == {j \in numbers : j < i}

(* Numbers stand in line: each has a place, and each place a number.       *)
LEMMA InLine ==
  ASSUME NEW S, IsFiniteSet(S), S \subseteq Int
  PROVE  /\ Cardinality(S) \in Nat
         /\ \A n \in 1 .. Cardinality(S) :
              Nth(S, n) \in S /\ Cardinality(Below(S, Nth(S, n))) = n - 1
         /\ \A i \in S : \E n \in 1 .. Cardinality(S) : Nth(S, n) = i
<1> DEFINE size == Cardinality(S)
           T == 0 .. size - 1
           rank == [i \in S |-> Cardinality(Below(S, i))]
<1>1. size \in Nat
  BY FS_CardinalityType
<1>2. IsFiniteSet(T) /\ Cardinality(T) = size
  BY <1>1, FS_Interval
<1>3. ASSUME NEW i \in S
      PROVE  IsFiniteSet(Below(S, i)) /\ Cardinality(Below(S, i)) \in T
  <2>1. Below(S, i) \in SUBSET S /\ i \notin Below(S, i)
    BY DEF Below
  <2>2. IsFiniteSet(Below(S, i)) /\ Cardinality(Below(S, i)) \in Nat
    BY <2>1, FS_Subset, FS_CardinalityType
  <2>3. Cardinality(Below(S, i)) <= size /\ Cardinality(Below(S, i)) # size
    BY <2>1, FS_Subset
  <2>4. QED
    BY <1>1, <2>2, <2>3
<1>4. ASSUME NEW i \in S, NEW j \in S, i < j
      PROVE  Cardinality(Below(S, i)) # Cardinality(Below(S, j))
  <2>0. \A x \in S : x \in Int
    OBVIOUS
  <2>1. Below(S, i) \in SUBSET Below(S, j)
    <3>1. \A x \in S : x < i => x < j
      BY <1>4, <2>0
    <3>2. QED
      BY <3>1 DEF Below
  <2>2. i \in Below(S, j) /\ i \notin Below(S, i)
    BY <1>4 DEF Below
  <2>3. IsFiniteSet(Below(S, j))
    BY <1>3
  <2>4. QED
    BY <2>1, <2>2, <2>3, FS_Subset
<1>5. rank \in Injection(S, T)
  <2>1. rank \in [S -> T]
    BY <1>3
  <2>2. ASSUME NEW i \in S, NEW j \in S, rank[i] = rank[j]
        PROVE  i = j
    <3>1. i \in Int /\ j \in Int
      OBVIOUS
    <3>2. ~(i < j) /\ ~(j < i)
      BY <1>4, <2>2
    <3>3. QED
      BY <3>1, <3>2
  <2>3. QED
    BY <2>1, <2>2 DEF Injection, IsInjective
<1>6. rank \in Surjection(S, T)
  BY <1>2, <1>5, FS_Injection
<1>7. ASSUME NEW n \in 1 .. size
      PROVE  \E i \in S : Cardinality(Below(S, i)) = n - 1
  <2>1. n - 1 \in T
    BY <1>1
  <2>2. QED
    BY <1>6, <2>1 DEF Surjection
<1>8. ASSUME NEW n \in 1 .. size
      PROVE  Nth(S, n) \in S /\ Cardinality(Below(S, Nth(S, n))) = n - 1
  BY <1>7 DEF Nth, Below
<1>9. ASSUME NEW i \in S
      PROVE  \E n \in 1 .. size : Nth(S, n) = i
  <2> DEFINE n == Cardinality(Below(S, i)) + 1
  <2>1. n \in 1 .. size
    BY <1>1, <1>3
  <2>2. Nth(S, n) \in S /\ Cardinality(Below(S, Nth(S, n))) = Cardinality(Below(S, i))
    BY <1>1, <1>3, <1>8, <2>1
  <2>3. Nth(S, n) \in Int /\ i \in Int /\ ~(Nth(S, n) < i) /\ ~(i < Nth(S, n))
    BY <1>4, <2>2
  <2>4. Nth(S, n) = i
    BY <2>3
  <2>5. QED
    BY <2>1, <2>4
<1>10. QED
  BY <1>1, <1>8, <1>9

(* What Selected takes of a sequence.                                      *)
LEMMA SelectedElements ==
  ASSUME NEW seq, NEW S, S \subseteq DOMAIN seq, NEW n \in Nat, DOMAIN seq = 1 .. n
  PROVE  /\ Cardinality(S) \in Nat
         /\ DOMAIN Selected(seq, S) = 1 .. Cardinality(S)
         /\ Len(Selected(seq, S)) = Cardinality(S)
         /\ Selected(seq, S) \in Seq(ToSet(seq))
         /\ ToSet(Selected(seq, S)) = {seq[i] : i \in S}
         /\ Selected(seq, S) = <<>> <=> S = {}
<1>1. IsFiniteSet(1 .. n)
  BY FS_Interval
<1>2. IsFiniteSet(S) /\ S \subseteq Int
  BY <1>1, FS_Subset
<1> DEFINE size == Cardinality(S)
           chosen == Selected(seq, S)
<1>3. /\ size \in Nat
      /\ \A m \in 1 .. size : Nth(S, m) \in S
      /\ \A i \in S : \E m \in 1 .. size : Nth(S, m) = i
  BY <1>2, InLine
<1>4. chosen = [m \in 1 .. size |-> seq[Nth(S, m)]]
  BY DEF Selected
<1> HIDE DEF size, chosen
<1>5. DOMAIN chosen = 1 .. size
  BY <1>4
<1>6. \A m \in 1 .. size : chosen[m] \in ToSet(seq)
  BY <1>3, <1>4 DEF ToSet
<1>7. chosen \in [1 .. size -> ToSet(seq)]
  BY <1>4, <1>6
<1>8. chosen \in Seq(ToSet(seq)) /\ Len(chosen) = size
  BY <1>3, <1>7
<1>9. ToSet(chosen) = {seq[i] : i \in S}
  <2>1. \A m \in 1 .. size : chosen[m] \in {seq[i] : i \in S}
    BY <1>3, <1>4
  <2>2. \A i \in S : \E m \in 1 .. size : chosen[m] = seq[i]
    BY <1>3, <1>4
  <2>3. QED
    BY <1>5, <2>1, <2>2 DEF ToSet
<1>10. chosen = <<>> <=> S = {}
  <2>1. size = 0 <=> S = {}
    BY <1>2, FS_EmptySet DEF size
  <2>2. chosen = <<>> <=> size = 0
    BY <1>8
  <2>3. QED
    BY <2>1, <2>2
<1>11. QED
  BY <1>3, <1>5, <1>8, <1>9, <1>10 DEF size, chosen
-----------------------------------------------------------------------------
(* Trees in order, and the schema that is read from one.                   *)

(* A cursor goes over each entry of its tree, and over nothing else.        *)
LEMMA TreesInOrder ==
  ASSUME NEW tree, DOMAIN tree \subseteq Keys
  PROVE  /\ \E n \in Nat : DOMAIN InOrder(tree) = 1 .. n /\ Len(InOrder(tree)) = n
         /\ \A i \in DOMAIN InOrder(tree) :
              /\ InOrder(tree)[i].key \in DOMAIN tree
              /\ InOrder(tree)[i].val = tree[InOrder(tree)[i].key]
         /\ \A k \in DOMAIN tree :
              \E i \in DOMAIN InOrder(tree) : InOrder(tree)[i].key = k
<1> DEFINE D == DOMAIN tree
           size == Cardinality(D)
<1>1. IsFiniteSet(D) /\ D \subseteq Int
  <2>1. IsFiniteSet(Keys) /\ Keys \subseteq Int
    BY KeyWordAssumption, FS_Interval DEF Keys
  <2>2. QED
    BY <2>1, FS_Subset
<1>2. /\ size \in Nat
      /\ \A n \in 1 .. size : Nth(D, n) \in D
      /\ \A k \in D : \E n \in 1 .. size : Nth(D, n) = k
  BY <1>1, InLine
<1>3. InOrder(tree) = [n \in 1 .. size |-> [key |-> Nth(D, n), val |-> tree[Nth(D, n)]]]
  BY DEF InOrder
<1> HIDE DEF size
<1>4. DOMAIN InOrder(tree) = 1 .. size /\ Len(InOrder(tree)) = size
  BY <1>2, <1>3
<1>5. \A n \in 1 .. size : /\ InOrder(tree)[n].key = Nth(D, n)
                            /\ InOrder(tree)[n].val = tree[Nth(D, n)]
  BY <1>3
<1>6. QED
  BY <1>2, <1>4, <1>5

ItemAt(file, k) == schema_item(k, file[1].entries[k])

(* A list of the objects of a schema.                                      *)
IsSchema(list) == list \in Seq(ToSet(list))

(* The items of the file are the rows of its schema table.                  *)
LEMMA ItemsOfFile ==
  ASSUME NEW file, DOMAIN file[1].entries \subseteq Keys
  PROVE  /\ Items(file) = {ItemAt(file, k) : k \in DOMAIN file[1].entries}
         /\ IsSchema(schema_load(file))
         /\ \A x \in Items(file) : x.key \in Keys
<1> DEFINE tree == file[1].entries
           load == schema_load(file)
<1>1. load = [i \in DOMAIN InOrder(tree) |->
                schema_item(InOrder(tree)[i].key, InOrder(tree)[i].val)]
  BY DEF schema_load, Cursor_open, collect
<1>2. PICK n \in Nat : DOMAIN InOrder(tree) = 1 .. n
  BY TreesInOrder
<1>3. /\ \A i \in 1 .. n : InOrder(tree)[i].key \in DOMAIN tree
      /\ \A i \in 1 .. n : InOrder(tree)[i].val = tree[InOrder(tree)[i].key]
      /\ \A k \in DOMAIN tree : \E i \in 1 .. n : InOrder(tree)[i].key = k
  BY <1>2, TreesInOrder
<1> HIDE DEF load
<1>4. DOMAIN load = 1 .. n /\ \A i \in 1 .. n : load[i] = ItemAt(file, InOrder(tree)[i].key)
  BY <1>1, <1>2, <1>3 DEF ItemAt
<1>5. Items(file) = {ItemAt(file, k) : k \in DOMAIN tree}
  <2>1. Items(file) = {load[i] : i \in 1 .. n}
    BY <1>4 DEF Items, ToSet, load
  <2>2. \A i \in 1 .. n : load[i] \in {ItemAt(file, k) : k \in DOMAIN tree}
    BY <1>3, <1>4
  <2>3. \A k \in DOMAIN tree : \E i \in 1 .. n : load[i] = ItemAt(file, k)
    BY <1>3, <1>4
  <2>4. QED
    BY <2>1, <2>2, <2>3
<1>6. IsSchema(load)
  <2>1. load = [i \in 1 .. n |-> load[i]]
    BY <1>1, <1>2 DEF load
  <2>2. \A i \in 1 .. n : load[i] \in ToSet(load)
    BY <1>4 DEF ToSet
  <2>3. load \in [1 .. n -> ToSet(load)]
    BY <2>1, <2>2
  <2>4. QED
    BY <2>3 DEF IsSchema
<1>7. \A k \in DOMAIN tree : ItemAt(file, k).key = k
  BY DEF ItemAt, schema_item
<1>8. QED
  BY <1>5, <1>6, <1>7 DEF load

(* The lists that the code generator takes from the schema.                *)
IsTableNamed(x, name) == x.type = "table" /\ x.name = name
IsIndexOf(x, table) == x.type = "index" /\ x.table_name = table

(* The tables of a name are those of the list that have it.                 *)
LEMMA TablesNamed ==
  ASSUME NEW list, IsSchema(list), NEW name
  PROVE  /\ tables_named(list, name) = <<>>
               <=> \A x \in ToSet(list) : ~IsTableNamed(x, name)
         /\ tables_named(list, name) # <<>> =>
              /\ tables_named(list, name)[1] \in ToSet(list)
              /\ IsTableNamed(tables_named(list, name)[1], name)
<1> DEFINE S == {i \in DOMAIN list : list[i].type = "table" /\ list[i].name = name}
           n == Len(list)
           named == tables_named(list, name)
<1>1. n \in Nat /\ DOMAIN list = 1 .. n /\ S \subseteq DOMAIN list
  BY DEF IsSchema
<1>2. named = Selected(list, S)
  BY DEF tables_named
<1>4. \A i \in DOMAIN list : i \in S <=> IsTableNamed(list[i], name)
  BY DEF IsTableNamed
<1> HIDE DEF n, named, S
<1>3. /\ Cardinality(S) \in Nat
      /\ DOMAIN named = 1 .. Cardinality(S)
      /\ Len(named) = Cardinality(S)
      /\ named \in Seq(ToSet(list))
      /\ ToSet(named) = {list[i] : i \in S}
      /\ named = <<>> <=> S = {}
  BY <1>1, <1>2, SelectedElements
<1>5. named = <<>> <=> \A x \in ToSet(list) : ~IsTableNamed(x, name)
  BY <1>1, <1>3, <1>4 DEF ToSet
<1>6. ASSUME named # <<>>
      PROVE  named[1] \in {list[i] : i \in S}
  <2>1. 1 \in DOMAIN named
    BY <1>3, <1>6
  <2>2. QED
    BY <1>3, <2>1 DEF ToSet
<1>7. \A x \in {list[i] : i \in S} : x \in ToSet(list) /\ IsTableNamed(x, name)
  BY <1>1, <1>4 DEF ToSet
<1>8. QED
  BY <1>5, <1>6, <1>7 DEF named

(* The indexes of a table are those of the list that are on it.             *)
LEMMA IndexesOf ==
  ASSUME NEW list, IsSchema(list), NEW table
  PROVE  /\ indexes_of(list, table) \in Seq(ToSet(list))
         /\ ToSet(indexes_of(list, table)) = {x \in ToSet(list) : IsIndexOf(x, table)}
<1> DEFINE S == {i \in DOMAIN list : list[i].type = "index" /\ list[i].table_name = table}
           n == Len(list)
           indexes == indexes_of(list, table)
<1>1. n \in Nat /\ DOMAIN list = 1 .. n /\ S \subseteq DOMAIN list
  BY DEF IsSchema
<1>2. indexes = Selected(list, S)
  BY DEF indexes_of
<1> HIDE DEF n, indexes
<1>3. indexes \in Seq(ToSet(list)) /\ ToSet(indexes) = {list[i] : i \in S}
  BY <1>1, <1>2, SelectedElements
<1>4. \A i \in DOMAIN list : i \in S <=> IsIndexOf(list[i], table)
  BY DEF IsIndexOf
<1>5. {list[i] : i \in S} = {x \in ToSet(list) : IsIndexOf(x, table)}
  BY <1>4 DEF ToSet
<1>6. QED
  BY <1>3, <1>5 DEF indexes

(* The next key is a number, the same for lists of the same objects.       *)
LEMMA NextKeys ==
  ASSUME NEW list, \A x \in ToSet(list) : x.key \in Keys
  PROVE  /\ schema_next_key(list) \in Nat
         /\ \A other : ToSet(other) = ToSet(list) =>
              schema_next_key(other) = schema_next_key(list)
<1> DEFINE taken(l) == {0} \cup {x.key : x \in ToSet(l)}
<1>1. \A l : schema_next_key(l) = 1 + Max(taken(l))
  <2>1. \A l : {l[i].key : i \in DOMAIN l} = {x.key : x \in ToSet(l)}
    BY DEF ToSet
  <2>2. QED
    BY <2>1 DEF schema_next_key
<1>2. Max(taken(list)) \in Nat
  <2>1. taken(list) \subseteq Nat /\ taken(list) # {} /\ KeyWord \in Nat
    BY KeyWordAssumption DEF Keys
  <2>2. \A k \in taken(list) : k <= KeyWord
    BY KeyWordAssumption DEF Keys
  <2>3. QED
    BY <2>1, <2>2, GreatestOfSet
<1>3. QED
  BY <1>1, <1>2

(* Columns.                                                                *)
LEMMA PrimaryKeys ==
  ASSUME NEW columns, OnePrimaryKey(columns)
  PROVE  /\ Len(columns) \in Nat /\ DOMAIN columns = 1 .. Len(columns)
         /\ primary_key_index(columns) \in 0 .. Len(columns) - 1
         /\ columns[primary_key_index(columns) + 1].type = "INT"
         /\ \A j \in DOMAIN columns : columns[j].pk <=> j = primary_key_index(columns) + 1
<1>1. PICK i \in DOMAIN columns :
         /\ columns[i].type = "INT"
         /\ \A j \in DOMAIN columns : columns[j].pk = (j = i)
  BY DEF OnePrimaryKey
<1>2. Len(columns) \in Nat /\ DOMAIN columns = 1 .. Len(columns)
  BY DEF OnePrimaryKey
<1> DEFINE I == {j \in 1 .. Len(columns) : columns[j].pk}
<1>3. I = {i}
  BY <1>1, <1>2
<1>4. Min(I) = i
  BY <1>2, <1>3 DEF Min
<1>5. primary_key_index(columns) = Max({0, i - 1})
  BY <1>3, <1>4 DEF primary_key_index, SelectInSeq
<1>6. Max({0, i - 1}) = i - 1
  <2>1. i - 1 \in Nat
    BY <1>2
  <2>2. QED
    BY <2>1 DEF Max
<1>7. primary_key_index(columns) = i - 1 /\ i \in 1 .. Len(columns)
  BY <1>2, <1>5, <1>6
<1>8. i = primary_key_index(columns) + 1 /\ primary_key_index(columns) \in 0 .. Len(columns) - 1
  BY <1>2, <1>7
<1>9. QED
  BY <1>1, <1>2, <1>8

(* A column that is found by its name is a column.                          *)
LEMMA ColumnsByName ==
  ASSUME NEW columns, OnePrimaryKey(columns), NEW name,
         column_index_by_name(columns, name) >= 0
  PROVE  /\ column_index_by_name(columns, name) + 1 \in DOMAIN columns
         /\ column_index_by_name(columns, name) \in Nat
<1>1. Len(columns) \in Nat /\ DOMAIN columns = 1 .. Len(columns)
  BY DEF OnePrimaryKey
<1> DEFINE I == {j \in 1 .. Len(columns) : columns[j].name = name}
<1>2. column_index_by_name(columns, name) = (IF I # {} THEN Min(I) ELSE 0) - 1
  BY DEF column_index_by_name, SelectInSeq
<1>3. I # {}
  BY <1>2
<1>4. I \subseteq Nat
  BY <1>1
<1>5. Min(I) \in I
  BY <1>3, <1>4, LeastOfSet
<1>6. column_index_by_name(columns, name) + 1 = Min(I)
  BY <1>2, <1>3, <1>4, <1>5
<1>7. column_index_by_name(columns, name) \in Nat
  BY <1>1, <1>2, <1>3, <1>5
<1>8. QED
  BY <1>1, <1>5, <1>6, <1>7
-----------------------------------------------------------------------------
(* Files and how they grow.                                                *)

Whole(file) == IsFile(file) /\ SchemaIsSound(file) /\ IndexesMatchRows(file)

TableOf(file, index) == tables_named(schema_load(file), index.table_name)[1]

(* Trees stay, and so do their entries.                                    *)
TreeGrows(before, after) ==
    /\ after.index = before.index
    /\ DOMAIN before.entries \subseteq DOMAIN after.entries
    /\ \A k \in DOMAIN before.entries : after.entries[k] = before.entries[k]

Grows(before, after) ==
    /\ DOMAIN before \subseteq DOMAIN after
    /\ \A r \in DOMAIN before : TreeGrows(before[r], after[r])

(* What is true of every file of the format.                                *)
LEMMA FileShape ==
  ASSUME NEW file, IsFile(file)
  PROVE  /\ Len(file) \in Nat /\ Len(file) >= 1 /\ DOMAIN file = 1 .. Len(file)
         /\ 1 \in DOMAIN file
         /\ DOMAIN file[1].entries \subseteq Keys
         /\ Items(file) = {ItemAt(file, k) : k \in DOMAIN file[1].entries}
         /\ IsSchema(schema_load(file))
         /\ ToSet(schema_load(file)) = Items(file)
         /\ \A x \in Items(file) : x.key \in Keys
<1>1. Len(file) \in Nat /\ DOMAIN file = 1 .. Len(file) /\ file # <<>>
  BY DEF IsFile
<1>2. Len(file) >= 1
  BY <1>1 DEF IsFile
<1>3. 1 \in DOMAIN file
  BY <1>1, <1>2
<1>4. DOMAIN file[1].entries \subseteq Keys
  BY <1>3 DEF IsFile, Keys
<1>5. QED
  BY <1>1, <1>2, <1>3, <1>4, ItemsOfFile DEF Items

(* In a list of objects of a sound schema a name means one table.          *)
LEMMA OneTableOfName ==
  ASSUME NEW file, SchemaIsSound(file),
         NEW list, IsSchema(list), ToSet(list) \subseteq Items(file),
         NEW x \in ToSet(list), x.type = "table"
  PROVE  tables_named(list, x.name)[1] = x /\ tables_named(list, x.name) # <<>>
<1> DEFINE y == tables_named(list, x.name)[1]
<1>1. IsTableNamed(x, x.name)
  BY DEF IsTableNamed
<1>2. tables_named(list, x.name) # <<>>
  BY <1>1, TablesNamed
<1>3. y \in ToSet(list) /\ IsTableNamed(y, x.name)
  BY <1>2, TablesNamed
<1> HIDE DEF y
<1>4. y \in Items(file) /\ x \in Items(file) /\ y.type = "table" /\ y.name = x.name
  BY <1>3 DEF IsTableNamed
<1>5. ASSUME y # x PROVE FALSE
  <2>1. y \in Items(file) \ {x}
    BY <1>4, <1>5
  <2>2. x.type = "table" /\ y.type = "table" => x.name # y.name
    BY <1>4, <2>1 DEF SchemaIsSound
  <2>3. QED
    BY <1>4, <2>2
<1>6. QED
  BY <1>2, <1>5 DEF y

(* What is written of a table.                                             *)
LEMMA TablesOfFile ==
  ASSUME NEW file, IsFile(file), SchemaIsSound(file), NEW x \in Items(file)
  PROVE  /\ x.type = "table" \/ x.type = "index"
         /\ x.type = "table" => OnePrimaryKey(x.sql.columns)
         /\ x.root_page \in 2 .. Len(file) /\ x.root_page \in DOMAIN file
         /\ file[x.root_page].index <=> x.type = "index"
         /\ x.type = "table" => DOMAIN file[x.root_page].entries \subseteq Keys
<1>1. (x.type = "table" /\ OnePrimaryKey(x.sql.columns)) \/ x.type = "index"
  BY DEF IsFile
<1>2. x.root_page \in 2 .. Len(file) /\ file[x.root_page].index = (x.type = "index")
  BY DEF SchemaIsSound
<1>3. x.root_page \in DOMAIN file
  BY <1>2, FileShape
<1>4. x.type = "table" => ~file[x.root_page].index
  BY <1>2
<1>5. ~file[x.root_page].index => DOMAIN file[x.root_page].entries \subseteq Keys
  BY <1>3 DEF IsFile, Keys
<1>6. QED
  BY <1>1, <1>2, <1>3, <1>4, <1>5

(* In a sound file an index is on a table and one of its columns.           *)
LEMMA TableOfIndex ==
  ASSUME NEW file, IsFile(file), SchemaIsSound(file), NEW x \in IndexItems(file)
  PROVE  /\ TableOf(file, x) \in Items(file)
         /\ TableOf(file, x).type = "table" /\ TableOf(file, x).name = x.table_name
         /\ column_index_by_name(TableOf(file, x).sql.columns, x.sql.column_name) >= 0
         /\ OnePrimaryKey(TableOf(file, x).sql.columns)
         /\ TableOf(file, x).root_page \in DOMAIN file
<1>1. x \in Items(file) /\ x.type = "index"
  BY DEF IndexItems
<1>2. PICK table \in Items(file) :
         /\ table.type = "table" /\ table.name = x.table_name
         /\ column_index_by_name(table.sql.columns, x.sql.column_name) >= 0
  BY <1>1 DEF SchemaIsSound, HasTable
<1>3. IsSchema(schema_load(file)) /\ ToSet(schema_load(file)) = Items(file)
  BY FileShape
<1>4. TableOf(file, x) = table
  BY <1>2, <1>3, OneTableOfName DEF TableOf
<1>5. OnePrimaryKey(table.sql.columns) /\ table.root_page \in DOMAIN file
  BY <1>2, TablesOfFile
<1>6. QED
  BY <1>2, <1>4, <1>5

(* It is still on the same table in a sound file that has more.             *)
LEMMA SameTable ==
  ASSUME NEW file, IsFile(file), SchemaIsSound(file), NEW x \in IndexItems(file),
         NEW later, IsFile(later), SchemaIsSound(later), Items(file) \subseteq Items(later)
  PROVE  TableOf(later, x) = TableOf(file, x) /\ x \in IndexItems(later)
<1> DEFINE table == TableOf(file, x)
<1>1. table \in Items(later) /\ table.type = "table" /\ table.name = x.table_name
  BY TableOfIndex
<1> HIDE DEF table
<1>2. IsSchema(schema_load(later)) /\ ToSet(schema_load(later)) = Items(later)
  BY FileShape
<1>3. tables_named(schema_load(later), table.name)[1] = table
  BY <1>1, <1>2, OneTableOfName
<1>4. TableOf(later, x) = table
  BY <1>1, <1>3 DEF TableOf
<1>5. QED
  BY <1>4 DEF table, IndexItems

RowEntry(table, column, k, record) ==
    <<IndexedValue(table.sql.columns, column, k, record), k>>

(* The entries an index should have and those it has.                       *)
LEMMA RowEntriesAre ==
  ASSUME NEW file, NEW x
  PROVE  /\ RowEntries(file, x) =
              {RowEntry(TableOf(file, x), x.sql.column_name, k,
                        file[TableOf(file, x).root_page].entries[k]) :
                 k \in DOMAIN file[TableOf(file, x).root_page].entries}
         /\ IndexEntries(file, x) =
              {<<k, file[x.root_page].entries[k]>> : k \in DOMAIN file[x.root_page].entries}
BY DEF RowEntries, IndexEntries, TableOf, RowEntry

(* A file that grows keeps its objects,                                     *)
LEMMA ItemsGrow ==
  ASSUME NEW file, IsFile(file), NEW later, IsFile(later), Grows(file, later)
  PROVE  Items(file) \subseteq Items(later)
<1>1. /\ Items(file) = {ItemAt(file, k) : k \in DOMAIN file[1].entries}
      /\ Items(later) = {ItemAt(later, k) : k \in DOMAIN later[1].entries}
      /\ 1 \in DOMAIN file
  BY FileShape
<1>2. /\ DOMAIN file[1].entries \subseteq DOMAIN later[1].entries
      /\ \A k \in DOMAIN file[1].entries : later[1].entries[k] = file[1].entries[k]
  BY <1>1 DEF Grows, TreeGrows
<1>3. \A k \in DOMAIN file[1].entries : ItemAt(later, k) = ItemAt(file, k)
  BY <1>2 DEF ItemAt
<1>4. QED
  BY <1>1, <1>2, <1>3

(* and the entries of its indexes.                                          *)
LEMMA EntriesGrow ==
  ASSUME NEW file, IsFile(file), SchemaIsSound(file),
         NEW later, IsFile(later), SchemaIsSound(later), Grows(file, later),
         NEW x \in IndexItems(file)
  PROVE  /\ x \in IndexItems(later)
         /\ RowEntries(file, x) \subseteq RowEntries(later, x)
         /\ IndexEntries(file, x) \subseteq IndexEntries(later, x)
<1>1. Items(file) \subseteq Items(later)
  BY ItemsGrow
<1>2. TableOf(later, x) = TableOf(file, x) /\ x \in IndexItems(later)
  BY <1>1, SameTable
<1> DEFINE t == TableOf(file, x).root_page
<1>3. t \in DOMAIN file /\ x.root_page \in DOMAIN file
  BY TableOfIndex, TablesOfFile DEF IndexItems
<1>4. TreeGrows(file[t], later[t]) /\ TreeGrows(file[x.root_page], later[x.root_page])
  BY <1>3 DEF Grows
<1>5. RowEntries(file, x) \subseteq RowEntries(later, x)
  <2>1. /\ DOMAIN file[t].entries \subseteq DOMAIN later[t].entries
        /\ \A k \in DOMAIN file[t].entries : later[t].entries[k] = file[t].entries[k]
    BY <1>4 DEF TreeGrows
  <2> DEFINE entry(k, record) == RowEntry(TableOf(file, x), x.sql.column_name, k, record)
  <2>2. RowEntries(file, x) = {entry(k, file[t].entries[k]) : k \in DOMAIN file[t].entries}
    BY RowEntriesAre
  <2>3. RowEntries(later, x) =
          {RowEntry(TableOf(later, x), x.sql.column_name, k,
                    later[TableOf(later, x).root_page].entries[k]) :
             k \in DOMAIN later[TableOf(later, x).root_page].entries}
    BY RowEntriesAre
  <2>4. RowEntries(later, x) = {entry(k, later[t].entries[k]) : k \in DOMAIN later[t].entries}
    BY <1>2, <2>3
  <2> HIDE DEF t, entry
  <2>5. QED
    BY <2>1, <2>2, <2>4
<1>6. IndexEntries(file, x) \subseteq IndexEntries(later, x)
  <2>1. /\ DOMAIN file[x.root_page].entries \subseteq DOMAIN later[x.root_page].entries
        /\ \A k \in DOMAIN file[x.root_page].entries :
             later[x.root_page].entries[k] = file[x.root_page].entries[k]
    BY <1>4 DEF TreeGrows
  <2>2. QED
    BY <2>1, RowEntriesAre
<1>7. QED
  BY <1>2, <1>5, <1>6

(* Growth is transitive.                                                    *)
LEMMA GrowthAddsUp ==
  ASSUME NEW f, NEW g, NEW h, Grows(f, g), Grows(g, h)
  PROVE  Grows(f, h)
BY DEF Grows, TreeGrows
-----------------------------------------------------------------------------
(* What an instruction that writes does to a file.                         *)

WithEntry(file, root, k, val) == [file EXCEPT ![root].entries = Put(@, k, val)]

(* What a map sends to what after a Put.                                    *)
LEMMA PutEntry ==
  ASSUME NEW map, NEW k, NEW val
  PROVE  /\ DOMAIN Put(map, k, val) = {k} \cup DOMAIN map
         /\ Put(map, k, val)[k] = val
         /\ \A i \in DOMAIN map : i # k => Put(map, k, val)[i] = map[i]
BY DEF Put

(* A new tree.                                                             *)
LEMMA WithTree ==
  ASSUME NEW file, IsFile(file), NEW tree
  PROVE  /\ Len(Append(file, tree)) = Len(file) + 1
         /\ DOMAIN Append(file, tree) = 1 .. Len(file) + 1
         /\ Append(file, tree)[Len(file) + 1] = tree
         /\ \A r \in DOMAIN file : Append(file, tree)[r] = file[r]
         /\ Append(file, tree) \in Seq(ToSet(Append(file, tree)))
         /\ Items(Append(file, tree)) = Items(file)
         /\ Grows(file, Append(file, tree))
<1>1. file \in Seq(ToSet(file)) /\ Len(file) \in Nat /\ DOMAIN file = 1 .. Len(file)
  BY FileShape DEF IsFile
<1> DEFINE after == Append(file, tree)
<1>2. /\ Len(after) = Len(file) + 1 /\ DOMAIN after = 1 .. Len(file) + 1
      /\ after[Len(file) + 1] = tree
      /\ \A r \in DOMAIN file : after[r] = file[r]
  BY <1>1
<1>3. after = [r \in 1 .. Len(file) + 1 |-> after[r]]
  <2>1. file \in Seq(ToSet(file) \cup {tree})
    BY <1>1
  <2>2. after \in Seq(ToSet(file) \cup {tree})
    BY <2>1
  <2> HIDE DEF after
  <2>3. QED
    BY <1>1, <1>2, <2>2
<1> HIDE DEF after
<1>4. after \in Seq(ToSet(after))
  <2>1. \A r \in 1 .. Len(file) + 1 : after[r] \in ToSet(after)
    BY <1>2 DEF ToSet
  <2>2. after \in [1 .. Len(file) + 1 -> ToSet(after)]
    BY <1>3, <2>1
  <2>3. QED
    BY <1>1, <2>2
<1>5. after[1] = file[1]
  BY <1>2, FileShape
<1>6. Items(after) = Items(file)
  <2>1. schema_load(after) = schema_load(file)
    BY <1>5 DEF schema_load
  <2>2. QED
    BY <2>1 DEF Items
<1>7. Grows(file, after)
  BY <1>1, <1>2 DEF Grows, TreeGrows
<1>8. QED
  BY <1>2, <1>4, <1>6, <1>7 DEF after

(* A new entry of a tree.                                                  *)
LEMMA WithEntryShape ==
  ASSUME NEW file, IsFile(file), NEW root \in DOMAIN file, NEW k, NEW val,
         k \notin DOMAIN file[root].entries
  PROVE  LET after == WithEntry(file, root, k, val)
         IN  /\ Len(after) = Len(file) /\ DOMAIN after = DOMAIN file
             /\ after \in Seq(ToSet(after)) /\ after # <<>>
             /\ \A r \in DOMAIN file : r # root => after[r] = file[r]
             /\ after[root] = [index |-> file[root].index,
                               entries |-> Put(file[root].entries, k, val)]
             /\ Grows(file, after)
<1> DEFINE after == WithEntry(file, root, k, val)
<1>1. /\ file \in Seq(ToSet(file)) /\ Len(file) \in Nat /\ Len(file) >= 1
      /\ DOMAIN file = 1 .. Len(file)
  BY FileShape DEF IsFile
<1>2. file[root] = [index |-> file[root].index, entries |-> file[root].entries]
  BY DEF IsFile
<1>3. after = [r \in 1 .. Len(file) |->
                 IF r = root THEN [file[root] EXCEPT !.entries = Put(@, k, val)] ELSE file[r]]
  BY <1>1 DEF WithEntry
<1>4. [file[root] EXCEPT !.entries = Put(@, k, val)] =
        [index |-> file[root].index, entries |-> Put(file[root].entries, k, val)]
  BY <1>2
<1> HIDE DEF after
<1>5. /\ DOMAIN after = 1 .. Len(file)
      /\ \A r \in DOMAIN file : r # root => after[r] = file[r]
      /\ after[root] = [index |-> file[root].index,
                        entries |-> Put(file[root].entries, k, val)]
  BY <1>1, <1>3, <1>4
<1>6. after \in Seq(ToSet(after)) /\ Len(after) = Len(file) /\ after # <<>>
  <2>1. \A r \in 1 .. Len(file) : after[r] \in ToSet(after)
    BY <1>5 DEF ToSet
  <2>2. after \in [1 .. Len(file) -> ToSet(after)]
    BY <1>3, <2>1
  <2>3. after \in Seq(ToSet(after)) /\ Len(after) = Len(file)
    BY <1>1, <2>2
  <2>4. QED
    BY <1>1, <2>3
<1>7. Grows(file, after)
  <2> DEFINE entries == Put(file[root].entries, k, val)
  <2>0. /\ DOMAIN file[root].entries \subseteq DOMAIN entries
        /\ \A i \in DOMAIN file[root].entries : entries[i] = file[root].entries[i]
    BY DEF Put
  <2> HIDE DEF entries
  <2>1. TreeGrows(file[root], after[root])
    BY <1>5, <2>0 DEF TreeGrows, entries
  <2>2. \A r \in DOMAIN file : TreeGrows(file[r], after[r])
    <3>1. \A r \in DOMAIN file : r # root => TreeGrows(file[r], after[r])
      BY <1>5 DEF TreeGrows
    <3>2. QED
      BY <2>1, <3>1
  <2>3. QED
    BY <1>1, <1>5, <2>2 DEF Grows
<1>8. QED
  BY <1>1, <1>5, <1>6, <1>7 DEF after

(* A new tree is not in the schema yet.                                    *)
LEMMA NewTreeKeepsWhole ==
  ASSUME NEW file, Whole(file), NEW index \in BOOLEAN
  PROVE  Whole(Append(file, EmptyTree(index)))
<1> DEFINE after == Append(file, EmptyTree(index))
<1>1. IsFile(file) /\ SchemaIsSound(file) /\ IndexesMatchRows(file)
  BY DEF Whole
<1>2. /\ Len(after) = Len(file) + 1
      /\ DOMAIN after = 1 .. Len(file) + 1
      /\ after[Len(file) + 1] = EmptyTree(index)
      /\ \A r \in DOMAIN file : after[r] = file[r]
      /\ after \in Seq(ToSet(after))
      /\ Items(after) = Items(file)
      /\ Grows(file, after)
  BY <1>1, WithTree
<1>3. Len(file) \in Nat /\ Len(file) >= 1 /\ DOMAIN file = 1 .. Len(file)
  BY <1>1, FileShape
<1> HIDE DEF after
<1>4. IsFile(after)
  <2>1. after # <<>>
    BY <1>2, <1>3
  <2>2. after[1] = file[1]
    BY <1>2, <1>3
  <2>3. EmptyTree(index) = [index |-> EmptyTree(index).index, entries |-> EmptyTree(index).entries]
    BY DEF EmptyTree
  <2>4. DOMAIN EmptyTree(index).entries = {}
    BY DEF EmptyTree
  <2>5. ASSUME NEW r \in DOMAIN after
        PROVE  /\ after[r] = [index |-> after[r].index, entries |-> after[r].entries]
               /\ ~after[r].index => DOMAIN after[r].entries \subseteq 0 .. KeyWord - 1
    <3>1. CASE r = Len(file) + 1
      BY <1>2, <2>3, <2>4, <3>1
    <3>2. CASE r # Len(file) + 1
      <4>1. r \in DOMAIN file
        BY <1>2, <1>3, <3>2
      <4>2. QED
        BY <1>1, <1>2, <4>1 DEF IsFile
    <3>3. QED
      BY <3>1, <3>2
  <2>6. \A x \in Items(after) : (x.type = "table" /\ OnePrimaryKey(x.sql.columns)) \/ x.type = "index"
    BY <1>1, <1>2 DEF IsFile
  <2>7. ~after[1].index
    BY <1>1, <2>2 DEF IsFile
  <2>8. QED
    BY <1>2, <2>1, <2>5, <2>6, <2>7 DEF IsFile
<1>5. SchemaIsSound(after)
  <2>1. ASSUME NEW x \in Items(after)
        PROVE  /\ x.root_page \in 2 .. Len(after)
               /\ after[x.root_page].index = (x.type = "index")
               /\ x.type = "index" => HasTable(after, x)
    <3>1. x \in Items(file)
      BY <1>2
    <3>2. /\ x.root_page \in 2 .. Len(file)
          /\ file[x.root_page].index = (x.type = "index")
          /\ x.type = "index" => HasTable(file, x)
      BY <1>1, <3>1 DEF SchemaIsSound
    <3>3. after[x.root_page] = file[x.root_page] /\ x.root_page \in 2 .. Len(after)
      BY <1>2, <1>3, <3>2
    <3>4. HasTable(after, x) <=> HasTable(file, x)
      BY <1>2 DEF HasTable
    <3>5. QED
      BY <3>2, <3>3, <3>4
  <2>2. ASSUME NEW x \in Items(after), NEW y \in Items(after) \ {x}
        PROVE  /\ x.root_page # y.root_page
               /\ x.type = "table" /\ y.type = "table" => x.name # y.name
    BY <1>1, <1>2 DEF SchemaIsSound
  <2>3. QED
    BY <2>1, <2>2 DEF SchemaIsSound
<1>6. IndexesMatchRows(after)
  <2>1. SUFFICES ASSUME NEW x \in IndexItems(after)
                 PROVE  IndexEntries(after, x) \subseteq RowEntries(after, x)
    BY DEF IndexesMatchRows
  <2>2. x \in IndexItems(file) /\ x \in Items(file)
    BY <1>2 DEF IndexItems
  <2>3. IndexEntries(file, x) \subseteq RowEntries(file, x)
    BY <1>1, <2>2 DEF IndexesMatchRows
  <2>4. x.root_page \in DOMAIN file
    BY <1>1, <2>2, TablesOfFile
  <2>5. after[x.root_page] = file[x.root_page]
    BY <1>2, <2>4
  <2>6. IndexEntries(after, x) = IndexEntries(file, x)
    BY <2>5 DEF IndexEntries
  <2>7. RowEntries(file, x) \subseteq RowEntries(after, x)
    BY <1>1, <1>2, <1>4, <1>5, <2>2, EntriesGrow
  <2>8. QED
    BY <2>3, <2>6, <2>7
<1>7. QED
  BY <1>4, <1>5, <1>6 DEF Whole, after

(* A new entry that belongs: a key in a table, or in an index one that a   *)
(* row of its table should have.                                           *)
LEMMA EntryKeepsWhole ==
  ASSUME NEW file, Whole(file), NEW root \in DOMAIN file \ {1}, NEW k, NEW val,
         k \notin DOMAIN file[root].entries,
         ~file[root].index => k \in Keys,
         \A x \in IndexItems(file) :
           x.root_page = root => <<k, val>> \in RowEntries(file, x)
  PROVE  /\ Whole(WithEntry(file, root, k, val))
         /\ Items(WithEntry(file, root, k, val)) = Items(file)
<1> DEFINE after == WithEntry(file, root, k, val)
<1>1. IsFile(file) /\ SchemaIsSound(file) /\ IndexesMatchRows(file)
  BY DEF Whole
<1>2. /\ Len(after) = Len(file) /\ DOMAIN after = DOMAIN file
      /\ after \in Seq(ToSet(after)) /\ after # <<>>
      /\ \A r \in DOMAIN file : r # root => after[r] = file[r]
      /\ after[root] = [index |-> file[root].index,
                        entries |-> Put(file[root].entries, k, val)]
      /\ Grows(file, after)
  BY <1>1, WithEntryShape
<1>3. Len(file) \in Nat /\ Len(file) >= 1 /\ DOMAIN file = 1 .. Len(file)
  BY <1>1, FileShape
<1> HIDE DEF after
<1>4. \A r \in DOMAIN file : after[r].index = file[r].index
  BY <1>2
<1>5. after[1] = file[1]
  BY <1>2, <1>3
<1>6. Items(after) = Items(file)
  BY <1>5 DEF Items, schema_load
<1>7. IsFile(after)
  <2>1. ~after[1].index
    BY <1>1, <1>5 DEF IsFile
  <2>2. ASSUME NEW r \in DOMAIN after
        PROVE  /\ after[r] = [index |-> after[r].index, entries |-> after[r].entries]
               /\ ~after[r].index => DOMAIN after[r].entries \subseteq 0 .. KeyWord - 1
    <3>1. CASE r = root
      <4>1. after[r] = [index |-> after[r].index, entries |-> after[r].entries]
        BY <1>2, <3>1
      <4>2. DOMAIN after[r].entries = {k} \cup DOMAIN file[root].entries
        BY <1>2, <3>1 DEF Put
      <4>3. ~file[root].index => DOMAIN file[root].entries \subseteq Keys
        BY <1>1 DEF IsFile, Keys
      <4>4. ~after[r].index => DOMAIN after[r].entries \subseteq Keys
        BY <1>4, <3>1, <4>2, <4>3
      <4>5. QED
        BY <4>1, <4>4 DEF Keys
    <3>2. CASE r # root
      BY <1>1, <1>2, <3>2 DEF IsFile
    <3>3. QED
      BY <3>1, <3>2
  <2>3. \A x \in Items(after) : (x.type = "table" /\ OnePrimaryKey(x.sql.columns)) \/ x.type = "index"
    BY <1>1, <1>6 DEF IsFile
  <2>4. QED
    BY <1>2, <2>1, <2>2, <2>3 DEF IsFile
<1>8. SchemaIsSound(after)
  <2>1. ASSUME NEW x \in Items(after)
        PROVE  /\ x.root_page \in 2 .. Len(after)
               /\ after[x.root_page].index = (x.type = "index")
               /\ x.type = "index" => HasTable(after, x)
    <3>1. x \in Items(file)
      BY <1>6
    <3>2. /\ x.root_page \in 2 .. Len(file)
          /\ file[x.root_page].index = (x.type = "index")
          /\ x.type = "index" => HasTable(file, x)
      BY <1>1, <3>1 DEF SchemaIsSound
    <3>3. after[x.root_page].index = file[x.root_page].index
      BY <1>3, <1>4, <3>2
    <3>4. HasTable(after, x) <=> HasTable(file, x)
      BY <1>6 DEF HasTable
    <3>5. QED
      BY <1>2, <3>2, <3>3, <3>4
  <2>2. ASSUME NEW x \in Items(after), NEW y \in Items(after) \ {x}
        PROVE  /\ x.root_page # y.root_page
               /\ x.type = "table" /\ y.type = "table" => x.name # y.name
    BY <1>1, <1>6 DEF SchemaIsSound
  <2>3. QED
    BY <2>1, <2>2 DEF SchemaIsSound
<1>9. IndexesMatchRows(after)
  <2>1. SUFFICES ASSUME NEW x \in IndexItems(after)
                 PROVE  IndexEntries(after, x) \subseteq RowEntries(after, x)
    BY DEF IndexesMatchRows
  <2>2. x \in IndexItems(file) /\ x \in Items(file)
    BY <1>6 DEF IndexItems
  <2>3. IndexEntries(file, x) \subseteq RowEntries(file, x)
    BY <1>1, <2>2 DEF IndexesMatchRows
  <2>4. x.root_page \in DOMAIN file
    BY <1>1, <2>2, TablesOfFile
  <2>5. RowEntries(file, x) \subseteq RowEntries(after, x)
    BY <1>1, <1>2, <1>7, <1>8, <2>2, EntriesGrow
  <2>6. CASE x.root_page # root
    <3>1. IndexEntries(after, x) = IndexEntries(file, x)
      BY <1>2, <2>4, <2>6 DEF IndexEntries
    <3>2. QED
      BY <2>3, <2>5, <3>1
  <2>7. CASE x.root_page = root
    <3>1. IndexEntries(after, x) \subseteq IndexEntries(file, x) \cup {<<k, val>>}
      <4> DEFINE old == file[root].entries
                 new == Put(file[root].entries, k, val)
      <4>1. after[x.root_page].entries = new /\ file[x.root_page].entries = old
        BY <1>2, <2>7
      <4>2. DOMAIN new = {k} \cup DOMAIN old /\ new[k] = val
        BY DEF Put
      <4>3. \A i \in DOMAIN old : i # k => new[i] = old[i]
        BY DEF Put
      <4> HIDE DEF new, old
      <4>4. \A i \in DOMAIN new : <<i, new[i]>> \in {<<j, old[j]>> : j \in DOMAIN old} \cup {<<k, val>>}
        BY <4>2, <4>3
      <4>5. QED
        BY <4>1, <4>4 DEF IndexEntries
    <3>2. <<k, val>> \in RowEntries(file, x)
      BY <2>2, <2>7
    <3>3. QED
      BY <2>3, <2>5, <3>1, <3>2
  <2>8. QED
    BY <2>6, <2>7
<1>10. QED
  BY <1>6, <1>7, <1>8, <1>9 DEF Whole, after

(* A tree that no object has and that has no entries.                      *)
IsFresh(file, root, index) ==
    /\ root \in DOMAIN file \ {1}
    /\ file[root] = EmptyTree(index)
    /\ \A x \in Items(file) : x.root_page # root

(* A row that may be added to the schema table.                            *)
MayBeListed(file, x) ==
    /\ x.type \in {"table", "index"}
    /\ IsFresh(file, x.root_page, x.type = "index")
    /\ x.type = "table" =>
         OnePrimaryKey(x.sql.columns) /\ \A y \in Items(file) : ~IsTableNamed(y, x.name)
    /\ x.type = "index" => HasTable(file, x)

(* A row of the schema table leaves the file whole if its object may be listed.*)
LEMMA RowKeepsWhole ==
  ASSUME NEW file, Whole(file), NEW k \in Keys, NEW row,
         k \notin DOMAIN file[1].entries,
         MayBeListed(file, schema_item(k, row))
  PROVE  /\ Whole(WithEntry(file, 1, k, row))
         /\ Items(WithEntry(file, 1, k, row)) = Items(file) \cup {schema_item(k, row)}
<1> DEFINE after == WithEntry(file, 1, k, row)
           new == schema_item(k, row)
<1>1. IsFile(file) /\ SchemaIsSound(file) /\ IndexesMatchRows(file)
  BY DEF Whole
<1>2. /\ Len(file) \in Nat /\ Len(file) >= 1 /\ DOMAIN file = 1 .. Len(file)
      /\ 1 \in DOMAIN file
      /\ DOMAIN file[1].entries \subseteq Keys
      /\ Items(file) = {ItemAt(file, i) : i \in DOMAIN file[1].entries}
  BY <1>1, FileShape
<1>3. /\ Len(after) = Len(file) /\ DOMAIN after = DOMAIN file
      /\ after \in Seq(ToSet(after)) /\ after # <<>>
      /\ \A r \in DOMAIN file : r # 1 => after[r] = file[r]
      /\ after[1] = [index |-> file[1].index, entries |-> Put(file[1].entries, k, row)]
      /\ Grows(file, after)
  BY <1>1, <1>2, WithEntryShape
<1> HIDE DEF after
<1>4. after[1].index = file[1].index /\ after[1].entries = Put(file[1].entries, k, row)
  BY <1>3
<1>5. DOMAIN after[1].entries = {k} \cup DOMAIN file[1].entries
  BY <1>4 DEF Put
<1>6. Items(after) = Items(file) \cup {new}
  <2>1. Items(after) = {ItemAt(after, i) : i \in DOMAIN after[1].entries}
    BY <1>2, <1>5, ItemsOfFile
  <2>2. ItemAt(after, k) = new
    BY <1>4 DEF ItemAt, Put
  <2>3. \A i \in DOMAIN file[1].entries : ItemAt(after, i) = ItemAt(file, i)
    BY <1>4 DEF ItemAt, Put
  <2>4. QED
    BY <1>2, <1>5, <2>1, <2>2, <2>3
<1> DEFINE root == new.root_page
<1>7. /\ new.type \in {"table", "index"}
      /\ root \in DOMAIN file \ {1} /\ file[root] = EmptyTree(new.type = "index")
      /\ \A x \in Items(file) : x.root_page # root
      /\ new.type = "table" =>
           OnePrimaryKey(new.sql.columns) /\ \A y \in Items(file) : ~IsTableNamed(y, new.name)
      /\ new.type = "index" => HasTable(file, new)
  BY DEF MayBeListed, IsFresh
<1> HIDE DEF new
<1>8. IsFile(after)
  <2>1. ~after[1].index
    BY <1>1, <1>4 DEF IsFile
  <2>2. ASSUME NEW r \in DOMAIN after
        PROVE  /\ after[r] = [index |-> after[r].index, entries |-> after[r].entries]
               /\ ~after[r].index => DOMAIN after[r].entries \subseteq 0 .. KeyWord - 1
    <3>1. CASE r = 1
      BY <1>2, <1>3, <1>4, <1>5, <3>1 DEF Keys
    <3>2. CASE r # 1
      BY <1>1, <1>3, <3>2 DEF IsFile
    <3>3. QED
      BY <3>1, <3>2
  <2>3. ASSUME NEW x \in Items(after)
        PROVE  (x.type = "table" /\ OnePrimaryKey(x.sql.columns)) \/ x.type = "index"
    <3>1. CASE x \in Items(file)
      BY <1>1, <3>1 DEF IsFile
    <3>2. CASE x = new
      BY <1>7, <3>2
    <3>3. QED
      BY <1>6, <3>1, <3>2
  <2>4. QED
    BY <1>3, <2>1, <2>2, <2>3 DEF IsFile
<1>9. \A x : HasTable(file, x) => HasTable(after, x)
  BY <1>6 DEF HasTable
<1>10. SchemaIsSound(after)
  <2>1. ASSUME NEW x \in Items(after)
        PROVE  /\ x.root_page \in 2 .. Len(after)
               /\ after[x.root_page].index = (x.type = "index")
               /\ x.type = "index" => HasTable(after, x)
    <3>1. CASE x \in Items(file)
      <4>1. /\ x.root_page \in 2 .. Len(file)
            /\ file[x.root_page].index = (x.type = "index")
            /\ x.type = "index" => HasTable(file, x)
        BY <1>1, <3>1 DEF SchemaIsSound
      <4>2. after[x.root_page] = file[x.root_page]
        BY <1>2, <1>3, <4>1
      <4>3. QED
        BY <1>3, <1>9, <4>1, <4>2
    <3>2. CASE x = new
      <4>1. after[root] = file[root] /\ root \in 2 .. Len(after)
        BY <1>2, <1>3, <1>7
      <4>2. after[root].index = (new.type = "index")
        BY <1>7, <4>1 DEF EmptyTree
      <4>3. new.type = "index" => HasTable(after, new)
        BY <1>7, <1>9
      <4>4. QED
        BY <3>2, <4>1, <4>2, <4>3
    <3>3. QED
      BY <1>6, <3>1, <3>2
  <2>2. ASSUME NEW x \in Items(after), NEW y \in Items(after) \ {x}
        PROVE  /\ x.root_page # y.root_page
               /\ x.type = "table" /\ y.type = "table" => x.name # y.name
    <3>1. CASE x \in Items(file) /\ y \in Items(file)
      <4>1. y \in Items(file) \ {x}
        BY <3>1
      <4>2. QED
        BY <1>1, <3>1, <4>1 DEF SchemaIsSound
    <3>2. CASE x = new
      <4>1. y \in Items(file)
        BY <1>6, <3>2
      <4>2. QED
        BY <1>7, <3>2, <4>1 DEF IsTableNamed
    <3>3. CASE y = new
      <4>1. x \in Items(file)
        BY <1>6, <3>3
      <4>2. QED
        BY <1>7, <3>3, <4>1 DEF IsTableNamed
    <3>4. QED
      BY <1>6, <3>1, <3>2, <3>3
  <2>3. QED
    BY <2>1, <2>2 DEF SchemaIsSound
<1>11. IndexesMatchRows(after)
  <2>1. SUFFICES ASSUME NEW x \in IndexItems(after)
                 PROVE  IndexEntries(after, x) \subseteq RowEntries(after, x)
    BY DEF IndexesMatchRows
  <2>2. CASE x \in Items(file)
    <3>1. x \in IndexItems(file)
      BY <2>2 DEF IndexItems
    <3>2. IndexEntries(file, x) \subseteq RowEntries(file, x)
      BY <1>1, <3>1 DEF IndexesMatchRows
    <3>3. x.root_page \in DOMAIN file /\ x.root_page # 1
      BY <1>1, <1>2, <2>2, TablesOfFile
    <3>4. IndexEntries(after, x) = IndexEntries(file, x)
      BY <1>3, <3>3 DEF IndexEntries
    <3>5. RowEntries(file, x) \subseteq RowEntries(after, x)
      BY <1>1, <1>3, <1>8, <1>10, <3>1, EntriesGrow
    <3>6. QED
      BY <3>2, <3>4, <3>5
  <2>3. CASE x = new
    <3>1. after[x.root_page] = file[x.root_page]
      BY <1>3, <1>7, <2>3
    <3>2. DOMAIN after[x.root_page].entries = {}
      BY <1>7, <2>3, <3>1 DEF EmptyTree
    <3>3. IndexEntries(after, x) = {}
      BY <3>2 DEF IndexEntries
    <3>4. QED
      BY <3>3
  <2>4. QED
    BY <1>6, <2>2, <2>3 DEF IndexItems
<1>12. QED
  BY <1>6, <1>8, <1>10, <1>11 DEF Whole, after, new
-----------------------------------------------------------------------------
(* What a handler does to the statement that runs.                         *)

IsStmt(s) ==
    s = [ops |-> s.ops, pc |-> s.pc, reg |-> s.reg, cursors |-> s.cursors,
         rc |-> s.rc, schema_change |-> s.schema_change]

Runner ==
    /\ running \in Handles
    /\ stmts = [h \in Handles |-> stmts[h]]
    /\ IsStmt(stmt)

(* The statement after the handler, and the program goes on or stops.      *)
Goes(pc, regs, cursors) ==
    /\ stmts'[running] =
         [ops |-> stmt.ops, pc |-> pc, reg |-> regs, cursors |-> cursors,
          rc |-> stmt.rc, schema_change |-> stmt.schema_change]
    /\ running' = running

Stops(rc) ==
    /\ stmts'[running] =
         [ops |-> stmt.ops, pc |-> stmt.pc + 1, reg |-> stmt.reg, cursors |-> stmt.cursors,
          rc |-> rc, schema_change |-> stmt.schema_change]
    /\ running' = Idle

(* The opcode says which handler it is.                                    *)
LEMMA HandlerOf ==
  ASSUME Handle
  PROVE  /\ Fetched
         /\ op.opcode \in Opens => OpOpen
         /\ op.opcode = "Close" => OpClose
         /\ op.opcode \in Seeks => OpSeek
         /\ op.opcode \in Steps => OpNextPrev
         /\ op.opcode = "Column" => OpColumn
         /\ op.opcode = "Key" => OpKey
         /\ op.opcode = "IdxPKey" => OpIdxPKey
         /\ op.opcode \in {"Integer", "String", "Null"} => OpLoad
         /\ op.opcode \in Comparisons => OpCompare
         /\ op.opcode = "ResultRow" => OpResultRow
         /\ op.opcode = "MakeRecord" => OpMakeRecord
         /\ op.opcode = "Insert" => OpInsert
         /\ op.opcode = "IdxInsert" => OpIdxInsert
         /\ op.opcode \in {"CreateTable", "CreateIndex"} => OpCreate
         /\ op.opcode = "Halt" => OpHalt
<1> DEFINE code == op.opcode
<1>1. \/ OpOpen /\ code \in Opens
      \/ OpClose /\ code = "Close"
      \/ OpSeek /\ code \in Seeks
      \/ OpNextPrev /\ code \in Steps
      \/ OpColumn /\ code = "Column"
      \/ OpKey /\ code = "Key"
      \/ OpIdxPKey /\ code = "IdxPKey"
      \/ OpLoad /\ code \in {"Integer", "String", "Null"}
      \/ OpCompare /\ code \in Comparisons
      \/ OpMakeRecord /\ code = "MakeRecord"
      \/ OpResultRow /\ code = "ResultRow"
      \/ OpInsert /\ code = "Insert"
      \/ OpIdxInsert /\ code = "IdxInsert"
      \/ OpCreate /\ code \in {"CreateTable", "CreateIndex"}
      \/ OpHalt /\ code = "Halt"
  <2>1. /\ OpOpen => code \in Opens
        /\ OpClose => code = "Close"
        /\ OpSeek => code \in Seeks
        /\ OpNextPrev => code \in Steps
        /\ OpColumn => code = "Column"
        /\ OpKey => code = "Key"
        /\ OpIdxPKey => code = "IdxPKey"
    BY DEF OpOpen, OpClose, OpSeek, OpNextPrev, OpColumn, OpKey, OpIdxPKey, Runs
  <2>2. /\ OpLoad => code \in {"Integer", "String", "Null"}
        /\ OpCompare => code \in Comparisons
        /\ OpMakeRecord => code = "MakeRecord"
        /\ OpResultRow => code = "ResultRow"
        /\ OpInsert => code = "Insert"
        /\ OpIdxInsert => code = "IdxInsert"
        /\ OpCreate => code \in {"CreateTable", "CreateIndex"}
        /\ OpHalt => code = "Halt"
    BY DEF OpLoad, OpCompare, OpMakeRecord, OpResultRow, OpInsert, OpIdxInsert, OpCreate,
       OpHalt, Runs
  <2>3. QED
    BY <2>1, <2>2 DEF Handle
<1>2. Fetched
  BY DEF Handle, OpOpen, OpClose, OpSeek, OpNextPrev, OpColumn, OpKey, OpIdxPKey, OpLoad,
     OpCompare, OpMakeRecord, OpResultRow, OpInsert, OpIdxInsert, OpCreate, OpHalt, Runs
<1> HIDE DEF code
<1>3. QED
  BY <1>1, <1>2 DEF Opens, Seeks, Steps, Comparisons, code

(* A handler that returns CHIDB_OK leaves the statement with new registers and cursors.*)
LEMMA ContinuesAt ==
  ASSUME Runner, NEW pc, NEW s, IsStmt(s), s.ops = stmt.ops, s.rc = stmt.rc,
         s.schema_change = stmt.schema_change, ContinueAt(pc, s)
  PROVE  Goes(pc, s.reg, s.cursors)
<1>1. [s EXCEPT !.pc = pc] =
        [ops |-> stmt.ops, pc |-> pc, reg |-> s.reg, cursors |-> s.cursors,
         rc |-> stmt.rc, schema_change |-> stmt.schema_change]
  BY DEF IsStmt
<1>2. stmts'[running] = [s EXCEPT !.pc = pc]
  BY DEF ContinueAt, Becomes, Runner
<1>3. QED
  BY <1>1, <1>2 DEF Goes, ContinueAt

(* A statement with another register.                                       *)
LEMMA WithRegister ==
  ASSUME Runner, NEW r, NEW value
  PROVE  /\ IsStmt(SetReg(r, value))
         /\ SetReg(r, value).ops = stmt.ops /\ SetReg(r, value).rc = stmt.rc
         /\ SetReg(r, value).schema_change = stmt.schema_change
         /\ SetReg(r, value).reg = Put(stmt.reg, r, value)
         /\ SetReg(r, value).cursors = stmt.cursors
<1> DEFINE regs == Put(stmt.reg, r, value)
<1>1. SetReg(r, value) = [stmt EXCEPT !.reg = regs]
  BY DEF SetReg
<1> HIDE DEF regs
<1>2. SetReg(r, value) =
        [ops |-> stmt.ops, pc |-> stmt.pc, reg |-> regs, cursors |-> stmt.cursors,
         rc |-> stmt.rc, schema_change |-> stmt.schema_change]
  BY <1>1 DEF Runner, IsStmt
<1>3. QED
  BY <1>2 DEF IsStmt, regs

(* A statement with other cursors.                                          *)
LEMMA WithCursors ==
  ASSUME Runner, NEW cursors
  PROVE  /\ IsStmt([stmt EXCEPT !.cursors = cursors])
         /\ [stmt EXCEPT !.cursors = cursors].ops = stmt.ops
         /\ [stmt EXCEPT !.cursors = cursors].rc = stmt.rc
         /\ [stmt EXCEPT !.cursors = cursors].schema_change = stmt.schema_change
         /\ [stmt EXCEPT !.cursors = cursors].reg = stmt.reg
         /\ [stmt EXCEPT !.cursors = cursors].cursors = cursors
<1>1. [stmt EXCEPT !.cursors = cursors] =
        [ops |-> stmt.ops, pc |-> stmt.pc, reg |-> stmt.reg, cursors |-> cursors,
         rc |-> stmt.rc, schema_change |-> stmt.schema_change]
  BY DEF Runner, IsStmt
<1>2. QED
  BY <1>1 DEF IsStmt

(* A handler that only changes the cursors.                                 *)
LEMMA CursorsGo ==
  ASSUME Runner, NEW pc, NEW cursors, ContinueAt(pc, [stmt EXCEPT !.cursors = cursors])
  PROVE  Goes(pc, stmt.reg, cursors)
<1> DEFINE s == [stmt EXCEPT !.cursors = cursors]
<1>1. /\ IsStmt(s) /\ s.ops = stmt.ops /\ s.rc = stmt.rc
      /\ s.schema_change = stmt.schema_change
      /\ s.reg = stmt.reg /\ s.cursors = cursors
  BY WithCursors
<1>2. ContinueAt(pc, s)
  OBVIOUS
<1> HIDE DEF s
<1>3. Goes(pc, s.reg, s.cursors)
  BY <1>1, <1>2, ContinuesAt
<1>4. QED
  BY <1>1, <1>3

(* The handlers one by one.                                                *)
LEMMA LoadGoes ==
  ASSUME Runner, Handle
  PROVE  /\ op.opcode = "Integer" =>
              /\ Goes(stmt.pc + 1, Put(stmt.reg, op.p2, Int32(op.p1)), stmt.cursors)
              /\ UNCHANGED trees
         /\ op.opcode = "String" =>
              /\ Goes(stmt.pc + 1, Put(stmt.reg, op.p2, Str(op.p4)), stmt.cursors)
              /\ UNCHANGED trees
         /\ op.opcode = "Null" =>
              /\ Goes(stmt.pc + 1, Put(stmt.reg, op.p2, Null), stmt.cursors)
              /\ UNCHANGED trees
<1>1. ASSUME NEW r, NEW value, Continue(SetReg(r, value))
      PROVE  Goes(stmt.pc + 1, Put(stmt.reg, r, value), stmt.cursors)
  BY <1>1, WithRegister, ContinuesAt DEF Continue
<1>2. op.opcode \in {"Integer", "String", "Null"} => OpLoad
  BY HandlerOf
<1>3. QED
  BY <1>1, <1>2 DEF OpLoad

(* op_key.                                                                  *)
LEMMA KeyGoes ==
  ASSUME Runner, Handle, op.opcode = "Key"
  PROVE  /\ Goes(stmt.pc + 1, Put(stmt.reg, op.p2, Int32(int32(Entry(cursor).key))), stmt.cursors)
         /\ UNCHANGED trees
<1>1. OpKey
  BY HandlerOf
<1>2. QED
  BY <1>1, WithRegister, ContinuesAt DEF OpKey, Continue

(* op_column.                                                               *)
LEMMA ColumnGoes ==
  ASSUME Runner, Handle, op.opcode = "Column"
  PROVE  /\ Goes(stmt.pc + 1, Put(stmt.reg, op.p3, Entry(cursor).val[op.p2 + 1]), stmt.cursors)
         /\ UNCHANGED trees
<1>1. OpColumn
  BY HandlerOf
<1>2. QED
  BY <1>1, WithRegister, ContinuesAt DEF OpColumn, Continue

(* op_makerecord.                                                           *)
LEMMA MakeRecordGoes ==
  ASSUME Runner, Handle, op.opcode = "MakeRecord"
  PROVE  /\ Goes(stmt.pc + 1,
                 Put(stmt.reg, op.p3,
                     Binary([i \in 1 .. op.p2 |-> stmt.reg[op.p1 + i - 1]])),
                 stmt.cursors)
         /\ UNCHANGED trees
<1>1. OpMakeRecord
  BY HandlerOf
<1> DEFINE value == Binary([i \in 1 .. op.p2 |-> stmt.reg[op.p1 + i - 1]])
<1>2. Continue(SetReg(op.p3, value)) /\ UNCHANGED trees
  BY <1>1 DEF OpMakeRecord
<1> HIDE DEF value
<1>3. Goes(stmt.pc + 1, Put(stmt.reg, op.p3, value), stmt.cursors)
  BY <1>2, WithRegister, ContinuesAt DEF Continue
<1>4. QED
  BY <1>2, <1>3 DEF value

(* op_createtable and op_createindex.                                       *)
LEMMA CreateGoes ==
  ASSUME Runner, Handle, op.opcode \in {"CreateTable", "CreateIndex"}
  PROVE  /\ trees' = Append(trees, EmptyTree(op.opcode = "CreateIndex"))
         /\ Goes(stmt.pc + 1, Put(stmt.reg, op.p1, Int32(Len(trees'))), stmt.cursors)
<1>1. OpCreate
  BY HandlerOf
<1> DEFINE value == Int32(Len(trees'))
<1>2. /\ Continue(SetReg(op.p1, value))
      /\ trees' = Append(trees, EmptyTree(op.opcode = "CreateIndex"))
  BY <1>1 DEF OpCreate
<1> HIDE DEF value
<1>3. Goes(stmt.pc + 1, Put(stmt.reg, op.p1, value), stmt.cursors)
  BY <1>2, WithRegister, ContinuesAt DEF Continue
<1>4. QED
  BY <1>2, <1>3 DEF value

(* op_openread and op_openwrite.                                            *)
LEMMA OpenGoes ==
  ASSUME Runner, Handle, op.opcode \in Opens
  PROVE  /\ Goes(stmt.pc + 1, stmt.reg,
                 Put(stmt.cursors, op.p1, Cursor_open(reg(op.p2), trees[reg(op.p2)].entries)))
         /\ UNCHANGED trees
<1>1. OpOpen
  BY HandlerOf
<1> DEFINE c == Cursor_open(reg(op.p2), trees[reg(op.p2)].entries)
           cursors == Put(stmt.cursors, op.p1, c)
<1>2. ContinueAt(stmt.pc + 1, [stmt EXCEPT !.cursors = cursors]) /\ UNCHANGED trees
  BY <1>1 DEF OpOpen, Continue, SetCursor
<1> HIDE DEF c, cursors
<1>3. Goes(stmt.pc + 1, stmt.reg, cursors)
  BY <1>2, CursorsGo
<1>4. QED
  BY <1>2, <1>3 DEF cursors, c

(* op_close.                                                                *)
LEMMA CloseGoes ==
  ASSUME Runner, Handle, op.opcode = "Close"
  PROVE  /\ Goes(stmt.pc + 1, stmt.reg,
                 [c \in DOMAIN stmt.cursors \ {op.p1} |-> stmt.cursors[c]])
         /\ UNCHANGED trees
<1>1. OpClose
  BY HandlerOf
<1> DEFINE cursors == [c \in DOMAIN stmt.cursors \ {op.p1} |-> stmt.cursors[c]]
<1>2. ContinueAt(stmt.pc + 1, [stmt EXCEPT !.cursors = cursors]) /\ UNCHANGED trees
  BY <1>1 DEF OpClose, Continue
<1> HIDE DEF cursors
<1>3. Goes(stmt.pc + 1, stmt.reg, cursors)
  BY <1>2, CursorsGo
<1>4. QED
  BY <1>2, <1>3 DEF cursors

(* op_halt.                                                                 *)
LEMMA HaltGoes ==
  ASSUME Runner, Handle, op.opcode = "Halt"
  PROVE  Goes(Len(stmt.ops), stmt.reg, stmt.cursors) /\ UNCHANGED trees
<1>1. OpHalt
  BY HandlerOf
<1>2. QED
  BY <1>1, ContinuesAt DEF OpHalt, endOp, Runner

(* Rewind and Next over a cursor.                                          *)
Moved(pos) == Put(stmt.cursors, op.p1, MoveTo(cursor, pos))

(* The handlers that move a cursor.                                         *)
LEMMA MoveGoes ==
  ASSUME Runner, NEW pos, NEW jumps \in BOOLEAN, MovesTo(pos, jumps)
  PROVE  /\ UNCHANGED trees
         /\ pos = 0 /\ jumps => Goes(op.p2, stmt.reg, stmt.cursors)
         /\ pos = 0 /\ ~jumps => Goes(stmt.pc + 1, stmt.reg, stmt.cursors)
         /\ pos # 0 /\ jumps => Goes(op.p2, stmt.reg, Moved(pos))
         /\ pos # 0 /\ ~jumps => Goes(stmt.pc + 1, stmt.reg, Moved(pos))
<1> DEFINE cursors == Moved(pos)
           pc == IF jumps THEN op.p2 ELSE stmt.pc + 1
<1>1. ContinueAt(pc, IF pos = 0 THEN stmt ELSE [stmt EXCEPT !.cursors = cursors]) /\ UNCHANGED trees
  BY DEF MovesTo, SetCursor, Moved
<1>2. (jumps => pc = op.p2) /\ (~jumps => pc = stmt.pc + 1)
  OBVIOUS
<1> HIDE DEF cursors, pc
<1>3. ASSUME pos = 0 PROVE Goes(pc, stmt.reg, stmt.cursors)
  <2>1. ContinueAt(pc, stmt)
    BY <1>1, <1>3
  <2>2. QED
    BY <2>1, ContinuesAt DEF Runner
<1>4. ASSUME pos # 0 PROVE Goes(pc, stmt.reg, cursors)
  <2>1. ContinueAt(pc, [stmt EXCEPT !.cursors = cursors])
    BY <1>1, <1>4
  <2>2. QED
    BY <2>1, CursorsGo
<1>5. QED
  BY <1>1, <1>2, <1>3, <1>4 DEF cursors

(* op_rewind.                                                               *)
LEMMA RewindGoes ==
  ASSUME Runner, Handle, op.opcode = "Rewind"
  PROVE  /\ UNCHANGED trees
         /\ cursor.entries = <<>> => Goes(op.p2, stmt.reg, stmt.cursors)
         /\ cursor.entries # <<>> => Goes(stmt.pc + 1, stmt.reg, Moved(1))
<1>1. OpSeek
  BY HandlerOf DEF Seeks
<1> DEFINE pos == Destination("Rewind")
<1>2. /\ cursor.entries = <<>> => pos = 0
      /\ cursor.entries # <<>> => pos = 1
  BY DEF Destination, Cursor_rewind
<1>3. MovesTo(pos, pos = 0)
  BY <1>1 DEF OpSeek
<1> HIDE DEF pos
<1>4. /\ UNCHANGED trees
      /\ pos = 0 => Goes(op.p2, stmt.reg, stmt.cursors)
      /\ pos # 0 => Goes(stmt.pc + 1, stmt.reg, Moved(pos))
  BY <1>3, MoveGoes
<1>5. QED
  BY <1>2, <1>4

(* op_next.                                                                 *)
LEMMA NextGoes ==
  ASSUME Runner, Handle, op.opcode = "Next", cursor.pos \in Nat
  PROVE  /\ UNCHANGED trees
         /\ cursor.pos < Len(cursor.entries) => Goes(op.p2, stmt.reg, Moved(cursor.pos + 1))
         /\ ~(cursor.pos < Len(cursor.entries)) => Goes(stmt.pc + 1, stmt.reg, stmt.cursors)
<1>1. OpNextPrev
  BY HandlerOf DEF Steps
<1> DEFINE pos == Destination("Next")
<1>2. /\ cursor.pos < Len(cursor.entries) => pos = cursor.pos + 1
      /\ ~(cursor.pos < Len(cursor.entries)) => pos = 0
  BY DEF Destination, Cursor_next
<1>3. MovesTo(pos, pos # 0)
  BY <1>1 DEF OpNextPrev
<1> HIDE DEF pos
<1>4. /\ UNCHANGED trees
      /\ pos = 0 => Goes(stmt.pc + 1, stmt.reg, stmt.cursors)
      /\ pos # 0 => Goes(op.p2, stmt.reg, Moved(pos))
  BY <1>3, MoveGoes
<1>5. cursor.pos + 1 # 0
  OBVIOUS
<1>6. QED
  BY <1>2, <1>4, <1>5

(* The statement that returns.                                              *)
LEMMA Returned ==
  ASSUME NEW s, IsStmt(s), NEW new
  PROVE  [s EXCEPT !.pc = @ + 1, !.rc = new] =
         [ops |-> s.ops, pc |-> s.pc + 1, reg |-> s.reg, cursors |-> s.cursors, rc |-> new,
          schema_change |-> s.schema_change]
<1> DEFINE t == [s EXCEPT !.pc = @ + 1]
<1>1. t = [ops |-> s.ops, pc |-> s.pc + 1, reg |-> s.reg, cursors |-> s.cursors,
           rc |-> s.rc, schema_change |-> s.schema_change]
  BY DEF IsStmt
<1>2. [s EXCEPT !.pc = @ + 1, !.rc = new] = [t EXCEPT !.rc = new]
  BY Zenon
<1> HIDE DEF t
<1>3. [t EXCEPT !.rc = new] =
        [ops |-> s.ops, pc |-> s.pc + 1, reg |-> s.reg, cursors |-> s.cursors,
         rc |-> new, schema_change |-> s.schema_change]
  BY <1>1
<1>4. QED
  BY <1>2, <1>3

(* A handler that returns something else than CHIDB_OK stops the statement. *)
LEMMA ReturnStops ==
  ASSUME Runner, NEW rc, Return(rc)
  PROVE  Stops(rc)
<1>1. stmts'[running] = [stmt EXCEPT !.pc = @ + 1, !.rc = rc]
  BY DEF Return, Becomes, Runner
<1>2. [stmt EXCEPT !.pc = @ + 1, !.rc = rc] =
        [ops |-> stmt.ops, pc |-> stmt.pc + 1, reg |-> stmt.reg, cursors |-> stmt.cursors,
         rc |-> rc, schema_change |-> stmt.schema_change]
  <2>1. IsStmt(stmt)
    BY DEF Runner
  <2>2. QED
    BY <2>1, Returned, Zenon
<1>3. QED
  BY <1>1, <1>2 DEF Stops, Return

(* An insertion adds the entry, or finds its key and the statement fails.  *)
LEMMA InsertGoes ==
  ASSUME Runner, NEW root, NEW k, NEW val, Inserts(root, k, val)
  PROVE  \/ /\ k \in DOMAIN trees[root].entries
            /\ Stops(ECONSTRAINT) /\ UNCHANGED trees
         \/ /\ k \notin DOMAIN trees[root].entries
            /\ trees' = WithEntry(trees, root, k, val)
            /\ Goes(stmt.pc + 1, stmt.reg, stmt.cursors)
<1>1. CASE k \in DOMAIN trees[root].entries
  <2>1. Return(ECONSTRAINT) /\ UNCHANGED trees
    BY <1>1 DEF Inserts
  <2>2. QED
    BY <1>1, <2>1, ReturnStops
<1>2. CASE k \notin DOMAIN trees[root].entries
  <2>1. trees' = WithEntry(trees, root, k, val) /\ Continue(stmt)
    BY <1>2 DEF Inserts, WithEntry
  <2>2. QED
    BY <1>2, <2>1, ContinuesAt DEF Continue, Runner
<1>3. QED
  BY <1>1, <1>2

(* op_insert.                                                               *)
LEMMA OpInsertGoes ==
  ASSUME Runner, Handle, op.opcode = "Insert"
  PROVE  LET root == cursor.root
             k == chidb_key(reg(op.p3))
             val == reg(op.p2)
         IN  \/ /\ k \in DOMAIN trees[root].entries
                /\ Stops(ECONSTRAINT) /\ UNCHANGED trees
             \/ /\ k \notin DOMAIN trees[root].entries
                /\ trees' = WithEntry(trees, root, k, val)
                /\ Goes(stmt.pc + 1, stmt.reg, stmt.cursors)
<1>1. OpInsert
  BY HandlerOf
<1>2. Inserts(cursor.root, chidb_key(reg(op.p3)), reg(op.p2))
  BY <1>1 DEF OpInsert
<1>3. QED
  BY <1>2, InsertGoes

(* op_idxinsert.                                                            *)
LEMMA OpIdxInsertGoes ==
  ASSUME Runner, Handle, op.opcode = "IdxInsert"
  PROVE  LET root == cursor.root
             k == chidb_key(reg(op.p2))
             val == chidb_key(reg(op.p3))
         IN  \/ /\ k \in DOMAIN trees[root].entries
                /\ Stops(ECONSTRAINT) /\ UNCHANGED trees
             \/ /\ k \notin DOMAIN trees[root].entries
                /\ trees' = WithEntry(trees, root, k, val)
                /\ Goes(stmt.pc + 1, stmt.reg, stmt.cursors)
<1>1. OpIdxInsert
  BY HandlerOf
<1>2. Inserts(cursor.root, chidb_key(reg(op.p2)), chidb_key(reg(op.p3)))
  BY <1>1 DEF OpIdxInsert
<1>3. QED
  BY <1>2, InsertGoes

(* Only the statement that runs changes, and a statement that goes on      *)
(* keeps its code.                                                         *)
OthersKept(s) == stmts' = [stmts EXCEPT ![running] = s] /\ UNCHANGED view

(* A handler changes the statement that runs and no other.                  *)
LEMMA HandleFrame ==
  ASSUME Runner, Handle
  PROVE  /\ stmts' = [h \in Handles |-> stmts'[h]]
         /\ \A h \in Handles : h # running => stmts'[h] = stmts[h]
         /\ UNCHANGED view
<1>1. ASSUME NEW pc, NEW s, ContinueAt(pc, s)
      PROVE  \E t : OthersKept(t)
  BY <1>1 DEF ContinueAt, Becomes, OthersKept
<1>2. ASSUME NEW rc, Return(rc)
      PROVE  \E t : OthersKept(t)
  BY <1>2 DEF Return, Becomes, OthersKept
<1>3. \E t : OthersKept(t)
  <2>1. ASSUME NEW s, Continue(s) PROVE \E t : OthersKept(t)
    BY <1>1, <2>1 DEF Continue
  <2>2. ASSUME NEW pos, NEW jumps, MovesTo(pos, jumps) PROVE \E t : OthersKept(t)
    BY <1>1, <2>2 DEF MovesTo
  <2>3. ASSUME NEW root, NEW k, NEW val, Inserts(root, k, val) PROVE \E t : OthersKept(t)
    BY <1>2, <2>1, <2>3 DEF Inserts
  <2>4. OpOpen \/ OpClose \/ OpColumn \/ OpKey \/ OpIdxPKey => \E t : OthersKept(t)
    BY <2>1 DEF OpOpen, OpClose, OpColumn, OpKey, OpIdxPKey
  <2>5. OpSeek \/ OpNextPrev => \E t : OthersKept(t)
    BY <2>2 DEF OpSeek, OpNextPrev
  <2>6. OpLoad \/ OpMakeRecord \/ OpCreate => \E t : OthersKept(t)
    BY <2>1 DEF OpLoad, OpMakeRecord, OpCreate
  <2>7. OpCompare \/ OpHalt => \E t : OthersKept(t)
    BY <1>1 DEF OpCompare, OpHalt, Jump
  <2>8. OpResultRow => \E t : OthersKept(t)
    BY <1>2 DEF OpResultRow
  <2>9. OpInsert \/ OpIdxInsert => \E t : OthersKept(t)
    BY <2>3 DEF OpInsert, OpIdxInsert
  <2>10. QED
    BY <2>4, <2>5, <2>6, <2>7, <2>8, <2>9 DEF Handle
<1>4. PICK t : OthersKept(t)
  BY <1>3
<1>5. QED
  BY <1>4 DEF OthersKept, Runner
-----------------------------------------------------------------------------
(* Programs that only read.                                                *)

Jumps == Seeks \cup Steps \cup Comparisons
Reads == {"Close", "Column", "Key", "IdxPKey", "Integer", "String", "Null", "ResultRow", "Halt"}

ReadOp(o) ==
    /\ o.opcode \in Opens \cup Jumps \cup Reads
    /\ o.opcode \in Jumps => o.p2 \in Nat

IsReader(code) == code \in Seq(ToSet(code)) /\ \A o \in ToSet(code) : ReadOp(o)

(* A reader leaves the file alone and stays in its program.                *)
LEMMA ReaderGoes ==
  ASSUME Runner, Handle, IsReader(stmt.ops), stmt.pc \in Nat
  PROVE  /\ UNCHANGED trees
         /\ \E pc \in Nat : \E regs, cursors : Goes(pc, regs, cursors) \/ Stops(ROW)
<1>1. Fetched
  BY HandlerOf
<1>2. ReadOp(op)
  <2>1. stmt.pc + 1 \in DOMAIN stmt.ops
    BY <1>1 DEF Fetched, endOp, IsReader
  <2>2. op \in ToSet(stmt.ops)
    BY <2>1 DEF op, ToSet
  <2>3. QED
    BY <2>2 DEF IsReader
<1>3. stmt.pc + 1 \in Nat /\ Len(stmt.ops) \in Nat
  BY DEF IsReader
<1> DEFINE Done == \E pc \in Nat : \E regs, cursors : Goes(pc, regs, cursors) \/ Stops(ROW)
<1>4. ASSUME NEW pc \in Nat, NEW regs, NEW cursors, Goes(pc, regs, cursors)
      PROVE  Done
  BY <1>4
<1> HIDE DEF Done
<1>5. CASE op.opcode \in Opens
  BY <1>3, <1>4, <1>5, OpenGoes
<1>6. CASE op.opcode = "Close"
  BY <1>3, <1>4, <1>6, CloseGoes
<1>7. CASE op.opcode = "Column"
  BY <1>3, <1>4, <1>7, ColumnGoes
<1>8. CASE op.opcode = "Key"
  BY <1>3, <1>4, <1>8, KeyGoes
<1>9. CASE op.opcode = "IdxPKey"
  <2>1. OpIdxPKey
    BY <1>9, HandlerOf
  <2>2. QED
    BY <1>3, <1>4, <2>1, WithRegister, ContinuesAt DEF OpIdxPKey, Continue
<1>10. CASE op.opcode \in {"Integer", "String", "Null"}
  BY <1>3, <1>4, <1>10, LoadGoes
<1>11. CASE op.opcode = "Halt"
  BY <1>3, <1>4, <1>11, HaltGoes
<1>12. CASE op.opcode = "ResultRow"
  <2>1. OpResultRow
    BY <1>12, HandlerOf
  <2>2. Return(ROW) /\ UNCHANGED trees
    BY <2>1 DEF OpResultRow
  <2>3. Stops(ROW)
    BY <2>2, ReturnStops
  <2>4. QED
    BY <2>2, <2>3 DEF Done
<1>13. ASSUME op.opcode \in Seeks \cup Steps
       PROVE  UNCHANGED trees /\ Done
  <2>1. op.p2 \in Nat
    BY <1>2, <1>13 DEF ReadOp, Jumps
  <2>2. ASSUME NEW pos, NEW jumps \in BOOLEAN, MovesTo(pos, jumps)
        PROVE  UNCHANGED trees /\ Done
    BY <1>3, <1>4, <2>1, <2>2, MoveGoes
  <2>3. OpSeek \/ OpNextPrev
    BY <1>13, HandlerOf
  <2>4. CASE OpSeek
    BY <2>2, <2>4 DEF OpSeek
  <2>5. CASE OpNextPrev
    BY <2>2, <2>5 DEF OpNextPrev
  <2>6. QED
    BY <2>3, <2>4, <2>5
<1>14. CASE op.opcode \in Comparisons
  <2>1. OpCompare
    BY <1>14, HandlerOf
  <2>2. \E taken : Jump(taken)
    BY <2>1 DEF OpCompare
  <2>3. PICK taken : Jump(taken)
    BY <2>2
  <2>4. PICK pc \in {op.p2, stmt.pc + 1} : ContinueAt(pc, stmt)
    BY <2>3 DEF Jump
  <2>5. op.p2 \in Nat
    BY <1>2, <1>14 DEF ReadOp, Jumps
  <2>6. Goes(pc, stmt.reg, stmt.cursors)
    BY <2>4, ContinuesAt DEF Runner
  <2>7. UNCHANGED trees
    BY <2>1 DEF OpCompare
  <2>8. QED
    BY <1>3, <1>4, <2>4, <2>5, <2>6, <2>7
<1>15. QED
  BY <1>2, <1>5, <1>6, <1>7, <1>8, <1>9, <1>10, <1>11, <1>12, <1>13, <1>14
  DEF ReadOp, Jumps, Reads, Done
-----------------------------------------------------------------------------
(* The programs of a SELECT are readers.                                   *)

(* What a sequence is.                                                      *)
LEMMA SeqShape ==
  ASSUME NEW All, NEW s \in Seq(All)
  PROVE  /\ Len(s) \in Nat /\ DOMAIN s = 1 .. Len(s)
         /\ s = [i \in 1 .. Len(s) |-> s[i]]
         /\ \A i \in 1 .. Len(s) : s[i] \in All
OBVIOUS

(* A reader is a sequence of instructions that only read.                   *)
LEMMA ReaderFacts ==
  ASSUME NEW code
  PROVE  IsReader(code) <=> \E n \in Nat :
                               /\ code = [i \in 1 .. n |-> code[i]]
                               /\ \A i \in 1 .. n : ReadOp(code[i])
<1>1. ASSUME IsReader(code)
      PROVE  \E n \in Nat : /\ code = [i \in 1 .. n |-> code[i]]
                            /\ \A i \in 1 .. n : ReadOp(code[i])
  <2>1. Len(code) \in Nat /\ code = [i \in 1 .. Len(code) |-> code[i]]
    BY <1>1 DEF IsReader
  <2>2. \A i \in 1 .. Len(code) : code[i] \in ToSet(code)
    BY <2>1 DEF ToSet
  <2>3. QED
    BY <1>1, <2>1, <2>2 DEF IsReader
<1>2. ASSUME NEW n \in Nat, code = [i \in 1 .. n |-> code[i]],
             \A i \in 1 .. n : ReadOp(code[i])
      PROVE  IsReader(code)
  <2>1. DOMAIN code = 1 .. n
    BY <1>2
  <2>2. \A i \in 1 .. n : code[i] \in ToSet(code)
    BY <2>1 DEF ToSet
  <2>3. code \in [1 .. n -> ToSet(code)]
    BY <1>2, <2>2
  <2>4. code \in Seq(ToSet(code))
    BY <2>3
  <2>5. \A o \in ToSet(code) : ReadOp(o)
    BY <1>2, <2>1 DEF ToSet
  <2>6. QED
    BY <2>4, <2>5 DEF IsReader
<1>3. QED
  BY <1>1, <1>2

(* Its length.                                                              *)
LEMMA ReaderLength ==
  ASSUME NEW code, IsReader(code)
  PROVE  Len(code) \in Nat /\ DOMAIN code = 1 .. Len(code)
BY DEF IsReader

(* Two readers, one behind the other.                                       *)
LEMMA ReaderJoin ==
  ASSUME NEW a, NEW b, IsReader(a), IsReader(b)
  PROVE  IsReader(a \o b) /\ Len(a \o b) = Len(a) + Len(b)
<1> DEFINE All == ToSet(a) \cup ToSet(b)
<1>1. a \in Seq(All) /\ b \in Seq(All)
  BY DEF IsReader
<1>2. \A o \in All : ReadOp(o)
  BY DEF IsReader
<1> HIDE DEF All
<1>3. a \o b \in Seq(All) /\ Len(a \o b) = Len(a) + Len(b) /\ Len(a \o b) \in Nat
  BY <1>1
<1>4. /\ a \o b = [i \in 1 .. Len(a \o b) |-> (a \o b)[i]]
      /\ \A i \in 1 .. Len(a \o b) : (a \o b)[i] \in All
  BY <1>3, SeqShape, Zenon
<1>5. IsReader(a \o b)
  BY <1>2, <1>3, <1>4, ReaderFacts
<1>6. QED
  BY <1>3, <1>5

(* A reader and one instruction more.                                       *)
LEMMA ReaderAppend ==
  ASSUME NEW a, NEW o, IsReader(a), ReadOp(o)
  PROVE  IsReader(Append(a, o)) /\ Len(Append(a, o)) = Len(a) + 1
<1> DEFINE All == ToSet(a) \cup {o}
<1>1. a \in Seq(All) /\ o \in All
  BY DEF IsReader
<1>2. \A x \in All : ReadOp(x)
  BY DEF IsReader
<1> HIDE DEF All
<1>3. Append(a, o) \in Seq(All) /\ Len(Append(a, o)) = Len(a) + 1
      /\ Len(Append(a, o)) \in Nat
  BY <1>1
<1>4. /\ Append(a, o) = [i \in 1 .. Len(Append(a, o)) |-> Append(a, o)[i]]
      /\ \A i \in 1 .. Len(Append(a, o)) : Append(a, o)[i] \in All
  BY <1>3, SeqShape, Zenon
<1>5. IsReader(Append(a, o))
  BY <1>2, <1>3, <1>4, ReaderFacts
<1>6. QED
  BY <1>3, <1>5

(* A reader that is given by its instructions.                              *)
LEMMA ReaderFunction ==
  ASSUME NEW n \in Nat, NEW code, code = [i \in 1 .. n |-> code[i]],
         \A i \in 1 .. n : ReadOp(code[i])
  PROVE  IsReader(code) /\ Len(code) = n
<1>1. IsReader(code)
  BY ReaderFacts
<1>2. DOMAIN code = 1 .. n
  BY Zenon
<1>3. QED
  BY <1>1, <1>2, ReaderLength

(* Short readers.                                                           *)
LEMMA ReaderPieces ==
  ASSUME NEW a, NEW b, NEW c, NEW d, NEW e,
         ReadOp(a), ReadOp(b), ReadOp(c), ReadOp(d), ReadOp(e)
  PROVE  /\ IsReader(<<>>) /\ IsReader(<<a>>) /\ IsReader(<<a, b>>)
         /\ IsReader(<<a, b, c>>) /\ IsReader(<<a, b, c, d>>) /\ IsReader(<<a, b, c, d, e>>)
<1> DEFINE All == {a, b, c, d, e}
<1>1. \A o \in All : ReadOp(o)
  OBVIOUS
<1>2. /\ <<>> \in Seq(All) /\ <<a>> \in Seq(All) /\ <<a, b>> \in Seq(All)
      /\ <<a, b, c>> \in Seq(All) /\ <<a, b, c, d>> \in Seq(All)
      /\ <<a, b, c, d, e>> \in Seq(All)
  OBVIOUS
<1> HIDE DEF All
<1>3. ASSUME NEW code \in Seq(All)
      PROVE  IsReader(code)
  <2>1. /\ Len(code) \in Nat /\ code = [i \in 1 .. Len(code) |-> code[i]]
        /\ \A i \in 1 .. Len(code) : code[i] \in All
    BY <1>3, SeqShape, Zenon
  <2>2. \A i \in 1 .. Len(code) : ReadOp(code[i])
    BY <1>1, <2>1
  <2>3. QED
    BY <2>1, <2>2, ReaderFacts
<1>4. QED
  BY <1>2, <1>3

(* A reader that is there or not.                                           *)
LEMMA ReaderWhen ==
  ASSUME NEW condition \in BOOLEAN, NEW code, condition => IsReader(code)
  PROVE  IsReader(When(condition, code))
<1>1. ReadOp(Op("Halt", 0, 0, 0))
  BY DEF ReadOp, Op, Reads, Jumps, Seeks, Steps, Comparisons
<1>2. IsReader(<<>>)
  BY <1>1, ReaderPieces
<1>3. QED
  BY <1>2 DEF When

(* Pieces one behind the other.                                            *)
Place(width, j, r) == width * (j - 1) + r
PieceAt(width, i) == 1 + ((i - 1) \div width)
WithinAt(width, i) == 1 + ((i - 1) % width)
Places(width, n) == 1 .. width * n

IsList(f, n) == f = [i \in 1 .. n |-> f[i]]

IsMadeOf(code, width, n, pieces) ==
    \A i \in Places(width, n) :
      \E j \in 1 .. n : \E r \in 1 .. width : code[i] = pieces[j][r]

HasPieces(code, width, n, pieces) ==
    \A j \in 1 .. n : \A r \in 1 .. width : code[Place(width, j, r)] = pieces[j][r]

(* The places of a chain are the places of its pieces.                      *)
LEMMA PlacesInChain ==
  ASSUME NEW width \in {2, 3, 4}, NEW n \in Nat
  PROVE  /\ width * n \in Nat
         /\ \A i \in Places(width, n) :
              PieceAt(width, i) \in 1 .. n /\ WithinAt(width, i) \in 1 .. width
         /\ \A j \in 1 .. n : \A r \in 1 .. width :
              /\ Place(width, j, r) \in Places(width, n)
              /\ PieceAt(width, Place(width, j, r)) = j
              /\ WithinAt(width, Place(width, j, r)) = r
<1>1. CASE width = 2
  BY <1>1 DEF Place, PieceAt, WithinAt, Places
<1>2. CASE width = 3
  BY <1>2 DEF Place, PieceAt, WithinAt, Places
<1>3. CASE width = 4
  BY <1>3 DEF Place, PieceAt, WithinAt, Places
<1>4. QED
  BY <1>1, <1>2, <1>3

(* A chain has the instructions of its pieces.                              *)
LEMMA ChainShape ==
  ASSUME NEW width \in {2, 3, 4}, NEW n \in Nat, NEW pieces,
         IsList(pieces, n)
  PROVE  /\ IsList(Chain(width, pieces), width * n)
         /\ Len(Chain(width, pieces)) = width * n
         /\ IsMadeOf(Chain(width, pieces), width, n, pieces)
         /\ HasPieces(Chain(width, pieces), width, n, pieces)
<1>1. Len(pieces) = n
  <2>1. DOMAIN pieces = 1 .. n
    BY Zenon DEF IsList
  <2>2. QED
    BY <2>1
<1>2. Chain(width, pieces) =
        [i \in Places(width, n) |-> pieces[PieceAt(width, i)][WithinAt(width, i)]]
  BY <1>1 DEF Chain, Places, PieceAt, WithinAt
<1>3. DOMAIN Chain(width, pieces) = Places(width, n)
  BY <1>2, Zenon
<1>4. /\ width * n \in Nat
      /\ \A i \in Places(width, n) :
           PieceAt(width, i) \in 1 .. n /\ WithinAt(width, i) \in 1 .. width
      /\ \A j \in 1 .. n : \A r \in 1 .. width :
           /\ Place(width, j, r) \in Places(width, n)
           /\ PieceAt(width, Place(width, j, r)) = j
           /\ WithinAt(width, Place(width, j, r)) = r
  BY PlacesInChain, Zenon
<1>5. Len(Chain(width, pieces)) = width * n
  BY <1>3, <1>4 DEF Places
<1>6. IsList(Chain(width, pieces), width * n)
  BY <1>2, Zenon DEF IsList, Places
<1>7. \A i \in Places(width, n) :
        Chain(width, pieces)[i] = pieces[PieceAt(width, i)][WithinAt(width, i)]
  BY <1>2, Zenon
<1>8. IsMadeOf(Chain(width, pieces), width, n, pieces)
  BY <1>4, <1>7, Zenon DEF IsMadeOf
<1>9. HasPieces(Chain(width, pieces), width, n, pieces)
  BY <1>4, <1>7, Zenon DEF HasPieces
<1>10. QED
  BY <1>5, <1>6, <1>8, <1>9

(* A chain of pieces that read reads.                                       *)
LEMMA ReaderChain ==
  ASSUME NEW width \in {2, 3, 4}, NEW n \in Nat, NEW pieces,
         IsList(pieces, n),
         \A i \in 1 .. n : \A j \in 1 .. width : ReadOp(pieces[i][j])
  PROVE  IsReader(Chain(width, pieces)) /\ Len(Chain(width, pieces)) = width * n
<1>1. IsList(Chain(width, pieces), width * n)
  BY ChainShape
<1>2. Len(Chain(width, pieces)) = width * n
  BY ChainShape
<1>3. IsMadeOf(Chain(width, pieces), width, n, pieces)
  BY ChainShape
<1>4. width * n \in Nat
  BY PlacesInChain, Zenon
<1>5. \A i \in Places(width, n) : ReadOp(Chain(width, pieces)[i])
  BY <1>3, Zenon DEF IsMadeOf
<1>6. QED
  BY <1>1, <1>2, <1>4, <1>5, ReaderFunction, Zenon DEF Places, IsList

(* Single instructions.                                                    *)
LEMMA ReadOps ==
  ASSUME NEW p1, NEW p2, NEW p3
  PROVE  /\ \A opcode \in Opens \cup Reads : ReadOp(Op(opcode, p1, p2, p3))
         /\ p2 \in Nat => \A opcode \in Jumps : ReadOp(Op(opcode, p1, p2, p3))
         /\ \A lit : ReadOp(emit_literal(lit, p1))
         /\ \A columns, i : ReadOp(emit_column(p1, columns, i, p2))
         /\ \A at, cols, rc : ReadOp(emit_rcol(at, cols, rc, p1))
<1>1. \A opcode \in Opens \cup Reads : opcode \notin Jumps
  BY DEF Opens, Reads, Jumps, Seeks, Steps, Comparisons
<1>2. \A opcode, q1, q2, q3 : opcode \in Opens \cup Reads => ReadOp(Op(opcode, q1, q2, q3))
  BY <1>1 DEF ReadOp, Op
<1>3. p2 \in Nat => \A opcode \in Jumps : ReadOp(Op(opcode, p1, p2, p3))
  BY DEF ReadOp, Op
<1>4. ASSUME NEW lit, NEW r PROVE ReadOp(emit_literal(lit, r))
  <2>1. ReadOp(Op("Integer", lit.value, r, 0))
    BY <1>2 DEF Reads
  <2>2. ReadOp(OpString(r, lit.value))
    BY DEF ReadOp, OpString, Reads, Jumps, Seeks, Steps, Comparisons
  <2>3. QED
    BY <2>1, <2>2 DEF emit_literal
<1>5. ASSUME NEW c, NEW columns, NEW i, NEW r
      PROVE  ReadOp(emit_column(c, columns, i, r))
  BY <1>2 DEF emit_column, Reads
<1>6. \A at, cols, rc : ReadOp(emit_rcol(at, cols, rc, p1))
  BY <1>5 DEF emit_rcol
<1>7. QED
  BY <1>2, <1>3, <1>4, <1>5, <1>6

(* Conditions become comparisons the machine has.                          *)
IsChecks(cmps) ==
    /\ Len(cmps) \in Nat /\ IsList(cmps, Len(cmps))
    /\ \A i \in 1 .. Len(cmps) : cmps[i].op \in Comparisons

(* The length of a list.                                                    *)
LEMMA ListLength ==
  ASSUME NEW n \in Nat, NEW f, IsList(f, n)
  PROVE  DOMAIN f = 1 .. n /\ Len(f) = n
<1>1. DOMAIN f = 1 .. n
  BY Zenon DEF IsList
<1>2. QED
  BY <1>1

(* resolve_conjuncts gives one check for each conjunct.                     *)
LEMMA ResolvedChecks ==
  ASSUME NEW sources, NEW cond, IsCondition(cond), Resolvable(sources, cond)
  PROVE  IsChecks(resolve_conjuncts(sources, cond))
<1> DEFINE cmps == resolve_conjuncts(sources, cond)
<1>1. Len(cond) \in Nat /\ DOMAIN cond = 1 .. Len(cond)
  BY DEF IsCondition
<1>2. cmps = [i \in 1 .. Len(cond) |-> CHOOSE c \in resolve_comparison(sources, cond[i]) : TRUE]
  BY <1>1 DEF resolve_conjuncts
<1>3. IsList(cmps, Len(cond))
  BY <1>2, Zenon DEF IsList
<1>4. Len(cmps) = Len(cond)
  BY <1>1, <1>3, ListLength, Zenon
<1>5. ASSUME NEW i \in 1 .. Len(cond)
      PROVE  cmps[i].op \in Comparisons
  <2>1. cmps[i] \in resolve_comparison(sources, cond[i])
    <3>1. resolve_comparison(sources, cond[i]) # {}
      BY <1>1, <1>5 DEF Resolvable
    <3>2. cmps[i] = CHOOSE c \in resolve_comparison(sources, cond[i]) : TRUE
      BY <1>2, <1>5, Zenon
    <3>3. QED
      BY <3>1, <3>2, Zenon
  <2>2. \E comp : comp \in {cond[i].comp, Flip(cond[i].comp)} /\ cmps[i].op = Negated(comp)
    BY <2>1 DEF resolve_comparison
  <2>3. cond[i].comp \in {"=", "<", "<=", ">", ">="}
    BY <1>1, <1>5 DEF IsCondition
  <2>4. Flip(cond[i].comp) \in {"=", "<", "<=", ">", ">="}
    BY <2>3 DEF Flip
  <2>5. \A comp \in {"=", "<", "<=", ">", ">="} : Negated(comp) \in Comparisons
    BY DEF Negated, Comparisons
  <2>6. QED
    BY <2>2, <2>3, <2>4, <2>5
<1>6. QED
  BY <1>1, <1>3, <1>4, <1>5 DEF IsChecks

(* The checks of a filter read.                                             *)
LEMMA FiltersRead ==
  ASSUME NEW cmps, IsChecks(cmps), NEW at, NEW cols, NEW base, NEW tmp, NEW target \in Nat
  PROVE  /\ IsReader(emit_filter_literals(cmps, base))
         /\ IsReader(emit_filter_checks(at, cols, cmps, base, tmp, target))
<1>1. Len(cmps) \in Nat /\ DOMAIN cmps = 1 .. Len(cmps)
  BY ListLength DEF IsChecks
<1> DEFINE n == Len(cmps)
           lits == emit_filter_literals(cmps, base)
           piece(i) == << emit_rcol(at, cols, cmps[i].col, tmp),
                          Op(cmps[i].op, base + i - 1, target, tmp) >>
           pieces == [i \in 1 .. n |-> piece(i)]
<1>2. lits = [i \in 1 .. n |-> emit_literal(cmps[i].lit, base + i - 1)]
  BY <1>1 DEF emit_filter_literals
<1>3. IsList(lits, n) /\ \A i \in 1 .. n : ReadOp(lits[i])
  <2>1. \A i \in 1 .. n : lits[i] = emit_literal(cmps[i].lit, base + i - 1)
    BY <1>2, Zenon
  <2>2. \A i \in 1 .. n : ReadOp(lits[i])
    BY <2>1, ReadOps, Zenon
  <2>3. QED
    BY <1>2, <2>2, Zenon DEF IsList
<1>4. IsReader(lits)
  BY <1>1, <1>3, ReaderFunction DEF IsList
<1>5. IsList(pieces, n)
  BY Zenon DEF IsList
<1>6. ASSUME NEW i \in 1 .. n, NEW j \in 1 .. 2
      PROVE  ReadOp(pieces[i][j])
  <2>1. ReadOp(emit_rcol(at, cols, cmps[i].col, tmp))
    BY ReadOps, Zenon
  <2>2. cmps[i].op \in Jumps
    BY <1>6 DEF IsChecks, Jumps
  <2>3. ReadOp(Op(cmps[i].op, base + i - 1, target, tmp))
    BY <2>2, ReadOps, Zenon
  <2>4. ReadOp(piece(i)[j])
    <3> HIDE DEF piece
    <3>1. piece(i)[1] = emit_rcol(at, cols, cmps[i].col, tmp)
          /\ piece(i)[2] = Op(cmps[i].op, base + i - 1, target, tmp)
      BY DEF piece
    <3>2. j = 1 \/ j = 2
      BY <1>6
    <3>3. QED
      BY <2>1, <2>3, <3>1, <3>2, Zenon
  <2>5. pieces[i] = piece(i)
    BY <1>6, Zenon
  <2>6. QED
    BY <2>4, <2>5, Zenon
<1>7. emit_filter_checks(at, cols, cmps, base, tmp, target) = Chain(2, pieces)
  BY <1>1 DEF emit_filter_checks
<1> HIDE DEF pieces, lits, n
<1>8. IsReader(Chain(2, pieces))
  <2>1. n \in Nat
    BY <1>1 DEF n
  <2>2. QED
    BY <1>5, <1>6, <2>1, ReaderChain
<1>9. QED
  BY <1>4, <1>7, <1>8 DEF lits

(* So does what fills the row.                                              *)
LEMMA OutputReads ==
  ASSUME NEW out, NEW n \in Nat, IsList(out, n), NEW at, NEW cols, NEW r
  PROVE  IsReader(emit_output_columns(at, cols, out, r))
<1> DEFINE code == [i \in 1 .. n |-> emit_rcol(at, cols, out[i], r + i - 1)]
<1>1. DOMAIN out = 1 .. n
  BY ListLength, Zenon
<1>2. emit_output_columns(at, cols, out, r) = Append(code, Op("ResultRow", r, Len(out), 0))
  BY <1>1 DEF emit_output_columns
<1>3. code = [i \in 1 .. n |-> code[i]] /\ \A i \in 1 .. n : ReadOp(code[i])
  <2>1. \A i \in 1 .. n : code[i] = emit_rcol(at, cols, out[i], r + i - 1)
    BY Zenon
  <2>2. \A i \in 1 .. n : ReadOp(code[i])
    BY <2>1, ReadOps, Zenon
  <2>3. QED
    BY <2>2, Zenon
<1> HIDE DEF code
<1>4. IsReader(code)
  BY <1>3, ReaderFunction
<1>5. ReadOp(Op("ResultRow", r, Len(out), 0))
  BY ReadOps DEF Reads
<1>6. QED
  BY <1>2, <1>4, <1>5, ReaderAppend

(* The access to a side of a query.                                        *)
IsAccess(a) ==
    /\ IsChecks(a.filter)
    /\ Indexed(a) => IsChecks(a.by) /\ Len(a.by) \in 1 .. 2

(* No condition.                                                            *)
LEMMA EmptyChecks == IsChecks(<<>>)
<1>1. Len(<<>>) = 0
  OBVIOUS
<1>2. <<>> = [i \in 1 .. 0 |-> <<>>[i]]
  OBVIOUS
<1>3. QED
  BY <1>1, <1>2 DEF IsChecks, IsList

(* The two bounds of a range, in the other order.                           *)
LEMMA ReversedChecks ==
  ASSUME NEW cmps, IsChecks(cmps), Len(cmps) = 2
  PROVE  IsChecks(Reverse(cmps)) /\ Len(Reverse(cmps)) = 2
<1>1. Reverse(cmps) = [i \in 1 .. 2 |-> cmps[(2 - i) + 1]]
  BY DEF Reverse
<1>2. IsList(Reverse(cmps), 2)
  BY <1>1, Zenon DEF IsList
<1>3. Len(Reverse(cmps)) = 2
  BY <1>2, ListLength
<1>4. ASSUME NEW i \in 1 .. 2
      PROVE  Reverse(cmps)[i].op \in Comparisons
  <2>1. (2 - i) + 1 \in 1 .. 2
    BY <1>4
  <2>2. Reverse(cmps)[i] = cmps[(2 - i) + 1]
    BY <1>1, <1>4, Zenon
  <2>3. QED
    BY <2>1, <2>2 DEF IsChecks
<1>5. QED
  BY <1>2, <1>3, <1>4 DEF IsChecks

(* plan_side_access plans a scan, or a seek by one or two of the checks.    *)
LEMMA PlannedAccess ==
  ASSUME NEW list, NEW source, NEW cmps, IsChecks(cmps)
  PROVE  IsAccess(plan_side_access(list, source, cmps))
<1> DEFINE by == IF Len(cmps) = 1 THEN cmps ELSE detect_range_pair(cmps)
           idxs == IF by = <<>> THEN <<>>
                   ELSE find_index_on(list, source.name,
                                      source.columns[by[1].col.idx + 1].name)
           kind == IF by[1].op = "Ne" THEN "eqseek" ELSE "rangeseek"
<1>1. by = <<>> \/ (IsChecks(by) /\ Len(by) \in 1 .. 2)
  <2>1. CASE Len(cmps) = 1
    BY <2>1
  <2>2. CASE Len(cmps) # 1
    <3>1. by = detect_range_pair(cmps)
      BY <2>2
    <3>2. detect_range_pair(cmps) = <<>>
          \/ (Len(cmps) = 2 /\ detect_range_pair(cmps) \in {cmps, Reverse(cmps)})
        <4> DEFINE up == cmps[1].op \in LowerBounds /\ cmps[2].op \in UpperBounds
                 down == cmps[1].op \in UpperBounds /\ cmps[2].op \in LowerBounds
      <4>1. detect_range_pair(cmps) =
              IF Len(cmps) # 2 \/ cmps[1].col # cmps[2].col THEN <<>>
              ELSE CASE up -> cmps [] down -> Reverse(cmps) [] OTHER -> <<>>
        BY Zenon DEF detect_range_pair
      <4> HIDE DEF up, down
      <4>2. (CASE up -> cmps [] down -> Reverse(cmps) [] OTHER -> <<>>)
              \in {cmps, Reverse(cmps), <<>>}
        OBVIOUS
      <4>3. QED
        BY <4>1, <4>2
    <3>3. QED
      BY <3>1, <3>2, ReversedChecks
  <2>3. QED
    BY <2>1, <2>2
<1>2. plan_side_access(list, source, cmps) =
        IF idxs = <<>> THEN [kind |-> "scan", filter |-> cmps]
        ELSE [kind |-> kind, filter |-> <<>>, by |-> by, idx_root |-> idxs[1].root_page]
  BY Zenon DEF plan_side_access
<1>3. by = <<>> => idxs = <<>>
  OBVIOUS
<1> HIDE DEF by, idxs
<1>4. CASE idxs = <<>>
  BY <1>2, <1>4 DEF IsAccess, Indexed
<1>5. CASE idxs # <<>>
  BY <1>1, <1>2, <1>3, <1>5, EmptyChecks DEF IsAccess, Indexed
<1>6. QED
  BY <1>4, <1>5

(* The comparisons of a seek are instructions that jump,                    *)
LEMMA SeekOpcodes ==
  ASSUME NEW by, IsChecks(by), Len(by) \in 1 .. 2
  PROVE  /\ index_seek_opcode(by[1].op) \in Jumps
         /\ Len(by) = 2 => by[2].op \in Jumps
<1>1. by[1].op \in Comparisons /\ (Len(by) = 2 => by[2].op \in Comparisons)
  BY DEF IsChecks
<1>2. \A negated \in Comparisons : index_seek_opcode(negated) \in Seeks
  BY DEF index_seek_opcode, Comparisons, Seeks
<1>3. QED
  BY <1>1, <1>2 DEF Jumps

(* and so are Next and Prev.                                                *)
LEMMA AdvanceOpcode ==
  ASSUME NEW access
  PROVE  Advance(access) \in Jumps
BY DEF Advance, Jumps, Steps

(* Three readers, one behind the other.                                     *)
LEMMA ReaderJoin3 ==
  ASSUME NEW a, NEW b, NEW c, IsReader(a), IsReader(b), IsReader(c)
  PROVE  IsReader(a \o b \o c)
BY ReaderJoin, Zenon

(* Five of them.                                                            *)
LEMMA ReaderJoin5 ==
  ASSUME NEW a, NEW b, NEW c, NEW d, NEW e,
         IsReader(a), IsReader(b), IsReader(c), IsReader(d), IsReader(e)
  PROVE  IsReader(a \o b \o c \o d \o e)
BY ReaderJoin3, Zenon

(* The instructions of a SELECT.                                            *)
LEMMA ReadOpcodes ==
  /\ {"Close", "Column", "Key", "IdxPKey", "Integer", "Halt", "OpenRead"} \subseteq Opens \cup Reads
  /\ {"Rewind", "Seek", "Next", "Ne"} \subseteq Jumps
BY DEF Opens, Reads, Jumps, Seeks, Steps, Comparisons

(* scan_program only reads,                                                 *)
LEMMA ScanReads ==
  ASSUME NEW source, NEW access, IsAccess(access), NEW out, NEW m \in Nat, IsList(out, m)
  PROVE  IsReader(scan_program(source, access, out))
<1> DEFINE cols == <<source.columns>>
           n == Len(access.filter)
           tmp == 1 + n
           opening == << Op("Integer", source.root_page, 0, 0),
                         Op("OpenRead", 0, 0, Len(source.columns)) >>
           head == opening \o emit_filter_literals(access.filter, 1)
           output == emit_output_columns(<<0>>, cols, out, IF n = 0 THEN 1 ELSE tmp + 1)
           loop == Len(head) + 1
           next == loop + 2 * n + Len(output)
           begin == << Op("Rewind", 0, next + 1, 0) >>
           checks == emit_filter_checks(<<0>>, cols, access.filter, 1, tmp, next)
           end == << Op("Next", 0, loop, 0), Op("Close", 0, 0, 0), Op("Halt", 0, 0, 0) >>
<1>1. scan_program(source, access, out) = head \o begin \o checks \o output \o end
  BY Zenon DEF scan_program
<1>2. IsReader(opening)
  <2>1. /\ ReadOp(Op("Integer", source.root_page, 0, 0))
        /\ ReadOp(Op("OpenRead", 0, 0, Len(source.columns)))
    BY ReadOps, ReadOpcodes
  <2>2. QED
    BY <2>1, ReaderPieces, Zenon
<1>3. IsReader(output)
  BY OutputReads, Zenon
<1>4. IsChecks(access.filter)
  BY DEF IsAccess
<1>5. IsReader(head)
  <2>1. IsReader(emit_filter_literals(access.filter, 1))
    BY <1>4, FiltersRead
  <2>2. QED
    BY <1>2, <2>1, ReaderJoin, Zenon
<1>6. n \in Nat /\ Len(output) \in Nat /\ Len(head) \in Nat
  BY <1>3, <1>4, <1>5, ReaderLength, Zenon DEF IsChecks
<1> HIDE DEF head, output, n
<1>7. loop \in Nat /\ next \in Nat /\ next + 1 \in Nat
  BY <1>6
<1> HIDE DEF loop, next
<1>8. IsReader(begin)
  <2>1. ReadOp(Op("Rewind", 0, next + 1, 0))
    BY <1>7, ReadOps, ReadOpcodes
  <2>2. QED
    BY <2>1, ReaderPieces, Zenon
<1>9. IsReader(checks)
  BY <1>4, <1>7, FiltersRead
<1>10. IsReader(end)
  <2>1. ReadOp(Op("Next", 0, loop, 0))
    BY <1>7, ReadOps, ReadOpcodes
  <2>2. ReadOp(Op("Close", 0, 0, 0)) /\ ReadOp(Op("Halt", 0, 0, 0))
    BY ReadOps, ReadOpcodes
  <2>3. QED
    BY <2>1, <2>2, ReaderPieces, Zenon
<1> HIDE DEF begin, checks, end
<1>11. QED
  BY <1>1, <1>3, <1>5, <1>8, <1>9, <1>10, ReaderJoin5

(* codegen_select_indexed only reads.                                       *)
LEMMA IndexedReads ==
  ASSUME NEW source, NEW access, IsAccess(access), Indexed(access),
         NEW out, NEW m \in Nat, IsList(out, m)
  PROVE  IsReader(codegen_select_indexed(source, access, out))
<1> DEFINE cols == <<source.columns>>
           by == access.by
           two == Len(by) = 2
           walks == access.kind = "rangeseek"
           opening == << Op("Integer", access.idx_root, 0, 0),
                         Op("OpenRead", 0, 0, 0),
                         Op("Integer", source.root_page, 1, 0),
                         Op("OpenRead", 1, 1, Len(source.columns)),
                         emit_literal(by[1].lit, 2) >>
           head == opening \o When(two, << emit_literal(by[2].lit, 4) >>)
           output == emit_output_columns(<<1>>, cols, out, IF two THEN 6 ELSE 4)
           loop == Len(head) + 1
           after == loop + (IF two THEN 4 ELSE 2) + Len(output)
           tail == IF walks THEN after + 1 ELSE after
           find == << Op(index_seek_opcode(by[1].op), 0, tail, 2),
                      Op("IdxPKey", 0, 3, 0),
                      Op("Seek", 1, after, 3) >>
           check == When(two, << emit_rcol(<<1>>, cols, by[2].col, 5),
                                 Op(by[2].op, 4, tail, 5) >>)
           advance == When(walks, << Op(Advance(access), 0, loop, 0) >>)
           end == << Op("Close", 1, 0, 0), Op("Close", 0, 0, 0), Op("Halt", 0, 0, 0) >>
<1>1. codegen_select_indexed(source, access, out) =
        head \o find \o check \o output \o advance \o end
  BY Zenon DEF codegen_select_indexed
<1>2. IsReader(opening)
  <2>1. /\ ReadOp(Op("Integer", access.idx_root, 0, 0))
        /\ ReadOp(Op("OpenRead", 0, 0, 0))
        /\ ReadOp(Op("Integer", source.root_page, 1, 0))
        /\ ReadOp(Op("OpenRead", 1, 1, Len(source.columns)))
        /\ ReadOp(emit_literal(by[1].lit, 2))
    BY ReadOps, ReadOpcodes
  <2>2. QED
    BY <2>1, ReaderPieces, Zenon
<1>3. IsReader(head)
  <2>1. IsReader(<< emit_literal(by[2].lit, 4) >>)
    BY ReadOps, ReaderPieces, Zenon
  <2>2. two \in BOOLEAN
    OBVIOUS
  <2>3. IsReader(When(two, << emit_literal(by[2].lit, 4) >>))
    BY <2>1, <2>2, ReaderWhen, Zenon
  <2>4. QED
    BY <1>2, <2>3, ReaderJoin, Zenon
<1>4. IsReader(output)
  BY OutputReads, Zenon
<1>5. Len(output) \in Nat /\ Len(head) \in Nat
  BY <1>3, <1>4, ReaderLength, Zenon
<1>6. IsChecks(by) /\ Len(by) \in 1 .. 2
  BY DEF IsAccess
<1>7. two \in BOOLEAN /\ walks \in BOOLEAN
  OBVIOUS
<1> HIDE DEF head, output, two, walks
<1>8. loop \in Nat /\ after \in Nat /\ tail \in Nat
  BY <1>5, <1>7
<1> HIDE DEF loop, after, tail
<1>9. IsReader(find)
  <2>1. ReadOp(Op(index_seek_opcode(by[1].op), 0, tail, 2))
    BY <1>6, <1>8, SeekOpcodes, ReadOps
  <2>2. ReadOp(Op("IdxPKey", 0, 3, 0)) /\ ReadOp(Op("Seek", 1, after, 3))
    BY <1>8, ReadOps, ReadOpcodes
  <2>3. QED
    BY <2>1, <2>2, ReaderPieces, Zenon
<1>10. IsReader(check)
  <2>1. ASSUME two
        PROVE  IsReader(<< emit_rcol(<<1>>, cols, by[2].col, 5), Op(by[2].op, 4, tail, 5) >>)
    <3>1. ReadOp(emit_rcol(<<1>>, cols, by[2].col, 5))
      BY ReadOps, Zenon
    <3>2. ReadOp(Op(by[2].op, 4, tail, 5))
      BY <1>6, <1>8, <2>1, SeekOpcodes, ReadOps DEF two
    <3>3. QED
      BY <3>1, <3>2, ReaderPieces, Zenon
  <2>2. QED
    BY <1>7, <2>1, ReaderWhen, Zenon
<1>11. IsReader(advance)
  <2>1. ReadOp(Op(Advance(access), 0, loop, 0))
    BY <1>8, AdvanceOpcode, ReadOps
  <2>2. IsReader(<< Op(Advance(access), 0, loop, 0) >>)
    BY <2>1, ReaderPieces, Zenon
  <2>3. QED
    BY <1>7, <2>2, ReaderWhen, Zenon
<1>12. IsReader(end)
  <2>1. /\ ReadOp(Op("Close", 1, 0, 0)) /\ ReadOp(Op("Close", 0, 0, 0))
        /\ ReadOp(Op("Halt", 0, 0, 0))
    BY ReadOps, ReadOpcodes
  <2>2. QED
    BY <2>1, ReaderPieces, Zenon
<1> HIDE DEF find, check, advance, end
<1>13. IsReader(head \o find \o check \o output \o advance)
  BY <1>3, <1>4, <1>9, <1>10, <1>11, ReaderJoin5
<1>14. QED
  BY <1>1, <1>12, <1>13, ReaderJoin, Zenon

(* The pieces of a join.                                                   *)
LEMMA SidesRead ==
  ASSUME NEW a, IsAccess(a), NEW s, NEW r, NEW source, NEW cols, NEW tmp,
         NEW die \in Nat, NEW stop \in Nat
  PROVE  /\ IsReader(open_side(source, a, s, r))
         /\ IsReader(side_literals(a, r))
         /\ IsReader(seek_once(a, s, r, die))
         /\ IsReader(begin_loop(a, s, r, die))
         /\ IsReader(enter_row(cols, a, s, r, tmp, die, stop))
         /\ IsReader(end_loop(a, s, die))
<1>1. /\ Indexed(a) \in BOOLEAN /\ TwoSided(a) \in BOOLEAN /\ Loops(a) \in BOOLEAN
      /\ (a.kind = "rangeseek") \in BOOLEAN /\ (~Loops(a)) \in BOOLEAN
      /\ TwoSided(a) => Indexed(a) /\ Len(a.by) = 2
  BY DEF Indexed, TwoSided, Loops
<1>2. Indexed(a) => IsChecks(a.by) /\ Len(a.by) \in 1 .. 2
  BY DEF IsAccess
<1>3. \A x, y : ReadOp(x) /\ ReadOp(y) => IsReader(<<x>>) /\ IsReader(<<x, y>>)
  BY ReaderPieces, Zenon
<1>4. IsReader(open_side(source, a, s, r))
  <2>1. ReadOp(Op("Integer", a.idx_root, r.idxroot, 0))
        /\ ReadOp(Op("OpenRead", s + 2, r.idxroot, 0))
    BY ReadOps, ReadOpcodes
  <2>2. ReadOp(Op("Integer", source.root_page, r.root, 0))
        /\ ReadOp(Op("OpenRead", s, r.root, Len(source.columns)))
    BY ReadOps, ReadOpcodes
  <2>3. IsReader(When(Indexed(a), << Op("Integer", a.idx_root, r.idxroot, 0),
                                     Op("OpenRead", s + 2, r.idxroot, 0) >>))
    BY <1>1, <1>3, <2>1, ReaderWhen, Zenon
  <2>4. IsReader(<< Op("Integer", source.root_page, r.root, 0),
                    Op("OpenRead", s, r.root, Len(source.columns)) >>)
    BY <1>3, <2>2, Zenon
  <2>5. QED
    BY <2>3, <2>4, ReaderJoin, Zenon DEF open_side
<1>5. IsReader(side_literals(a, r))
  <2>1. ReadOp(emit_literal(a.by[1].lit, r.lit)) /\ ReadOp(emit_literal(a.by[2].lit, r.lit2))
    BY ReadOps, Zenon
  <2>2. /\ IsReader(When(Indexed(a), << emit_literal(a.by[1].lit, r.lit) >>))
        /\ IsReader(When(TwoSided(a), << emit_literal(a.by[2].lit, r.lit2) >>))
    BY <1>1, <1>3, <2>1, ReaderWhen, Zenon
  <2>3. QED
    BY <2>2, ReaderJoin, Zenon DEF side_literals
<1>6. IsReader(find_row(s, r, die))
  <2>1. ReadOp(Op("IdxPKey", s + 2, r.pkey, 0)) /\ ReadOp(Op("Seek", s, die, r.pkey))
    BY ReadOps, ReadOpcodes
  <2>2. QED
    BY <1>3, <2>1, Zenon DEF find_row
<1>7. IsReader(seek_once(a, s, r, die))
  <2>1. ReadOp(Op("Seek", s + 2, die, r.lit))
    BY ReadOps, ReadOpcodes
  <2>2. IsReader(<< Op("Seek", s + 2, die, r.lit) >>)
    BY <1>3, <2>1, Zenon
  <2>3. IsReader(<< Op("Seek", s + 2, die, r.lit) >> \o find_row(s, r, die))
    BY <1>6, <2>2, ReaderJoin, Zenon
  <2>4. QED
    BY <1>1, <2>3, ReaderWhen, Zenon DEF seek_once
<1>8. IsReader(begin_loop(a, s, r, die))
  <2>1. ReadOp(Op("Rewind", s, die, 0))
    BY ReadOps, ReadOpcodes
  <2>2. ASSUME Indexed(a) PROVE ReadOp(Op(index_seek_opcode(a.by[1].op), s + 2, die, r.lit))
    BY <1>2, <2>2, SeekOpcodes, ReadOps
  <2>3. IsReader(IF Indexed(a) THEN << Op(index_seek_opcode(a.by[1].op), s + 2, die, r.lit) >>
                               ELSE << Op("Rewind", s, die, 0) >>)
    BY <1>3, <2>1, <2>2, Zenon
  <2>4. QED
    BY <1>1, <2>3, ReaderWhen, Zenon DEF begin_loop
<1>9. IsReader(enter_row(cols, a, s, r, tmp, die, stop))
  <2> DEFINE check == << emit_rcol(<<0, 1>>, cols, a.by[2].col, tmp),
                         Op(a.by[2].op, r.lit2, stop, tmp) >>
  <2>1. ReadOp(emit_rcol(<<0, 1>>, cols, a.by[2].col, tmp))
    BY ReadOps, Zenon
  <2>2. ASSUME TwoSided(a) PROVE ReadOp(Op(a.by[2].op, r.lit2, stop, tmp))
    BY <1>1, <1>2, <2>2, SeekOpcodes, ReadOps
  <2>3. IsReader(When(TwoSided(a), check))
    BY <1>1, <1>3, <2>1, <2>2, ReaderWhen, Zenon
  <2> HIDE DEF check
  <2>4. IsReader(find_row(s, r, die) \o When(TwoSided(a), check))
    BY <1>6, <2>3, ReaderJoin, Zenon
  <2>5. QED
    BY <1>1, <2>4, ReaderWhen, Zenon DEF enter_row, check
<1>10. IsReader(end_loop(a, s, die))
  <2>1. ReadOp(Op(Advance(a), s + 2, die, 0)) /\ ReadOp(Op("Next", s, die, 0))
    BY AdvanceOpcode, ReadOps, ReadOpcodes
  <2>2. IsReader(IF Indexed(a) THEN << Op(Advance(a), s + 2, die, 0) >>
                               ELSE << Op("Next", s, die, 0) >>)
    BY <1>3, <2>1, Zenon
  <2>3. QED
    BY <1>1, <2>2, ReaderWhen, Zenon DEF end_loop
<1>11. QED
  BY <1>4, <1>5, <1>7, <1>8, <1>9, <1>10

(* What is selected from a list is a list.                                  *)
LEMMA SelectedList ==
  ASSUME NEW seq, NEW S, S \subseteq DOMAIN seq, NEW n \in Nat, DOMAIN seq = 1 .. n
  PROVE  \E m \in Nat : IsList(Selected(seq, S), m)
<1>1. Selected(seq, S) \in Seq(ToSet(seq))
  BY SelectedElements
<1> DEFINE s == Selected(seq, S)
<1> HIDE DEF s
<1>2. s \in Seq(ToSet(seq))
  BY <1>1 DEF s
<1>3. Len(s) \in Nat /\ IsList(s, Len(s))
  BY <1>2, SeqShape, Zenon DEF IsList
<1>4. QED
  BY <1>3, Zenon DEF s

(* The pairs of columns of a natural join are a list.                       *)
LEMMA JoinPairs ==
  ASSUME NEW cols, NEW n \in Nat, DOMAIN cols[1] = 1 .. n
  PROVE  \E m \in Nat : IsList(join_pairs(cols), m)
<1> DEFINE pairs == [i \in DOMAIN cols[1] |->
                       <<i - 1, column_index_by_name(cols[2], cols[1][i].name)>>]
<1>1. DOMAIN pairs = 1 .. n
  OBVIOUS
<1> DEFINE S == {i \in DOMAIN pairs : pairs[i][2] >= 0}
<1>2. join_pairs(cols) = Selected(pairs, S) /\ S \subseteq DOMAIN pairs
  BY Zenon DEF join_pairs
<1> HIDE DEF pairs, S
<1>3. \E m \in Nat : IsList(Selected(pairs, S), m)
  BY <1>1, <1>2, SelectedList, Zenon
<1>4. QED
  BY <1>2, <1>3, Zenon

(* emit_join_checks only reads.                                             *)
LEMMA JoinChecksRead ==
  ASSUME NEW cols, NEW pairs, NEW n \in Nat, IsList(pairs, n), NEW tmp, NEW retry \in Nat
  PROVE  IsReader(emit_join_checks(cols, pairs, tmp, retry))
<1> DEFINE piece(i) == << emit_column(0, cols[1], pairs[i][1], tmp),
                          emit_column(1, cols[2], pairs[i][2], tmp + 1),
                          Op("Ne", tmp, retry, tmp + 1) >>
           pieces == [i \in 1 .. n |-> piece(i)]
<1>1. DOMAIN pairs = 1 .. n
  BY ListLength, Zenon
<1>2. emit_join_checks(cols, pairs, tmp, retry) = Chain(3, pieces)
  BY <1>1 DEF emit_join_checks
<1>3. IsList(pieces, n)
  BY Zenon DEF IsList
<1>4. ASSUME NEW i \in 1 .. n, NEW j \in 1 .. 3
      PROVE  ReadOp(pieces[i][j])
  <2>1. /\ ReadOp(emit_column(0, cols[1], pairs[i][1], tmp))
        /\ ReadOp(emit_column(1, cols[2], pairs[i][2], tmp + 1))
    BY ReadOps, Zenon
  <2>2. ReadOp(Op("Ne", tmp, retry, tmp + 1))
    BY ReadOps, ReadOpcodes
  <2>3. pieces[i] = piece(i)
    BY <1>4, Zenon
  <2> HIDE DEF piece, pieces
  <2>4. /\ piece(i)[1] = emit_column(0, cols[1], pairs[i][1], tmp)
        /\ piece(i)[2] = emit_column(1, cols[2], pairs[i][2], tmp + 1)
        /\ piece(i)[3] = Op("Ne", tmp, retry, tmp + 1)
    BY DEF piece
  <2>5. j = 1 \/ j = 2 \/ j = 3
    BY <1>4
  <2>6. QED
    BY <2>1, <2>2, <2>3, <2>4, <2>5, Zenon
<1> HIDE DEF pieces
<1>5. IsReader(Chain(3, pieces))
  BY <1>3, <1>4, ReaderChain
<1>6. QED
  BY <1>2, <1>5

(* select_join_program only reads.                                          *)
LEMMA JoinReads ==
  ASSUME NEW sources, NEW a1, IsAccess(a1), NEW a2, IsAccess(a2), NEW top, IsChecks(top),
         NEW n \in Nat, DOMAIN sources[1].columns = 1 .. n,
         NEW out, NEW m \in Nat, IsList(out, m)
  PROVE  IsReader(select_join_program(sources, a1, a2, top, out))
<1> DEFINE cols == <<sources[1].columns, sources[2].columns>>
           at   == <<0, 1>>
           regs == join_registers(a1, a2)
           r1   == regs.sides[1]
           r2   == regs.sides[2]
           lits2 == regs.lits + Len(a1.filter)
           lits3 == lits2 + Len(a2.filter)
           tmp  == lits3 + Len(top)
           pairs == join_pairs(cols)
           Opening(die) ==
             open_side(sources[1], a1, 0, r1) \o open_side(sources[2], a2, 1, r2)
             \o side_literals(a1, r1) \o side_literals(a2, r2)
             \o seek_once(a1, 0, r1, die) \o seek_once(a2, 1, r2, die)
             \o emit_filter_literals(a1.filter, regs.lits)
             \o emit_filter_literals(a2.filter, lits2)
             \o emit_filter_literals(top, lits3)
           Begin1(tail) == begin_loop(a1, 0, r1, tail)
           Enter1(tail, skip) ==
             enter_row(cols, a1, 0, r1, tmp, tail, tail)
             \o emit_filter_checks(at, cols, a1.filter, regs.lits, tmp, skip)
           Begin2(done) == begin_loop(a2, 1, r2, done)
           Body(tail, done, retry) ==
             enter_row(cols, a2, 1, r2, tmp, tail, done)
             \o emit_join_checks(cols, pairs, tmp, retry)
             \o emit_filter_checks(at, cols, a2.filter, lits2, tmp, retry)
             \o emit_filter_checks(at, cols, top, lits3, tmp, retry)
             \o emit_output_columns(at, cols, out, tmp + 2)
           loop1 == Len(Opening(0)) + Len(Begin1(0))
           loop2 == loop1 + Len(Enter1(0, 0)) + Len(Begin2(0))
           retry == loop2 + Len(Body(0, 0, 0))
           done  == retry + Len(end_loop(a2, 1, 0))
           tail  == done + Len(end_loop(a1, 0, 0))
           close1 == << Op("Close", 1, 0, 0) >>
           close3 == When(Indexed(a2), << Op("Close", 3, 0, 0) >>)
           close0 == << Op("Close", 0, 0, 0) >>
           close2 == When(Indexed(a1), << Op("Close", 2, 0, 0) >>)
           halt == << Op("Halt", 0, 0, 0) >>
<1>1. select_join_program(sources, a1, a2, top, out) =
        Opening(tail) \o Begin1(tail) \o Enter1(tail, done)
        \o Begin2(done) \o Body(tail, done, retry)
        \o end_loop(a2, 1, loop2) \o end_loop(a1, 0, loop1)
        \o close1 \o close3 \o close0 \o close2 \o halt
  BY Zenon DEF select_join_program
<1> HIDE DEF cols, at, regs, r1, r2, lits2, lits3, tmp, pairs
<1>2. IsChecks(a1.filter) /\ IsChecks(a2.filter)
  BY DEF IsAccess
<1>3. PICK p \in Nat : IsList(pairs, p)
  <2>1. DOMAIN cols[1] = 1 .. n
    BY DEF cols
  <2>2. QED
    BY <2>1, JoinPairs DEF pairs
<1>4. ASSUME NEW die \in Nat
      PROVE  IsReader(Opening(die))
  <2>1. /\ IsReader(open_side(sources[1], a1, 0, r1))
        /\ IsReader(open_side(sources[2], a2, 1, r2))
        /\ IsReader(side_literals(a1, r1)) /\ IsReader(side_literals(a2, r2))
        /\ IsReader(seek_once(a1, 0, r1, die)) /\ IsReader(seek_once(a2, 1, r2, die))
    BY SidesRead
  <2>2. /\ IsReader(emit_filter_literals(a1.filter, regs.lits))
        /\ IsReader(emit_filter_literals(a2.filter, lits2))
        /\ IsReader(emit_filter_literals(top, lits3))
    BY <1>2, FiltersRead
  <2>3. IsReader(open_side(sources[1], a1, 0, r1) \o open_side(sources[2], a2, 1, r2)
                 \o side_literals(a1, r1) \o side_literals(a2, r2)
                 \o seek_once(a1, 0, r1, die))
    BY <2>1, ReaderJoin5, Zenon
  <2>4. QED
    BY <2>1, <2>2, <2>3, ReaderJoin5, Zenon
<1>5. ASSUME NEW x \in Nat, NEW y \in Nat
      PROVE  /\ IsReader(Begin1(x)) /\ IsReader(Begin2(x)) /\ IsReader(Enter1(x, y))
             /\ IsReader(end_loop(a1, 0, x)) /\ IsReader(end_loop(a2, 1, x))
  <2>1. /\ IsReader(Begin1(x)) /\ IsReader(Begin2(x))
        /\ IsReader(end_loop(a1, 0, x)) /\ IsReader(end_loop(a2, 1, x))
        /\ IsReader(enter_row(cols, a1, 0, r1, tmp, x, x))
    BY SidesRead
  <2>2. IsReader(emit_filter_checks(at, cols, a1.filter, regs.lits, tmp, y))
    BY <1>2, FiltersRead
  <2>3. QED
    BY <2>1, <2>2, ReaderJoin, Zenon
<1>6. ASSUME NEW x \in Nat, NEW y \in Nat, NEW z \in Nat
      PROVE  IsReader(Body(x, y, z))
  <2>1. IsReader(enter_row(cols, a2, 1, r2, tmp, x, y))
    BY SidesRead
  <2>2. IsReader(emit_join_checks(cols, pairs, tmp, z))
    BY <1>3, JoinChecksRead
  <2>3. /\ IsReader(emit_filter_checks(at, cols, a2.filter, lits2, tmp, z))
        /\ IsReader(emit_filter_checks(at, cols, top, lits3, tmp, z))
    BY <1>2, FiltersRead
  <2>4. IsReader(emit_output_columns(at, cols, out, tmp + 2))
    BY OutputReads, Zenon
  <2>5. QED
    BY <2>1, <2>2, <2>3, <2>4, ReaderJoin5, Zenon
<1> HIDE DEF Opening, Begin1, Begin2, Enter1, Body
<1>7. /\ Len(Opening(0)) \in Nat /\ Len(Begin1(0)) \in Nat /\ Len(Enter1(0, 0)) \in Nat
      /\ Len(Begin2(0)) \in Nat /\ Len(Body(0, 0, 0)) \in Nat
      /\ Len(end_loop(a2, 1, 0)) \in Nat /\ Len(end_loop(a1, 0, 0)) \in Nat
  <2>1. 0 \in Nat
    OBVIOUS
  <2>2. QED
    BY <1>4, <1>5, <1>6, <2>1, ReaderLength, Zenon
<1>8. loop1 \in Nat /\ loop2 \in Nat
  BY <1>7
<1>9. retry \in Nat /\ done \in Nat /\ tail \in Nat
  <2> HIDE DEF loop2
  <2>1. QED
    BY <1>7, <1>8
<1> HIDE DEF loop1, loop2, retry, done, tail
<1>10. IsReader(Opening(tail) \o Begin1(tail) \o Enter1(tail, done)
                \o Begin2(done) \o Body(tail, done, retry))
  BY <1>4, <1>5, <1>6, <1>9, ReaderJoin5
<1>11. /\ IsReader(close1) /\ IsReader(close3) /\ IsReader(close0) /\ IsReader(close2)
       /\ IsReader(halt)
  <2>1. /\ ReadOp(Op("Close", 1, 0, 0)) /\ ReadOp(Op("Close", 3, 0, 0))
        /\ ReadOp(Op("Close", 0, 0, 0)) /\ ReadOp(Op("Close", 2, 0, 0))
        /\ ReadOp(Op("Halt", 0, 0, 0))
    BY ReadOps, ReadOpcodes
  <2>2. /\ IsReader(close1) /\ IsReader(<< Op("Close", 3, 0, 0) >>) /\ IsReader(close0)
        /\ IsReader(<< Op("Close", 2, 0, 0) >>) /\ IsReader(halt)
    BY <2>1, ReaderPieces, Zenon
  <2>3. Indexed(a1) \in BOOLEAN /\ Indexed(a2) \in BOOLEAN
    BY DEF Indexed
  <2>4. IsReader(close3) /\ IsReader(close2)
    BY <2>2, <2>3, ReaderWhen, Zenon
  <2>5. QED
    BY <2>2, <2>4
<1>12. IsReader(end_loop(a2, 1, loop2)) /\ IsReader(end_loop(a1, 0, loop1))
  BY <1>5, <1>8
<1> DEFINE body == Opening(tail) \o Begin1(tail) \o Enter1(tail, done)
                   \o Begin2(done) \o Body(tail, done, retry)
           loops == body \o end_loop(a2, 1, loop2) \o end_loop(a1, 0, loop1)
                    \o close1 \o close3
<1> HIDE DEF close1, close3, close0, close2, halt
<1>13. IsReader(loops)
  <2>1. IsReader(body)
    BY <1>10
  <2> HIDE DEF body
  <2>2. QED
    BY <1>11, <1>12, <2>1, ReaderJoin5, Zenon
<1>14. IsReader(loops \o close0 \o close2 \o halt)
  <2> HIDE DEF loops
  <2>1. IsReader(loops \o close0 \o close2)
    BY <1>11, <1>13, ReaderJoin3, Zenon
  <2>2. QED
    BY <1>11, <2>1, ReaderJoin, Zenon
<1>15. QED
  BY <1>1, <1>14

(* A list of sound tables, and the sources that a SELECT makes of it.      *)
HasSoundTables(list) ==
    /\ IsSchema(list)
    /\ \A x \in ToSet(list) : x.type = "table" => OnePrimaryKey(x.sql.columns)

(* The columns of a source are those of a table.                            *)
LEMMA SourceColumns ==
  ASSUME NEW list, HasSoundTables(list), NEW from, NEW i \in DOMAIN from,
         tables_named(list, from[i]) # <<>>
  PROVE  OnePrimaryKey(sources_of(list, from)[i].columns)
<1>1. sources_of(list, from)[i].columns = tables_named(list, from[i])[1].sql.columns
  BY DEF sources_of
<1>2. tables_named(list, from[i])[1] \in ToSet(list)
      /\ tables_named(list, from[i])[1].type = "table"
  BY TablesNamed DEF HasSoundTables, IsTableNamed
<1>3. QED
  BY <1>1, <1>2 DEF HasSoundTables

(* Two lists, one behind the other.                                         *)
LEMMA ListJoin ==
  ASSUME NEW p \in Nat, NEW q \in Nat, NEW a, NEW b, IsList(a, p), IsList(b, q)
  PROVE  IsList(a \o b, p + q)
<1> DEFINE All == {a[i] : i \in 1 .. p} \cup {b[i] : i \in 1 .. q}
<1>1. a \in [1 .. p -> All] /\ b \in [1 .. q -> All]
  BY Zenon DEF IsList
<1>2. Len(a) = p /\ Len(b) = q
  BY ListLength
<1> HIDE DEF All
<1>3. a \in Seq(All) /\ b \in Seq(All)
  BY <1>1
<1>4. a \o b \in Seq(All) /\ Len(a \o b) = p + q
  BY <1>2, <1>3
<1>5. QED
  BY <1>4, SeqShape, Zenon DEF IsList

(* The columns of the output are a list.                                    *)
LEMMA OutputColumns ==
  ASSUME NEW sources, NEW n \in 1 .. 2, Len(sources) = n,
         \A i \in 1 .. n : OnePrimaryKey(sources[i].columns),
         NEW expr, expr \in Seq(ToSet(expr))
  PROVE  \E m \in Nat : IsList(output_columns(sources, expr), m)
<1>1. CASE IsStar(expr)
  <2> DEFINE first == [i \in DOMAIN sources[1].columns |-> [side |-> 0, idx |-> i - 1]]
             cols == <<sources[1].columns, sources[2].columns>>
             second == [i \in DOMAIN cols[2] |-> [side |-> 1, idx |-> i - 1]]
             shared == {pair[2] : pair \in ToSet(join_pairs(cols))}
             own == {i \in DOMAIN cols[2] : i - 1 \notin shared}
             rest == When(n = 2, Selected(second, own))
  <2>1. output_columns(sources, expr) = first \o rest
    <3>1. output_columns(sources, expr) = star_columns(sources)
      BY <1>1 DEF output_columns
    <3>2. QED
      BY <3>1, Zenon DEF star_columns
  <2>2. PICK p \in Nat : IsList(first, p)
    <3>1. Len(sources[1].columns) \in Nat
          /\ DOMAIN sources[1].columns = 1 .. Len(sources[1].columns)
      BY PrimaryKeys
    <3>2. QED
      BY <3>1, Zenon DEF IsList
  <2>3. PICK q \in Nat : IsList(rest, q)
    <3>1. CASE n # 2
      <4>1. rest = <<>>
        BY <3>1 DEF When
      <4>2. IsList(<<>>, 0)
        BY DEF IsList
      <4>3. QED
        BY <4>1, <4>2
    <3>2. CASE n = 2
      <4>1. rest = Selected(second, own)
        BY <3>2 DEF When
      <4>2. Len(cols[2]) \in Nat /\ DOMAIN cols[2] = 1 .. Len(cols[2])
        <5>1. cols[2] = sources[2].columns
          OBVIOUS
        <5>2. OnePrimaryKey(sources[2].columns)
          BY <3>2
        <5>3. QED
          BY <5>1, <5>2, PrimaryKeys
      <4>3. DOMAIN second = 1 .. Len(cols[2])
        BY <4>2
      <4>4. own \subseteq DOMAIN second
        BY Zenon
      <4> HIDE DEF second, own, cols
      <4>5. \E m \in Nat : IsList(Selected(second, own), m)
        BY <4>2, <4>3, <4>4, SelectedList
      <4>6. QED
        BY <4>1, <4>5
    <3>3. QED
      BY <3>1, <3>2
  <2> HIDE DEF first, rest
  <2>4. IsList(first \o rest, p + q)
    BY <2>2, <2>3, ListJoin
  <2>5. p + q \in Nat
    OBVIOUS
  <2>6. QED
    BY <2>1, <2>4, <2>5
<1>2. CASE ~IsStar(expr)
  <2>1. Len(expr) \in Nat /\ DOMAIN expr = 1 .. Len(expr)
    OBVIOUS
  <2>2. output_columns(sources, expr) =
          [i \in 1 .. Len(expr) |-> CHOOSE rc \in resolve_column(sources, expr[i]) : TRUE]
    BY <1>2, <2>1 DEF output_columns
  <2>3. IsList(output_columns(sources, expr), Len(expr))
    BY <2>2, Zenon DEF IsList
  <2>4. QED
    BY <2>1, <2>3
<1>3. QED
  BY <1>1, <1>2

(* The optimizer only deals out the condition.                             *)
LEMMA SelectedCondition ==
  ASSUME NEW cond, IsCondition(cond), NEW S, S \subseteq DOMAIN cond
  PROVE  IsCondition(Selected(cond, S))
<1> DEFINE s == Selected(cond, S)
<1>1. Len(cond) \in Nat /\ DOMAIN cond = 1 .. Len(cond)
  BY DEF IsCondition
<1>2. s \in Seq(ToSet(cond)) /\ ToSet(s) = {cond[i] : i \in S}
  BY <1>1, SelectedElements
<1> HIDE DEF s
<1>3. /\ Len(s) \in Nat /\ DOMAIN s = 1 .. Len(s)
      /\ s = [i \in 1 .. Len(s) |-> s[i]]
      /\ \A i \in 1 .. Len(s) : s[i] \in ToSet(cond)
  BY <1>2, SeqShape, Zenon
<1>4. \A i \in DOMAIN s : s[i].comp \in {"=", "<", "<=", ">", ">="}
  BY <1>3 DEF IsCondition, ToSet
<1>5. s \in Seq(ToSet(s))
  <2>1. s \in [1 .. Len(s) -> ToSet(s)]
    BY <1>3 DEF ToSet
  <2>2. QED
    BY <1>3, <2>1
<1>6. QED
  BY <1>4, <1>5 DEF IsCondition, s

(* The optimizer changes a SELECT only, and returns a statement of the same kind.*)
LEMMA OptimizedStatement ==
  ASSUME NEW list, NEW sql, IsStatement(sql)
  PROVE  /\ sql.type # "select" => stmt_optimize(list, sql) = sql
         /\ IsStatement(stmt_optimize(list, sql))
         /\ stmt_optimize(list, sql).type = sql.type
<1> DEFINE o == stmt_optimize(list, sql)
           sources == sources_of(list, sql.from)
           Bucket(side) ==
             Selected(sql.cond, {i \in DOMAIN sql.cond :
                                   classify_column_side(sources, sql.cond[i]) = side})
<1>1. o = IF Pushable(list, sql)
          THEN [sql EXCEPT !.side1 = Bucket(1), !.side2 = Bucket(2), !.cond = Bucket(0)]
          ELSE sql
  BY Zenon DEF stmt_optimize
<1>2. CASE ~Pushable(list, sql)
  BY <1>1, <1>2
<1>3. CASE Pushable(list, sql)
  <2>1. sql.type = "select"
    BY <1>3 DEF Pushable
  <2>2. /\ sql = [type |-> sql.type, expr |-> sql.expr, from |-> sql.from,
                  side1 |-> sql.side1, side2 |-> sql.side2, cond |-> sql.cond]
        /\ sql.from \in Seq(ToSet(sql.from)) /\ Len(sql.from) \in 1 .. 2
        /\ sql.expr \in Seq(ToSet(sql.expr))
        /\ IsCondition(sql.cond)
    BY <2>1 DEF IsStatement
  <2>3. \A side : IsCondition(Bucket(side))
    BY <2>2, SelectedCondition
  <2> HIDE DEF Bucket
  <2>4. PICK b1, b2, b0 : b1 = Bucket(1) /\ b2 = Bucket(2) /\ b0 = Bucket(0)
    OBVIOUS
  <2>5. o = [sql EXCEPT !.side1 = b1, !.side2 = b2, !.cond = b0]
    BY <1>1, <1>3, <2>4
  <2>6. [sql EXCEPT !.side1 = b1, !.side2 = b2, !.cond = b0] =
          [[[sql EXCEPT !.side1 = b1] EXCEPT !.side2 = b2] EXCEPT !.cond = b0]
    BY Zenon
  <2>7. [[[sql EXCEPT !.side1 = b1] EXCEPT !.side2 = b2] EXCEPT !.cond = b0] =
          [type |-> sql.type, expr |-> sql.expr, from |-> sql.from,
           side1 |-> b1, side2 |-> b2, cond |-> b0]
    <3> DEFINE one == [sql EXCEPT !.side1 = b1]
               two == [one EXCEPT !.side2 = b2]
    <3>1. one = [type |-> sql.type, expr |-> sql.expr, from |-> sql.from,
                 side1 |-> b1, side2 |-> sql.side2, cond |-> sql.cond]
      BY <2>2
    <3> HIDE DEF one
    <3>2. two = [type |-> sql.type, expr |-> sql.expr, from |-> sql.from,
                 side1 |-> b1, side2 |-> b2, cond |-> sql.cond]
      BY <3>1
    <3> HIDE DEF two
    <3>3. [two EXCEPT !.cond = b0] =
            [type |-> sql.type, expr |-> sql.expr, from |-> sql.from,
             side1 |-> b1, side2 |-> b2, cond |-> b0]
      BY <3>2
    <3>4. QED
      BY <3>3 DEF one, two
  <2>8. o = [type |-> sql.type, expr |-> sql.expr, from |-> sql.from,
             side1 |-> b1, side2 |-> b2, cond |-> b0]
    BY <2>5, <2>6, <2>7
  <2>9. IsStatement(o) /\ o.type = sql.type
    <3>1. o.type = "select" /\ o.expr = sql.expr /\ o.from = sql.from
          /\ o.side1 = b1 /\ o.side2 = b2 /\ o.cond = b0
      BY <2>1, <2>8
    <3>2. IsCondition(b1) /\ IsCondition(b2) /\ IsCondition(b0)
      BY <2>3, <2>4
    <3>3. o = [type |-> o.type, expr |-> o.expr, from |-> o.from,
               side1 |-> o.side1, side2 |-> o.side2, cond |-> o.cond]
      BY <2>8
    <3>4. QED
      BY <2>1, <2>2, <3>1, <3>2, <3>3 DEF IsStatement
  <2>10. QED
    BY <2>1, <2>9
<1>4. QED
  BY <1>2, <1>3

(* What a statement is when it has been prepared.                          *)
LEMMA PreparedStatement ==
  ASSUME NEW ops, NEW change
  PROVE  LET s == NewStmt(ops, change)
         IN  /\ IsStmt(s) /\ s.ops = ops /\ s.schema_change = change
             /\ s.pc = 0 /\ s.rc = OK
BY DEF NewStmt, IsStmt

(* A SELECT is compiled to a program that only reads.                       *)
LEMMA SelectReads ==
  ASSUME NEW list, HasSoundTables(list), NEW sql, IsStatement(sql), sql.type = "select",
         NEW s \in codegen_select(list, sql)
  PROVE  \E ops : s = NewStmt(ops, FALSE) /\ IsReader(ops)
<1> DEFINE sources == sources_of(list, sql.from)
           out == output_columns(sources, sql.expr)
           Cmps(cond) == resolve_conjuncts(sources, cond)
           Side(i, cond) == plan_side_access(list, sources[i], Cmps(cond))
           access == Side(1, sql.cond)
           joins == select_join_program(sources, Side(1, sql.side1), Side(2, sql.side2),
                                        Cmps(sql.cond), out)
           indexed == codegen_select_indexed(sources[1], access, out)
           scan == scan_program(sources[1], access, out)
           program == IF Len(sql.from) = 2 THEN joins
                      ELSE IF Indexed(access) THEN indexed ELSE scan
           accepted == /\ \A i \in DOMAIN sql.from : tables_named(list, sql.from[i]) # <<>>
                       /\ \/ IsStar(sql.expr)
                          \/ \A i \in DOMAIN sql.expr : resolve_column(sources, sql.expr[i]) # {}
                       /\ Resolvable(sources, sql.side1)
                       /\ Resolvable(sources, sql.side2)
                       /\ Resolvable(sources, sql.cond)
<1>1. codegen_select(list, sql) = Compiled(accepted, NewStmt(program, FALSE))
  BY Zenon DEF codegen_select
<1>2. accepted /\ s = NewStmt(program, FALSE)
  <2> HIDE DEF accepted, program
  <2>1. QED
    BY <1>1 DEF Compiled
<1>3. /\ \A i \in DOMAIN sql.from : tables_named(list, sql.from[i]) # <<>>
      /\ Resolvable(sources, sql.side1) /\ Resolvable(sources, sql.side2)
      /\ Resolvable(sources, sql.cond)
  BY <1>2
<1>4. /\ sql.from \in Seq(ToSet(sql.from)) /\ Len(sql.from) \in 1 .. 2
      /\ sql.expr \in Seq(ToSet(sql.expr))
      /\ IsCondition(sql.cond) /\ IsCondition(sql.side1) /\ IsCondition(sql.side2)
  BY DEF IsStatement
<1>5. /\ DOMAIN sql.from = 1 .. Len(sql.from)
      /\ Len(sources) = Len(sql.from)
  <2>1. DOMAIN sql.from = 1 .. Len(sql.from)
    BY <1>4
  <2>2. DOMAIN sources = 1 .. Len(sql.from)
    BY <2>1 DEF sources_of
  <2> HIDE DEF sources
  <2>3. Len(sources) = Len(sql.from)
    BY <1>4, <2>2
  <2>4. QED
    BY <2>1, <2>3
<1>6. \A i \in 1 .. Len(sql.from) : OnePrimaryKey(sources[i].columns)
  BY <1>3, <1>5, SourceColumns
<1>7. IsChecks(Cmps(sql.cond)) /\ IsChecks(Cmps(sql.side1)) /\ IsChecks(Cmps(sql.side2))
  BY <1>3, <1>4, ResolvedChecks
<1> HIDE DEF sources
<1>8. PICK m \in Nat : IsList(out, m)
  BY <1>4, <1>5, <1>6, OutputColumns
<1> HIDE DEF out, Cmps
<1>9. IsAccess(access) /\ IsAccess(Side(1, sql.side1)) /\ IsAccess(Side(2, sql.side2))
  BY <1>7, PlannedAccess
<1>10. Len(sources[1].columns) \in Nat
       /\ DOMAIN sources[1].columns = 1 .. Len(sources[1].columns)
  <2>1. 1 \in 1 .. Len(sql.from)
    <3>1. \A n \in 1 .. 2 : 1 \in 1 .. n
      OBVIOUS
    <3>2. QED
      BY <1>4, <3>1, Zenon
  <2>2. OnePrimaryKey(sources[1].columns)
    BY <1>6, <2>1, Zenon
  <2>3. QED
    BY <2>2, PrimaryKeys
<1> HIDE DEF Side, access
<1>11. IsReader(joins)
  BY <1>7, <1>8, <1>9, <1>10, JoinReads
<1>12. IsReader(scan)
  BY <1>8, <1>9, ScanReads
<1>13. Indexed(access) => IsReader(indexed)
  BY <1>8, <1>9, IndexedReads
<1> HIDE DEF joins, scan, indexed
<1>14. IsReader(program)
  BY <1>11, <1>12, <1>13
<1>15. QED
  BY <1>2, <1>14
-----------------------------------------------------------------------------
(* Lists of the schema that are in use, and what a step does to the file.   *)

Has(map, k, v) == k \in DOMAIN map /\ map[k] = v
IsOn(cursors, c, root) == c \in DOMAIN cursors /\ cursors[c].root = root

IsPut(after, map, k, v) ==
    /\ DOMAIN after = {k} \cup DOMAIN map
    /\ after[k] = v
    /\ \A i \in DOMAIN map : i # k => after[i] = map[i]

(* A Put, as a whole.                                                       *)
LEMMA PutIs ==
  ASSUME NEW map, NEW k, NEW v
  PROVE  IsPut(Put(map, k, v), map, k, v)
BY DEF Put, IsPut

(* A file with an entry or a tree more.                                    *)
HasEntryMore(after, file, root, k, val) ==
    /\ Len(after) = Len(file) /\ DOMAIN after = DOMAIN file
    /\ \A r \in DOMAIN file : r # root => after[r] = file[r]
    /\ after[root].index = file[root].index
    /\ IsPut(after[root].entries, file[root].entries, k, val)
    /\ Grows(file, after)

(* A file with one entry more.                                              *)
LEMMA EntryMore ==
  ASSUME NEW file, IsFile(file), NEW root \in DOMAIN file, NEW k, NEW val,
         k \notin DOMAIN file[root].entries
  PROVE  HasEntryMore(WithEntry(file, root, k, val), file, root, k, val)
<1> DEFINE after == WithEntry(file, root, k, val)
<1>1. /\ Len(after) = Len(file) /\ DOMAIN after = DOMAIN file
      /\ after \in Seq(ToSet(after)) /\ after # <<>>
      /\ \A r \in DOMAIN file : r # root => after[r] = file[r]
      /\ after[root] = [index |-> file[root].index,
                        entries |-> Put(file[root].entries, k, val)]
      /\ Grows(file, after)
  BY WithEntryShape
<1> HIDE DEF after
<1>2. IsPut(after[root].entries, file[root].entries, k, val)
  BY <1>1, PutIs
<1>3. QED
  BY <1>1, <1>2 DEF HasEntryMore, after

HasTreeMore(after, file, tree) ==
    /\ Len(after) = Len(file) + 1 /\ DOMAIN after = 1 .. Len(file) + 1
    /\ after[Len(file) + 1] = tree
    /\ \A r \in DOMAIN file : after[r] = file[r]
    /\ Items(after) = Items(file) /\ Grows(file, after)

(* A file with one tree more.                                               *)
LEMMA TreeMore ==
  ASSUME NEW file, IsFile(file), NEW tree
  PROVE  HasTreeMore(Append(file, tree), file, tree)
<1> DEFINE after == Append(file, tree)
<1>1. /\ Len(after) = Len(file) + 1
      /\ DOMAIN after = 1 .. Len(file) + 1
      /\ after[Len(file) + 1] = tree
      /\ \A r \in DOMAIN file : after[r] = file[r]
      /\ after \in Seq(ToSet(after))
      /\ Items(after) = Items(file)
      /\ Grows(file, after)
  BY WithTree
<1> HIDE DEF after
<1>2. QED
  BY <1>1 DEF HasTreeMore, after

(* What registers and cursors hold after a Put.                             *)
LEMMA PutHas ==
  ASSUME NEW map, NEW k, NEW v
  PROVE  /\ Has(Put(map, k, v), k, v)
         /\ \A i, w : i # k /\ Has(map, i, w) => Has(Put(map, k, v), i, w)
         /\ \A root : v.root = root => IsOn(Put(map, k, v), k, root)
         /\ \A i, root : i # k /\ IsOn(map, i, root) => IsOn(Put(map, k, v), i, root)
<1>1. IsPut(Put(map, k, v), map, k, v)
  BY PutIs
<1>2. Has(Put(map, k, v), k, v)
  BY <1>1 DEF IsPut, Has
<1>3. ASSUME NEW i, NEW w, i # k, Has(map, i, w) PROVE Has(Put(map, k, v), i, w)
  BY <1>1, <1>3 DEF IsPut, Has
<1>4. ASSUME NEW root, v.root = root PROVE IsOn(Put(map, k, v), k, root)
  BY <1>1, <1>4 DEF IsPut, IsOn
<1>5. ASSUME NEW i, NEW root, i # k, IsOn(map, i, root) PROVE IsOn(Put(map, k, v), i, root)
  BY <1>1, <1>5 DEF IsPut, IsOn
<1>6. QED
  BY <1>2, <1>3, <1>4, <1>5

(* The key of the row that a CREATE which was compiled against the list    *)
(* adds to the schema table.                                               *)
NewKey(list) == chidb_key(schema_next_key(list))

(* A list that is not up to date has a key that is taken.                  *)
Current(list, file) ==
    /\ IsSchema(list) /\ ToSet(list) \subseteq Items(file)
    /\ ToSet(list) = Items(file) \/ NewKey(list) \in DOMAIN file[1].entries

FileStep(file, after, list) ==
    /\ Whole(after) /\ Grows(file, after)
    /\ \/ Items(after) = Items(file)
       \/ ToSet(list) = Items(file) /\ NewKey(list) \in DOMAIN after[1].entries

(* A list that was current stays so, whatever the statement that runs does. *)
LEMMA StillCurrent ==
  ASSUME NEW file, Whole(file), NEW after, NEW list, FileStep(file, after, list),
         NEW other, Current(other, file)
  PROVE  Current(other, after)
<1>1. IsFile(file) /\ IsFile(after) /\ Grows(file, after)
  BY DEF Whole, FileStep
<1>2. Items(file) \subseteq Items(after)
  BY <1>1, ItemsGrow
<1>3. DOMAIN file[1].entries \subseteq DOMAIN after[1].entries
  <2>1. 1 \in DOMAIN file
    BY <1>1, FileShape
  <2>2. QED
    BY <1>1, <2>1 DEF Grows, TreeGrows
<1>4. IsSchema(other) /\ ToSet(other) \subseteq Items(after)
  BY <1>2 DEF Current
<1>5. CASE NewKey(other) \in DOMAIN file[1].entries
  BY <1>3, <1>4, <1>5 DEF Current
<1>6. CASE ToSet(other) = Items(file)
  <2>1. CASE Items(after) = Items(file)
    BY <1>4, <1>6, <2>1 DEF Current
  <2>2. CASE ToSet(list) = Items(file) /\ NewKey(list) \in DOMAIN after[1].entries
    <3>1. \A x \in Items(file) : x.key \in Keys
      BY <1>1, FileShape
    <3>2. \A x \in ToSet(list) : x.key \in Keys
      BY <2>2, <3>1
    <3>3. ToSet(other) = ToSet(list)
      BY <1>6, <2>2
    <3>4. schema_next_key(other) = schema_next_key(list)
      BY <3>2, <3>3, NextKeys
    <3>5. QED
      BY <1>4, <2>2, <3>4 DEF Current, NewKey
  <2>3. QED
    BY <2>1, <2>2 DEF FileStep
<1>7. QED
  BY <1>5, <1>6 DEF Current

(* A handler that leaves the file alone.                                    *)
LEMMA NothingStepped ==
  ASSUME NEW file, Whole(file), NEW list
  PROVE  FileStep(file, file, list)
BY DEF FileStep, Grows, TreeGrows

-----------------------------------------------------------------------------
(* The part of a CREATE that makes the tree and adds the schema's row.     *)

Row(type, table_name, root, sql) == SchemaRow(type, sql.name, table_name, root, sql)
Listed(file, list, type, table_name, root, sql) ==
    schema_item(NewKey(list), Row(type, table_name, root, sql)) \in Items(file)

(* What the compiler has checked.                                          *)
MayRegister(list, type, table_name, sql) ==
    /\ type \in {"table", "index"}
    /\ type = "table" =>
         OnePrimaryKey(sql.columns) /\ \A y \in ToSet(list) : ~IsTableNamed(y, sql.name)
    /\ type = "index" =>
         \E t \in ToSet(list) :
           IsTableNamed(t, table_name) /\ column_index_by_name(t.sql.columns, sql.column_name) >= 0

Begins(ops, list, type, table_name, sql) ==
    \A i \in 1 .. 11 :
      ops[i] = emit_schema_row(IF type = "index" THEN "CreateIndex" ELSE "CreateTable",
                               type, table_name, sql, schema_next_key(list))[i]

(* The registers, by the address that the program has reached.             *)
RowRegisters(list, type, table_name, root, sql, pc, regs) ==
    /\ pc >= 1 => Has(regs, 0, Int32(1))
    /\ pc >= 3 => Has(regs, 4, Int32(root))
    /\ pc >= 4 => Has(regs, 1, Str(type))
    /\ pc >= 5 => Has(regs, 2, Str(sql.name))
    /\ pc >= 6 => Has(regs, 3, Str(table_name))
    /\ pc >= 7 => Has(regs, 5, Str(sql))
    /\ pc >= 8 => Has(regs, 6, Binary(Row(type, table_name, root, sql)))
    /\ pc >= 9 => Has(regs, 7, Int32(schema_next_key(list)))

NewTree(file, list, type, table_name, sql, pc) ==
    /\ pc >= 3 => /\ Len(file) \in DOMAIN file \ {1}
                  /\ file[Len(file)] = EmptyTree(type = "index")
    /\ pc \in 3 .. 9 => \A x \in Items(file) : x.root_page # Len(file)
    /\ pc >= 10 => Listed(file, list, type, table_name, Len(file), sql)

Registers(file, list, type, table_name, sql, pc, regs, cursors) ==
    /\ RowRegisters(list, type, table_name, Len(file), sql, pc, regs)
    /\ pc \in 2 .. 10 => IsOn(cursors, 0, 1)
    /\ NewTree(file, list, type, table_name, sql, pc)

(* The row that is added may be added.                                     *)
LEMMA RowMayBeListed ==
  ASSUME NEW file, Whole(file), NEW list, Current(list, file),
         NewKey(list) \notin DOMAIN file[1].entries,
         NEW type, NEW table_name, NEW sql, MayRegister(list, type, table_name, sql),
         NEW root, IsFresh(file, root, type = "index")
  PROVE  /\ ToSet(list) = Items(file) /\ NewKey(list) \in Keys
         /\ MayBeListed(file, schema_item(NewKey(list), Row(type, table_name, root, sql)))
<1> DEFINE x == schema_item(NewKey(list), Row(type, table_name, root, sql))
<1>1. /\ x.type = type /\ x.name = sql.name /\ x.table_name = table_name
      /\ x.root_page = root /\ x.sql = sql
  BY DEF schema_item, Row, SchemaRow, Str, Int32
<1> HIDE DEF x
<1>2. ToSet(list) = Items(file)
  BY DEF Current
<1>3. NewKey(list) \in Keys
  <2>1. \A y \in ToSet(list) : y.key \in Keys
    BY <1>2, FileShape DEF Whole
  <2>2. schema_next_key(list) \in Int
    BY <2>1, NextKeys
  <2>3. QED
    BY <2>2, KeysAreKeys DEF NewKey
<1>4. ASSUME type = "index"
      PROVE  HasTable(file, x)
  <2>1. PICK t \in ToSet(list) :
          IsTableNamed(t, table_name) /\ column_index_by_name(t.sql.columns, sql.column_name) >= 0
    BY <1>4 DEF MayRegister
  <2>2. QED
    BY <1>1, <1>2, <2>1 DEF HasTable, IsTableNamed
<1>5. MayBeListed(file, x)
  BY <1>1, <1>2, <1>4 DEF MayBeListed, MayRegister
<1>6. QED
  BY <1>2, <1>3, <1>5 DEF x

(* One instruction of this part.                                           *)
LEMMA CreateRow ==
  ASSUME Runner, Handle, Whole(trees), NEW list, Current(list, trees),
         NEW type, NEW table_name, NEW sql, MayRegister(list, type, table_name, sql),
         Begins(stmt.ops, list, type, table_name, sql),
         stmt.pc \in 0 .. 10,
         Registers(trees, list, type, table_name, sql, stmt.pc, stmt.reg, stmt.cursors)
  PROVE  /\ FileStep(trees, trees', list)
         /\ \/ Stops(ECONSTRAINT)
            \/ \E regs, cursors :
                 /\ Goes(stmt.pc + 1, regs, cursors)
                 /\ Registers(trees', list, type, table_name, sql, stmt.pc + 1, regs, cursors)
         /\ \A r \in DOMAIN trees \ {1} : trees'[r] = trees[r]
<1> DEFINE key == schema_next_key(list)
           root == Len(trees)
           row == Row(type, table_name, root, sql)
           Done == /\ FileStep(trees, trees', list)
                   /\ \/ Stops(ECONSTRAINT)
                      \/ \E regs, cursors :
                           /\ Goes(stmt.pc + 1, regs, cursors)
                           /\ Registers(trees', list, type, table_name, sql,
                                        stmt.pc + 1, regs, cursors)
                   /\ \A r \in DOMAIN trees \ {1} : trees'[r] = trees[r]
<1> SUFFICES Done
  OBVIOUS
<1>1. op = emit_schema_row(IF type = "index" THEN "CreateIndex" ELSE "CreateTable",
                           type, table_name, sql, key)[stmt.pc + 1]
  BY DEF op, Begins
<1>2. /\ stmt.pc = 0 => op = Op("Integer", 1, 0, 0)
      /\ stmt.pc = 1 => op = Op("OpenWrite", 0, 0, 5)
      /\ stmt.pc = 2 => op = Op(IF type = "index" THEN "CreateIndex" ELSE "CreateTable", 4, 0, 0)
      /\ stmt.pc = 3 => op = OpString(1, type)
      /\ stmt.pc = 4 => op = OpString(2, sql.name)
      /\ stmt.pc = 5 => op = OpString(3, table_name)
      /\ stmt.pc = 6 => op = OpString(5, sql)
      /\ stmt.pc = 7 => op = Op("MakeRecord", 1, 5, 6)
      /\ stmt.pc = 8 => op = Op("Integer", key, 7, 0)
      /\ stmt.pc = 9 => op = Op("Insert", 0, 6, 7)
      /\ stmt.pc = 10 => op = Op("Close", 0, 0, 0)
  BY <1>1 DEF emit_schema_row
<1> HIDE DEF key
<1>3. IsFile(trees)
  BY DEF Whole
<1>4. ASSUME UNCHANGED trees, NEW regs, NEW cursors, Goes(stmt.pc + 1, regs, cursors),
             Registers(trees, list, type, table_name, sql, stmt.pc + 1, regs, cursors)
      PROVE  Done
  BY <1>4, NothingStepped, Zenon
<1> HIDE DEF Done
<1>5. ASSUME UNCHANGED trees, NEW r, NEW v, Goes(stmt.pc + 1, Put(stmt.reg, r, v), stmt.cursors),
             RowRegisters(list, type, table_name, root, sql, stmt.pc + 1, Put(stmt.reg, r, v)),
             stmt.pc \notin {1, 2, 9, 10}
      PROVE  Done
  <2>1. NewTree(trees, list, type, table_name, sql, stmt.pc + 1)
    BY <1>5 DEF Registers, NewTree
  <2>2. stmt.pc + 1 \in 2 .. 10 => IsOn(stmt.cursors, 0, 1)
    BY <1>5 DEF Registers
  <2>3. Registers(trees, list, type, table_name, sql, stmt.pc + 1, Put(stmt.reg, r, v), stmt.cursors)
    BY <1>5, <2>1, <2>2 DEF Registers
  <2>4. QED
    BY <1>4, <1>5, <2>3
<1>6. CASE stmt.pc \in {0, 8}
  <2>1. /\ op.opcode = "Integer"
        /\ (stmt.pc = 0 => op.p1 = 1 /\ op.p2 = 0)
        /\ (stmt.pc = 8 => op.p1 = key /\ op.p2 = 7)
    BY <1>2, <1>6 DEF Op
  <2>2. Goes(stmt.pc + 1, Put(stmt.reg, op.p2, Int32(op.p1)), stmt.cursors) /\ UNCHANGED trees
    BY <2>1, LoadGoes
  <2>3. RowRegisters(list, type, table_name, root, sql, stmt.pc + 1,
                     Put(stmt.reg, op.p2, Int32(op.p1)))
    BY <1>6, <2>1, PutHas DEF Registers, RowRegisters, key
  <2>8. stmt.pc \notin {1, 2, 9, 10}
    BY <1>6
  <2>9. QED
    BY <1>5, <2>8, <2>2, <2>3, Zenon
<1>7. CASE stmt.pc \in 3 .. 6
  <2>1. op.opcode = "String"
        /\ (stmt.pc = 3 => op.p2 = 1 /\ op.p4 = type)
        /\ (stmt.pc = 4 => op.p2 = 2 /\ op.p4 = sql.name)
        /\ (stmt.pc = 5 => op.p2 = 3 /\ op.p4 = table_name)
        /\ (stmt.pc = 6 => op.p2 = 5 /\ op.p4 = sql)
    BY <1>2, <1>7 DEF OpString
  <2>2. Goes(stmt.pc + 1, Put(stmt.reg, op.p2, Str(op.p4)), stmt.cursors) /\ UNCHANGED trees
    BY <2>1, LoadGoes
  <2>3. RowRegisters(list, type, table_name, root, sql, stmt.pc + 1,
                     Put(stmt.reg, op.p2, Str(op.p4)))
    BY <1>7, <2>1, PutHas DEF Registers, RowRegisters
  <2>8. stmt.pc \notin {1, 2, 9, 10}
    BY <1>7
  <2>9. QED
    BY <1>5, <2>8, <2>2, <2>3, Zenon
<1>8. CASE stmt.pc = 7
  <2> DEFINE made == [i \in 1 .. op.p2 |-> stmt.reg[op.p1 + i - 1]]
  <2>1. op.opcode = "MakeRecord" /\ op.p1 = 1 /\ op.p2 = 5 /\ op.p3 = 6
    BY <1>2, <1>8 DEF Op
  <2>2. Goes(stmt.pc + 1, Put(stmt.reg, op.p3, Binary(made)), stmt.cursors) /\ UNCHANGED trees
    BY <2>1, MakeRecordGoes
  <2>3. made = row
    <3>1. /\ stmt.reg[1] = Str(type) /\ stmt.reg[2] = Str(sql.name)
          /\ stmt.reg[3] = Str(table_name) /\ stmt.reg[4] = Int32(root)
          /\ stmt.reg[5] = Str(sql)
      BY <1>8 DEF Registers, RowRegisters, Has
    <3>2. made = [i \in 1 .. 5 |-> stmt.reg[1 + i - 1]]
      BY <2>1
    <3> HIDE DEF made
    <3>3. made = <<stmt.reg[1], stmt.reg[2], stmt.reg[3], stmt.reg[4], stmt.reg[5]>>
      BY <3>2
    <3>4. QED
      BY <3>1, <3>3 DEF Row, SchemaRow
  <2> HIDE DEF made
  <2>4. RowRegisters(list, type, table_name, root, sql, stmt.pc + 1,
                     Put(stmt.reg, op.p3, Binary(made)))
    BY <1>8, <2>1, <2>3, PutHas DEF Registers, RowRegisters
  <2>8. stmt.pc \notin {1, 2, 9, 10}
    BY <1>8
  <2>9. QED
    BY <1>5, <2>8, <2>2, <2>4, Zenon
<1>9. CASE stmt.pc = 1
  <2> DEFINE c == Cursor_open(reg(op.p2), trees[reg(op.p2)].entries)
  <2>1. op.opcode \in Opens /\ op.p1 = 0 /\ op.p2 = 0
    BY <1>2, <1>9 DEF Op, Opens
  <2>2. Goes(stmt.pc + 1, stmt.reg, Put(stmt.cursors, op.p1, c)) /\ UNCHANGED trees
    BY <2>1, OpenGoes
  <2>3. c.root = 1
    BY <1>9, <2>1 DEF Registers, RowRegisters, Has, reg, Int32, Cursor_open
  <2> HIDE DEF c
  <2>4. IsOn(Put(stmt.cursors, op.p1, c), 0, 1)
    BY <2>1, <2>3, PutHas
  <2>5. RowRegisters(list, type, table_name, root, sql, stmt.pc + 1, stmt.reg)
        /\ NewTree(trees, list, type, table_name, sql, stmt.pc + 1)
    BY <1>9 DEF Registers, RowRegisters, NewTree
  <2>6. Registers(trees, list, type, table_name, sql, stmt.pc + 1, stmt.reg,
                  Put(stmt.cursors, op.p1, c))
    BY <2>4, <2>5 DEF Registers
  <2>7. QED
    BY <1>4, <2>2, <2>6, Zenon
<1>10. CASE stmt.pc = 2
  <2>1. op.opcode = (IF type = "index" THEN "CreateIndex" ELSE "CreateTable") /\ op.p1 = 4
    BY <1>2, <1>10 DEF Op
  <2> DEFINE tree == EmptyTree(type = "index")
  <2>2. /\ trees' = Append(trees, tree)
        /\ Goes(stmt.pc + 1, Put(stmt.reg, 4, Int32(Len(trees'))), stmt.cursors)
    BY <2>1, CreateGoes
  <2>3. /\ Whole(trees') /\ Grows(trees, trees') /\ Items(trees') = Items(trees)
        /\ Len(trees') = Len(trees) + 1 /\ DOMAIN trees' = 1 .. Len(trees) + 1
        /\ trees'[Len(trees) + 1] = tree
        /\ \A r \in DOMAIN trees : trees'[r] = trees[r]
    <3>1. Whole(trees')
      BY <2>2, NewTreeKeepsWhole
    <3> HIDE DEF tree
    <3>2. HasTreeMore(trees', trees, tree)
      BY <1>3, <2>2, TreeMore
    <3>3. QED
      BY <3>1, <3>2 DEF HasTreeMore
  <2> HIDE DEF tree
  <2>4. Len(trees) \in Nat /\ Len(trees) >= 1
    BY <1>3, FileShape
  <2>5. \A x \in Items(trees') : x.root_page # Len(trees')
    <3>1. \A x \in Items(trees) : x.root_page \in 2 .. Len(trees)
      BY DEF Whole, SchemaIsSound
    <3>2. QED
      BY <2>3, <2>4, <3>1
  <2>6. NewTree(trees', list, type, table_name, sql, stmt.pc + 1)
    BY <1>10, <2>3, <2>4, <2>5 DEF NewTree, tree
  <2>7. RowRegisters(list, type, table_name, Len(trees'), sql, stmt.pc + 1,
                     Put(stmt.reg, 4, Int32(Len(trees'))))
    BY <1>10, PutHas DEF Registers, RowRegisters
  <2>8. IsOn(stmt.cursors, 0, 1)
    BY <1>10 DEF Registers
  <2>9. Registers(trees', list, type, table_name, sql, stmt.pc + 1,
                  Put(stmt.reg, 4, Int32(Len(trees'))), stmt.cursors)
    BY <2>6, <2>7, <2>8 DEF Registers
  <2>10. FileStep(trees, trees', list)
    BY <2>3 DEF FileStep
  <2>11. QED
    BY <2>2, <2>3, <2>9, <2>10, Zenon DEF Done
<1>11. CASE stmt.pc = 9
  <2>1. op.opcode = "Insert" /\ op.p1 = 0 /\ op.p2 = 6 /\ op.p3 = 7
    BY <1>2, <1>11 DEF Op
  <2>2. /\ cursor.root = 1 /\ reg(op.p2) = row /\ chidb_key(reg(op.p3)) = NewKey(list)
    BY <1>11, <2>1 DEF Registers, RowRegisters, Has, IsOn, cursor, reg, Int32, Binary, NewKey
  <2>3. \/ Stops(ECONSTRAINT) /\ UNCHANGED trees
        \/ /\ NewKey(list) \notin DOMAIN trees[1].entries
           /\ trees' = WithEntry(trees, 1, NewKey(list), row)
           /\ Goes(stmt.pc + 1, stmt.reg, stmt.cursors)
    BY <2>1, <2>2, OpInsertGoes
  <2>4. CASE Stops(ECONSTRAINT) /\ UNCHANGED trees
    BY <2>4, NothingStepped, Zenon DEF Done
  <2>5. CASE /\ NewKey(list) \notin DOMAIN trees[1].entries
             /\ trees' = WithEntry(trees, 1, NewKey(list), row)
             /\ Goes(stmt.pc + 1, stmt.reg, stmt.cursors)
    <3> DEFINE x == schema_item(NewKey(list), row)
    <3>1. IsFresh(trees, root, type = "index")
      BY <1>11 DEF Registers, NewTree, IsFresh
    <3>2. /\ ToSet(list) = Items(trees) /\ NewKey(list) \in Keys
          /\ MayBeListed(trees, x)
      BY <2>5, <3>1, RowMayBeListed
    <3> HIDE DEF x
    <3>3. /\ Whole(trees') /\ Items(trees') = Items(trees) \cup {x}
      BY <2>5, <3>2, RowKeepsWhole DEF x
    <3>4. 1 \in DOMAIN trees
      BY <1>3, FileShape
    <3>5. /\ Len(trees') = Len(trees) /\ DOMAIN trees' = DOMAIN trees
          /\ \A r \in DOMAIN trees : r # 1 => trees'[r] = trees[r]
          /\ Grows(trees, trees')
          /\ NewKey(list) \in DOMAIN trees'[1].entries
      <4>1. HasEntryMore(trees', trees, 1, NewKey(list), row)
        BY <1>3, <2>5, <3>4, EntryMore
      <4>2. QED
        BY <4>1 DEF HasEntryMore, IsPut
    <3>6. NewKey(list) \in DOMAIN trees'[1].entries
      BY <3>5
    <3>7. FileStep(trees, trees', list)
      BY <3>2, <3>3, <3>5, <3>6 DEF FileStep
    <3>8. Listed(trees', list, type, table_name, Len(trees'), sql)
      BY <3>3, <3>5 DEF Listed, x
    <3>9. NewTree(trees', list, type, table_name, sql, stmt.pc + 1)
      BY <1>11, <3>5, <3>8 DEF NewTree, Registers
    <3>10. RowRegisters(list, type, table_name, Len(trees'), sql, stmt.pc + 1, stmt.reg)
           /\ IsOn(stmt.cursors, 0, 1)
      BY <1>11, <3>5 DEF Registers, RowRegisters
    <3>11. Registers(trees', list, type, table_name, sql, stmt.pc + 1, stmt.reg, stmt.cursors)
      BY <3>9, <3>10 DEF Registers
    <3>12. QED
      BY <2>5, <3>5, <3>7, <3>11, Zenon DEF Done
  <2>6. QED
    BY <2>3, <2>4, <2>5
<1>12. CASE stmt.pc = 10
  <2>1. op.opcode = "Close"
    BY <1>2, <1>12 DEF Op
  <2> DEFINE left == [c \in DOMAIN stmt.cursors \ {op.p1} |-> stmt.cursors[c]]
  <2>2. Goes(stmt.pc + 1, stmt.reg, left) /\ UNCHANGED trees
    BY <2>1, CloseGoes
  <2> HIDE DEF left
  <2>3. Registers(trees, list, type, table_name, sql, stmt.pc + 1, stmt.reg, left)
    BY <1>12 DEF Registers, RowRegisters, NewTree
  <2>4. QED
    BY <1>4, <2>2, <2>3, Zenon
<1>13. QED
  BY <1>6, <1>7, <1>8, <1>9, <1>10, <1>11, <1>12

(* Programs put together.                                                  *)
IsJoin(code, a, p, b, q) ==
    /\ Len(code) = p + q
    /\ \A i \in 1 .. p : code[i] = a[i]
    /\ \A i \in 1 .. q : code[p + i] = b[i]

(* Where the instructions of two lists are when they are joined.            *)
LEMMA Joined ==
  ASSUME NEW p \in Nat, NEW q \in Nat, NEW a, NEW b, IsList(a, p), IsList(b, q)
  PROVE  IsJoin(a \o b, a, p, b, q)
<1> DEFINE All == {a[i] : i \in 1 .. p} \cup {b[i] : i \in 1 .. q}
<1>1. a \in [1 .. p -> All] /\ b \in [1 .. q -> All]
  BY Zenon DEF IsList
<1>2. Len(a) = p /\ Len(b) = q
  BY ListLength
<1> HIDE DEF All
<1>3. a \in Seq(All) /\ b \in Seq(All)
  BY <1>1
<1>4. Len(a \o b) = p + q
  BY <1>2, <1>3
<1>5. ASSUME NEW i \in 1 .. p PROVE (a \o b)[i] = a[i]
  BY <1>2, <1>3
<1>6. ASSUME NEW i \in 1 .. q PROVE (a \o b)[p + i] = b[i]
  BY <1>2, <1>3
<1>7. QED
  BY <1>4, <1>5, <1>6 DEF IsJoin

IsLonger(code, a, n, o) ==
    /\ Len(code) = n + 1 /\ code[n + 1] = o
    /\ \A i \in 1 .. n : code[i] = a[i]

(* Where they are when one more follows.                                    *)
LEMMA Appended ==
  ASSUME NEW n \in Nat, NEW a, IsList(a, n), NEW o
  PROVE  IsLonger(Append(a, o), a, n, o)
<1> DEFINE All == {a[i] : i \in 1 .. n} \cup {o}
<1>1. a \in [1 .. n -> All] /\ o \in All
  BY Zenon DEF IsList
<1>2. Len(a) = n
  BY ListLength
<1> HIDE DEF All
<1>3. a \in Seq(All)
  BY <1>1
<1>4. QED
  BY <1>1, <1>2, <1>3 DEF IsLonger

(* emit_schema_row gives eleven instructions.                               *)
LEMMA RowCode ==
  ASSUME NEW create, NEW type, NEW table_name, NEW sql, NEW key
  PROVE  IsList(emit_schema_row(create, type, table_name, sql, key), 11)
<1> DEFINE code == emit_schema_row(create, type, table_name, sql, key)
<1>1. DOMAIN code = 1 .. 11
  BY DEF emit_schema_row
<1>2. code = [i \in DOMAIN code |-> code[i]]
  BY DEF emit_schema_row
<1>3. QED
  BY <1>1, <1>2, Zenon DEF IsList
-----------------------------------------------------------------------------
(* CREATE TABLE.                                                           *)

Registered(file, list, sql) ==
    \E x \in Items(file) : x.sql = sql /\ x.key = NewKey(list)

(* A row of the schema table is an object of the file.                      *)
LEMMA ListedIsRegistered ==
  ASSUME NEW file, NEW list, NEW type, NEW table_name, NEW root, NEW sql,
         Listed(file, list, type, table_name, root, sql)
  PROVE  Registered(file, list, sql)
BY DEF Listed, Registered, schema_item, Row, SchemaRow, Str, Int32

TableCode(list, sql, ops) ==
    /\ MayRegister(list, "table", sql.name, sql)
    /\ ops = Append(emit_schema_row("CreateTable", "table", sql.name, sql,
                                    schema_next_key(list)),
                    Op("Halt", 0, 0, 0))

TableAt(file, list, sql, pc, regs, cursors) ==
    /\ pc \in 0 .. 12
    /\ pc <= 11 => Registers(file, list, "table", sql.name, sql, pc, regs, cursors)
    /\ pc = 12 => Registered(file, list, sql)

(* The program of a CREATE TABLE.                                           *)
LEMMA TableCodeIs ==
  ASSUME NEW list, NEW sql, NEW ops, TableCode(list, sql, ops)
  PROVE  /\ Len(ops) = 12
         /\ Begins(ops, list, "table", sql.name, sql)
         /\ ops[12] = Op("Halt", 0, 0, 0)
<1> DEFINE a == emit_schema_row("CreateTable", "table", sql.name, sql, schema_next_key(list))
           halt == Op("Halt", 0, 0, 0)
<1>1. IsList(a, 11)
  BY RowCode
<1>2. ops = Append(a, halt)
  BY DEF TableCode
<1> HIDE DEF a, halt
<1>6. Len(Append(a, halt)) = 12 /\ Append(a, halt)[12] = halt
      /\ \A i \in 1 .. 11 : Append(a, halt)[i] = a[i]
  <2>1. IsLonger(Append(a, halt), a, 11, halt)
    BY <1>1, Appended
  <2>2. QED
    BY <2>1 DEF IsLonger
<1>7. Begins(ops, list, "table", sql.name, sql)
  BY <1>2, <1>6 DEF Begins, a
<1>8. QED
  BY <1>2, <1>6, <1>7 DEF halt

(* A CREATE TABLE, one instruction on.                                      *)
LEMMA TableGoes ==
  ASSUME Runner, Handle, Whole(trees), NEW list, Current(list, trees), NEW sql,
         TableCode(list, sql, stmt.ops),
         TableAt(trees, list, sql, stmt.pc, stmt.reg, stmt.cursors)
  PROVE  /\ FileStep(trees, trees', list)
         /\ \/ Stops(ECONSTRAINT)
            \/ \E pc, regs, cursors :
                 Goes(pc, regs, cursors) /\ TableAt(trees', list, sql, pc, regs, cursors)
<1>1. /\ Len(stmt.ops) = 12
      /\ Begins(stmt.ops, list, "table", sql.name, sql)
      /\ stmt.ops[12] = Op("Halt", 0, 0, 0)
  BY TableCodeIs
<1>2. stmt.pc \in 0 .. 11
  BY <1>1, HandlerOf DEF Fetched, endOp, TableAt
<1>3. Registers(trees, list, "table", sql.name, sql, stmt.pc, stmt.reg, stmt.cursors)
  BY <1>2 DEF TableAt
<1>4. CASE stmt.pc \in 0 .. 10
  <2>1. /\ FileStep(trees, trees', list)
        /\ \/ Stops(ECONSTRAINT)
           \/ \E regs, cursors :
                /\ Goes(stmt.pc + 1, regs, cursors)
                /\ Registers(trees', list, "table", sql.name, sql, stmt.pc + 1, regs, cursors)
    BY <1>1, <1>3, <1>4, CreateRow DEF TableCode
  <2>2. ASSUME NEW regs, NEW cursors,
               Registers(trees', list, "table", sql.name, sql, stmt.pc + 1, regs, cursors)
        PROVE  TableAt(trees', list, sql, stmt.pc + 1, regs, cursors)
    BY <1>4, <2>2 DEF TableAt
  <2>3. QED
    BY <2>1, <2>2, Zenon
<1>5. CASE stmt.pc = 11
  <2>1. op.opcode = "Halt"
    BY <1>1, <1>5 DEF op, Op
  <2>2. Goes(Len(stmt.ops), stmt.reg, stmt.cursors) /\ UNCHANGED trees
    BY <2>1, HaltGoes
  <2>3. Registered(trees, list, sql)
    BY <1>3, <1>5, ListedIsRegistered DEF Registers, NewTree
  <2>4. TableAt(trees, list, sql, Len(stmt.ops), stmt.reg, stmt.cursors)
    BY <1>1, <2>3 DEF TableAt
  <2>5. QED
    BY <2>2, <2>4, NothingStepped, Zenon
<1>6. QED
  BY <1>2, <1>4, <1>5
-----------------------------------------------------------------------------
(* Entries of indexes, one by one.                                         *)

HoldsEntry(file, root, v, k) ==
    v \in DOMAIN file[root].entries /\ file[root].entries[v] = k

(* A file that grows keeps the entries of a tree.                           *)
LEMMA HoldsGrow ==
  ASSUME NEW file, NEW after, Grows(file, after), NEW root \in DOMAIN file, NEW v, NEW k,
         HoldsEntry(file, root, v, k)
  PROVE  HoldsEntry(after, root, v, k)
BY DEF Grows, TreeGrows, HoldsEntry

(* In a sound file an index of a name is on the one table of that name.    *)
LEMMA TableIsOne ==
  ASSUME NEW file, Whole(file), NEW t \in Items(file), t.type = "table",
         NEW x, x.table_name = t.name
  PROVE  TableOf(file, x) = t
<1>1. IsSchema(schema_load(file)) /\ ToSet(schema_load(file)) = Items(file)
  BY FileShape DEF Whole
<1>2. tables_named(schema_load(file), t.name)[1] = t
  BY <1>1, OneTableOfName DEF Whole
<1>3. QED
  BY <1>2 DEF TableOf

(* The entry that a row should have in an index may be added to it.        *)
WantedValue(t, x, file, k) ==
    IndexedValue(t.sql.columns, x.sql.column_name, k, file[t.root_page].entries[k])

(* The entry of a row leaves the file whole.                                *)
LEMMA WantedEntryAdded ==
  ASSUME NEW file, Whole(file), NEW x \in Items(file), x.type = "index",
         NEW t \in Items(file), t.type = "table", x.table_name = t.name,
         NEW k \in DOMAIN file[t.root_page].entries,
         NEW v, v = WantedValue(t, x, file, k), v \notin DOMAIN file[x.root_page].entries
  PROVE  LET after == WithEntry(file, x.root_page, v, k)
         IN  /\ Whole(after) /\ Items(after) = Items(file)
             /\ HasEntryMore(after, file, x.root_page, v, k)
             /\ HoldsEntry(after, x.root_page, v, k)
<1> DEFINE root == x.root_page
           after == WithEntry(file, root, v, k)
<1>1. IsFile(file) /\ SchemaIsSound(file)
  BY DEF Whole
<1>2. x \in IndexItems(file)
  BY DEF IndexItems
<1>3. root \in DOMAIN file \ {1} /\ file[root].index
  <2>1. root \in 2 .. Len(file) /\ root \in DOMAIN file /\ file[root].index
    BY <1>1, TablesOfFile
  <2>2. QED
    BY <2>1
<1>4. TableOf(file, x) = t
  BY TableIsOne
<1>5. <<v, k>> \in RowEntries(file, x)
  BY <1>4, RowEntriesAre DEF RowEntry, WantedValue
<1>6. \A y \in IndexItems(file) : y.root_page = root => y = x
  BY <1>1 DEF SchemaIsSound, IndexItems
<1>7. \A y \in IndexItems(file) : y.root_page = root => <<v, k>> \in RowEntries(file, y)
  BY <1>5, <1>6
<1>8. Whole(after) /\ Items(after) = Items(file)
  BY <1>3, <1>7, EntryKeepsWhole
<1>9. HasEntryMore(after, file, root, v, k)
  BY <1>1, <1>3, EntryMore
<1> HIDE DEF after
<1>10. HoldsEntry(after, root, v, k)
  BY <1>9 DEF HasEntryMore, IsPut, HoldsEntry
<1>11. QED
  BY <1>8, <1>9, <1>10 DEF after

(* All that stays when an entry is added elsewhere.                        *)
LEMMA EntryIsStep ==
  ASSUME NEW file, NEW after, NEW list, NEW root, NEW v, NEW k,
         Whole(after), Items(after) = Items(file), HasEntryMore(after, file, root, v, k)
  PROVE  FileStep(file, after, list)
BY DEF FileStep, HasEntryMore
-----------------------------------------------------------------------------
(* CREATE INDEX.                                                           *)

TableOn(list, sql) == tables_named(list, sql.table_name)[1]
ColumnOn(list, sql) == column_index_by_name(TableOn(list, sql).sql.columns, sql.column_name)

FillCode(list, sql) ==
    << Op("OpenWrite", 2, 4, 0),
       Op("Integer", TableOn(list, sql).root_page, 8, 0),
       Op("OpenRead", 1, 8, Len(TableOn(list, sql).sql.columns)),
       Op("Rewind", 1, 19, 0),
       emit_column(1, TableOn(list, sql).sql.columns, ColumnOn(list, sql), 9),
       Op("Key", 1, 10, 0),
       Op("IdxInsert", 2, 9, 10),
       Op("Next", 1, 15, 0),
       Op("Close", 1, 0, 0),
       Op("Close", 2, 0, 0),
       Op("Halt", 0, 0, 0) >>

IndexCode(list, sql, ops) ==
    /\ tables_named(list, sql.table_name) # <<>> /\ ColumnOn(list, sql) >= 0
    /\ ops = emit_schema_row("CreateIndex", "index", sql.table_name, sql, schema_next_key(list))
             \o FillCode(list, sql)

(* The program of a CREATE INDEX.                                           *)
LEMMA IndexCodeIs ==
  ASSUME NEW list, NEW sql, NEW ops, IndexCode(list, sql, ops)
  PROVE  /\ Len(ops) = 22
         /\ Begins(ops, list, "index", sql.table_name, sql)
         /\ \A i \in 1 .. 11 : ops[11 + i] = FillCode(list, sql)[i]
<1> DEFINE a == emit_schema_row("CreateIndex", "index", sql.table_name, sql, schema_next_key(list))
           b == FillCode(list, sql)
<1>1. IsList(a, 11)
  BY RowCode
<1>2. IsList(b, 11)
  <2>1. DOMAIN b = 1 .. 11 /\ b = [i \in DOMAIN b |-> b[i]]
    BY DEF FillCode
  <2>2. QED
    BY <2>1, Zenon DEF IsList
<1>3. ops = a \o b
  BY DEF IndexCode
<1> HIDE DEF a, b
<1>4. IsJoin(ops, a, 11, b, 11)
  BY <1>1, <1>2, <1>3, Joined
<1>5. Len(ops) = 22 /\ (\A i \in 1 .. 11 : ops[i] = a[i]) /\ \A i \in 1 .. 11 : ops[11 + i] = b[i]
  BY <1>4 DEF IsJoin
<1>6. Begins(ops, list, "index", sql.table_name, sql)
  BY <1>5 DEF Begins, a
<1>7. QED
  BY <1>5, <1>6 DEF b

(* The table that is indexed, in the file.                                 *)
LEMMA TableOnFacts ==
  ASSUME NEW file, Whole(file), NEW list, IsSchema(list), ToSet(list) \subseteq Items(file),
         NEW sql, tables_named(list, sql.table_name) # <<>>
  PROVE  LET t == TableOn(list, sql)
         IN  /\ t \in ToSet(list) /\ t \in Items(file)
             /\ t.type = "table" /\ t.name = sql.table_name
             /\ OnePrimaryKey(t.sql.columns)
             /\ t.root_page \in DOMAIN file \ {1} /\ ~file[t.root_page].index
             /\ DOMAIN file[t.root_page].entries \subseteq Keys
<1> DEFINE t == TableOn(list, sql)
<1>1. t \in ToSet(list) /\ IsTableNamed(t, sql.table_name)
  BY TablesNamed DEF TableOn
<1> HIDE DEF t
<1>2. t \in Items(file) /\ t.type = "table" /\ t.name = sql.table_name
  BY <1>1 DEF IsTableNamed
<1>3. /\ OnePrimaryKey(t.sql.columns)
      /\ t.root_page \in 2 .. Len(file) /\ t.root_page \in DOMAIN file
      /\ (file[t.root_page].index <=> t.type = "index")
      /\ DOMAIN file[t.root_page].entries \subseteq Keys
  BY <1>2, TablesOfFile DEF Whole
<1>4. t.root_page # 1
  BY <1>3
<1>5. QED
  BY <1>1, <1>2, <1>3, <1>4 DEF t

(* The entries of a tree in their order, as a cursor has them.              *)
IsInOrder(line, tree) ==
    /\ \E n \in Nat : DOMAIN line = 1 .. n /\ Len(line) = n
    /\ \A i \in DOMAIN line : line[i].key \in DOMAIN tree /\ line[i].val = tree[line[i].key]
    /\ \A k \in DOMAIN tree : \E i \in DOMAIN line : line[i].key = k

(* The cursor that is opened on a tree.                                     *)
LEMMA OpenedInOrder ==
  ASSUME NEW root, NEW tree, DOMAIN tree \subseteq Keys
  PROVE  /\ IsInOrder(Cursor_open(root, tree).entries, tree)
         /\ Cursor_open(root, tree).root = root
         /\ Cursor_open(root, tree) =
              [root |-> root, entries |-> Cursor_open(root, tree).entries, pos |-> 0]
<1>1. Cursor_open(root, tree).entries = InOrder(tree)
  BY DEF Cursor_open, collect
<1>2. /\ \E n \in Nat : DOMAIN InOrder(tree) = 1 .. n /\ Len(InOrder(tree)) = n
      /\ \A i \in DOMAIN InOrder(tree) :
           /\ InOrder(tree)[i].key \in DOMAIN tree
           /\ InOrder(tree)[i].val = tree[InOrder(tree)[i].key]
      /\ \A k \in DOMAIN tree :
           \E i \in DOMAIN InOrder(tree) : InOrder(tree)[i].key = k
  BY TreesInOrder
<1>3. IsInOrder(InOrder(tree), tree)
  <2> DEFINE line == InOrder(tree)
  <2>1. /\ \E n \in Nat : DOMAIN line = 1 .. n /\ Len(line) = n
        /\ \A i \in DOMAIN line : line[i].key \in DOMAIN tree /\ line[i].val = tree[line[i].key]
        /\ \A k \in DOMAIN tree : \E i \in DOMAIN line : line[i].key = k
    BY <1>2
  <2> HIDE DEF line
  <2>2. IsInOrder(line, tree)
    BY <2>1 DEF IsInOrder
  <2>3. QED
    BY <2>2 DEF line
<1>4. QED
  BY <1>1, <1>3 DEF Cursor_open, Unpositioned

(* The cursor on the table: it is over the table's entries, and on one.     *)
IsOver(cursors, c, tree) ==
    /\ c \in DOMAIN cursors
    /\ cursors[c] = [root |-> cursors[c].root, entries |-> cursors[c].entries,
                     pos |-> cursors[c].pos]
    /\ IsInOrder(cursors[c].entries, tree)
IsAt(cursors, c) == cursors[c].pos \in DOMAIN cursors[c].entries
KeyAt(cursors, c) == cursors[c].entries[cursors[c].pos].key

(* The entries that the index has, while it is filled.                      *)
Fills(file, list, sql, root, k) ==
    HoldsEntry(file, root, WantedValue(TableOn(list, sql), [sql |-> sql], file, k), k)

Filling(vw, file, list, sql, pc, regs, cursors) ==
    LET t == TableOn(list, sql)
        tree == file[t.root_page].entries
        root == Len(file)
    IN  /\ Listed(file, list, "index", sql.table_name, root, sql)
        /\ vw[t.root_page] = file[t.root_page]
        /\ Has(regs, 4, Int32(root))
        /\ pc = 13 => Has(regs, 8, Int32(t.root_page))
        /\ pc \in 12 .. 18 => IsOn(cursors, 2, root)
        /\ pc \in 14 .. 18 => IsOver(cursors, 1, tree)
        /\ pc \in 15 .. 18 =>
             /\ IsAt(cursors, 1)
             /\ \A i \in DOMAIN cursors[1].entries :
                  i < cursors[1].pos => Fills(file, list, sql, root, cursors[1].entries[i].key)
        /\ pc \in 16 .. 17 =>
             /\ 9 \in DOMAIN regs
             /\ chidb_key(regs[9].value) = WantedValue(t, [sql |-> sql], file, KeyAt(cursors, 1))
        /\ pc = 17 => regs[10].value = int32(KeyAt(cursors, 1))
        /\ pc = 18 => Fills(file, list, sql, root, KeyAt(cursors, 1))
        /\ pc >= 19 => \A k \in DOMAIN tree : Fills(file, list, sql, root, k)

IndexFilled(vw, file, list, sql) ==
    \E x \in IndexItems(file) :
      /\ x.sql = sql /\ x.key = NewKey(list)
      /\ RowEntries(vw, x) \subseteq IndexEntries(file, x)

IndexAt(vw, file, list, sql, pc, regs, cursors) ==
    /\ pc \in 0 .. 22
    /\ pc <= 10 =>
         /\ Registers(file, list, "index", sql.table_name, sql, pc, regs, cursors)
         /\ vw[TableOn(list, sql).root_page] = file[TableOn(list, sql).root_page]
    /\ pc \in 11 .. 21 => Filling(vw, file, list, sql, pc, regs, cursors)
    /\ pc = 22 => IndexFilled(vw, file, list, sql)

(* An index with an entry for each row of its table is filled.              *)
LEMMA AllFilled ==
  ASSUME NEW vw, Whole(vw), NEW file, Whole(file), NEW list, NEW sql,
         IsSchema(list), ToSet(list) \subseteq Items(file), ToSet(list) \subseteq Items(vw),
         tables_named(list, sql.table_name) # <<>>,
         Listed(file, list, "index", sql.table_name, Len(file), sql),
         vw[TableOn(list, sql).root_page] = file[TableOn(list, sql).root_page],
         \A k \in DOMAIN file[TableOn(list, sql).root_page].entries :
           Fills(file, list, sql, Len(file), k)
  PROVE  IndexFilled(vw, file, list, sql)
<1> DEFINE t == TableOn(list, sql)
           x == schema_item(NewKey(list), Row("index", sql.table_name, Len(file), sql))
           tree == file[t.root_page].entries
<1>1. /\ x.type = "index" /\ x.table_name = sql.table_name
      /\ x.root_page = Len(file) /\ x.sql = sql /\ x.key = NewKey(list)
  BY DEF schema_item, Row, SchemaRow, Str, Int32
<1>2. x \in Items(file)
  BY DEF Listed
<1> HIDE DEF x
<1>3. t \in Items(vw) /\ t.type = "table" /\ t.name = sql.table_name
  BY TableOnFacts
<1>4. TableOf(vw, x) = t
  BY <1>1, <1>3, TableIsOne
<1>5. RowEntries(vw, x) = {RowEntry(t, sql.column_name, k, tree[k]) : k \in DOMAIN tree}
  <2>1. RowEntries(vw, x) =
          {RowEntry(TableOf(vw, x), x.sql.column_name, k,
                    vw[TableOf(vw, x).root_page].entries[k]) :
             k \in DOMAIN vw[TableOf(vw, x).root_page].entries}
    BY RowEntriesAre
  <2>2. vw[t.root_page] = file[t.root_page]
    OBVIOUS
  <2>3. QED
    BY <1>1, <1>4, <2>1, <2>2
<1>6. IndexEntries(file, x) =
        {<<k, file[Len(file)].entries[k]>> : k \in DOMAIN file[Len(file)].entries}
  BY <1>1, RowEntriesAre
<1>7. ASSUME NEW k \in DOMAIN tree
      PROVE  RowEntry(t, sql.column_name, k, tree[k]) \in IndexEntries(file, x)
  <2> DEFINE v == IndexedValue(t.sql.columns, sql.column_name, k, tree[k])
  <2>1. Fills(file, list, sql, Len(file), k)
    BY <1>7
  <2>2. HoldsEntry(file, Len(file), v, k)
    BY <2>1 DEF Fills, WantedValue
  <2>3. RowEntry(t, sql.column_name, k, tree[k]) = <<v, k>>
    BY DEF RowEntry
  <2> HIDE DEF v
  <2>4. QED
    BY <1>6, <2>2, <2>3 DEF HoldsEntry
<1>8. RowEntries(vw, x) \subseteq IndexEntries(file, x)
  BY <1>5, <1>7
<1>9. QED
  BY <1>1, <1>2, <1>8 DEF IndexFilled, IndexItems

(* One instruction of the part that fills the index.                        *)
LEMMA FillGoes ==
  ASSUME Runner, Handle, Whole(trees), NEW vw, Whole(vw), NEW list, Current(list, trees),
         ToSet(list) \subseteq Items(vw), NEW sql, IndexCode(list, sql, stmt.ops),
         stmt.pc \in 11 .. 21,
         Filling(vw, trees, list, sql, stmt.pc, stmt.reg, stmt.cursors)
  PROVE  /\ FileStep(trees, trees', list)
         /\ \/ Stops(ECONSTRAINT)
            \/ \E pc \in 12 .. 21 : \E regs, cursors :
                 Goes(pc, regs, cursors) /\ Filling(vw, trees', list, sql, pc, regs, cursors)
            \/ \E regs, cursors :
                 Goes(22, regs, cursors) /\ IndexFilled(vw, trees', list, sql)
<1> DEFINE t == TableOn(list, sql)
           tree == trees[t.root_page].entries
           root == Len(trees)
           Done == /\ FileStep(trees, trees', list)
                   /\ \/ Stops(ECONSTRAINT)
                      \/ \E pc \in 12 .. 21 : \E regs, cursors :
                           /\ Goes(pc, regs, cursors)
                           /\ Filling(vw, trees', list, sql, pc, regs, cursors)
                      \/ \E regs, cursors :
                           Goes(22, regs, cursors) /\ IndexFilled(vw, trees', list, sql)
           Fine(pc, regs, cursors) == Filling(vw, trees, list, sql, pc, regs, cursors)
<1> SUFFICES Done
  OBVIOUS
<1>1. Len(stmt.ops) = 22 /\ \A i \in 1 .. 11 : stmt.ops[11 + i] = FillCode(list, sql)[i]
  BY IndexCodeIs
<1>2. /\ stmt.pc = 11 => op = Op("OpenWrite", 2, 4, 0)
      /\ stmt.pc = 12 => op = Op("Integer", t.root_page, 8, 0)
      /\ stmt.pc = 13 => op = Op("OpenRead", 1, 8, Len(t.sql.columns))
      /\ stmt.pc = 14 => op = Op("Rewind", 1, 19, 0)
      /\ stmt.pc = 15 => op = emit_column(1, t.sql.columns, ColumnOn(list, sql), 9)
      /\ stmt.pc = 16 => op = Op("Key", 1, 10, 0)
      /\ stmt.pc = 17 => op = Op("IdxInsert", 2, 9, 10)
      /\ stmt.pc = 18 => op = Op("Next", 1, 15, 0)
      /\ stmt.pc \in 19 .. 20 => op.opcode = "Close"
      /\ stmt.pc = 21 => op = Op("Halt", 0, 0, 0)
  <2>1. op = FillCode(list, sql)[stmt.pc - 10]
    <3>1. stmt.pc - 10 \in 1 .. 11 /\ 11 + (stmt.pc - 10) = stmt.pc + 1
      OBVIOUS
    <3>2. stmt.ops[11 + (stmt.pc - 10)] = FillCode(list, sql)[stmt.pc - 10]
      BY <1>1, <3>1, Zenon
    <3>3. QED
      BY <3>1, <3>2 DEF op
  <2>2. /\ FillCode(list, sql)[1] = Op("OpenWrite", 2, 4, 0)
        /\ FillCode(list, sql)[2] = Op("Integer", t.root_page, 8, 0)
        /\ FillCode(list, sql)[3] = Op("OpenRead", 1, 8, Len(t.sql.columns))
        /\ FillCode(list, sql)[4] = Op("Rewind", 1, 19, 0)
        /\ FillCode(list, sql)[5] = emit_column(1, t.sql.columns, ColumnOn(list, sql), 9)
        /\ FillCode(list, sql)[6] = Op("Key", 1, 10, 0)
        /\ FillCode(list, sql)[7] = Op("IdxInsert", 2, 9, 10)
        /\ FillCode(list, sql)[8] = Op("Next", 1, 15, 0)
        /\ FillCode(list, sql)[9] = Op("Close", 1, 0, 0)
        /\ FillCode(list, sql)[10] = Op("Close", 2, 0, 0)
        /\ FillCode(list, sql)[11] = Op("Halt", 0, 0, 0)
    BY DEF FillCode
  <2>3. /\ stmt.pc = 19 => op = Op("Close", 1, 0, 0)
        /\ stmt.pc = 20 => op = Op("Close", 2, 0, 0)
    BY <2>1, <2>2
  <2>4. stmt.pc \in 19 .. 20 => op.opcode = "Close"
    BY <2>3 DEF Op
  <2>5. /\ stmt.pc = 11 => op = FillCode(list, sql)[1]
        /\ stmt.pc = 12 => op = FillCode(list, sql)[2]
        /\ stmt.pc = 13 => op = FillCode(list, sql)[3]
        /\ stmt.pc = 14 => op = FillCode(list, sql)[4]
        /\ stmt.pc = 15 => op = FillCode(list, sql)[5]
        /\ stmt.pc = 16 => op = FillCode(list, sql)[6]
        /\ stmt.pc = 17 => op = FillCode(list, sql)[7]
        /\ stmt.pc = 18 => op = FillCode(list, sql)[8]
        /\ stmt.pc = 21 => op = FillCode(list, sql)[11]
    BY <2>1
  <2>6. QED
    BY <2>2, <2>4, <2>5, Zenon
<1>3. /\ IsSchema(list) /\ ToSet(list) \subseteq Items(trees)
      /\ tables_named(list, sql.table_name) # <<>>
  BY DEF Current, IndexCode
<1>4. /\ t \in Items(trees) /\ t.type = "table" /\ t.name = sql.table_name
      /\ OnePrimaryKey(t.sql.columns)
      /\ t.root_page \in DOMAIN trees \ {1} /\ ~trees[t.root_page].index
      /\ DOMAIN tree \subseteq Keys
  BY <1>3, TableOnFacts
<1> HIDE DEF t, root
<1>5. /\ Listed(trees, list, "index", sql.table_name, root, sql)
      /\ vw[t.root_page] = trees[t.root_page]
      /\ Has(stmt.reg, 4, Int32(root))
  BY DEF Filling, t, root
<1>6. ASSUME UNCHANGED trees, NEW pc \in 12 .. 21, NEW regs, NEW cursors,
             Goes(pc, regs, cursors), Fine(pc, regs, cursors)
      PROVE  Done
  BY <1>6, NothingStepped, Zenon
<1> HIDE DEF Done
<1>7. ASSUME NEW regs, NEW r, r # 4, NEW v, regs = Put(stmt.reg, r, v)
      PROVE  Has(regs, 4, Int32(root))
  BY <1>5, <1>7, PutHas
<1>8. CASE stmt.pc = 11
  <2> DEFINE c == Cursor_open(reg(op.p2), trees[reg(op.p2)].entries)
  <2>1. op.opcode \in Opens /\ op.p1 = 2 /\ op.p2 = 4
    BY <1>2, <1>8 DEF Op, Opens
  <2>2. Goes(stmt.pc + 1, stmt.reg, Put(stmt.cursors, op.p1, c)) /\ UNCHANGED trees
    BY <2>1, OpenGoes
  <2>3. c.root = root
    BY <1>5, <2>1 DEF Has, reg, Int32, Cursor_open
  <2> HIDE DEF c
  <2>4. IsOn(Put(stmt.cursors, op.p1, c), 2, root)
    BY <2>1, <2>3, PutHas
  <2>5. Fine(12, stmt.reg, Put(stmt.cursors, op.p1, c))
    BY <1>5, <2>4 DEF Filling, t, root
  <2>6. Goes(12, stmt.reg, Put(stmt.cursors, op.p1, c)) /\ 12 \in 12 .. 21
    BY <1>8, <2>2
  <2>7. QED
    BY <1>6, <2>2, <2>5, <2>6, Zenon
<1>9. CASE stmt.pc = 12
  <2>1. op.opcode = "Integer" /\ op.p1 = t.root_page /\ op.p2 = 8
    BY <1>2, <1>9 DEF Op
  <2> DEFINE regs == Put(stmt.reg, op.p2, Int32(op.p1))
  <2>2. Goes(stmt.pc + 1, regs, stmt.cursors) /\ UNCHANGED trees
    BY <2>1, LoadGoes
  <2>3. Has(regs, 8, Int32(t.root_page)) /\ Has(regs, 4, Int32(root))
    BY <1>5, <2>1, PutHas
  <2> HIDE DEF regs
  <2>4. IsOn(stmt.cursors, 2, root)
    BY <1>9 DEF Filling, root
  <2>5. Fine(13, regs, stmt.cursors)
    BY <1>5, <2>3, <2>4 DEF Filling, t, root
  <2>6. Goes(13, regs, stmt.cursors) /\ 13 \in 12 .. 21
    BY <1>9, <2>2
  <2>7. QED
    BY <1>6, <2>2, <2>5, <2>6, Zenon
<1>10. CASE stmt.pc = 13
  <2> DEFINE c == Cursor_open(reg(op.p2), trees[reg(op.p2)].entries)
             cursors == Put(stmt.cursors, op.p1, c)
  <2>1. op.opcode \in Opens /\ op.p1 = 1 /\ op.p2 = 8
    BY <1>2, <1>10 DEF Op, Opens
  <2>2. Goes(stmt.pc + 1, stmt.reg, cursors) /\ UNCHANGED trees
    BY <2>1, OpenGoes
  <2>3. reg(op.p2) = t.root_page
    BY <1>10, <2>1 DEF Filling, Has, reg, Int32, t
  <2>4. c = Cursor_open(t.root_page, tree)
    BY <2>3
  <2> HIDE DEF c
  <2>5. /\ IsInOrder(c.entries, tree)
        /\ c = [root |-> t.root_page, entries |-> c.entries, pos |-> 0]
    BY <1>4, <2>4, OpenedInOrder
  <2>6. IsOver(cursors, 1, tree)
    <3>1. Has(cursors, 1, c)
      BY <2>1, PutHas
    <3> HIDE DEF cursors
    <3>2. QED
      BY <2>5, <3>1 DEF IsOver, Has
  <2>7. IsOn(cursors, 2, root)
    <3>1. IsOn(stmt.cursors, 2, root)
      BY <1>10 DEF Filling, root
    <3>2. QED
      BY <2>1, <3>1, PutHas
  <2> HIDE DEF cursors
  <2>8. Fine(14, stmt.reg, cursors)
    BY <1>5, <2>6, <2>7 DEF Filling, t, root
  <2>9. Goes(14, stmt.reg, cursors) /\ 14 \in 12 .. 21
    BY <1>10, <2>2
  <2>10. QED
    BY <1>6, <2>2, <2>8, <2>9, Zenon
<1>11. CASE stmt.pc \in 14 .. 18
  <2>1. IsOn(stmt.cursors, 2, root) /\ IsOver(stmt.cursors, 1, tree)
    BY <1>11 DEF Filling, t, root
  <2>2. ASSUME NEW regs, NEW pos, op.p1 = 1, Has(regs, 4, Int32(root)),
               pos \in DOMAIN stmt.cursors[1].entries,
               \A i \in DOMAIN stmt.cursors[1].entries :
                 i < pos => Fills(trees, list, sql, root, stmt.cursors[1].entries[i].key)
        PROVE  Fine(15, regs, Moved(pos))
    <3> DEFINE cursors == Moved(pos)
               c == MoveTo(stmt.cursors[1], pos)
    <3>1. Has(cursors, 1, c)
      BY <2>2, PutHas DEF Moved, cursor
    <3>2. IsOn(cursors, 2, root)
      BY <2>1, <2>2, PutHas DEF Moved
    <3>3. c = [root |-> stmt.cursors[1].root, entries |-> stmt.cursors[1].entries, pos |-> pos]
      BY <2>1 DEF MoveTo, IsOver
    <3> HIDE DEF cursors, c
    <3>4. /\ 1 \in DOMAIN cursors
          /\ cursors[1] = [root |-> cursors[1].root, entries |-> cursors[1].entries,
                           pos |-> cursors[1].pos]
          /\ cursors[1].entries = stmt.cursors[1].entries /\ cursors[1].pos = pos
      BY <3>1, <3>3 DEF Has
    <3>5. IsOver(cursors, 1, tree)
      BY <2>1, <3>4 DEF IsOver
    <3>6. /\ IsAt(cursors, 1)
          /\ \A i \in DOMAIN cursors[1].entries :
               i < cursors[1].pos => Fills(trees, list, sql, root, cursors[1].entries[i].key)
      BY <2>2, <3>4 DEF IsAt
    <3>7. Fine(15, regs, cursors)
      BY <1>5, <2>2, <3>2, <3>5, <3>6 DEF Filling, t, root
    <3>8. QED
      BY <3>7 DEF cursors
  <2>3. ASSUME \A k \in DOMAIN tree : Fills(trees, list, sql, root, k)
        PROVE  Fine(19, stmt.reg, stmt.cursors)
    BY <1>5, <2>3 DEF Filling, t, root
  <2>4. PICK n \in Nat : DOMAIN stmt.cursors[1].entries = 1 .. n /\ Len(stmt.cursors[1].entries) = n
    BY <2>1 DEF IsOver, IsInOrder
  <2>5. /\ \A i \in DOMAIN stmt.cursors[1].entries :
             /\ stmt.cursors[1].entries[i].key \in DOMAIN tree
             /\ stmt.cursors[1].entries[i].val = tree[stmt.cursors[1].entries[i].key]
        /\ \A k \in DOMAIN tree : \E i \in DOMAIN stmt.cursors[1].entries :
             stmt.cursors[1].entries[i].key = k
    <3>1. IsInOrder(stmt.cursors[1].entries, tree)
      BY <2>1 DEF IsOver
    <3>2. QED
      BY <3>1, Zenon DEF IsInOrder
  <2>6. 15 \in 12 .. 21 /\ 16 \in 12 .. 21 /\ 17 \in 12 .. 21 /\ 18 \in 12 .. 21 /\ 19 \in 12 .. 21
    OBVIOUS
  <2>7. CASE stmt.pc = 14
    <3>1. op.opcode = "Rewind" /\ op.p1 = 1 /\ op.p2 = 19
      BY <1>2, <2>7 DEF Op
    <3>2. /\ UNCHANGED trees
          /\ cursor.entries = <<>> => Goes(op.p2, stmt.reg, stmt.cursors)
          /\ cursor.entries # <<>> => Goes(stmt.pc + 1, stmt.reg, Moved(1))
      BY <3>1, RewindGoes
    <3>3. cursor = stmt.cursors[1]
      BY <3>1 DEF cursor
    <3>4. CASE cursor.entries = <<>>
      <4>1. DOMAIN stmt.cursors[1].entries = {}
        BY <3>3, <3>4
      <4>2. Fine(19, stmt.reg, stmt.cursors)
        BY <2>3, <2>5, <4>1
      <4>3. Goes(19, stmt.reg, stmt.cursors)
        BY <3>1, <3>2, <3>4
      <4>4. QED
        BY <1>6, <2>6, <3>2, <4>2, <4>3, Zenon
    <3>5. CASE cursor.entries # <<>>
      <4>1. 1 \in DOMAIN stmt.cursors[1].entries
        <5>1. n # 0
          <6>1. ASSUME n = 0 PROVE stmt.cursors[1].entries = <<>>
            BY <2>4, <6>1
          <6>2. QED
            BY <3>3, <3>5, <6>1
        <5>2. QED
          BY <2>4, <5>1
      <4>2. \A i \in DOMAIN stmt.cursors[1].entries : ~(i < 1)
        BY <2>4
      <4>3. Fine(15, stmt.reg, Moved(1))
        BY <1>5, <2>2, <3>1, <4>1, <4>2
      <4>4. Goes(15, stmt.reg, Moved(1))
        BY <2>7, <3>2, <3>5
      <4>5. QED
        BY <1>6, <2>6, <3>2, <4>3, <4>4, Zenon
    <3>6. QED
      BY <3>4, <3>5
  <2>8. CASE stmt.pc \in 15 .. 18
    <3> DEFINE c == stmt.cursors[1]
               k == KeyAt(stmt.cursors, 1)
    <3>1. /\ IsAt(stmt.cursors, 1)
          /\ \A i \in DOMAIN c.entries : i < c.pos => Fills(trees, list, sql, root, c.entries[i].key)
      BY <2>8 DEF Filling, root
    <3>2. /\ k \in DOMAIN tree /\ Entry(c).key = k /\ Entry(c).val = tree[k]
          /\ c.pos \in 1 .. n
      <4>1. c.pos \in DOMAIN c.entries /\ k = c.entries[c.pos].key
        BY <3>1 DEF IsAt, KeyAt
      <4>2. /\ c.entries[c.pos].key \in DOMAIN tree
            /\ c.entries[c.pos].val = tree[c.entries[c.pos].key]
        BY <2>5, <4>1, Zenon
      <4> HIDE DEF c, k
      <4>3. QED
        BY <2>4, <4>1, <4>2 DEF Entry, c
    <3>3. k \in Keys
      BY <1>4, <3>2
    <3>4. int32(k) \in Int /\ chidb_key(int32(k)) = k
      BY <3>3, KeysComeBack
    <3> HIDE DEF c, k
    <3>5. CASE stmt.pc = 15
      <4> DEFINE columns == t.sql.columns
                 w == FullRow(columns, k, tree[k])[ColumnOn(list, sql) + 1]
                 regs == Put(stmt.reg, 9, w)
      <4>1. ColumnOn(list, sql) + 1 \in DOMAIN columns
        BY <1>4, ColumnsByName DEF IndexCode, ColumnOn, t
      <4>2. w = IF columns[ColumnOn(list, sql) + 1].pk THEN Int32(int32(k))
                ELSE tree[k][ColumnOn(list, sql) + 1]
        BY <4>1 DEF FullRow
      <4>3. chidb_key(w.value) = WantedValue(t, [sql |-> sql], trees, k)
        BY DEF WantedValue, IndexedValue, ColumnOn, t
      <4>4. op = IF columns[ColumnOn(list, sql) + 1].pk THEN Op("Key", 1, 9, 0)
                 ELSE Op("Column", 1, ColumnOn(list, sql), 9)
        BY <1>2, <3>5 DEF emit_column, column_is_primary_key
      <4>5. cursor = c
        BY <4>4 DEF cursor, c, Op
      <4> HIDE DEF w
      <4>6. Goes(stmt.pc + 1, regs, stmt.cursors) /\ UNCHANGED trees
        <5>1. CASE columns[ColumnOn(list, sql) + 1].pk
          <6>1. op.opcode = "Key" /\ op.p2 = 9
            BY <4>4, <5>1 DEF Op
          <6>2. w = Int32(int32(Entry(cursor).key))
            BY <3>2, <4>2, <4>5, <5>1
          <6>3. QED
            BY <6>1, <6>2, KeyGoes
        <5>2. CASE ~columns[ColumnOn(list, sql) + 1].pk
          <6>1. op.opcode = "Column" /\ op.p3 = 9 /\ op.p2 = ColumnOn(list, sql)
            BY <4>4, <5>2 DEF Op
          <6>2. w = Entry(cursor).val[op.p2 + 1]
            BY <3>2, <4>2, <4>5, <5>2, <6>1
          <6>3. QED
            BY <6>1, <6>2, ColumnGoes
        <5>3. QED
          BY <5>1, <5>2
      <4>7. Has(regs, 4, Int32(root)) /\ Has(regs, 9, w)
        <5>1. 9 # 4
          OBVIOUS
        <5>2. QED
          BY <1>7, <5>1, PutHas
      <4> HIDE DEF regs
      <4>8. Fine(16, regs, stmt.cursors)
        BY <1>5, <2>1, <3>1, <4>3, <4>7 DEF Filling, Has, t, root, c, k
      <4>9. Goes(16, regs, stmt.cursors)
        BY <3>5, <4>6
      <4>10. QED
        BY <1>6, <2>6, <4>6, <4>8, <4>9, Zenon
    <3>6. CASE stmt.pc = 16
      <4> DEFINE regs == Put(stmt.reg, 10, Int32(int32(k)))
      <4>1. op.opcode = "Key" /\ op.p1 = 1 /\ op.p2 = 10
        BY <1>2, <3>6 DEF Op
      <4>2. Entry(cursor).key = k
        BY <3>2, <4>1 DEF cursor, c
      <4>3. Goes(stmt.pc + 1, regs, stmt.cursors) /\ UNCHANGED trees
        BY <4>1, <4>2, KeyGoes
      <4>4. chidb_key(stmt.reg[9].value) = WantedValue(t, [sql |-> sql], trees, k)
        BY <3>6 DEF Filling, t, k
      <4>5. /\ Has(regs, 4, Int32(root)) /\ Has(regs, 10, Int32(int32(k)))
            /\ regs[9] = stmt.reg[9] \/ 9 \notin DOMAIN stmt.reg
        <5>1. 10 # 4 /\ 9 # 10
          OBVIOUS
        <5>2. Has(regs, 4, Int32(root)) /\ Has(regs, 10, Int32(int32(k)))
          BY <1>7, <5>1, PutHas
        <5>3. IsPut(regs, stmt.reg, 10, Int32(int32(k)))
          BY PutIs
        <5> HIDE DEF regs
        <5>4. QED
          BY <5>1, <5>2, <5>3, Zenon DEF IsPut
      <4>6. 9 \in DOMAIN stmt.reg
        BY <3>6 DEF Filling
      <4> HIDE DEF regs
      <4>7. Fine(17, regs, stmt.cursors)
        <5>1. 9 \in DOMAIN regs /\ regs[9] = stmt.reg[9]
          <6>1. IsPut(regs, stmt.reg, 10, Int32(int32(k)))
            BY PutIs DEF regs
          <6>2. QED
            BY <4>5, <4>6, <6>1 DEF IsPut
        <5>2. regs[10].value = int32(k)
          BY <4>5 DEF Has, Int32
        <5>3. QED
          BY <1>5, <2>1, <3>1, <4>4, <4>5, <5>1, <5>2 DEF Filling, t, root, c, k
      <4>8. Goes(17, regs, stmt.cursors)
        BY <3>6, <4>3
      <4>9. QED
        BY <1>6, <2>6, <4>3, <4>7, <4>8, Zenon
    <3>7. CASE stmt.pc = 17
      <4> DEFINE v == WantedValue(t, [sql |-> sql], trees, k)
                 x == schema_item(NewKey(list), Row("index", sql.table_name, root, sql))
                 after == WithEntry(trees, root, v, k)
      <4>1. op.opcode = "IdxInsert" /\ op.p1 = 2 /\ op.p2 = 9 /\ op.p3 = 10
        BY <1>2, <3>7 DEF Op
      <4>2. cursor.root = root
        BY <2>1, <4>1 DEF cursor, IsOn
      <4>3. chidb_key(reg(op.p2)) = v /\ chidb_key(reg(op.p3)) = k
        BY <3>4, <3>7, <4>1 DEF Filling, reg, t, k
      <4>4. /\ x \in Items(trees) /\ x.type = "index" /\ x.table_name = t.name
            /\ x.root_page = root /\ x.sql = sql
        BY <1>4, <1>5 DEF Listed, Row, SchemaRow, schema_item, Str, Int32
      <4>5. v = WantedValue(t, x, trees, k)
        BY <4>4 DEF WantedValue
      <4> HIDE DEF v, x
      <4>6. CASE v \in DOMAIN trees[root].entries
        <5>1. Stops(ECONSTRAINT) /\ UNCHANGED trees
          BY <4>1, <4>2, <4>3, <4>6, OpIdxInsertGoes
        <5>2. QED
          BY <5>1, NothingStepped, Zenon DEF Done
      <4>7. CASE v \notin DOMAIN trees[root].entries
        <5>1. trees' = after /\ Goes(stmt.pc + 1, stmt.reg, stmt.cursors)
          BY <4>1, <4>2, <4>3, <4>7, OpIdxInsertGoes
        <5>2. /\ Whole(after) /\ Items(after) = Items(trees)
              /\ HasEntryMore(after, trees, root, v, k)
              /\ HoldsEntry(after, root, v, k)
          BY <1>4, <3>2, <4>4, <4>5, <4>7, WantedEntryAdded
        <5> HIDE DEF after
        <5>3. FileStep(trees, after, list)
          BY <5>2, EntryIsStep
        <5>4. /\ root # t.root_page /\ after[t.root_page] = trees[t.root_page]
              /\ Len(after) = root /\ Grows(trees, after) /\ root \in DOMAIN trees
          <6>1. root \in DOMAIN trees /\ trees[root].index
            BY <4>4, TablesOfFile DEF Whole
          <6>2. QED
            BY <1>4, <5>2, <6>1 DEF HasEntryMore, root
        <5>5. ASSUME NEW q, Fills(trees, list, sql, root, q)
              PROVE  Fills(after, list, sql, root, q)
          <6>1. WantedValue(t, [sql |-> sql], after, q) = WantedValue(t, [sql |-> sql], trees, q)
            BY <5>4 DEF WantedValue
          <6>2. HoldsEntry(trees, root, WantedValue(t, [sql |-> sql], trees, q), q)
            BY <5>5 DEF Fills, t
          <6>3. HoldsEntry(after, root, WantedValue(t, [sql |-> sql], after, q), q)
            BY <5>4, <6>1, <6>2, HoldsGrow
          <6>4. QED
            BY <6>3 DEF Fills, t
        <5>6. Fills(after, list, sql, root, k)
          <6>1. WantedValue(t, [sql |-> sql], after, k) = v
            BY <5>4 DEF WantedValue, v
          <6>2. QED
            BY <5>2, <6>1 DEF Fills, t
        <5>7. \A i \in DOMAIN c.entries :
                i < c.pos => Fills(after, list, sql, root, c.entries[i].key)
          BY <3>1, <5>5
        <5>8. Listed(after, list, "index", sql.table_name, root, sql)
          BY <1>5, <5>2 DEF Listed
        <5>9. Filling(vw, after, list, sql, 18, stmt.reg, stmt.cursors)
          BY <1>5, <2>1, <3>1, <5>4, <5>6, <5>7, <5>8 DEF Filling, t, c, k
        <5>10. Goes(18, stmt.reg, stmt.cursors)
          BY <3>7, <5>1
        <5>11. QED
          BY <2>6, <5>1, <5>3, <5>9, <5>10, Zenon DEF Done
      <4>8. QED
        BY <4>6, <4>7
    <3>8. CASE stmt.pc = 18
      <4>1. op.opcode = "Next" /\ op.p1 = 1 /\ op.p2 = 15
        BY <1>2, <3>8 DEF Op
      <4>2. cursor = c /\ c.pos \in Nat
        BY <3>2, <4>1 DEF cursor, c
      <4>3. Fills(trees, list, sql, root, k) /\ k = c.entries[c.pos].key
        BY <3>8 DEF Filling, root, k, c, KeyAt
      <4>4. DOMAIN c.entries = 1 .. n /\ Len(c.entries) = n
        BY <2>4 DEF c
      <4>5. \A i \in DOMAIN c.entries :
              i < c.pos + 1 => Fills(trees, list, sql, root, c.entries[i].key)
        <5> SUFFICES ASSUME NEW i \in DOMAIN c.entries, i < c.pos + 1
                     PROVE  Fills(trees, list, sql, root, c.entries[i].key)
          OBVIOUS
        <5>1. i < c.pos \/ i = c.pos
          BY <4>2, <4>4
        <5>2. QED
          BY <3>1, <4>3, <5>1, Zenon
      <4>6. CASE c.pos < Len(c.entries)
        <5>1. c.pos + 1 \in DOMAIN c.entries
          BY <4>2, <4>4, <4>6
        <5>2. Fine(15, stmt.reg, Moved(c.pos + 1))
          BY <1>5, <2>2, <4>1, <4>5, <5>1 DEF c
        <5>3. Goes(15, stmt.reg, Moved(c.pos + 1)) /\ UNCHANGED trees
          BY <4>1, <4>2, <4>6, NextGoes
        <5>4. QED
          BY <1>6, <2>6, <5>2, <5>3, Zenon
      <4>7. CASE ~(c.pos < Len(c.entries))
        <5>1. Goes(19, stmt.reg, stmt.cursors) /\ UNCHANGED trees
          BY <3>8, <4>1, <4>2, <4>7, NextGoes
        <5>2. \A i \in DOMAIN c.entries : Fills(trees, list, sql, root, c.entries[i].key)
          BY <4>2, <4>4, <4>5, <4>7
        <5>3. \A q \in DOMAIN tree : Fills(trees, list, sql, root, q)
          BY <2>5, <5>2 DEF c
        <5>4. Fine(19, stmt.reg, stmt.cursors)
          BY <2>3, <5>3
        <5>5. QED
          BY <1>6, <2>6, <5>1, <5>4, Zenon
      <4>8. QED
        BY <4>6, <4>7
    <3>9. QED
      BY <2>8, <3>5, <3>6, <3>7, <3>8
  <2>9. QED
    BY <1>11, <2>7, <2>8
<1>12. CASE stmt.pc \in 19 .. 20
  <2> DEFINE left == [c \in DOMAIN stmt.cursors \ {op.p1} |-> stmt.cursors[c]]
  <2>1. Goes(stmt.pc + 1, stmt.reg, left) /\ UNCHANGED trees
    BY <1>2, <1>12, CloseGoes
  <2> HIDE DEF left
  <2>2. \A k \in DOMAIN tree : Fills(trees, list, sql, root, k)
    BY <1>12 DEF Filling, t, root
  <2>3. \A pc \in 20 .. 21 : Fine(pc, stmt.reg, left)
    BY <1>5, <2>2 DEF Filling, t, root
  <2>4. stmt.pc + 1 \in 20 .. 21 /\ stmt.pc + 1 \in 12 .. 21
    BY <1>12
  <2>5. QED
    BY <1>6, <2>1, <2>3, <2>4, Zenon
<1>13. CASE stmt.pc = 21
  <2>1. op.opcode = "Halt"
    BY <1>2, <1>13 DEF Op
  <2>2. Goes(22, stmt.reg, stmt.cursors) /\ UNCHANGED trees
    BY <1>1, <2>1, HaltGoes
  <2>3. \A k \in DOMAIN tree : Fills(trees, list, sql, root, k)
    BY <1>13 DEF Filling, t, root
  <2>4. IndexFilled(vw, trees, list, sql)
    BY <1>3, <1>5, <2>3, AllFilled DEF t, root
  <2>5. QED
    BY <2>2, <2>4, NothingStepped, Zenon DEF Done
<1>14. QED
  BY <1>8, <1>9, <1>10, <1>11, <1>12, <1>13

(* One instruction of a CREATE INDEX.                                       *)
LEMMA IndexGoes ==
  ASSUME Runner, Handle, Whole(trees), NEW vw, Whole(vw), NEW list, Current(list, trees),
         ToSet(list) \subseteq Items(vw), NEW sql, IndexCode(list, sql, stmt.ops),
         IndexAt(vw, trees, list, sql, stmt.pc, stmt.reg, stmt.cursors)
  PROVE  /\ FileStep(trees, trees', list)
         /\ \/ Stops(ECONSTRAINT)
            \/ \E pc, regs, cursors :
                 Goes(pc, regs, cursors) /\ IndexAt(vw, trees', list, sql, pc, regs, cursors)
<1> DEFINE t == TableOn(list, sql)
           Done == /\ FileStep(trees, trees', list)
                   /\ \/ Stops(ECONSTRAINT)
                      \/ \E pc, regs, cursors :
                           /\ Goes(pc, regs, cursors)
                           /\ IndexAt(vw, trees', list, sql, pc, regs, cursors)
<1> SUFFICES Done
  OBVIOUS
<1>1. Len(stmt.ops) = 22 /\ Begins(stmt.ops, list, "index", sql.table_name, sql)
  BY IndexCodeIs
<1>2. stmt.pc \in 0 .. 22 /\ stmt.pc < Len(stmt.ops)
  BY HandlerOf DEF IndexAt, Fetched, endOp
<1>3. /\ IsSchema(list) /\ ToSet(list) \subseteq Items(trees)
      /\ tables_named(list, sql.table_name) # <<>>
  BY DEF Current, IndexCode
<1>4. /\ t \in ToSet(list) /\ t.type = "table" /\ t.name = sql.table_name
      /\ t.root_page \in DOMAIN trees \ {1}
  BY <1>3, TableOnFacts
<1>5. MayRegister(list, "index", sql.table_name, sql)
  BY <1>4 DEF MayRegister, IndexCode, ColumnOn, IsTableNamed
<1> HIDE DEF t, Done
<1>6. CASE stmt.pc \in 0 .. 10
  <2>1. /\ Registers(trees, list, "index", sql.table_name, sql, stmt.pc, stmt.reg, stmt.cursors)
        /\ vw[t.root_page] = trees[t.root_page]
    BY <1>6 DEF IndexAt, t
  <2>2. /\ FileStep(trees, trees', list)
        /\ \/ Stops(ECONSTRAINT)
           \/ \E regs, cursors :
                /\ Goes(stmt.pc + 1, regs, cursors)
                /\ Registers(trees', list, "index", sql.table_name, sql, stmt.pc + 1, regs, cursors)
        /\ \A r \in DOMAIN trees \ {1} : trees'[r] = trees[r]
    BY <1>1, <1>5, <1>6, <2>1, CreateRow
  <2>3. vw[t.root_page] = trees'[t.root_page]
    BY <1>4, <2>1, <2>2
  <2>4. ASSUME NEW regs, NEW cursors, Goes(stmt.pc + 1, regs, cursors),
               Registers(trees', list, "index", sql.table_name, sql, stmt.pc + 1, regs, cursors)
        PROVE  Done
    <3>1. CASE stmt.pc = 10
      <4>1. Filling(vw, trees', list, sql, 11, regs, cursors)
        BY <2>3, <2>4, <3>1 DEF Registers, RowRegisters, NewTree, Filling, t
      <4>2. IndexAt(vw, trees', list, sql, 11, regs, cursors)
        BY <4>1 DEF IndexAt
      <4>3. Goes(11, regs, cursors)
        BY <2>4, <3>1
      <4>4. QED
        BY <2>2, <4>2, <4>3, Zenon DEF Done
    <3>2. CASE stmt.pc # 10
      <4>1. stmt.pc + 1 \in 1 .. 10
        BY <1>6, <3>2
      <4>2. IndexAt(vw, trees', list, sql, stmt.pc + 1, regs, cursors)
        BY <2>3, <2>4, <4>1 DEF IndexAt, t
      <4>3. QED
        BY <2>2, <2>4, <4>2, Zenon DEF Done
    <3>3. QED
      BY <3>1, <3>2
  <2>5. QED
    BY <2>2, <2>4, Zenon DEF Done
<1>7. CASE stmt.pc \in 11 .. 21
  <2>1. Filling(vw, trees, list, sql, stmt.pc, stmt.reg, stmt.cursors)
    BY <1>7 DEF IndexAt
  <2>2. /\ FileStep(trees, trees', list)
        /\ \/ Stops(ECONSTRAINT)
           \/ \E pc \in 12 .. 21 : \E regs, cursors :
                Goes(pc, regs, cursors) /\ Filling(vw, trees', list, sql, pc, regs, cursors)
           \/ \E regs, cursors :
                Goes(22, regs, cursors) /\ IndexFilled(vw, trees', list, sql)
    BY <1>7, <2>1, FillGoes
  <2>3. ASSUME NEW pc \in 12 .. 21, NEW regs, NEW cursors,
               Filling(vw, trees', list, sql, pc, regs, cursors)
        PROVE  IndexAt(vw, trees', list, sql, pc, regs, cursors)
    BY <2>3 DEF IndexAt
  <2>4. ASSUME NEW regs, NEW cursors, IndexFilled(vw, trees', list, sql)
        PROVE  IndexAt(vw, trees', list, sql, 22, regs, cursors)
    BY <2>4 DEF IndexAt
  <2>5. QED
    BY <2>2, <2>3, <2>4, Zenon DEF Done
<1>8. QED
  BY <1>1, <1>2, <1>6, <1>7
-----------------------------------------------------------------------------
(* INSERT.                                                                  *)

Width(list, sql) == Len(TableOn(list, sql).sql.columns)
Primary(list, sql) == primary_key_index(TableOn(list, sql).sql.columns)
RowNumber(list, sql) == sql.values[Primary(list, sql) + 1].value
IndexesOn(list, sql) ==
    indexes_to_fill(list, sql.table_name, TableOn(list, sql).sql.columns)

KeyRegister(list, sql, x) ==
    LET col == column_index_by_name(TableOn(list, sql).sql.columns, x.sql.column_name)
    IN  IF col = Primary(list, sql) THEN 1 ELSE 2 + col

LoadOp(list, sql, i) ==
    IF i = Primary(list, sql) THEN Op("Null", 0, 2 + i, 0)
    ELSE emit_literal(sql.values[i + 1], 2 + i)

InsertHead(list, sql) ==
    << Op("Integer", TableOn(list, sql).root_page, 0, 0),
       Op("OpenWrite", 0, 0, Width(list, sql)),
       Op("Integer", RowNumber(list, sql), 1, 0) >>
InsertLoads(list, sql) == [i \in 1 .. Width(list, sql) |-> LoadOp(list, sql, i - 1)]
InsertRow(list, sql) ==
    << Op("MakeRecord", 2, Width(list, sql), 2 + Width(list, sql)),
       Op("Insert", 0, 2 + Width(list, sql), 1) >>
EntryPiece(list, sql, j) ==
    emit_index_entry(IndexesOn(list, sql)[j], j, 2 + Width(list, sql) + j,
                     KeyRegister(list, sql, IndexesOn(list, sql)[j]))
EntryPieces(list, sql) ==
    [j \in DOMAIN IndexesOn(list, sql) |-> EntryPiece(list, sql, j)]
InsertTail == << Op("Close", 0, 0, 0), Op("Halt", 0, 0, 0) >>

InsertCode(list, sql, ops) ==
    /\ tables_named(list, sql.table_name) # <<>>
    /\ Len(sql.values) = Width(list, sql)
    /\ \A i \in 1 .. Width(list, sql) :
         literal_matches_type(sql.values[i], TableOn(list, sql).sql.columns[i].type)
    /\ ops = InsertHead(list, sql) \o InsertLoads(list, sql) \o InsertRow(list, sql)
             \o Chain(4, EntryPieces(list, sql)) \o InsertTail

(* Where instruction r of the entry of index j stands.                      *)
EntryAt(list, sql, j, r) == 4 + Width(list, sql) + Place(4, j, r)
TailAt(list, sql) == 5 + Width(list, sql) + 4 * Len(IndexesOn(list, sql))

InsertOps(list, sql, ops) ==
    /\ Len(ops) = 2 + TailAt(list, sql)
    /\ \A i \in 1 .. 3 : ops[i] = InsertHead(list, sql)[i]
    /\ \A i \in 1 .. Width(list, sql) : ops[3 + i] = LoadOp(list, sql, i - 1)
    /\ \A i \in 1 .. 2 : ops[3 + Width(list, sql) + i] = InsertRow(list, sql)[i]
    /\ \A j \in 1 .. Len(IndexesOn(list, sql)) : \A r \in 1 .. 4 :
         ops[1 + EntryAt(list, sql, j, r)] = EntryPiece(list, sql, j)[r]
    /\ \A i \in 1 .. 2 : ops[TailAt(list, sql) + i] = InsertTail[i]

(* The indexes that an INSERT knows of are a list.                          *)
HasColumn(list, sql, x) ==
    column_index_by_name(TableOn(list, sql).sql.columns, x.sql.column_name) >= 0

LEMMA IndexesChosen ==
  ASSUME NEW list, IsSchema(list), NEW sql
  PROVE  /\ IndexesOn(list, sql) \in Seq(ToSet(list))
         /\ ToSet(IndexesOn(list, sql)) =
              {x \in ToSet(indexes_of(list, sql.table_name)) : HasColumn(list, sql, x)}
<1> DEFINE all == indexes_of(list, sql.table_name)
           S == {i \in DOMAIN all : HasColumn(list, sql, all[i])}
<1>1. IndexesOn(list, sql) = Selected(all, S)
  BY DEF IndexesOn, indexes_to_fill, HasColumn
<1>2. all \in Seq(ToSet(list))
  BY IndexesOf
<1>3. DOMAIN all = 1 .. Len(all) /\ Len(all) \in Nat /\ ToSet(all) \subseteq ToSet(list)
  BY <1>2 DEF ToSet
<1>4. {all[i] : i \in S} = {x \in ToSet(all) : HasColumn(list, sql, x)}
  BY DEF ToSet
<1> HIDE DEF all, S
<1>5. all \in Seq(ToSet(all)) /\ S \subseteq DOMAIN all
  BY <1>2, <1>3 DEF ToSet, S
<1>6. Selected(all, S) \in Seq(ToSet(all)) /\ ToSet(Selected(all, S)) = {all[i] : i \in S}
  BY <1>3, <1>5, SelectedElements
<1>7. Selected(all, S) \in Seq(ToSet(list))
  BY <1>3, <1>6
<1>8. QED
  BY <1>1, <1>4, <1>6, <1>7 DEF all

(* The program of an INSERT.                                                *)
LEMMA InsertCodeIs ==
  ASSUME NEW list, IsSchema(list), NEW sql, Width(list, sql) \in Nat,
         NEW ops, InsertCode(list, sql, ops)
  PROVE  /\ Len(IndexesOn(list, sql)) \in Nat
         /\ InsertOps(list, sql, ops)
<1> DEFINE n == Width(list, sql)
           m == Len(IndexesOn(list, sql))
           head == InsertHead(list, sql)
           loads == InsertLoads(list, sql)
           row == InsertRow(list, sql)
           pieces == EntryPieces(list, sql)
           chain == Chain(4, pieces)
           a == head \o loads
           b == a \o row
           c == b \o chain
<1>1. m \in Nat /\ DOMAIN IndexesOn(list, sql) = 1 .. m
  BY IndexesChosen, SeqShape
<1>2. IsList(pieces, m) /\ \A j \in 1 .. m : pieces[j] = EntryPiece(list, sql, j)
  BY <1>1 DEF IsList, EntryPieces
<1>3. /\ IsList(head, 3) /\ IsList(row, 2) /\ IsList(InsertTail, 2) /\ IsList(loads, n)
      /\ \A i \in 1 .. n : loads[i] = LoadOp(list, sql, i - 1)
  BY DEF IsList, InsertHead, InsertRow, InsertTail, InsertLoads
<1> HIDE DEF pieces, head, row, loads
<1>4. /\ IsList(chain, 4 * m)
      /\ \A j \in 1 .. m : \A r \in 1 .. 4 :
           Place(4, j, r) \in 1 .. 4 * m /\ chain[Place(4, j, r)] = pieces[j][r]
  <2>1. 4 \in {2, 3, 4}
    OBVIOUS
  <2>2. IsList(chain, 4 * m) /\ HasPieces(chain, 4, m, pieces)
    BY <1>1, <1>2, <2>1, ChainShape
  <2>3. \A j \in 1 .. m : \A r \in 1 .. 4 : Place(4, j, r) \in 1 .. 4 * m
    BY <1>1 DEF Place
  <2>4. QED
    BY <2>2, <2>3, Zenon DEF HasPieces
<1> HIDE DEF chain
<1>5. n \in Nat /\ 3 \in Nat /\ 2 \in Nat /\ 4 * m \in Nat /\ 3 + n \in Nat
      /\ 3 + n + 2 \in Nat /\ 3 + n + 2 + 4 * m \in Nat
  BY <1>1
<1> HIDE DEF n, m
<1>6. IsJoin(a, head, 3, loads, n) /\ IsList(a, 3 + n)
  BY <1>3, <1>5, Joined, ListJoin
<1> HIDE DEF a
<1>7. IsJoin(b, a, 3 + n, row, 2) /\ IsList(b, 3 + n + 2)
  BY <1>3, <1>5, <1>6, Joined, ListJoin
<1> HIDE DEF b
<1>8. IsJoin(c, b, 3 + n + 2, chain, 4 * m) /\ IsList(c, 3 + n + 2 + 4 * m)
  BY <1>4, <1>5, <1>7, Joined, ListJoin
<1> HIDE DEF c
<1>9. IsJoin(ops, c, 3 + n + 2 + 4 * m, InsertTail, 2)
  <2>1. ops = c \o InsertTail
    BY DEF InsertCode, a, b, c, head, loads, row, chain, pieces
  <2>2. QED
    BY <1>3, <1>5, <1>8, <2>1, Joined
<1>10. /\ Len(ops) = 7 + n + 4 * m
       /\ \A i \in 1 .. 2 : ops[5 + n + 4 * m + i] = InsertTail[i]
       /\ \A i \in 1 .. 5 + n + 4 * m : ops[i] = c[i]
  BY <1>5, <1>9 DEF IsJoin
<1>11. /\ \A i \in 1 .. 4 * m : c[5 + n + i] = chain[i]
       /\ \A i \in 1 .. 5 + n : c[i] = b[i]
  BY <1>5, <1>8 DEF IsJoin
<1>12. /\ \A i \in 1 .. 2 : b[3 + n + i] = row[i]
       /\ \A i \in 1 .. 3 + n : b[i] = a[i]
  BY <1>5, <1>7 DEF IsJoin
<1>13. /\ \A i \in 1 .. 3 : a[i] = head[i]
       /\ \A i \in 1 .. n : a[3 + i] = loads[i]
  BY <1>5, <1>6 DEF IsJoin
<1>14. m \in Nat
  BY <1>1 DEF m
<1>15. \A i \in 1 .. 3 : ops[i] = head[i]
  BY <1>5, <1>10, <1>11, <1>12, <1>13, <1>14
<1>16. \A i \in 1 .. n : ops[3 + i] = LoadOp(list, sql, i - 1)
  <2>1. \A i \in 1 .. n : 3 + i \in 1 .. 5 + n + 4 * m /\ 3 + i \in 1 .. 5 + n /\ 3 + i \in 1 .. 3 + n
    BY <1>5, <1>14
  <2>2. QED
    BY <1>3, <1>10, <1>11, <1>12, <1>13, <2>1
<1>17. \A i \in 1 .. 2 : ops[3 + n + i] = row[i]
  <2>1. \A i \in 1 .. 2 : 3 + n + i \in 1 .. 5 + n + 4 * m /\ 3 + n + i \in 1 .. 5 + n
    BY <1>5, <1>14
  <2>2. QED
    BY <1>10, <1>11, <1>12, <2>1
<1>18. \A j \in 1 .. m : \A r \in 1 .. 4 :
         ops[5 + n + Place(4, j, r)] = EntryPiece(list, sql, j)[r]
  <2>1. \A i \in 1 .. 4 * m : 5 + n + i \in 1 .. 5 + n + 4 * m
    BY <1>5, <1>14
  <2>2. \A i \in 1 .. 4 * m : ops[5 + n + i] = chain[i]
    BY <1>10, <1>11, <2>1
  <2>3. QED
    BY <1>2, <1>4, <2>2 DEF m
<1>19. \A j \in 1 .. m : \A r \in 1 .. 4 : 1 + EntryAt(list, sql, j, r) = 5 + n + Place(4, j, r)
  BY <1>5, <1>14 DEF EntryAt, Place, n
<1>20. TailAt(list, sql) = 5 + n + 4 * m
  BY DEF TailAt, n, m
<1>21. 2 + TailAt(list, sql) = 7 + n + 4 * m
  BY <1>5, <1>20
<1>22. \A j \in 1 .. m : \A r \in 1 .. 4 :
         ops[1 + EntryAt(list, sql, j, r)] = EntryPiece(list, sql, j)[r]
  BY <1>18, <1>19, Zenon
<1>23. Len(ops) = 2 + TailAt(list, sql) /\ \A i \in 1 .. 2 : ops[TailAt(list, sql) + i] = InsertTail[i]
  BY <1>10, <1>20, <1>21, Zenon
<1>24. QED
  BY <1>14, <1>15, <1>16, <1>17, <1>22, <1>23, Zenon DEF InsertOps, n, m, head, row

(* The table, the row and the indexes of an INSERT, in the file.            *)
LEMMA InsertFacts ==
  ASSUME NEW file, Whole(file), NEW list, IsSchema(list), ToSet(list) \subseteq Items(file),
         NEW sql, IsStatement(sql), sql.type = "insert", NEW ops, InsertCode(list, sql, ops)
  PROVE  LET t == TableOn(list, sql)
         IN  /\ t \in Items(file) /\ t.type = "table" /\ t.name = sql.table_name
             /\ OnePrimaryKey(t.sql.columns) /\ DOMAIN t.sql.columns = 1 .. Width(list, sql)
             /\ t.root_page \in DOMAIN file \ {1} /\ ~file[t.root_page].index
             /\ DOMAIN file[t.root_page].entries \subseteq Keys
             /\ Width(list, sql) \in Nat /\ Width(list, sql) >= 1
             /\ Primary(list, sql) \in 0 .. Width(list, sql) - 1
             /\ RowNumber(list, sql) \in Int
             /\ KeyOfRow(list, sql) = chidb_key(RowNumber(list, sql))
             /\ KeyOfRow(list, sql) \in Keys
<1> DEFINE t == TableOn(list, sql)
<1>1. tables_named(list, sql.table_name) # <<>>
  BY DEF InsertCode
<1>2. /\ t \in Items(file) /\ t.type = "table" /\ t.name = sql.table_name
      /\ OnePrimaryKey(t.sql.columns)
      /\ t.root_page \in DOMAIN file \ {1} /\ ~file[t.root_page].index
      /\ DOMAIN file[t.root_page].entries \subseteq Keys
  BY <1>1, TableOnFacts
<1>3. /\ Width(list, sql) \in Nat /\ DOMAIN t.sql.columns = 1 .. Width(list, sql)
      /\ Primary(list, sql) \in 0 .. Width(list, sql) - 1
      /\ t.sql.columns[Primary(list, sql) + 1].type = "INT"
  BY <1>2, PrimaryKeys DEF Width, Primary
<1>4. Primary(list, sql) + 1 \in 1 .. Width(list, sql) /\ Width(list, sql) >= 1
  BY <1>3
<1>5. KeyOfRow(list, sql) = chidb_key(RowNumber(list, sql))
  BY DEF KeyOfRow, RowNumber, Primary, TableOn
<1>6. RowNumber(list, sql) \in Int
  <2> DEFINE p == Primary(list, sql) + 1
  <2>1. Len(sql.values) = Width(list, sql)
    BY DEF InsertCode
  <2>2. literal_matches_type(sql.values[p], t.sql.columns[p].type)
    BY <1>4 DEF InsertCode
  <2>3. sql.values[p].type = "int32"
    BY <1>3, <2>2 DEF literal_matches_type
  <2>4. /\ sql.values \in Seq(ToSet(sql.values))
        /\ \A i \in DOMAIN sql.values :
             sql.values[i].type = "int32" => sql.values[i].value \in Int
    BY DEF IsStatement
  <2>5. DOMAIN sql.values = 1 .. Width(list, sql)
    BY <2>1, <2>4, SeqShape
  <2>6. p \in DOMAIN sql.values
    BY <1>4, <2>5
  <2> HIDE DEF p
  <2>7. sql.values[p].value \in Int
    BY <2>3, <2>4, <2>6, Zenon
  <2>8. QED
    BY <2>7 DEF RowNumber, p
<1>7. KeyOfRow(list, sql) \in Keys
  BY <1>5, <1>6, KeysAreKeys
<1> HIDE DEF t
<1>8. QED
  BY <1>2, <1>3, <1>4, <1>5, <1>6, <1>7 DEF t

(* The indexes an INSERT knows of are indexes of the file.                  *)
LEMMA InsertIndexes ==
  ASSUME NEW file, Whole(file), NEW list, IsSchema(list), ToSet(list) \subseteq Items(file),
         NEW sql, NEW j \in 1 .. Len(IndexesOn(list, sql))
  PROVE  LET x == IndexesOn(list, sql)[j]
         IN  /\ x \in Items(file) /\ x \in IndexItems(file) /\ x.type = "index"
             /\ x.table_name = sql.table_name
             /\ x.root_page \in DOMAIN file \ {1} /\ file[x.root_page].index
<1> DEFINE x == IndexesOn(list, sql)[j]
<1>1. /\ DOMAIN IndexesOn(list, sql) = 1 .. Len(IndexesOn(list, sql))
      /\ ToSet(IndexesOn(list, sql)) \subseteq {y \in ToSet(list) : IsIndexOf(y, sql.table_name)}
  BY IndexesChosen, IndexesOf, SeqShape
<1>2. x \in ToSet(IndexesOn(list, sql))
  BY <1>1 DEF ToSet
<1>3. x \in Items(file) /\ x.type = "index" /\ x.table_name = sql.table_name
  BY <1>1, <1>2 DEF IsIndexOf
<1> HIDE DEF x
<1>4. x.root_page \in 2 .. Len(file) /\ x.root_page \in DOMAIN file /\ file[x.root_page].index
  BY <1>3, TablesOfFile DEF Whole
<1>5. x \in IndexItems(file)
  BY <1>3 DEF IndexItems
<1>6. QED
  BY <1>3, <1>4, <1>5 DEF x

(* They are all indexes of the table: in a sound schema each has its        *)
(* column.                                                                  *)
LEMMA AllIndexes ==
  ASSUME NEW file, Whole(file), NEW list, IsSchema(list), ToSet(list) \subseteq Items(file),
         NEW sql, IsStatement(sql), sql.type = "insert", NEW ops, InsertCode(list, sql, ops)
  PROVE  ToSet(IndexesOn(list, sql)) = ToSet(indexes_of(list, sql.table_name))
<1>1. /\ TableOn(list, sql) \in Items(file) /\ TableOn(list, sql).type = "table"
      /\ TableOn(list, sql).name = sql.table_name
  BY InsertFacts
<1>2. ASSUME NEW x \in ToSet(indexes_of(list, sql.table_name)) PROVE HasColumn(list, sql, x)
  <2>1. x \in Items(file) /\ x.type = "index" /\ x.table_name = sql.table_name
    BY IndexesOf DEF IsIndexOf
  <2>2. x \in IndexItems(file)
    BY <2>1 DEF IndexItems
  <2>3. TableOf(file, x) = TableOn(list, sql)
    BY <1>1, <2>1, TableIsOne
  <2>4. QED
    BY <2>2, <2>3, TableOfIndex DEF Whole, HasColumn
<1>3. QED
  BY <1>2, IndexesChosen

(* The row stands in the table, as it stands in the registers.              *)
RowIn(file, list, sql, regs) ==
    LET entries == file[TableOn(list, sql).root_page].entries
    IN  /\ KeyOfRow(list, sql) \in DOMAIN entries
        /\ \A i \in 1 .. Width(list, sql) :
             1 + i \in DOMAIN regs /\ entries[KeyOfRow(list, sql)][i] = regs[1 + i]

(* The register that codegen_insert takes has the value an index wants.     *)
LEMMA WantedRegister ==
  ASSUME NEW file, Whole(file), NEW list, IsSchema(list), ToSet(list) \subseteq Items(file),
         NEW sql, IsStatement(sql), sql.type = "insert", NEW ops, InsertCode(list, sql, ops),
         NEW j \in 1 .. Len(IndexesOn(list, sql)), NEW regs,
         RowIn(file, list, sql, regs), Has(regs, 1, Int32(RowNumber(list, sql)))
  PROVE  LET x == IndexesOn(list, sql)[j]
         IN  chidb_key(regs[KeyRegister(list, sql, x)].value)
               = WantedValue(TableOn(list, sql), x, file, KeyOfRow(list, sql))
<1> DEFINE x == IndexesOn(list, sql)[j]
           t == TableOn(list, sql)
           columns == t.sql.columns
           col == column_index_by_name(columns, x.sql.column_name)
           k == KeyOfRow(list, sql)
           record == file[t.root_page].entries[k]
<1>1. /\ t \in Items(file) /\ t.type = "table" /\ t.name = sql.table_name
      /\ OnePrimaryKey(columns) /\ DOMAIN columns = 1 .. Width(list, sql)
      /\ Width(list, sql) \in Nat /\ RowNumber(list, sql) \in Int
      /\ k = chidb_key(RowNumber(list, sql)) /\ k \in Keys
  BY InsertFacts
<1>2. x \in IndexItems(file) /\ x.table_name = t.name
  BY <1>1, InsertIndexes
<1> HIDE DEF t, x, k
<1>3. col >= 0
  <2>1. TableOf(file, x) = t
    BY <1>1, <1>2, TableIsOne
  <2>2. QED
    BY <1>2, <2>1, TableOfIndex DEF Whole
<1>4. col + 1 \in DOMAIN columns
  BY <1>1, <1>3, ColumnsByName
<1>5. WantedValue(t, x, file, k)
        = chidb_key((IF columns[col + 1].pk THEN Int32(int32(k)) ELSE record[col + 1]).value)
  BY <1>4 DEF WantedValue, IndexedValue, FullRow
<1>6. columns[col + 1].pk <=> col + 1 = Primary(list, sql) + 1
  BY <1>1, <1>4, PrimaryKeys DEF Primary, t
<1>7. Primary(list, sql) \in Int /\ col \in Int
  <2>1. Primary(list, sql) \in 0 .. Width(list, sql) - 1
    BY InsertFacts
  <2>2. col \in Int
    BY <1>1, <1>3, ColumnsByName
  <2>3. QED
    BY <1>1, <2>1, <2>2
<1>8. KeyRegister(list, sql, x) = IF col = Primary(list, sql) THEN 1 ELSE 2 + col
  BY DEF KeyRegister, t
<1>9. CASE columns[col + 1].pk
  <2>1. KeyRegister(list, sql, x) = 1
    BY <1>6, <1>7, <1>8, <1>9
  <2>2. regs[1].value = RowNumber(list, sql)
    BY DEF Has, Int32
  <2>3. WantedValue(t, x, file, k) = chidb_key(int32(k))
    BY <1>5, <1>9 DEF Int32
  <2>4. chidb_key(int32(k)) = k
    BY <1>1, KeysComeBack
  <2>5. QED
    BY <1>1, <2>1, <2>2, <2>3, <2>4 DEF t, x, k
<1>10. CASE ~columns[col + 1].pk
  <2>1. KeyRegister(list, sql, x) = 2 + col
    BY <1>6, <1>7, <1>8, <1>10
  <2>2. record[col + 1] = regs[1 + (col + 1)]
    BY <1>1, <1>4 DEF RowIn, t, k
  <2>3. 1 + (col + 1) = 2 + col
    BY <1>7
  <2>4. WantedValue(t, x, file, k) = chidb_key(regs[2 + col].value)
    BY <1>5, <1>10, <2>2, <2>3
  <2>5. QED
    BY <2>1, <2>4 DEF t, x, k
<1>11. QED
  BY <1>9, <1>10

(* Where an INSERT stands, and what it has done by then.                    *)
IsLoaded(list, sql, pc, regs) ==
    /\ pc = 1 => Has(regs, 0, Int32(TableOn(list, sql).root_page))
    /\ pc >= 3 => Has(regs, 1, Int32(RowNumber(list, sql)))
    /\ \A i \in 1 .. Width(list, sql) : pc >= 3 + i => 1 + i \in DOMAIN regs
    /\ pc = 4 + Width(list, sql) =>
         Has(regs, 2 + Width(list, sql),
             Binary([i \in 1 .. Width(list, sql) |-> regs[1 + i]]))

IsEntered(file, x, k) == \E v : HoldsEntry(file, x.root_page, v, k)

EntryStands(file, list, sql, pc, regs, cursors, j) ==
    LET x == IndexesOn(list, sql)[j]
    IN  /\ pc = EntryAt(list, sql, j, 2) =>
             Has(regs, 2 + Width(list, sql) + j, Int32(x.root_page))
        /\ pc = EntryAt(list, sql, j, 3) => IsOn(cursors, j, x.root_page)
        /\ pc >= EntryAt(list, sql, j, 4) => IsEntered(file, x, KeyOfRow(list, sql))

InsertStands(file, list, sql, pc, regs, cursors) ==
    /\ pc \in 0 .. 2 + TailAt(list, sql)
    /\ IsLoaded(list, sql, pc, regs)
    /\ pc \in 2 .. 4 + Width(list, sql) => IsOn(cursors, 0, TableOn(list, sql).root_page)
    /\ pc >= 5 + Width(list, sql) => RowIn(file, list, sql, regs)
    /\ \A j \in 1 .. Len(IndexesOn(list, sql)) :
         EntryStands(file, list, sql, pc, regs, cursors, j)

(* One instruction of the part that adds the row.                           *)
LEMMA RowGoes ==
  ASSUME Runner, Handle, Whole(trees), NEW list, Current(list, trees),
         NEW sql, IsStatement(sql), sql.type = "insert", InsertCode(list, sql, stmt.ops),
         stmt.pc \in 0 .. 4 + Width(list, sql),
         InsertStands(trees, list, sql, stmt.pc, stmt.reg, stmt.cursors)
  PROVE  /\ FileStep(trees, trees', list)
         /\ \/ Stops(ECONSTRAINT)
            \/ \E pc, regs, cursors :
                 Goes(pc, regs, cursors) /\ InsertStands(trees', list, sql, pc, regs, cursors)
<1> DEFINE t == TableOn(list, sql)
           n == Width(list, sql)
           m == Len(IndexesOn(list, sql))
           K == RowNumber(list, sql)
           key == KeyOfRow(list, sql)
           Done == /\ FileStep(trees, trees', list)
                   /\ \/ Stops(ECONSTRAINT)
                      \/ \E pc, regs, cursors :
                           /\ Goes(pc, regs, cursors)
                           /\ InsertStands(trees', list, sql, pc, regs, cursors)
<1> SUFFICES Done
  OBVIOUS
<1>1. IsSchema(list) /\ ToSet(list) \subseteq Items(trees)
  BY DEF Current
<1>2. /\ t.type = "table" /\ t.root_page \in DOMAIN trees \ {1} /\ ~trees[t.root_page].index
      /\ n \in Nat /\ n >= 1 /\ K \in Int /\ key = chidb_key(K) /\ key \in Keys
  BY <1>1, InsertFacts
<1>3. m \in Nat /\ InsertOps(list, sql, stmt.ops)
  BY <1>1, <1>2, InsertCodeIs
<1>4. /\ stmt.pc = 0 => op = Op("Integer", t.root_page, 0, 0)
      /\ stmt.pc = 1 => op = Op("OpenWrite", 0, 0, n)
      /\ stmt.pc = 2 => op = Op("Integer", K, 1, 0)
      /\ \A i \in 1 .. n : stmt.pc = 2 + i => op = LoadOp(list, sql, i - 1)
      /\ stmt.pc = 3 + n => op = Op("MakeRecord", 2, n, 2 + n)
      /\ stmt.pc = 4 + n => op = Op("Insert", 0, 2 + n, 1)
  <2>1. /\ \A i \in 1 .. 3 : stmt.ops[i] = InsertHead(list, sql)[i]
        /\ \A i \in 1 .. n : stmt.ops[3 + i] = LoadOp(list, sql, i - 1)
        /\ \A i \in 1 .. 2 : stmt.ops[3 + n + i] = InsertRow(list, sql)[i]
    BY <1>3 DEF InsertOps
  <2>2. /\ stmt.ops[1] = Op("Integer", t.root_page, 0, 0)
        /\ stmt.ops[2] = Op("OpenWrite", 0, 0, n)
        /\ stmt.ops[3] = Op("Integer", K, 1, 0)
    BY <2>1 DEF InsertHead
  <2>3. /\ stmt.ops[3 + n + 1] = Op("MakeRecord", 2, n, 2 + n)
        /\ stmt.ops[3 + n + 2] = Op("Insert", 0, 2 + n, 1)
    BY <2>1 DEF InsertRow
  <2> HIDE DEF t, n, K
  <2>4. /\ stmt.pc = 0 => stmt.pc + 1 = 1
        /\ stmt.pc = 1 => stmt.pc + 1 = 2
        /\ stmt.pc = 2 => stmt.pc + 1 = 3
        /\ \A i \in 1 .. n : stmt.pc = 2 + i => stmt.pc + 1 = 3 + i
        /\ stmt.pc = 3 + n => stmt.pc + 1 = 3 + n + 1
        /\ stmt.pc = 4 + n => stmt.pc + 1 = 3 + n + 2
    BY <1>2
  <2>5. QED
    BY <2>1, <2>2, <2>3, <2>4, Zenon DEF op
<1> HIDE DEF t, n, m, K, key
(* Nothing is said yet of the indexes.                                      *)
<1>5. \A pc \in 0 .. 5 + n : \A regs, cursors : \A j \in 1 .. m :
        EntryStands(trees', list, sql, pc, regs, cursors, j)
  <2>1. \A j \in 1 .. m : \A pc \in 0 .. 5 + n :
          /\ pc # EntryAt(list, sql, j, 2) /\ pc # EntryAt(list, sql, j, 3)
          /\ ~(pc >= EntryAt(list, sql, j, 4))
    BY <1>2, <1>3 DEF EntryAt, Place, n
  <2>2. QED
    BY <2>1, Zenon DEF EntryStands, n, m
<1>6. 2 + TailAt(list, sql) \in Nat /\ 2 + TailAt(list, sql) >= 7 + n
  <2>1. TailAt(list, sql) = 5 + n + 4 * m
    BY DEF TailAt, n, m
  <2>2. QED
    BY <1>2, <1>3, <2>1
<1>7. ASSUME UNCHANGED trees, NEW pc \in 0 .. 4 + n, NEW regs, NEW cursors,
             Goes(pc, regs, cursors), IsLoaded(list, sql, pc, regs),
             pc \in 2 .. 4 + n => IsOn(cursors, 0, t.root_page)
      PROVE  Done
  <2>1. pc \in 0 .. 2 + TailAt(list, sql) /\ pc \in 0 .. 5 + n /\ ~(pc >= 5 + n)
    BY <1>2, <1>6
  <2>2. InsertStands(trees', list, sql, pc, regs, cursors)
    BY <1>5, <1>7, <2>1, Zenon DEF InsertStands, n, m, t
  <2>3. QED
    BY <1>7, <2>2, NothingStepped, Zenon
<1>8. IsLoaded(list, sql, stmt.pc, stmt.reg)
  BY DEF InsertStands
<1>9. stmt.pc \in 2 .. 4 + n => IsOn(stmt.cursors, 0, t.root_page)
  BY DEF InsertStands, n, t
<1> HIDE DEF Done
<1>10. CASE stmt.pc = 0
  <2> DEFINE regs == Put(stmt.reg, op.p2, Int32(op.p1))
  <2>1. op.opcode = "Integer" /\ op.p1 = t.root_page /\ op.p2 = 0
    BY <1>4, <1>10 DEF Op
  <2>2. Goes(stmt.pc + 1, regs, stmt.cursors) /\ UNCHANGED trees
    BY <2>1, LoadGoes
  <2>3. Has(regs, 0, Int32(t.root_page))
    BY <2>1, PutHas
  <2> HIDE DEF regs
  <2>4. IsLoaded(list, sql, 1, regs)
    BY <1>2, <2>3 DEF IsLoaded, t, n
  <2>5. Goes(1, regs, stmt.cursors) /\ 1 \in 0 .. 4 + n /\ 1 \notin 2 .. 4 + n
    BY <1>2, <1>10, <2>2
  <2>6. QED
    BY <1>7, <2>2, <2>4, <2>5, Zenon
<1>11. CASE stmt.pc = 1
  <2> DEFINE c == Cursor_open(reg(op.p2), trees[reg(op.p2)].entries)
             cursors == Put(stmt.cursors, op.p1, c)
  <2>1. op.opcode \in Opens /\ op.p1 = 0 /\ op.p2 = 0
    BY <1>4, <1>11 DEF Op, Opens
  <2>2. Goes(stmt.pc + 1, stmt.reg, cursors) /\ UNCHANGED trees
    BY <2>1, OpenGoes
  <2>3. c.root = t.root_page
    BY <1>8, <1>11, <2>1 DEF IsLoaded, Has, reg, Int32, Cursor_open, t
  <2> HIDE DEF c
  <2>4. IsOn(cursors, 0, t.root_page)
    BY <2>1, <2>3, PutHas
  <2> HIDE DEF cursors
  <2>5. IsLoaded(list, sql, 2, stmt.reg)
    BY <1>2 DEF IsLoaded, n
  <2>6. Goes(2, stmt.reg, cursors) /\ 2 \in 0 .. 4 + n
    BY <1>2, <1>11, <2>2
  <2>7. QED
    BY <1>7, <2>2, <2>4, <2>5, <2>6, Zenon
<1>12. CASE stmt.pc = 2
  <2> DEFINE regs == Put(stmt.reg, op.p2, Int32(op.p1))
  <2>1. op.opcode = "Integer" /\ op.p1 = K /\ op.p2 = 1
    BY <1>4, <1>12 DEF Op
  <2>2. Goes(stmt.pc + 1, regs, stmt.cursors) /\ UNCHANGED trees
    BY <2>1, LoadGoes
  <2>3. Has(regs, 1, Int32(K))
    BY <2>1, PutHas
  <2> HIDE DEF regs
  <2>4. IsLoaded(list, sql, 3, regs)
    BY <1>2, <2>3 DEF IsLoaded, K, n
  <2>5. Goes(3, regs, stmt.cursors) /\ 3 \in 0 .. 4 + n /\ 2 \in 2 .. 4 + n
    BY <1>2, <1>12, <2>2
  <2>6. QED
    BY <1>7, <1>9, <1>12, <2>2, <2>4, <2>5, Zenon
<1>13. CASE stmt.pc \in 3 .. 2 + n
  <2> DEFINE i == stmt.pc - 2
  <2>1. i \in 1 .. n /\ stmt.pc = 2 + i /\ stmt.pc + 1 = 3 + i
    BY <1>2, <1>13
  <2> HIDE DEF i
  <2>2. /\ op.opcode \in {"Integer", "String", "Null"}
        /\ op.p2 = 1 + i
    <3>1. op = LoadOp(list, sql, i - 1)
      BY <1>4, <2>1
    <3>2. /\ LoadOp(list, sql, i - 1).opcode \in {"Integer", "String", "Null"}
          /\ LoadOp(list, sql, i - 1).p2 = 2 + (i - 1)
      BY DEF LoadOp, emit_literal, Op, OpString
    <3>3. QED
      BY <2>1, <3>1, <3>2
  <2>3. PICK w : Goes(stmt.pc + 1, Put(stmt.reg, op.p2, w), stmt.cursors) /\ UNCHANGED trees
    BY <2>2, LoadGoes
  <2> DEFINE regs == Put(stmt.reg, op.p2, w)
  <2>4. IsPut(regs, stmt.reg, 1 + i, w)
    BY <2>2, PutIs
  <2> HIDE DEF regs
  <2>5. 1 + i # 1 /\ Has(stmt.reg, 1, Int32(K))
    BY <1>2, <1>8, <1>13, <2>1 DEF IsLoaded, K
  <2>6. Has(regs, 1, Int32(K))
    BY <2>4, <2>5 DEF Has, IsPut
  <2>7. \A q \in 1 .. n : 3 + i >= 3 + q => 1 + q \in DOMAIN regs
    <3> SUFFICES ASSUME NEW q \in 1 .. n, 3 + i >= 3 + q PROVE 1 + q \in DOMAIN regs
      OBVIOUS
    <3>1. CASE q = i
      BY <2>4, <3>1 DEF IsPut
    <3>2. CASE q # i
      <4>1. stmt.pc >= 3 + q
        BY <1>2, <2>1, <3>2
      <4>2. 1 + q \in DOMAIN stmt.reg
        BY <1>8, <4>1 DEF IsLoaded, n
      <4>3. QED
        BY <2>4, <4>2 DEF IsPut
    <3>3. QED
      BY <3>1, <3>2
  <2>8. IsLoaded(list, sql, 3 + i, regs)
    <3>1. 3 + i # 1 /\ 3 + i # 4 + n
      BY <1>2, <2>1
    <3>2. QED
      BY <2>6, <2>7, <3>1, Zenon DEF IsLoaded, n, K
  <2>9. 3 + i \in 0 .. 4 + n /\ stmt.pc \in 2 .. 4 + n
    BY <1>2, <2>1
  <2>10. Goes(3 + i, regs, stmt.cursors)
    BY <2>1, <2>3 DEF regs
  <2>11. QED
    BY <1>7, <1>9, <2>3, <2>8, <2>9, <2>10, Zenon
<1>14. CASE stmt.pc = 3 + n
  <2> DEFINE record == [i \in 1 .. n |-> stmt.reg[1 + i]]
             regs == Put(stmt.reg, op.p3, Binary(record))
  <2>1. op.opcode = "MakeRecord" /\ op.p1 = 2 /\ op.p2 = n /\ op.p3 = 2 + n
    BY <1>4, <1>14 DEF Op
  <2>2. [i \in 1 .. op.p2 |-> stmt.reg[op.p1 + i - 1]] = record
    <3>1. \A i \in 1 .. n : op.p1 + i - 1 = 1 + i
      BY <1>2, <2>1
    <3>2. QED
      BY <2>1, <3>1
  <2> HIDE DEF record
  <2>3. Goes(stmt.pc + 1, regs, stmt.cursors) /\ UNCHANGED trees
    BY <2>1, <2>2, MakeRecordGoes
  <2>4. IsPut(regs, stmt.reg, 2 + n, Binary(record))
    BY <2>1, PutIs
  <2> HIDE DEF regs
  <2>5. /\ \A i \in 1 .. n : 1 + i \in DOMAIN stmt.reg /\ 1 + i # 2 + n
        /\ Has(stmt.reg, 1, Int32(K)) /\ 1 # 2 + n
    BY <1>2, <1>8, <1>14 DEF IsLoaded, n, K
  <2>6. \A i \in 1 .. n : 1 + i \in DOMAIN regs /\ regs[1 + i] = stmt.reg[1 + i]
    BY <2>4, <2>5, Zenon DEF IsPut
  <2>7. record = [i \in 1 .. n |-> regs[1 + i]]
    BY <2>6 DEF record
  <2>8. Has(regs, 2 + n, Binary([i \in 1 .. n |-> regs[1 + i]]))
    BY <2>4, <2>7, Zenon DEF Has, IsPut
  <2>9. Has(regs, 1, Int32(K))
    BY <2>4, <2>5, Zenon DEF Has, IsPut
  <2>10. 4 + n # 1 /\ 4 + n \in 0 .. 4 + n /\ stmt.pc + 1 = 4 + n /\ stmt.pc \in 2 .. 4 + n
    BY <1>2, <1>14
  <2>11. IsLoaded(list, sql, 4 + n, regs)
    BY <2>6, <2>8, <2>9, <2>10, Zenon DEF IsLoaded, n, K
  <2>12. Goes(4 + n, regs, stmt.cursors)
    BY <2>3, <2>10, Zenon
  <2>13. QED
    BY <1>7, <1>9, <2>3, <2>10, <2>11, <2>12, Zenon
<1>15. CASE stmt.pc = 4 + n
  <2> DEFINE record == [i \in 1 .. n |-> stmt.reg[1 + i]]
             after == WithEntry(trees, t.root_page, key, record)
  <2>1. op.opcode = "Insert" /\ op.p1 = 0 /\ op.p2 = 2 + n /\ op.p3 = 1
    BY <1>4, <1>15 DEF Op
  <2>2. cursor.root = t.root_page
    BY <1>2, <1>9, <1>15, <2>1 DEF cursor, IsOn
  <2>3. Has(stmt.reg, 1, Int32(K)) /\ Has(stmt.reg, 2 + n, Binary(record))
    BY <1>2, <1>8, <1>15 DEF IsLoaded, n, K
  <2>4. \A i \in 1 .. n : 1 + i \in DOMAIN stmt.reg /\ record[i] = stmt.reg[1 + i]
    BY <1>2, <1>8, <1>15 DEF IsLoaded, n
  <2> HIDE DEF record
  <2>5. chidb_key(reg(op.p3)) = key /\ reg(op.p2) = record
    BY <1>2, <2>1, <2>3 DEF Has, reg, Int32, Binary
  <2>6. CASE key \in DOMAIN trees[t.root_page].entries
    <3>1. Stops(ECONSTRAINT) /\ UNCHANGED trees
      BY <2>1, <2>2, <2>5, <2>6, OpInsertGoes
    <3>2. QED
      BY <3>1, NothingStepped, Zenon DEF Done
  <2>7. CASE key \notin DOMAIN trees[t.root_page].entries
    <3>1. trees' = after /\ Goes(stmt.pc + 1, stmt.reg, stmt.cursors)
      BY <2>1, <2>2, <2>5, <2>7, OpInsertGoes
    <3>2. \A x \in IndexItems(trees) : x.root_page # t.root_page
      BY <1>2, TablesOfFile DEF Whole, IndexItems
    <3>3. Whole(after) /\ Items(after) = Items(trees)
      <4>1. \A x \in IndexItems(trees) :
              x.root_page = t.root_page => <<key, record>> \in RowEntries(trees, x)
        BY <3>2, Zenon
      <4>2. ~trees[t.root_page].index => key \in Keys
        BY <1>2
      <4>3. QED
        BY <1>2, <2>7, <4>1, <4>2, EntryKeepsWhole
    <3>4. HasEntryMore(after, trees, t.root_page, key, record)
      BY <1>2, <2>7, EntryMore DEF Whole
    <3> HIDE DEF after
    <3>5. FileStep(trees, after, list)
      BY <3>3, <3>4, EntryIsStep
    <3>6. RowIn(after, list, sql, stmt.reg)
      <4>1. /\ key \in DOMAIN after[t.root_page].entries
            /\ after[t.root_page].entries[key] = record
        BY <3>4 DEF HasEntryMore, IsPut
      <4>2. QED
        BY <2>4, <4>1 DEF RowIn, n, t, key
    <3>7. IsLoaded(list, sql, 5 + n, stmt.reg)
      <4>1. 5 + n # 1 /\ 5 + n # 4 + n
        BY <1>2
      <4>2. QED
        BY <2>3, <2>4, <4>1, Zenon DEF IsLoaded, n, K
    <3>8. /\ 5 + n \in 0 .. 2 + TailAt(list, sql) /\ 5 + n \notin 2 .. 4 + n
          /\ 5 + n \in 0 .. 5 + n /\ stmt.pc + 1 = 5 + n
      BY <1>2, <1>6, <1>15
    <3>9. InsertStands(after, list, sql, 5 + n, stmt.reg, stmt.cursors)
      BY <1>5, <3>1, <3>6, <3>7, <3>8, Zenon DEF InsertStands, n, m
    <3>10. Goes(5 + n, stmt.reg, stmt.cursors)
      BY <3>1, <3>8, Zenon
    <3>11. QED
      BY <3>1, <3>5, <3>9, <3>10, Zenon DEF Done
  <2>8. QED
    BY <2>6, <2>7
<1>16. stmt.pc \in 3 .. 2 + n \/ stmt.pc \in {0, 1, 2, 3 + n, 4 + n}
  BY <1>2 DEF n
<1>17. QED
  BY <1>10, <1>11, <1>12, <1>13, <1>14, <1>15, <1>16

(* One instruction of the entry of an index.                                *)
LEMMA EntryGoes ==
  ASSUME Runner, Handle, Whole(trees), NEW list, Current(list, trees),
         NEW sql, IsStatement(sql), sql.type = "insert", InsertCode(list, sql, stmt.ops),
         NEW j \in 1 .. Len(IndexesOn(list, sql)), NEW r \in 1 .. 4,
         stmt.pc = EntryAt(list, sql, j, r),
         InsertStands(trees, list, sql, stmt.pc, stmt.reg, stmt.cursors)
  PROVE  /\ FileStep(trees, trees', list)
         /\ \/ Stops(ECONSTRAINT)
            \/ \E pc, regs, cursors :
                 Goes(pc, regs, cursors) /\ InsertStands(trees', list, sql, pc, regs, cursors)
<1> DEFINE t == TableOn(list, sql)
           n == Width(list, sql)
           m == Len(IndexesOn(list, sql))
           x == IndexesOn(list, sql)[j]
           K == RowNumber(list, sql)
           key == KeyOfRow(list, sql)
           Done == /\ FileStep(trees, trees', list)
                   /\ \/ Stops(ECONSTRAINT)
                      \/ \E pc, regs, cursors :
                           /\ Goes(pc, regs, cursors)
                           /\ InsertStands(trees', list, sql, pc, regs, cursors)
<1> SUFFICES Done
  OBVIOUS
<1>1. IsSchema(list) /\ ToSet(list) \subseteq Items(trees)
  BY DEF Current
<1>2. /\ t \in Items(trees) /\ t.type = "table" /\ t.name = sql.table_name
      /\ t.root_page \in DOMAIN trees \ {1} /\ ~trees[t.root_page].index
      /\ n \in Nat /\ n >= 1 /\ K \in Int /\ key = chidb_key(K) /\ key \in Keys
  BY <1>1, InsertFacts
<1>3. m \in Nat /\ InsertOps(list, sql, stmt.ops)
  BY <1>1, <1>2, InsertCodeIs
<1>4. /\ x \in Items(trees) /\ x.type = "index" /\ x.table_name = t.name
      /\ x.root_page \in DOMAIN trees \ {1} /\ trees[x.root_page].index
  BY <1>1, <1>2, InsertIndexes
<1>5. /\ r = 1 => op = Op("Integer", x.root_page, 2 + n + j, 0)
      /\ r = 2 => op = Op("OpenWrite", j, 2 + n + j, 0)
      /\ r = 3 => op = Op("IdxInsert", j, KeyRegister(list, sql, x), 1)
      /\ r = 4 => op = Op("Close", j, 0, 0)
  <2>1. stmt.ops[1 + EntryAt(list, sql, j, r)] = EntryPiece(list, sql, j)[r]
    BY <1>3 DEF InsertOps
  <2>2. EntryAt(list, sql, j, r) \in Int
    BY <1>2, <1>3 DEF EntryAt, Place
  <2>3. op = EntryPiece(list, sql, j)[r]
    BY <2>1, <2>2 DEF op
  <2>4. QED
    BY <2>3 DEF EntryPiece, emit_index_entry
<1> HIDE DEF t, n, m, x, K, key
<1>6. /\ stmt.pc \in Int /\ stmt.pc >= 5 + n /\ stmt.pc + 1 \in 0 .. 2 + TailAt(list, sql)
      /\ stmt.pc + 1 >= 5 + n /\ stmt.pc + 1 # 1 /\ stmt.pc + 1 # 4 + n
      /\ stmt.pc + 1 \notin 2 .. 4 + n
  <2>1. TailAt(list, sql) = 5 + n + 4 * m /\ EntryAt(list, sql, j, r) = 4 + n + (4 * (j - 1) + r)
    BY DEF TailAt, EntryAt, Place, n, m
  <2>2. j \in 1 .. m
    BY DEF m
  <2>3. QED
    BY <1>2, <1>3, <2>1, <2>2
<1>7. \A q \in 1 .. m :
        /\ stmt.pc + 1 = EntryAt(list, sql, q, 2) => q = j /\ r = 1
        /\ stmt.pc + 1 = EntryAt(list, sql, q, 3) => q = j /\ r = 2
        /\ stmt.pc + 1 >= EntryAt(list, sql, q, 4) =>
             stmt.pc >= EntryAt(list, sql, q, 4) \/ (q = j /\ r = 3)
  <2>1. j \in 1 .. m
    BY DEF m
  <2> TAKE q \in 1 .. m
  <2>2. /\ EntryAt(list, sql, q, 2) = 4 + n + (4 * (q - 1) + 2)
        /\ EntryAt(list, sql, q, 3) = 4 + n + (4 * (q - 1) + 3)
        /\ EntryAt(list, sql, q, 4) = 4 + n + (4 * (q - 1) + 4)
        /\ stmt.pc = 4 + n + (4 * (j - 1) + r)
    BY DEF EntryAt, Place, n
  <2>3. n \in Int /\ q \in Int /\ j \in Int
    BY <1>2, <1>3, <2>1
  <2>4. ASSUME NEW N \in Int, NEW a \in Int, NEW b \in Int, NEW s \in 1 .. 4
        PROVE  /\ N + (4 * (a - 1) + s) + 1 = N + (4 * (b - 1) + 2) => b = a /\ s = 1
               /\ N + (4 * (a - 1) + s) + 1 = N + (4 * (b - 1) + 3) => b = a /\ s = 2
               /\ N + (4 * (a - 1) + s) + 1 >= N + (4 * (b - 1) + 4) =>
                    N + (4 * (a - 1) + s) >= N + (4 * (b - 1) + 4) \/ (b = a /\ s = 3)
    OBVIOUS
  <2>5. 4 + n \in Int
    BY <2>3
  <2>6. /\ stmt.pc + 1 = 4 + n + (4 * (q - 1) + 2) => q = j /\ r = 1
        /\ stmt.pc + 1 = 4 + n + (4 * (q - 1) + 3) => q = j /\ r = 2
        /\ stmt.pc + 1 >= 4 + n + (4 * (q - 1) + 4) =>
             stmt.pc >= 4 + n + (4 * (q - 1) + 4) \/ (q = j /\ r = 3)
    <3> DEFINE N == 4 + n
    <3>1. N \in Int
      BY <2>5
    <3> HIDE DEF N
    <3>2. /\ N + (4 * (j - 1) + r) + 1 = N + (4 * (q - 1) + 2) => q = j /\ r = 1
          /\ N + (4 * (j - 1) + r) + 1 = N + (4 * (q - 1) + 3) => q = j /\ r = 2
          /\ N + (4 * (j - 1) + r) + 1 >= N + (4 * (q - 1) + 4) =>
               N + (4 * (j - 1) + r) >= N + (4 * (q - 1) + 4) \/ (q = j /\ r = 3)
      BY <2>3, <2>4, <3>1
    <3>3. stmt.pc = N + (4 * (j - 1) + r)
      BY <2>2 DEF N
    <3>4. QED
      BY <3>2, <3>3 DEF N
  <2>7. QED
    BY <2>2, <2>6, Zenon
<1>8. /\ Has(stmt.reg, 1, Int32(K)) /\ RowIn(trees, list, sql, stmt.reg)
      /\ \A q \in 1 .. m : EntryStands(trees, list, sql, stmt.pc, stmt.reg, stmt.cursors, q)
  <2>1. stmt.pc >= 3
    <3>1. n \in Nat /\ stmt.pc \in Int /\ stmt.pc >= 5 + n
      BY <1>2, <1>6, Zenon
    <3>2. QED
      BY <3>1
  <2>2. QED
    BY <1>6, <2>1 DEF InsertStands, IsLoaded, K, n, m
<1>9. ASSUME NEW after, Grows(trees, after), after[t.root_page] = trees[t.root_page],
             NEW regs, \A q \in 1 .. 1 + n : q \in DOMAIN stmt.reg =>
                                               q \in DOMAIN regs /\ regs[q] = stmt.reg[q],
             NEW cursors,
             r = 1 => Has(regs, 2 + n + j, Int32(x.root_page)),
             r = 2 => IsOn(cursors, j, x.root_page),
             r = 3 => IsEntered(after, x, key)
      PROVE  InsertStands(after, list, sql, stmt.pc + 1, regs, cursors)
  <2>1. \A i \in 1 .. n : 1 + i \in 1 .. 1 + n
    BY <1>2
  <2>2. \A i \in 1 .. n : 1 + i \in DOMAIN regs /\ regs[1 + i] = stmt.reg[1 + i]
    BY <1>8, <1>9, <2>1, Zenon DEF RowIn, n
  <2>3. RowIn(after, list, sql, regs)
    BY <1>8, <1>9, <2>2, Zenon DEF RowIn, n, t
  <2>4. Has(regs, 1, Int32(K))
    <3>1. 1 \in 1 .. 1 + n
      BY <1>2
    <3>2. QED
      BY <1>8, <1>9, <3>1, Zenon DEF Has
  <2>5. IsLoaded(list, sql, stmt.pc + 1, regs)
    BY <1>6, <2>2, <2>4, Zenon DEF IsLoaded, n, K
  <2>6. \A q \in 1 .. m : EntryStands(after, list, sql, stmt.pc + 1, regs, cursors, q)
    <3> SUFFICES ASSUME NEW q \in 1 .. m
                 PROVE  EntryStands(after, list, sql, stmt.pc + 1, regs, cursors, q)
      OBVIOUS
    <3> DEFINE y == IndexesOn(list, sql)[q]
    <3>1. q = j => y = x
      BY DEF x
    <3>2. y.root_page \in DOMAIN trees
      BY <1>1, InsertIndexes DEF m
    <3> HIDE DEF y
    <3>3. stmt.pc + 1 = EntryAt(list, sql, q, 2) => Has(regs, 2 + n + q, Int32(y.root_page))
      BY <1>7, <1>9, <3>1, Zenon
    <3>4. stmt.pc + 1 = EntryAt(list, sql, q, 3) => IsOn(cursors, q, y.root_page)
      BY <1>7, <1>9, <3>1, Zenon
    <3>5. ASSUME stmt.pc >= EntryAt(list, sql, q, 4)
          PROVE  IsEntered(after, y, key)
      <4>1. IsEntered(trees, y, key)
        BY <1>8, <3>5 DEF EntryStands, y, key
      <4>2. QED
        BY <1>9, <3>2, <4>1, HoldsGrow DEF IsEntered
    <3>6. stmt.pc + 1 >= EntryAt(list, sql, q, 4) => IsEntered(after, y, key)
      BY <1>7, <1>9, <3>1, <3>5, Zenon
    <3>7. QED
      BY <3>3, <3>4, <3>6, Zenon DEF EntryStands, y, n, key
  <2>7. QED
    BY <1>6, <2>3, <2>5, <2>6, Zenon DEF InsertStands, n, m
<1>10. ASSUME UNCHANGED trees, NEW regs,
              \A q \in 1 .. 1 + n : q \in DOMAIN stmt.reg =>
                                      q \in DOMAIN regs /\ regs[q] = stmt.reg[q],
              NEW cursors, Goes(stmt.pc + 1, regs, cursors), r # 3,
              r = 1 => Has(regs, 2 + n + j, Int32(x.root_page)),
              r = 2 => IsOn(cursors, j, x.root_page)
       PROVE  Done
  <2>1. Grows(trees, trees)
    BY DEF Grows, TreeGrows
  <2>2. InsertStands(trees, list, sql, stmt.pc + 1, regs, cursors)
    BY <1>9, <1>10, <2>1
  <2>3. QED
    BY <1>10, <2>2, NothingStepped, Zenon
<1> HIDE DEF Done
<1>11. CASE r = 1
  <2> DEFINE regs == Put(stmt.reg, op.p2, Int32(op.p1))
  <2>1. op.opcode = "Integer" /\ op.p1 = x.root_page /\ op.p2 = 2 + n + j
    BY <1>5, <1>11 DEF Op
  <2>2. Goes(stmt.pc + 1, regs, stmt.cursors) /\ UNCHANGED trees
    BY <2>1, LoadGoes
  <2>3. IsPut(regs, stmt.reg, 2 + n + j, Int32(x.root_page))
    BY <2>1, PutIs
  <2> HIDE DEF regs
  <2>4. \A q \in 1 .. 1 + n : q # 2 + n + j
    BY <1>2
  <2>5. \A q \in 1 .. 1 + n : q \in DOMAIN stmt.reg =>
                                q \in DOMAIN regs /\ regs[q] = stmt.reg[q]
    BY <2>3, <2>4 DEF IsPut
  <2>6. Has(regs, 2 + n + j, Int32(x.root_page))
    BY <2>3 DEF IsPut, Has
  <2>7. r # 3 /\ r # 2
    BY <1>11
  <2>8. QED
    BY <1>10, <2>2, <2>5, <2>6, <2>7, Zenon
<1>12. CASE r = 2
  <2> DEFINE c == Cursor_open(reg(op.p2), trees[reg(op.p2)].entries)
             cursors == Put(stmt.cursors, op.p1, c)
  <2>1. op.opcode \in Opens /\ op.p1 = j /\ op.p2 = 2 + n + j
    BY <1>5, <1>12 DEF Op, Opens
  <2>2. Goes(stmt.pc + 1, stmt.reg, cursors) /\ UNCHANGED trees
    BY <2>1, OpenGoes
  <2>3. Has(stmt.reg, 2 + n + j, Int32(x.root_page))
    BY <1>8, <1>12 DEF EntryStands, n, m, x
  <2>4. c.root = x.root_page
    BY <2>1, <2>3 DEF Has, reg, Int32, Cursor_open
  <2> HIDE DEF c
  <2>5. IsOn(cursors, j, x.root_page)
    BY <2>1, <2>4, PutHas
  <2> HIDE DEF cursors
  <2>6. r # 3 /\ r # 1
    BY <1>12
  <2>7. QED
    BY <1>10, <2>2, <2>5, <2>6, Zenon
<1>13. CASE r = 3
  <2> DEFINE v == WantedValue(t, x, trees, key)
             after == WithEntry(trees, x.root_page, v, key)
  <2>1. op.opcode = "IdxInsert" /\ op.p1 = j /\ op.p2 = KeyRegister(list, sql, x) /\ op.p3 = 1
    BY <1>5, <1>13 DEF Op
  <2>2. cursor.root = x.root_page
    <3>1. IsOn(stmt.cursors, j, x.root_page)
      BY <1>8, <1>13 DEF EntryStands, m, x
    <3>2. QED
      BY <2>1, <3>1 DEF cursor, IsOn
  <2>3. chidb_key(stmt.reg[KeyRegister(list, sql, x)].value) = v
    BY <1>1, <1>8, WantedRegister DEF K, t, x, key
  <2>4. chidb_key(reg(op.p2)) = v /\ chidb_key(reg(op.p3)) = key
    BY <1>2, <1>8, <2>1, <2>3 DEF reg, Has, Int32
  <2>5. key \in DOMAIN trees[t.root_page].entries
    BY <1>8 DEF RowIn, t, key
  <2> HIDE DEF v
  <2>6. CASE v \in DOMAIN trees[x.root_page].entries
    <3>1. Stops(ECONSTRAINT) /\ UNCHANGED trees
      BY <2>1, <2>2, <2>4, <2>6, OpIdxInsertGoes
    <3>2. QED
      BY <3>1, NothingStepped, Zenon DEF Done
  <2>7. CASE v \notin DOMAIN trees[x.root_page].entries
    <3>1. trees' = after /\ Goes(stmt.pc + 1, stmt.reg, stmt.cursors)
      BY <2>1, <2>2, <2>4, <2>7, OpIdxInsertGoes
    <3>2. /\ Whole(after) /\ Items(after) = Items(trees)
          /\ HasEntryMore(after, trees, x.root_page, v, key)
          /\ HoldsEntry(after, x.root_page, v, key)
      BY <1>2, <1>4, <2>5, <2>7, WantedEntryAdded DEF v
    <3> HIDE DEF after
    <3>3. FileStep(trees, after, list)
      BY <3>2, EntryIsStep
    <3>4. Grows(trees, after) /\ after[t.root_page] = trees[t.root_page]
      BY <1>2, <1>4, <3>2 DEF HasEntryMore
    <3>5. IsEntered(after, x, key)
      BY <3>2 DEF IsEntered
    <3>6. r # 1 /\ r # 2
      BY <1>13
    <3>7. InsertStands(after, list, sql, stmt.pc + 1, stmt.reg, stmt.cursors)
      BY <1>9, <3>4, <3>5, <3>6, Zenon
    <3>8. QED
      BY <3>1, <3>3, <3>7, Zenon DEF Done
  <2>8. QED
    BY <2>6, <2>7
<1>14. CASE r = 4
  <2> DEFINE left == [c \in DOMAIN stmt.cursors \ {op.p1} |-> stmt.cursors[c]]
  <2>1. Goes(stmt.pc + 1, stmt.reg, left) /\ UNCHANGED trees
    BY <1>5, <1>14, CloseGoes DEF Op
  <2> HIDE DEF left
  <2>2. r # 3 /\ r # 1 /\ r # 2
    BY <1>14
  <2>3. QED
    BY <1>10, <2>1, <2>2, Zenon
<1>15. QED
  BY <1>11, <1>12, <1>13, <1>14

(* One instruction of an INSERT.                                            *)
LEMMA InsertionGoes ==
  ASSUME Runner, Handle, Whole(trees), NEW list, Current(list, trees),
         NEW sql, IsStatement(sql), sql.type = "insert", InsertCode(list, sql, stmt.ops),
         InsertStands(trees, list, sql, stmt.pc, stmt.reg, stmt.cursors)
  PROVE  /\ FileStep(trees, trees', list)
         /\ \/ Stops(ECONSTRAINT)
            \/ \E pc, regs, cursors :
                 Goes(pc, regs, cursors) /\ InsertStands(trees', list, sql, pc, regs, cursors)
<1> DEFINE n == Width(list, sql)
           m == Len(IndexesOn(list, sql))
           tail == TailAt(list, sql)
           Done == /\ FileStep(trees, trees', list)
                   /\ \/ Stops(ECONSTRAINT)
                      \/ \E pc, regs, cursors :
                           /\ Goes(pc, regs, cursors)
                           /\ InsertStands(trees', list, sql, pc, regs, cursors)
<1> SUFFICES Done
  OBVIOUS
<1>1. IsSchema(list) /\ ToSet(list) \subseteq Items(trees)
  BY DEF Current
<1>2. n \in Nat /\ n >= 1
  BY <1>1, InsertFacts
<1>3. m \in Nat /\ InsertOps(list, sql, stmt.ops)
  BY <1>1, <1>2, InsertCodeIs
<1>4. tail = 5 + n + 4 * m
  BY DEF TailAt
<1>5. stmt.pc \in 0 .. 1 + tail
  <2>1. stmt.pc \in 0 .. 2 + tail /\ stmt.pc < Len(stmt.ops) /\ Len(stmt.ops) = 2 + tail
    BY <1>3, HandlerOf DEF InsertStands, Fetched, endOp, InsertOps
  <2> HIDE DEF n, m, tail
  <2>2. QED
    BY <1>2, <1>3, <1>4, <2>1
<1>6. /\ stmt.pc = tail => op = Op("Close", 0, 0, 0)
      /\ stmt.pc = 1 + tail => op = Op("Halt", 0, 0, 0)
  <2>1. stmt.ops[tail + 1] = InsertTail[1] /\ stmt.ops[tail + 2] = InsertTail[2]
    BY <1>3 DEF InsertOps
  <2> HIDE DEF n, m, tail
  <2>2. tail \in Int /\ 1 + tail + 1 = tail + 2
    BY <1>2, <1>3, <1>4
  <2>3. QED
    BY <2>1, <2>2 DEF op, InsertTail
<1> HIDE DEF n, m, tail
<1>7. CASE stmt.pc \in 0 .. 4 + n
  <2>1. Done
    BY <1>7, RowGoes DEF n
  <2>2. QED
    BY <2>1
<1>8. CASE stmt.pc \in 5 + n .. tail - 1
  <2> DEFINE i == stmt.pc - (4 + n)
             j == PieceAt(4, i)
             r == WithinAt(4, i)
  <2>1. i \in Places(4, m) /\ stmt.pc = 4 + n + i
    BY <1>2, <1>3, <1>4, <1>8 DEF Places
  <2> HIDE DEF i
  <2>2. j \in 1 .. m /\ r \in 1 .. 4 /\ i = Place(4, j, r)
    BY <1>3, <2>1 DEF PieceAt, WithinAt, Places, Place
  <2>3. stmt.pc = EntryAt(list, sql, j, r)
    BY <2>1, <2>2 DEF EntryAt, n
  <2> HIDE DEF j, r
  <2>4. Done
    BY <2>2, <2>3, EntryGoes DEF m
  <2>5. QED
    BY <2>4
<1>9. stmt.pc >= 5 + n /\ stmt.pc \in Int =>
        /\ stmt.pc # 1 /\ stmt.pc # 4 + n /\ stmt.pc + 1 # 1 /\ stmt.pc + 1 # 4 + n
        /\ stmt.pc >= 3 /\ stmt.pc + 1 >= 3 /\ stmt.pc + 1 \notin 2 .. 4 + n /\ stmt.pc + 1 >= 5 + n
        /\ \A i \in 1 .. n : stmt.pc >= 3 + i
  BY <1>2
(* At the end: the row and all entries are there.                           *)
<1>10. ASSUME stmt.pc >= tail, stmt.pc \in Int, UNCHANGED trees, NEW cursors,
              Goes(stmt.pc + 1, stmt.reg, cursors)
       PROVE  Done
  <2>1. stmt.pc >= 5 + n /\ stmt.pc + 1 \in 0 .. 2 + tail
    BY <1>2, <1>3, <1>4, <1>5, <1>10
  <2>2. /\ RowIn(trees, list, sql, stmt.reg)
        /\ Has(stmt.reg, 1, Int32(RowNumber(list, sql)))
        /\ \A i \in 1 .. n : 1 + i \in DOMAIN stmt.reg
    BY <1>9, <1>10, <2>1, Zenon DEF InsertStands, IsLoaded, n
  <2>3. \A q \in 1 .. m : /\ stmt.pc >= EntryAt(list, sql, q, 4)
                          /\ stmt.pc + 1 # EntryAt(list, sql, q, 2)
                          /\ stmt.pc + 1 # EntryAt(list, sql, q, 3)
    <3>1. \A q \in 1 .. m : \A s \in 1 .. 4 :
            EntryAt(list, sql, q, s) = 4 + n + (4 * (q - 1) + s)
      BY DEF EntryAt, Place, n
    <3>2. QED
      BY <1>2, <1>3, <1>4, <1>10, <3>1
  <2>4. \A q \in 1 .. m : IsEntered(trees, IndexesOn(list, sql)[q], KeyOfRow(list, sql))
    BY <2>3, Zenon DEF InsertStands, EntryStands, m
  <2>5. \A q \in 1 .. m : EntryStands(trees, list, sql, stmt.pc + 1, stmt.reg, cursors, q)
    BY <2>3, <2>4, Zenon DEF EntryStands
  <2>6. IsLoaded(list, sql, stmt.pc + 1, stmt.reg)
    BY <1>9, <1>10, <2>1, <2>2, Zenon DEF IsLoaded, n
  <2>7. InsertStands(trees, list, sql, stmt.pc + 1, stmt.reg, cursors)
    BY <1>9, <1>10, <2>1, <2>2, <2>5, <2>6, Zenon DEF InsertStands, n, m, tail
  <2>8. QED
    BY <1>10, <2>7, NothingStepped, Zenon
<1> HIDE DEF Done
<1>11. CASE stmt.pc = tail
  <2>1. stmt.pc >= tail /\ stmt.pc \in Int
    BY <1>5, <1>11
  <2>2. QED
    BY <1>6, <1>10, <1>11, <2>1, CloseGoes DEF Op
<1>12. CASE stmt.pc = 1 + tail
  <2>1. stmt.pc >= tail /\ stmt.pc \in Int /\ Len(stmt.ops) = stmt.pc + 1
    BY <1>2, <1>3, <1>4, <1>12 DEF InsertOps, tail
  <2>2. Goes(Len(stmt.ops), stmt.reg, stmt.cursors) /\ UNCHANGED trees
    BY <1>6, <1>12, HaltGoes DEF Op
  <2>3. QED
    BY <1>10, <2>1, <2>2
<1>13. QED
  BY <1>2, <1>3, <1>4, <1>5, <1>7, <1>8, <1>11, <1>12
-----------------------------------------------------------------------------
(* Statements that write: what each was compiled to, where it stands while  *)
(* it runs, and what it has done when it is at its end.                     *)

CreatesTable(sql) == sql.type = "create table"
CreatesIndex(sql) == sql.type = "create index"
AddsRow(sql) == sql.type = "insert"
Selects(sql) == sql.type = "select"

(* A statement is of one kind.                                              *)
LEMMA KindsDiffer ==
  ASSUME NEW sql
  PROVE  /\ CreatesTable(sql) => ~CreatesIndex(sql) /\ ~AddsRow(sql) /\ ~Selects(sql)
         /\ CreatesIndex(sql) => ~CreatesTable(sql) /\ ~AddsRow(sql) /\ ~Selects(sql)
         /\ AddsRow(sql) => ~CreatesTable(sql) /\ ~CreatesIndex(sql) /\ ~Selects(sql)
         /\ Selects(sql) => ~CreatesTable(sql) /\ ~CreatesIndex(sql) /\ ~AddsRow(sql)
  BY Zenon DEF CreatesTable, CreatesIndex, AddsRow, Selects

(* It is of one of the four.                                                *)
LEMMA KindOf ==
  ASSUME NEW sql, IsStatement(sql)
  PROVE  /\ CreatesTable(sql) \/ CreatesIndex(sql) \/ AddsRow(sql) \/ Selects(sql)
         /\ CreatesTable(sql) => OnePrimaryKey(sql.columns)
  BY Zenon DEF IsStatement, CreatesTable, CreatesIndex, AddsRow, Selects

(* Which compiler each kind has.                                            *)
LEMMA CompilerOf ==
  ASSUME NEW list, NEW sql
  PROVE  /\ CreatesTable(sql) => stmt_codegen(list, sql) = codegen_create_table(list, sql)
         /\ CreatesIndex(sql) => stmt_codegen(list, sql) = codegen_create_index(list, sql)
         /\ AddsRow(sql) => stmt_codegen(list, sql) = codegen_insert(list, sql)
         /\ Selects(sql) => stmt_codegen(list, sql) = codegen_select(list, sql)
<1>1. CreatesTable(sql) => stmt_codegen(list, sql) = codegen_create_table(list, sql)
  BY Zenon DEF stmt_codegen, CreatesTable
<1>2. CreatesIndex(sql) => stmt_codegen(list, sql) = codegen_create_index(list, sql)
  BY Zenon DEF stmt_codegen, CreatesIndex
<1>3. AddsRow(sql) => stmt_codegen(list, sql) = codegen_insert(list, sql)
  BY Zenon DEF stmt_codegen, AddsRow
<1>4. Selects(sql) => stmt_codegen(list, sql) = codegen_select(list, sql)
  BY Zenon DEF stmt_codegen, Selects
<1>5. QED
  BY <1>1, <1>2, <1>3, <1>4

WriterCode(list, sql, ops) ==
    \/ CreatesTable(sql) /\ TableCode(list, sql, ops)
    \/ CreatesIndex(sql) /\ IndexCode(list, sql, ops)
    \/ AddsRow(sql) /\ InsertCode(list, sql, ops)

WriterAt(vw, file, list, sql, s) ==
    /\ CreatesTable(sql) => TableAt(file, list, sql, s.pc, s.reg, s.cursors)
    /\ CreatesIndex(sql) => IndexAt(vw, file, list, sql, s.pc, s.reg, s.cursors)
    /\ AddsRow(sql) => InsertStands(file, list, sql, s.pc, s.reg, s.cursors)

Inserted(file, list, sql) ==
    \A x \in ToSet(indexes_of(list, sql.table_name)) :
      IsEntered(file, x, KeyOfRow(list, sql))

Finished(vw, file, list, sql) ==
    /\ CreatesTable(sql) => Registered(file, list, sql)
    /\ CreatesIndex(sql) => IndexFilled(vw, file, list, sql)
    /\ AddsRow(sql) => Inserted(file, list, sql)

(* A statement that writes, one instruction on.                             *)
LEMMA WriterGoes ==
  ASSUME Runner, Handle, Whole(trees), NEW vw, Whole(vw), NEW list, Current(list, trees),
         ToSet(list) \subseteq Items(vw), NEW sql, IsStatement(sql),
         WriterCode(list, sql, stmt.ops), WriterAt(vw, trees, list, sql, stmt)
  PROVE  /\ FileStep(trees, trees', list)
         /\ \/ Stops(ECONSTRAINT)
            \/ \E pc, regs, cursors :
                 Goes(pc, regs, cursors) /\ WriterAt(vw, trees', list, sql, stmts'[running])
<1> DEFINE Done == /\ FileStep(trees, trees', list)
                   /\ \/ Stops(ECONSTRAINT)
                      \/ \E pc, regs, cursors :
                           /\ Goes(pc, regs, cursors)
                           /\ WriterAt(vw, trees', list, sql, stmts'[running])
<1> SUFFICES Done
  OBVIOUS
<1>1. \A pc, regs, cursors : Goes(pc, regs, cursors) =>
        /\ stmts'[running].pc = pc /\ stmts'[running].reg = regs
        /\ stmts'[running].cursors = cursors
  BY DEF Goes
<1>2. CASE CreatesTable(sql)
  <2>1. TableCode(list, sql, stmt.ops) /\ TableAt(trees, list, sql, stmt.pc, stmt.reg, stmt.cursors)
    BY <1>2, KindsDiffer DEF WriterCode, WriterAt
  <2>2. /\ FileStep(trees, trees', list)
        /\ \/ Stops(ECONSTRAINT)
           \/ \E pc, regs, cursors :
                Goes(pc, regs, cursors) /\ TableAt(trees', list, sql, pc, regs, cursors)
    BY <2>1, TableGoes
  <2>3. ASSUME NEW pc, NEW regs, NEW cursors, Goes(pc, regs, cursors),
               TableAt(trees', list, sql, pc, regs, cursors)
        PROVE  WriterAt(vw, trees', list, sql, stmts'[running])
    BY <1>1, <1>2, <2>3, KindsDiffer DEF WriterAt
  <2>4. QED
    BY <2>2, <2>3, Zenon
<1>3. CASE CreatesIndex(sql)
  <2>1. /\ IndexCode(list, sql, stmt.ops)
        /\ IndexAt(vw, trees, list, sql, stmt.pc, stmt.reg, stmt.cursors)
    BY <1>3, KindsDiffer DEF WriterCode, WriterAt
  <2>2. /\ FileStep(trees, trees', list)
        /\ \/ Stops(ECONSTRAINT)
           \/ \E pc, regs, cursors :
                Goes(pc, regs, cursors) /\ IndexAt(vw, trees', list, sql, pc, regs, cursors)
    BY <2>1, IndexGoes
  <2>3. ASSUME NEW pc, NEW regs, NEW cursors, Goes(pc, regs, cursors),
               IndexAt(vw, trees', list, sql, pc, regs, cursors)
        PROVE  WriterAt(vw, trees', list, sql, stmts'[running])
    BY <1>1, <1>3, <2>3, KindsDiffer DEF WriterAt
  <2>4. QED
    BY <2>2, <2>3, Zenon
<1>4. CASE AddsRow(sql)
  <2>1. /\ InsertCode(list, sql, stmt.ops)
        /\ InsertStands(trees, list, sql, stmt.pc, stmt.reg, stmt.cursors)
    BY <1>4, KindsDiffer DEF WriterCode, WriterAt
  <2>2. /\ FileStep(trees, trees', list)
        /\ \/ Stops(ECONSTRAINT)
           \/ \E pc, regs, cursors :
                Goes(pc, regs, cursors) /\ InsertStands(trees', list, sql, pc, regs, cursors)
    BY <1>4, <2>1, InsertionGoes DEF AddsRow
  <2>3. ASSUME NEW pc, NEW regs, NEW cursors, Goes(pc, regs, cursors),
               InsertStands(trees', list, sql, pc, regs, cursors)
        PROVE  WriterAt(vw, trees', list, sql, stmts'[running])
    BY <1>1, <1>4, <2>3, KindsDiffer DEF WriterAt
  <2>4. QED
    BY <2>2, <2>3, Zenon
<1>5. QED
  BY <1>2, <1>3, <1>4 DEF WriterCode

(* At the end of its program it has done its work.                          *)
LEMMA WriterEnds ==
  ASSUME NEW file, Whole(file), NEW list, Current(list, file), NEW sql, IsStatement(sql),
         NEW s, WriterCode(list, sql, s.ops), s.pc = Len(s.ops),
         NEW vw, WriterAt(vw, file, list, sql, s)
  PROVE  Finished(vw, file, list, sql)
<1>1. ASSUME CreatesTable(sql) PROVE Registered(file, list, sql)
  BY <1>1, TableCodeIs, KindsDiffer DEF WriterCode, WriterAt, TableAt
<1>2. ASSUME CreatesIndex(sql) PROVE IndexFilled(vw, file, list, sql)
  BY <1>2, IndexCodeIs, KindsDiffer DEF WriterCode, WriterAt, IndexAt
<1>3. ASSUME AddsRow(sql) PROVE Inserted(file, list, sql)
  <2> DEFINE n == Width(list, sql)
             m == Len(IndexesOn(list, sql))
  <2>1. InsertCode(list, sql, s.ops) /\ InsertStands(file, list, sql, s.pc, s.reg, s.cursors)
    BY <1>3, KindsDiffer DEF WriterCode, WriterAt
  <2>2. IsSchema(list) /\ ToSet(list) \subseteq Items(file)
    BY DEF Current
  <2>3. n \in Nat
    BY <1>3, <2>1, <2>2, InsertFacts DEF AddsRow
  <2>4. m \in Nat /\ s.pc = 2 + TailAt(list, sql)
    BY <2>1, <2>2, <2>3, InsertCodeIs DEF InsertOps
  <2>5. TailAt(list, sql) = 5 + n + 4 * m
    BY DEF TailAt
  <2>6. \A j \in 1 .. m : EntryAt(list, sql, j, 4) = 4 + n + (4 * (j - 1) + 4)
    BY DEF EntryAt, Place
  <2> HIDE DEF n, m
  <2>7. \A j \in 1 .. m : s.pc >= EntryAt(list, sql, j, 4)
    BY <2>3, <2>4, <2>5, <2>6
  <2>8. \A j \in 1 .. m : EntryStands(file, list, sql, s.pc, s.reg, s.cursors, j)
    BY <2>1, Zenon DEF InsertStands, m
  <2>9. \A j \in 1 .. m : IsEntered(file, IndexesOn(list, sql)[j], KeyOfRow(list, sql))
    BY <2>7, <2>8, Zenon DEF EntryStands
  <2>10. ToSet(IndexesOn(list, sql)) = ToSet(indexes_of(list, sql.table_name))
    BY <1>3, <2>1, <2>2, AllIndexes DEF AddsRow
  <2>11. DOMAIN IndexesOn(list, sql) = 1 .. m
    BY <2>2, IndexesChosen, SeqShape DEF m
  <2>12. ASSUME NEW x \in ToSet(indexes_of(list, sql.table_name))
         PROVE  IsEntered(file, x, KeyOfRow(list, sql))
    <3>1. PICK j \in 1 .. m : x = IndexesOn(list, sql)[j]
      BY <2>10, <2>11 DEF ToSet
    <3>2. QED
      BY <2>9, <3>1
  <2>13. QED
    BY <2>12 DEF Inserted
<1>4. QED
  BY <1>1, <1>2, <1>3, Zenon DEF Finished

(* It starts where its program starts.                                      *)
LEMMA WriterStarts ==
  ASSUME NEW file, Whole(file), NEW list, Current(list, file), NEW sql, IsStatement(sql),
         NEW s, WriterCode(list, sql, s.ops), s.pc = 0
  PROVE  WriterAt(file, file, list, sql, s)
<1>1. ASSUME CreatesTable(sql)
      PROVE  TableAt(file, list, sql, s.pc, s.reg, s.cursors)
  BY DEF TableAt, Registers, RowRegisters, NewTree
<1>2. ASSUME CreatesIndex(sql)
      PROVE  IndexAt(file, file, list, sql, s.pc, s.reg, s.cursors)
  BY DEF IndexAt, Registers, RowRegisters, NewTree
<1>3. ASSUME AddsRow(sql)
      PROVE  InsertStands(file, list, sql, s.pc, s.reg, s.cursors)
  <2> DEFINE n == Width(list, sql)
             m == Len(IndexesOn(list, sql))
  <2>1. InsertCode(list, sql, s.ops)
    BY <1>3, KindsDiffer DEF WriterCode
  <2>2. IsSchema(list) /\ ToSet(list) \subseteq Items(file)
    BY DEF Current
  <2>3. n \in Nat
    BY <1>3, <2>1, <2>2, InsertFacts DEF AddsRow
  <2>4. m \in Nat
    BY <2>1, <2>2, <2>3, InsertCodeIs
  <2>5. TailAt(list, sql) = 5 + n + 4 * m
    BY DEF TailAt
  <2>6. \A j \in 1 .. m : \A r \in 1 .. 4 : EntryAt(list, sql, j, r) = 4 + n + (4 * (j - 1) + r)
    BY DEF EntryAt, Place
  <2> HIDE DEF n, m
  <2>7. \A j \in 1 .. m : /\ s.pc # EntryAt(list, sql, j, 2) /\ s.pc # EntryAt(list, sql, j, 3)
                          /\ ~(s.pc >= EntryAt(list, sql, j, 4))
    BY <2>3, <2>4, <2>6
  <2>8. /\ s.pc \in 0 .. 2 + TailAt(list, sql) /\ s.pc # 1 /\ ~(s.pc >= 3) /\ s.pc # 4 + n
        /\ s.pc \notin 2 .. 4 + n /\ ~(s.pc >= 5 + n)
        /\ \A i \in 1 .. n : ~(s.pc >= 3 + i)
    BY <2>3, <2>4, <2>5
  <2>9. \A j \in 1 .. m : EntryStands(file, list, sql, s.pc, s.reg, s.cursors, j)
    BY <2>7, Zenon DEF EntryStands
  <2>10. IsLoaded(list, sql, s.pc, s.reg)
    BY <2>8, Zenon DEF IsLoaded, n
  <2>11. QED
    BY <2>8, <2>9, <2>10, Zenon DEF InsertStands, n, m
<1>4. QED
  BY <1>1, <1>2, <1>3, Zenon DEF WriterAt

(* What was done stays done, whatever the others do.                        *)
LEMMA FinishedStays ==
  ASSUME NEW file, Whole(file), NEW after, Whole(after), Grows(file, after),
         NEW list, IsSchema(list), ToSet(list) \subseteq Items(file), NEW sql,
         NEW vw, Finished(vw, file, list, sql)
  PROVE  Finished(vw, after, list, sql)
<1>1. ASSUME Registered(file, list, sql) PROVE Registered(after, list, sql)
  <2>1. Items(file) \subseteq Items(after)
    BY ItemsGrow DEF Whole
  <2>2. QED
    BY <1>1, <2>1 DEF Registered
<1>2. ASSUME IndexFilled(vw, file, list, sql) PROVE IndexFilled(vw, after, list, sql)
  <2>1. PICK x \in IndexItems(file) :
          /\ x.sql = sql /\ x.key = NewKey(list)
          /\ RowEntries(vw, x) \subseteq IndexEntries(file, x)
    BY <1>2 DEF IndexFilled
  <2>2. x \in IndexItems(after) /\ IndexEntries(file, x) \subseteq IndexEntries(after, x)
    BY EntriesGrow DEF Whole
  <2>3. QED
    BY <2>1, <2>2 DEF IndexFilled
<1>3. ASSUME Inserted(file, list, sql) PROVE Inserted(after, list, sql)
  <2> SUFFICES ASSUME NEW x \in ToSet(indexes_of(list, sql.table_name))
               PROVE  IsEntered(after, x, KeyOfRow(list, sql))
    BY DEF Inserted
  <2>1. x.root_page \in DOMAIN file
    BY IndexesOf, TablesOfFile DEF Whole
  <2>2. IsEntered(file, x, KeyOfRow(list, sql))
    BY <1>3 DEF Inserted
  <2>3. QED
    BY <2>1, <2>2, HoldsGrow DEF IsEntered
<1>4. QED
  BY <1>1, <1>2, <1>3, Zenon DEF Finished

(* What the compilers return.                                               *)
Coded(list, sql, s) ==
    \/ Selects(sql) /\ IsReader(s.ops) /\ s.schema_change = FALSE
    \/ WriterCode(list, sql, s.ops) /\ (AddsRow(sql) => s.schema_change = FALSE)

(* A statement that is prepared is at the start of a program of its kind.   *)
LEMMA CompiledStatement ==
  ASSUME NEW file, Whole(file), NEW list, Current(list, file), NEW sql, IsStatement(sql),
         NEW s \in stmt_codegen(list, stmt_optimize(list, sql))
  PROVE  IsStmt(s) /\ s.pc = 0 /\ s.rc = OK /\ Coded(list, sql, s)
<1> DEFINE better == stmt_optimize(list, sql)
           Done == IsStmt(s) /\ s.pc = 0 /\ s.rc = OK /\ Coded(list, sql, s)
<1>1. /\ ~Selects(sql) => better = sql
      /\ IsStatement(better) /\ better.type = sql.type
  BY OptimizedStatement DEF Selects
<1>2. IsSchema(list) /\ ToSet(list) \subseteq Items(file)
  BY DEF Current
<1> HIDE DEF better
<1>3. ASSUME NEW ops, NEW change, s = NewStmt(ops, change)
      PROVE  IsStmt(s) /\ s.ops = ops /\ s.schema_change = change /\ s.pc = 0 /\ s.rc = OK
  BY <1>3, PreparedStatement
<1>4. CASE Selects(sql)
  <2>1. HasSoundTables(list)
    BY <1>2, TablesOfFile DEF HasSoundTables, Whole
  <2>2. s \in codegen_select(list, better)
    BY <1>1, <1>4, KindsDiffer, CompilerOf DEF better, Selects
  <2>3. PICK ops : s = NewStmt(ops, FALSE) /\ IsReader(ops)
    BY <1>1, <1>4, <2>1, <2>2, SelectReads DEF Selects
  <2>4. QED
    BY <1>3, <1>4, <2>3 DEF Coded
<1>5. CASE CreatesTable(sql)
  <2>1. s \in codegen_create_table(list, sql)
    BY <1>1, <1>5, KindsDiffer, CompilerOf DEF better
  <2> DEFINE ops == Append(emit_schema_row("CreateTable", "table", sql.name, sql,
                                            schema_next_key(list)),
                           Op("Halt", 0, 0, 0))
  <2>2. s = NewStmt(ops, TRUE) /\ tables_named(list, sql.name) = <<>>
    BY <2>1 DEF codegen_create_table, Compiled
  <2>3. OnePrimaryKey(sql.columns) /\ \A y \in ToSet(list) : ~IsTableNamed(y, sql.name)
    BY <1>2, <1>5, <2>2, TablesNamed, KindOf
  <2>4. TableCode(list, sql, ops)
    BY <2>3 DEF TableCode, MayRegister
  <2> HIDE DEF ops
  <2>5. QED
    BY <1>3, <1>5, <2>2, <2>4, KindsDiffer DEF Coded, WriterCode
<1>6. CASE CreatesIndex(sql)
  <2>1. s \in codegen_create_index(list, sql)
    BY <1>1, <1>6, KindsDiffer, CompilerOf DEF better
  <2> DEFINE ops == emit_schema_row("CreateIndex", "index", sql.table_name, sql,
                                    schema_next_key(list))
                    \o FillCode(list, sql)
  <2>2. s = NewStmt(ops, TRUE) /\ tables_named(list, sql.table_name) # <<>> /\ ColumnOn(list, sql) >= 0
    BY <2>1 DEF codegen_create_index, Compiled, FillCode, TableOn, ColumnOn
  <2>3. IndexCode(list, sql, ops)
    BY <2>2 DEF IndexCode
  <2> HIDE DEF ops
  <2>4. QED
    BY <1>3, <1>6, <2>2, <2>3, KindsDiffer DEF Coded, WriterCode
<1>7. CASE AddsRow(sql)
  <2>1. s \in codegen_insert(list, sql)
    BY <1>1, <1>7, KindsDiffer, CompilerOf DEF better
  <2> DEFINE ops == InsertHead(list, sql) \o InsertLoads(list, sql) \o InsertRow(list, sql)
                    \o Chain(4, EntryPieces(list, sql)) \o InsertTail
  <2> DEFINE fits == /\ tables_named(list, sql.table_name) # <<>>
                     /\ Len(sql.values) = Width(list, sql)
                     /\ \A i \in 1 .. Width(list, sql) :
                          literal_matches_type(sql.values[i], TableOn(list, sql).sql.columns[i].type)
  <2>2. codegen_insert(list, sql) = Compiled(fits, NewStmt(ops, FALSE))
    BY Zenon DEF codegen_insert, InsertHead, InsertLoads, InsertRow, EntryPieces, InsertTail,
                 EntryPiece, LoadOp, KeyRegister, IndexesOn, RowNumber, Primary, Width, TableOn
  <2>3. s = NewStmt(ops, FALSE) /\ fits
    <3> HIDE DEF ops, fits
    <3>1. QED
      BY <2>1, <2>2 DEF Compiled
  <2>4. InsertCode(list, sql, ops)
    BY <2>3 DEF InsertCode
  <2> HIDE DEF ops
  <2>5. QED
    BY <1>3, <1>7, <2>3, <2>4 DEF Coded, WriterCode
<1>8. QED
  BY <1>4, <1>5, <1>6, <1>7, KindOf
-----------------------------------------------------------------------------
(* The inductive invariant.  A statement that has begun has a view of a     *)
(* whole file that has only grown since.  A writer is either where its      *)
(* instructions say, or was never stepped, or failed, or has done its work. *)

Viewed(vw, file, list) ==
    Whole(vw) /\ Grows(vw, file) /\ ToSet(list) \subseteq Items(vw)

WriterRuns(vw, file, list, sql, s) ==
    /\ s.pc # Len(s.ops) => WriterAt(vw, file, list, sql, s)
    /\ s.pc = Len(s.ops) => Finished(vw, file, list, sql)
    /\ s.rc = DONE => s.pc = Len(s.ops)

WriterRests(vw, file, list, sql, s) ==
    \/ s.pc = 0 /\ s.rc = OK
    \/ s.rc = ECONSTRAINT
    \/ s.pc = Len(s.ops) /\ Finished(vw, file, list, sql)

IsKnown(known, list, sql) ==
    \E x \in ToSet(known) : x.sql = sql /\ x.key = NewKey(list)

IsCompiled(s, q, file) ==
    /\ IsStmt(s) /\ s.pc \in Nat
    /\ IsStatement(q.sql) /\ Current(q.schema, file)
    /\ Coded(q.schema, q.sql, s)

IsHandled(s, q, vw, file, known, runs) ==
    /\ IsCompiled(s, q, file)
    /\ runs \/ s.pc # 0 => Viewed(vw, file, q.schema)
    /\ ~Selects(q.sql) /\ runs => WriterRuns(vw, file, q.schema, q.sql, s)
    /\ ~Selects(q.sql) /\ ~runs => WriterRests(vw, file, q.schema, q.sql, s)
    /\ s.rc = DONE /\ s.schema_change => IsKnown(known, q.schema, q.sql)

IsRunning(h) == running = h /\ running # Idle

HandledAt(h) ==
    stmts[h] # NoStmt \/ IsRunning(h) =>
      IsHandled(stmts[h], sqls[h], view[h], trees, schema, IsRunning(h))

FileInv == Whole(trees) /\ Current(schema, trees)
HandlesInv ==
    /\ running \in Handles \cup {Idle}
    /\ stmts = [h \in Handles |-> stmts[h]]
    /\ sqls = [h \in Handles |-> sqls[h]]
    /\ view = [h \in Handles |-> view[h]]

DatabaseInv == FileInv /\ HandlesInv /\ \A h \in Handles : HandledAt(h)

(* A statement that rests is left as it is by what another one does.        *)
LEMMA RestsOn ==
  ASSUME NEW file, Whole(file), NEW after, NEW list, FileStep(file, after, list),
         NEW s, NEW q, NEW vw, NEW known, IsHandled(s, q, vw, file, known, FALSE)
  PROVE  IsHandled(s, q, vw, after, known, FALSE)
<1>1. Whole(after) /\ Grows(file, after)
  BY DEF FileStep
<1>2. IsSchema(q.schema) /\ ToSet(q.schema) \subseteq Items(file)
  BY DEF IsHandled, IsCompiled, Current
<1>3. IsCompiled(s, q, after)
  BY StillCurrent DEF IsHandled, IsCompiled
<1>4. Viewed(vw, file, q.schema) => Viewed(vw, after, q.schema)
  BY <1>1, GrowthAddsUp DEF Viewed
<1>5. Finished(vw, file, q.schema, q.sql) => Finished(vw, after, q.schema, q.sql)
  BY <1>1, <1>2, FinishedStays
<1>6. WriterRests(vw, file, q.schema, q.sql, s) => WriterRests(vw, after, q.schema, q.sql, s)
  BY <1>5, Zenon DEF WriterRests
<1>7. QED
  BY <1>3, <1>4, <1>6, Zenon DEF IsHandled

(* A list that is loaded again knows no less.                               *)
LEMMA KnowsMore ==
  ASSUME NEW known, NEW other, ToSet(known) \subseteq ToSet(other),
         NEW s, NEW q, NEW vw, NEW file, NEW runs, IsHandled(s, q, vw, file, known, runs)
  PROVE  IsHandled(s, q, vw, file, other, runs)
<1>1. IsKnown(known, q.schema, q.sql) => IsKnown(other, q.schema, q.sql)
  BY DEF IsKnown
<1>2. QED
  BY <1>1, Zenon DEF IsHandled

(* A list that is loaded from the file is current.                          *)
LEMMA LoadedAgain ==
  ASSUME NEW file, Whole(file)
  PROVE  Current(schema_load(file), file) /\ ToSet(schema_load(file)) = Items(file)
<1>1. IsSchema(schema_load(file)) /\ ToSet(schema_load(file)) = Items(file)
  BY FileShape DEF Whole
<1>2. QED
  BY <1>1 DEF Current

(* The invariant holds when the file is opened.                             *)
LEMMA InitInv ==
  ASSUME Init
  PROVE  DatabaseInv
<1>1. Whole(trees)
  BY FilesAssumption DEF Init, Whole
<1>2. Current(schema, trees)
  BY <1>1, LoadedAgain DEF Init
<1>3. HandlesInv
  BY DEF Init, HandlesInv
<1>4. \A h \in Handles : stmts[h] = NoStmt /\ ~IsRunning(h)
  BY DEF Init, IsRunning
<1>5. QED
  BY <1>1, <1>2, <1>3, <1>4 DEF DatabaseInv, FileInv, HandledAt

(* chidb_prepare keeps it.                                                  *)
LEMMA PrepareKeeps ==
  ASSUME DatabaseInv, NEW h \in Handles, NEW sql \in Statements, Prepare(h, sql)
  PROVE  DatabaseInv'
<1>1. /\ running = Idle /\ UNCHANGED <<trees, running, view, schema>>
      /\ sqls' = [sqls EXCEPT ![h] = [sql |-> sql, schema |-> schema]]
  BY DEF Prepare
<1>2. PICK s \in stmt_codegen(schema, stmt_optimize(schema, sql)) :
        stmts' = [stmts EXCEPT ![h] = s]
  BY DEF Prepare
<1>3. Whole(trees) /\ Current(schema, trees)
  BY DEF DatabaseInv, FileInv
<1>4. IsStatement(sql)
  BY StatementsAssumption
<1>5. IsStmt(s) /\ s.pc = 0 /\ s.rc = OK /\ Coded(schema, sql, s)
  BY <1>2, <1>3, <1>4, CompiledStatement
<1>6. /\ DOMAIN stmts = Handles /\ DOMAIN sqls = Handles
      /\ stmts = [g \in Handles |-> stmts[g]] /\ sqls = [g \in Handles |-> sqls[g]]
  BY DEF DatabaseInv, HandlesInv
<1>7. /\ stmts'[h] = s /\ sqls'[h] = [sql |-> sql, schema |-> schema]
      /\ \A g \in Handles : g # h => stmts'[g] = stmts[g] /\ sqls'[g] = sqls[g]
      /\ stmts' = [g \in Handles |-> stmts'[g]] /\ sqls' = [g \in Handles |-> sqls'[g]]
  BY <1>1, <1>2, <1>6
<1>8. \A g \in Handles : ~IsRunning(g) /\ ~IsRunning(g)'
  BY <1>1 DEF IsRunning
<1>9. HandledAt(h)'
  <2> DEFINE q == [sql |-> sql, schema |-> schema]
  <2>1. q.sql = sql /\ q.schema = schema
    OBVIOUS
  <2> HIDE DEF q
  <2>2. IsCompiled(s, q, trees)
    BY <1>3, <1>4, <1>5, <2>1 DEF IsCompiled
  <2>3. WriterRests(view[h], trees, schema, sql, s)
    BY <1>5 DEF WriterRests
  <2>4. s.pc = 0 /\ s.rc # DONE
    BY <1>5 DEF OK, DONE
  <2>5. IsHandled(s, q, view[h], trees, schema, FALSE)
    BY <2>1, <2>2, <2>3, <2>4, Zenon DEF IsHandled
  <2>6. IsHandled(stmts'[h], sqls'[h], view'[h], trees', schema', FALSE)
    BY <1>1, <1>7, <2>5 DEF q
  <2>7. IsRunning(h)' = FALSE
    BY <1>1 DEF IsRunning
  <2>8. QED
    BY <2>6, <2>7 DEF HandledAt
<1>10. \A g \in Handles : g # h => HandledAt(g)'
  <2> SUFFICES ASSUME NEW g \in Handles, g # h PROVE HandledAt(g)'
    OBVIOUS
  <2>1. HandledAt(g)
    BY DEF DatabaseInv
  <2>2. stmts'[g] = stmts[g] /\ sqls'[g] = sqls[g] /\ IsRunning(g)' = IsRunning(g)
    BY <1>1, <1>7 DEF IsRunning
  <2>3. QED
    BY <1>1, <2>1, <2>2 DEF HandledAt
<1>11. HandlesInv'
  BY <1>1, <1>7 DEF DatabaseInv, HandlesInv
<1>12. FileInv'
  BY <1>1, <1>3 DEF FileInv
<1>13. QED
  BY <1>9, <1>10, <1>11, <1>12 DEF DatabaseInv

(* chidb_step keeps it when it begins.                                      *)
LEMMA StepKeeps ==
  ASSUME DatabaseInv, NEW h \in Handles, Step(h)
  PROVE  DatabaseInv'
<1>1. /\ running = Idle /\ running' = h
      /\ stmts[h] # NoStmt /\ stmts[h].rc # ECONSTRAINT
      /\ view' = [view EXCEPT ![h] = IF stmts[h].pc = 0 THEN trees ELSE view[h]]
      /\ UNCHANGED <<trees, stmts, schema, sqls>>
  BY DEF Step, ExecBegins
<1>2. Whole(trees) /\ view = [g \in Handles |-> view[g]]
  BY DEF DatabaseInv, FileInv, HandlesInv
<1>3. /\ view'[h] = IF stmts[h].pc = 0 THEN trees ELSE view[h]
      /\ \A g \in Handles : g # h => view'[g] = view[g]
      /\ view' = [g \in Handles |-> view'[g]]
  BY <1>1, <1>2
<1>4. \A g \in Handles : ~IsRunning(g) /\ (g # h => ~IsRunning(g)')
  BY <1>1 DEF IsRunning
<1>5. HandledAt(h)'
  <2> DEFINE s == stmts[h]
             q == sqls[h]
             vw == view'[h]
  <2>1. IsHandled(s, q, view[h], trees, schema, FALSE)
    <3>1. HandledAt(h) /\ IsRunning(h) = FALSE
      BY <1>1 DEF DatabaseInv, IsRunning
    <3>2. QED
      BY <1>1, <3>1 DEF HandledAt
  <2>2. vw = IF s.pc = 0 THEN trees ELSE view[h]
    BY <1>3
  <2>3. s.rc # ECONSTRAINT
    BY <1>1
  <2> HIDE DEF s, q, vw
  <2>4. /\ IsCompiled(s, q, trees) /\ IsStatement(q.sql) /\ Current(q.schema, trees)
        /\ Coded(q.schema, q.sql, s)
    BY <2>1 DEF IsHandled, IsCompiled
  <2>5. Viewed(vw, trees, q.schema)
    <3>1. CASE s.pc = 0
      <4>1. Grows(trees, trees) /\ ToSet(q.schema) \subseteq Items(trees)
        BY <2>4 DEF Grows, TreeGrows, Current
      <4>2. QED
        BY <1>2, <2>2, <3>1, <4>1 DEF Viewed
    <3>2. CASE s.pc # 0
      BY <2>1, <2>2, <3>2 DEF IsHandled
    <3>3. QED
      BY <3>1, <3>2
  <2>6. ASSUME ~Selects(q.sql) PROVE WriterRuns(vw, trees, q.schema, q.sql, s)
    <3>1. WriterRests(view[h], trees, q.schema, q.sql, s)
      BY <2>1, <2>6 DEF IsHandled
    <3>2. WriterCode(q.schema, q.sql, s.ops)
      BY <2>4, <2>6 DEF Coded, Selects
    <3>3. CASE s.pc = 0 /\ s.rc = OK
      <4>1. WriterAt(trees, trees, q.schema, q.sql, s) /\ vw = trees
        BY <1>2, <2>2, <2>4, <3>2, <3>3, WriterStarts
      <4>2. s.pc = Len(s.ops) => Finished(vw, trees, q.schema, q.sql)
        BY <1>2, <2>4, <3>2, <4>1, WriterEnds
      <4>3. s.rc # DONE
        BY <3>3 DEF OK, DONE
      <4>4. QED
        BY <4>1, <4>2, <4>3 DEF WriterRuns
    <3>4. CASE s.pc = Len(s.ops) /\ Finished(view[h], trees, q.schema, q.sql)
      <4>1. CASE s.pc # 0
        BY <2>2, <3>4, <4>1 DEF WriterRuns
      <4>2. CASE s.pc = 0
        <5>1. WriterAt(trees, trees, q.schema, q.sql, s) /\ vw = trees
          BY <1>2, <2>2, <2>4, <3>2, <4>2, WriterStarts
        <5>2. Finished(vw, trees, q.schema, q.sql)
          BY <1>2, <2>4, <3>2, <3>4, <5>1, WriterEnds
        <5>3. QED
          BY <3>4, <5>2 DEF WriterRuns
      <4>3. QED
        BY <4>1, <4>2
    <3>5. QED
      BY <2>3, <3>1, <3>3, <3>4 DEF WriterRests
  <2>7. \A runs \in BOOLEAN : (runs = TRUE) => IsHandled(s, q, vw, trees, schema, runs)
    BY <2>1, <2>4, <2>5, <2>6, Zenon DEF IsHandled
  <2>8. CASE h # Idle
    <3>1. IsRunning(h)' = TRUE
      BY <1>1, <2>8 DEF IsRunning
    <3>2. IsHandled(stmts'[h], sqls'[h], view'[h], trees', schema', TRUE)
      BY <1>1, <2>7 DEF s, q, vw
    <3>3. QED
      BY <3>1, <3>2 DEF HandledAt
  <2>9. CASE h = Idle
    <3>1. IsRunning(h)' = FALSE
      BY <1>1, <2>9 DEF IsRunning
    <3>2. ASSUME ~Selects(q.sql) PROVE WriterRests(vw, trees, q.schema, q.sql, s)
      <4>1. WriterRests(view[h], trees, q.schema, q.sql, s)
        BY <2>1, <3>2 DEF IsHandled
      <4>2. WriterRuns(vw, trees, q.schema, q.sql, s)
        BY <2>6, <3>2
      <4>3. QED
        BY <4>1, <4>2, Zenon DEF WriterRests, WriterRuns
    <3>3. IsHandled(s, q, vw, trees, schema, FALSE)
      BY <2>1, <2>4, <2>5, <3>2, Zenon DEF IsHandled
    <3>4. IsHandled(stmts'[h], sqls'[h], view'[h], trees', schema', FALSE)
      BY <1>1, <3>3 DEF s, q, vw
    <3>5. QED
      BY <3>1, <3>4 DEF HandledAt
  <2>10. QED
    BY <2>8, <2>9
<1>6. \A g \in Handles : g # h => HandledAt(g)'
  <2> SUFFICES ASSUME NEW g \in Handles, g # h PROVE HandledAt(g)'
    OBVIOUS
  <2>1. HandledAt(g) /\ IsRunning(g)' = IsRunning(g)
    BY <1>4 DEF DatabaseInv, IsRunning
  <2>2. QED
    BY <1>1, <1>3, <2>1 DEF HandledAt
<1>7. HandlesInv' /\ FileInv'
  BY <1>1, <1>3 DEF DatabaseInv, HandlesInv, FileInv
<1>8. QED
  BY <1>5, <1>6, <1>7 DEF DatabaseInv

(* chidb_finalize keeps it.                                                 *)
LEMMA FinalizeKeeps ==
  ASSUME DatabaseInv, NEW h \in Handles, Finalize(h)
  PROVE  DatabaseInv'
<1>1. /\ running = Idle /\ UNCHANGED <<trees, running, schema>>
      /\ stmts' = [stmts EXCEPT ![h] = NoStmt]
      /\ sqls' = [sqls EXCEPT ![h] = NoSql]
      /\ view' = [view EXCEPT ![h] = <<>>]
  BY DEF Finalize
<1>2. /\ stmts = [g \in Handles |-> stmts[g]] /\ sqls = [g \in Handles |-> sqls[g]]
      /\ view = [g \in Handles |-> view[g]]
  BY DEF DatabaseInv, HandlesInv
<1>3. /\ stmts'[h] = NoStmt
      /\ \A g \in Handles : g # h => /\ stmts'[g] = stmts[g] /\ sqls'[g] = sqls[g]
                                     /\ view'[g] = view[g]
      /\ stmts' = [g \in Handles |-> stmts'[g]] /\ sqls' = [g \in Handles |-> sqls'[g]]
      /\ view' = [g \in Handles |-> view'[g]]
  BY <1>1, <1>2
<1>4. \A g \in Handles : HandledAt(g)'
  <2> SUFFICES ASSUME NEW g \in Handles PROVE HandledAt(g)'
    OBVIOUS
  <2>1. HandledAt(g) /\ IsRunning(g)' = IsRunning(g) /\ ~IsRunning(g)
    BY <1>1 DEF DatabaseInv, IsRunning
  <2>2. CASE g = h
    BY <1>3, <2>1, <2>2 DEF HandledAt
  <2>3. CASE g # h
    BY <1>1, <1>3, <2>1, <2>3 DEF HandledAt
  <2>4. QED
    BY <2>2, <2>3
<1>5. HandlesInv' /\ FileInv'
  BY <1>1, <1>3 DEF DatabaseInv, HandlesInv, FileInv
<1>6. QED
  BY <1>4, <1>5 DEF DatabaseInv

(* chidb_close and chidb_open keep it.                                      *)
LEMMA ReopenKeeps ==
  ASSUME DatabaseInv, Reopen
  PROVE  DatabaseInv'
<1>1. /\ running = Idle /\ \A h \in Handles : stmts[h] = NoStmt
      /\ schema' = schema_load(trees)
      /\ UNCHANGED <<trees, stmts, running, view, sqls>>
  BY DEF Reopen
<1>2. Whole(trees)
  BY DEF DatabaseInv, FileInv
<1>3. FileInv'
  BY <1>1, <1>2, LoadedAgain DEF FileInv
<1>4. \A h \in Handles : HandledAt(h)'
  BY <1>1 DEF HandledAt, IsRunning
<1>5. HandlesInv'
  BY <1>1 DEF DatabaseInv, HandlesInv
<1>6. QED
  BY <1>3, <1>4, <1>5 DEF DatabaseInv

(* The program counter is a number.                                         *)
LEMMA WriterPlace ==
  ASSUME NEW file, Whole(file), NEW list, Current(list, file), NEW sql, IsStatement(sql),
         NEW s, WriterCode(list, sql, s.ops), NEW vw, WriterAt(vw, file, list, sql, s)
  PROVE  s.pc \in Nat
<1>1. CASE CreatesTable(sql)
  BY <1>1 DEF WriterAt, TableAt
<1>2. CASE CreatesIndex(sql)
  BY <1>2 DEF WriterAt, IndexAt
<1>3. CASE AddsRow(sql)
  <2> DEFINE n == Width(list, sql)
             m == Len(IndexesOn(list, sql))
  <2>1. InsertCode(list, sql, s.ops) /\ InsertStands(file, list, sql, s.pc, s.reg, s.cursors)
    BY <1>3, KindsDiffer DEF WriterCode, WriterAt
  <2>2. IsSchema(list) /\ ToSet(list) \subseteq Items(file)
    BY DEF Current
  <2>3. n \in Nat
    BY <1>3, <2>1, <2>2, InsertFacts DEF AddsRow
  <2>4. m \in Nat
    BY <2>1, <2>2, <2>3, InsertCodeIs
  <2>5. TailAt(list, sql) = 5 + n + 4 * m
    BY DEF TailAt
  <2>6. s.pc \in 0 .. 2 + TailAt(list, sql)
    BY <2>1 DEF InsertStands
  <2> HIDE DEF n, m
  <2>7. QED
    BY <2>3, <2>4, <2>5, <2>6
<1>4. QED
  BY <1>1, <1>2, <1>3 DEF WriterCode

(* The statement that runs, one instruction on.                             *)
LEMMA RunsOn ==
  ASSUME Runner, Handle, Whole(trees), NEW q, NEW vw, NEW known,
         IsHandled(stmt, q, vw, trees, known, TRUE)
  PROVE  /\ FileStep(trees, trees', q.schema)
         /\ \/ /\ running' = running
               /\ IsHandled(stmts'[running], q, vw, trees', known, TRUE)
            \/ /\ running' = Idle
               /\ IsHandled(stmts'[running], q, vw, trees', known, FALSE)
<1> DEFINE list == q.schema
           sql == q.sql
           Done == /\ FileStep(trees, trees', list)
                   /\ \/ /\ running' = running
                         /\ IsHandled(stmts'[running], q, vw, trees', known, TRUE)
                      \/ /\ running' = Idle
                         /\ IsHandled(stmts'[running], q, vw, trees', known, FALSE)
<1> SUFFICES Done
  OBVIOUS
<1>1. /\ IsCompiled(stmt, q, trees) /\ Viewed(vw, trees, list)
      /\ ~Selects(sql) => WriterRuns(vw, trees, list, sql, stmt)
      /\ stmt.rc = DONE /\ stmt.schema_change => IsKnown(known, list, sql)
  BY DEF IsHandled
<1>2. /\ IsStmt(stmt) /\ stmt.pc \in Nat /\ IsStatement(sql) /\ Current(list, trees)
      /\ Coded(list, sql, stmt)
  BY <1>1 DEF IsCompiled
<1>3. stmt.pc # Len(stmt.ops)
  <2>1. stmt.pc < Len(stmt.ops)
    BY HandlerOf DEF Fetched, endOp
  <2>2. QED
    BY <1>2, <2>1
<1> HIDE DEF list, sql
<1>4. ASSUME FileStep(trees, trees', list), NEW pc \in Nat, NEW regs, NEW cursors,
             Goes(pc, regs, cursors),
             ~Selects(sql) => WriterRuns(vw, trees', list, sql, stmts'[running])
      PROVE  Done
  <2> DEFINE s == stmts'[running]
  <2>1. /\ running' = running
        /\ s = [ops |-> stmt.ops, pc |-> pc, reg |-> regs, cursors |-> cursors,
                rc |-> stmt.rc, schema_change |-> stmt.schema_change]
    BY <1>4 DEF Goes
  <2> HIDE DEF s
  <2>2. /\ IsStmt(s) /\ s.pc \in Nat /\ s.ops = stmt.ops /\ s.rc = stmt.rc
        /\ s.schema_change = stmt.schema_change
    BY <2>1 DEF IsStmt
  <2>3. Current(list, trees')
    BY <1>2, <1>4, StillCurrent
  <2>4. IsCompiled(s, q, trees')
    BY <1>2, <2>2, <2>3 DEF IsCompiled, Coded, list, sql
  <2>5. Viewed(vw, trees', list)
    BY <1>1, <1>4, GrowthAddsUp DEF Viewed, FileStep
  <2>6. IsHandled(s, q, vw, trees', known, TRUE)
    BY <1>1, <1>4, <2>2, <2>4, <2>5, Zenon DEF IsHandled, list, sql, s
  <2>7. QED
    BY <1>4, <2>1, <2>6 DEF s, list
<1>5. ASSUME FileStep(trees, trees', list), NEW rc, rc # DONE, Stops(rc),
             ~Selects(sql) => rc = ECONSTRAINT
      PROVE  Done
  <2> DEFINE s == stmts'[running]
  <2>1. /\ running' = Idle
        /\ s = [ops |-> stmt.ops, pc |-> stmt.pc + 1, reg |-> stmt.reg,
                cursors |-> stmt.cursors, rc |-> rc, schema_change |-> stmt.schema_change]
    BY <1>5 DEF Stops
  <2> HIDE DEF s
  <2>2. /\ IsStmt(s) /\ s.pc \in Nat /\ s.ops = stmt.ops /\ s.rc = rc
        /\ s.schema_change = stmt.schema_change
    BY <1>2, <2>1 DEF IsStmt
  <2>3. Current(list, trees')
    BY <1>2, <1>5, StillCurrent
  <2>4. IsCompiled(s, q, trees')
    BY <1>2, <2>2, <2>3 DEF IsCompiled, Coded, list, sql
  <2>5. Viewed(vw, trees', list)
    BY <1>1, <1>5, GrowthAddsUp DEF Viewed, FileStep
  <2>6. ~Selects(sql) => WriterRests(vw, trees', list, sql, s)
    BY <1>5, <2>2 DEF WriterRests
  <2>7. IsHandled(s, q, vw, trees', known, FALSE)
    BY <1>5, <2>2, <2>4, <2>5, <2>6, Zenon DEF IsHandled, list, sql
  <2>8. QED
    BY <1>5, <2>1, <2>7 DEF s, list
<1> HIDE DEF Done
<1>6. CASE Selects(sql)
  <2>1. IsReader(stmt.ops)
    BY <1>2, <1>6, KindsDiffer DEF Coded, WriterCode
  <2>2. /\ UNCHANGED trees
        /\ \E pc \in Nat : \E regs, cursors : Goes(pc, regs, cursors) \/ Stops(ROW)
    BY <1>2, <2>1, ReaderGoes
  <2>3. FileStep(trees, trees', list)
    BY <2>2, NothingStepped
  <2>4. ROW # DONE
    BY DEF ROW, DONE
  <2>5. QED
    BY <1>4, <1>5, <1>6, <2>2, <2>3, <2>4, Zenon
<1>7. CASE ~Selects(sql)
  <2>1. WriterCode(list, sql, stmt.ops) /\ WriterAt(vw, trees, list, sql, stmt)
    BY <1>1, <1>2, <1>3, <1>7 DEF Coded, WriterRuns
  <2>2. Whole(vw) /\ ToSet(list) \subseteq Items(vw)
    BY <1>1 DEF Viewed
  <2>3. /\ FileStep(trees, trees', list)
        /\ \/ Stops(ECONSTRAINT)
           \/ \E pc, regs, cursors :
                Goes(pc, regs, cursors) /\ WriterAt(vw, trees', list, sql, stmts'[running])
    BY <1>2, <2>1, <2>2, WriterGoes
  <2>4. ECONSTRAINT # DONE
    BY DEF ECONSTRAINT, DONE
  <2>5. ASSUME NEW pc, NEW regs, NEW cursors, Goes(pc, regs, cursors),
               WriterAt(vw, trees', list, sql, stmts'[running])
        PROVE  Done
    <3> DEFINE s == stmts'[running]
    <3>1. s.ops = stmt.ops /\ s.pc = pc /\ s.rc = stmt.rc
      BY <2>5 DEF Goes
    <3> HIDE DEF s
    <3>2. Whole(trees') /\ Current(list, trees')
      BY <1>2, <2>3, StillCurrent DEF FileStep
    <3>3. WriterCode(list, sql, s.ops) /\ WriterAt(vw, trees', list, sql, s)
      BY <2>1, <2>5, <3>1 DEF s
    <3>4. pc \in Nat
      BY <1>2, <3>1, <3>2, <3>3, WriterPlace
    <3>5. s.pc = Len(s.ops) => Finished(vw, trees', list, sql)
      BY <1>2, <3>2, <3>3, WriterEnds
    <3>6. s.rc # DONE
      BY <1>1, <1>3, <1>7, <3>1 DEF WriterRuns
    <3>7. WriterRuns(vw, trees', list, sql, s)
      BY <3>3, <3>5, <3>6 DEF WriterRuns
    <3>8. QED
      BY <1>4, <2>3, <2>5, <3>4, <3>7, Zenon DEF s
  <2>6. QED
    BY <1>5, <2>3, <2>4, <2>5, Zenon
<1>8. QED
  BY <1>6, <1>7

(* Each handler keeps the invariant.                                        *)
LEMMA InstructionKeeps ==
  ASSUME DatabaseInv, Instruction
  PROVE  DatabaseInv'
<1>1. Handle /\ UNCHANGED <<schema, sqls>> /\ running # Idle
  BY HandlerOf DEF Instruction, Fetched
<1>2. /\ running \in Handles /\ Whole(trees) /\ Current(schema, trees)
      /\ stmts = [h \in Handles |-> stmts[h]]
  BY <1>1 DEF DatabaseInv, FileInv, HandlesInv
<1>3. IsHandled(stmt, sqls[running], view[running], trees, schema, TRUE)
  <2>1. HandledAt(running) /\ IsRunning(running) = TRUE
    BY <1>1, <1>2 DEF DatabaseInv, IsRunning
  <2>2. QED
    BY <2>1 DEF HandledAt, stmt
<1>4. Runner
  <2>1. IsStmt(stmt)
    BY <1>3 DEF IsHandled, IsCompiled
  <2>2. QED
    BY <1>2, <2>1 DEF Runner
<1> DEFINE list == sqls[running].schema
<1>5. /\ FileStep(trees, trees', list)
      /\ \/ /\ running' = running
            /\ IsHandled(stmts'[running], sqls[running], view[running], trees', schema, TRUE)
         \/ /\ running' = Idle
            /\ IsHandled(stmts'[running], sqls[running], view[running], trees', schema, FALSE)
  BY <1>1, <1>2, <1>3, <1>4, RunsOn
<1>6. /\ stmts' = [h \in Handles |-> stmts'[h]]
      /\ \A h \in Handles : h # running => stmts'[h] = stmts[h]
      /\ UNCHANGED view
  BY <1>1, <1>4, HandleFrame
<1> HIDE DEF list
<1>7. \A h \in Handles : HandledAt(h)'
  <2> SUFFICES ASSUME NEW h \in Handles PROVE HandledAt(h)'
    OBVIOUS
  <2>1. CASE h # running
    <3>1. HandledAt(h) /\ IsRunning(h) = FALSE
      BY <2>1 DEF DatabaseInv, IsRunning
    <3>2. IsRunning(h)' = FALSE
      BY <1>5, <2>1 DEF IsRunning
    <3>3. IsHandled(stmts[h], sqls[h], view[h], trees, schema, FALSE) =>
          IsHandled(stmts[h], sqls[h], view[h], trees', schema, FALSE)
      BY <1>2, <1>5, RestsOn
    <3>4. stmts'[h] = stmts[h] /\ sqls'[h] = sqls[h] /\ view'[h] = view[h] /\ schema' = schema
      BY <1>1, <1>6, <2>1
    <3>5. QED
      BY <3>1, <3>2, <3>3, <3>4 DEF HandledAt
  <2>2. CASE h = running
    <3>1. sqls'[h] = sqls[h] /\ view'[h] = view[h] /\ schema' = schema
      BY <1>1, <1>6
    <3>2. CASE /\ running' = h
               /\ IsHandled(stmts'[h], sqls[h], view[h], trees', schema, TRUE)
      <4>1. IsRunning(h)' = TRUE
        BY <1>1, <2>2, <3>2 DEF IsRunning
      <4>2. QED
        BY <3>1, <3>2, <4>1 DEF HandledAt
    <3>3. CASE /\ running' = Idle
               /\ IsHandled(stmts'[h], sqls[h], view[h], trees', schema, FALSE)
      <4>1. IsRunning(h)' = FALSE
        BY <3>3 DEF IsRunning
      <4>2. QED
        BY <3>1, <3>3, <4>1 DEF HandledAt
    <3>4. QED
      BY <1>5, <2>2, <3>2, <3>3
  <2>3. QED
    BY <2>1, <2>2
<1>9. FileInv'
  <2>1. Current(schema, trees')
    BY <1>2, <1>5, StillCurrent
  <2>2. QED
    BY <1>1, <1>5, <2>1 DEF FileInv, FileStep
<1>10. HandlesInv'
  BY <1>1, <1>2, <1>5, <1>6 DEF DatabaseInv, HandlesInv
<1>11. QED
  BY <1>7, <1>9, <1>10 DEF DatabaseInv

(* A statement at the end of its program is done, and the list that was     *)
(* loaded again has what it created.                                        *)
LEMMA EndsDone ==
  ASSUME NEW file, Whole(file), NEW known, NEW other, ToSet(known) \subseteq ToSet(other),
         NEW s, NEW q, NEW vw, IsHandled(s, q, vw, file, known, TRUE), s.pc = Len(s.ops),
         s.schema_change => ToSet(other) = Items(file),
         NEW t, t = [s EXCEPT !.rc = DONE]
  PROVE  IsHandled(t, q, vw, file, other, FALSE)
<1>1. /\ IsCompiled(s, q, file) /\ Viewed(vw, file, q.schema)
      /\ ~Selects(q.sql) => WriterRuns(vw, file, q.schema, q.sql, s)
  BY DEF IsHandled
<1>2. /\ IsStmt(s) /\ s.pc \in Nat /\ IsStatement(q.sql) /\ Current(q.schema, file)
      /\ Coded(q.schema, q.sql, s)
  BY <1>1 DEF IsCompiled
<1>3. /\ t.pc = s.pc /\ t.ops = s.ops /\ t.rc = DONE /\ t.schema_change = s.schema_change
      /\ IsStmt(t)
  BY <1>2 DEF IsStmt
<1>4. IsCompiled(t, q, file)
  BY <1>2, <1>3, Zenon DEF IsCompiled, Coded
<1>5. ~Selects(q.sql) => Finished(vw, file, q.schema, q.sql)
  BY <1>1 DEF WriterRuns
<1>6. ~Selects(q.sql) => WriterRests(vw, file, q.schema, q.sql, t)
  BY <1>3, <1>5 DEF WriterRests
<1>7. ASSUME t.schema_change PROVE IsKnown(other, q.schema, q.sql)
  <2>1. ToSet(other) = Items(file)
    BY <1>3, <1>7
  <2>2. ~Selects(q.sql) /\ (CreatesTable(q.sql) \/ CreatesIndex(q.sql))
    BY <1>2, <1>3, <1>7, KindsDiffer, Zenon DEF Coded, WriterCode
  <2>3. Registered(file, q.schema, q.sql) \/ IndexFilled(vw, file, q.schema, q.sql)
    BY <1>5, <2>2 DEF Finished
  <2>4. IndexItems(file) \subseteq Items(file)
    BY DEF IndexItems
  <2>5. QED
    BY <2>1, <2>3, <2>4 DEF IsKnown, Registered, IndexFilled
<1>8. QED
  BY <1>1, <1>4, <1>6, <1>7, Zenon DEF IsHandled

(* The end of a program keeps it.                                           *)
LEMMA StepDoneKeeps ==
  ASSUME DatabaseInv, StepDone
  PROVE  DatabaseInv'
<1>1. /\ running # Idle /\ stmt.pc = Len(stmt.ops)
      /\ stmts' = [stmts EXCEPT ![running] = [stmt EXCEPT !.rc = DONE]]
      /\ running' = Idle /\ UNCHANGED <<trees, view, sqls>>
      /\ schema' = IF stmt.schema_change THEN schema_load(trees) ELSE schema
  BY DEF StepDone, ExecEnds, Becomes, endOp
<1>2. /\ running \in Handles /\ Whole(trees) /\ Current(schema, trees)
      /\ stmts = [h \in Handles |-> stmts[h]]
  BY <1>1 DEF DatabaseInv, FileInv, HandlesInv
<1>3. Current(schema_load(trees), trees) /\ ToSet(schema_load(trees)) = Items(trees)
  BY <1>2, LoadedAgain
<1>4. /\ Current(schema', trees) /\ ToSet(schema) \subseteq ToSet(schema')
      /\ stmt.schema_change => ToSet(schema') = Items(trees)
  BY <1>1, <1>2, <1>3 DEF Current
<1>5. /\ stmts' = [h \in Handles |-> stmts'[h]]
      /\ stmts'[running] = [stmt EXCEPT !.rc = DONE]
      /\ \A h \in Handles : h # running => stmts'[h] = stmts[h]
  BY <1>1, <1>2
<1>6. \A h \in Handles : HandledAt(h)'
  <2> SUFFICES ASSUME NEW h \in Handles PROVE HandledAt(h)'
    OBVIOUS
  <2>1. HandledAt(h) /\ IsRunning(h)' = FALSE
    BY <1>1 DEF DatabaseInv, IsRunning
  <2>2. trees' = trees /\ view'[h] = view[h] /\ sqls'[h] = sqls[h]
    BY <1>1
  <2>3. CASE h # running
    <3>1. IsRunning(h) = FALSE /\ stmts'[h] = stmts[h]
      BY <1>5, <2>3 DEF IsRunning
    <3>2. IsHandled(stmts[h], sqls[h], view[h], trees, schema, FALSE) =>
          IsHandled(stmts[h], sqls[h], view[h], trees, schema', FALSE)
      BY <1>4, KnowsMore
    <3>3. QED
      BY <2>1, <2>2, <3>1, <3>2 DEF HandledAt
  <2>4. CASE h = running
    <3>1. IsRunning(h) = TRUE
      BY <1>1, <2>4 DEF IsRunning
    <3>2. IsHandled(stmt, sqls[h], view[h], trees, schema, TRUE)
      BY <2>1, <2>4, <3>1 DEF HandledAt, stmt
    <3>3. IsHandled(stmts'[h], sqls[h], view[h], trees, schema', FALSE)
      BY <1>1, <1>2, <1>4, <1>5, <2>4, <3>2, EndsDone
    <3>4. QED
      BY <2>1, <2>2, <3>3 DEF HandledAt
  <2>5. QED
    BY <2>3, <2>4
<1>7. HandlesInv' /\ FileInv'
  BY <1>1, <1>2, <1>4, <1>5 DEF DatabaseInv, HandlesInv, FileInv
<1>8. QED
  BY <1>6, <1>7 DEF DatabaseInv

(* Every step keeps it.                                                     *)
LEMMA NextKeeps ==
  ASSUME DatabaseInv, [Next]_vars
  PROVE  DatabaseInv'
<1>1. CASE UNCHANGED vars
  <2>1. UNCHANGED <<trees, stmts, running, view, schema, sqls>>
    BY <1>1 DEF vars
  <2>2. \A h \in Handles : HandledAt(h)'
    <3> SUFFICES ASSUME NEW h \in Handles PROVE HandledAt(h)'
      OBVIOUS
    <3>1. HandledAt(h) /\ IsRunning(h)' = IsRunning(h)
      BY <2>1 DEF DatabaseInv, IsRunning
    <3>2. QED
      BY <2>1, <3>1 DEF HandledAt
  <2>3. HandlesInv' /\ FileInv'
    BY <2>1 DEF DatabaseInv, HandlesInv, FileInv
  <2>4. QED
    BY <2>2, <2>3 DEF DatabaseInv
<1>2. CASE Next
  <2>1. ASSUME NEW h \in Handles, NEW sql \in Statements, Prepare(h, sql) PROVE DatabaseInv'
    BY <2>1, PrepareKeeps
  <2>2. ASSUME NEW h \in Handles, Step(h) PROVE DatabaseInv'
    BY <2>2, StepKeeps
  <2>3. ASSUME NEW h \in Handles, Finalize(h) PROVE DatabaseInv'
    BY <2>3, FinalizeKeeps
  <2>4. ASSUME Instruction PROVE DatabaseInv'
    BY <2>4, InstructionKeeps
  <2>5. ASSUME StepDone PROVE DatabaseInv'
    BY <2>5, StepDoneKeeps
  <2>6. ASSUME Reopen PROVE DatabaseInv'
    BY <2>6, ReopenKeeps
  <2>7. QED
    BY <1>2, <2>1, <2>2, <2>3, <2>4, <2>5, <2>6 DEF Next
<1>3. QED
  BY <1>1, <1>2

(* The invariant holds in every state.                                      *)
LEMMA InvHolds == Spec => []DatabaseInv
<1>1. Init => DatabaseInv
  BY InitInv
<1>2. DatabaseInv /\ [Next]_vars => DatabaseInv'
  BY NextKeeps
<1>3. QED
  BY <1>1, <1>2, PTL DEF Spec
-----------------------------------------------------------------------------
(* What the invariant says of the file, the schema and the statements.      *)

(* The list in memory has what is done, and nothing that the file has not.  *)
LEMMA InvKnows ==
  ASSUME DatabaseInv
  PROVE  SchemaKnown
<1> SUFFICES ASSUME running = Idle PROVE /\ ToSet(schema) \subseteq Items(trees)
                                         /\ \A h \in Handles :
                                              stmts[h] # NoStmt /\ IsDone(h) /\ stmts[h].schema_change =>
                                                IsKnown(schema, sqls[h].schema, sqls[h].sql)
  BY DEF SchemaKnown, IsKnown, NewKey
<1>1. ToSet(schema) \subseteq Items(trees)
  BY DEF DatabaseInv, FileInv, Current
<1>2. ASSUME NEW h \in Handles, stmts[h] # NoStmt, IsDone(h), stmts[h].schema_change
      PROVE  IsKnown(schema, sqls[h].schema, sqls[h].sql)
  BY <1>2 DEF DatabaseInv, HandledAt, IsHandled, IsDone
<1>3. QED
  BY <1>1, <1>2

(* A statement that is done has done its work.                              *)
LEMMA InvFinished ==
  ASSUME DatabaseInv, NEW h \in Handles, stmts[h] # NoStmt, IsDone(h), ~Selects(sqls[h].sql)
  PROVE  /\ Finished(view[h], trees, sqls[h].schema, sqls[h].sql)
         /\ Current(sqls[h].schema, trees) /\ Whole(trees)
<1> DEFINE s == stmts[h]
           q == sqls[h]
           vw == view[h]
<1>1. IsHandled(s, q, vw, trees, schema, IsRunning(h)) /\ Whole(trees)
  BY DEF DatabaseInv, FileInv, HandledAt
<1>2. s.rc = DONE /\ ~Selects(q.sql)
  BY DEF IsDone
<1> HIDE DEF s, q, vw
<1>3. Current(q.schema, trees)
  BY <1>1 DEF IsHandled, IsCompiled
<1>4. ASSUME IsRunning(h) PROVE Finished(vw, trees, q.schema, q.sql)
  BY <1>1, <1>2, <1>4 DEF IsHandled, WriterRuns
<1>5. ASSUME ~IsRunning(h) PROVE Finished(vw, trees, q.schema, q.sql)
  <2>1. WriterRests(vw, trees, q.schema, q.sql, s)
    BY <1>1, <1>2, <1>5 DEF IsHandled
  <2>2. s.rc # OK /\ s.rc # ECONSTRAINT
    BY <1>2 DEF OK, DONE, ECONSTRAINT
  <2>3. QED
    BY <2>1, <2>2 DEF WriterRests
<1>6. QED
  BY <1>1, <1>3, <1>4, <1>5 DEF q, vw

(* Its rows have their entries.                                             *)
LEMMA InvIndexed ==
  ASSUME DatabaseInv
  PROVE  DoneMeansIndexed
<1>1. ASSUME NEW h \in Handles, stmts[h] # NoStmt, AddsRow(sqls[h].sql), IsDone(h),
             NEW item \in ToSet(indexes_of(sqls[h].schema, sqls[h].sql.table_name))
      PROVE  \E e \in IndexEntries(trees, item) : e[2] = KeyOfRow(sqls[h].schema, sqls[h].sql)
  <2> DEFINE list == sqls[h].schema
             sql == sqls[h].sql
  <2>1. /\ Finished(view[h], trees, list, sql) /\ AddsRow(sql)
        /\ item \in ToSet(indexes_of(list, sql.table_name))
    BY <1>1, KindsDiffer, InvFinished
  <2> HIDE DEF list, sql
  <2>3. IsEntered(trees, item, KeyOfRow(list, sql))
    BY <2>1 DEF Finished, Inserted
  <2>4. PICK v : v \in DOMAIN trees[item.root_page].entries /\
                 trees[item.root_page].entries[v] = KeyOfRow(list, sql)
    BY <2>3 DEF IsEntered, HoldsEntry
  <2>5. <<v, KeyOfRow(list, sql)>> \in IndexEntries(trees, item)
    BY <2>4 DEF IndexEntries
  <2>6. QED
    BY <2>5 DEF list, sql
<1>2. ASSUME NEW h \in Handles, stmts[h] # NoStmt, CreatesIndex(sqls[h].sql), IsDone(h)
      PROVE  \E item \in IndexItems(trees) :
               /\ item.sql = sqls[h].sql
               /\ RowEntries(view[h], item) \subseteq IndexEntries(trees, item)
  <2>1. Finished(view[h], trees, sqls[h].schema, sqls[h].sql)
    BY <1>2, KindsDiffer, InvFinished
  <2>2. IndexFilled(view[h], trees, sqls[h].schema, sqls[h].sql)
    BY <1>2, <2>1 DEF Finished
  <2>3. QED
    BY <2>2 DEF IndexFilled
<1>3. QED
  BY <1>1, <1>2, Zenon DEF DoneMeansIndexed, IsRunBy, AddsRow, CreatesIndex
-----------------------------------------------------------------------------
(* Whatever statements are prepared, stepped, finalized and left half way,  *)
(* with whatever lists of the schema they were compiled against, no two     *)
(* tables get one name and no two objects one root (codegen_create_table    *)
(* checks the name, op_insert the key).                                     *)
THEOREM SchemaIsSoundAlways == Spec => []SchemaSound
<1>1. DatabaseInv => SchemaSound
  BY DEF DatabaseInv, FileInv, Whole, SchemaSound
<1>2. QED
  BY <1>1, InvHolds, PTL

(* No index has an entry for a row that is not there or has another value   *)
(* (codegen_insert and codegen_create_index).                               *)
THEOREM EntriesMatchRows == Spec => []IndexEntriesMatchRows
<1>1. DatabaseInv => IndexEntriesMatchRows
  BY DEF DatabaseInv, FileInv, Whole, IndexEntriesMatchRows
<1>2. QED
  BY <1>1, InvHolds, PTL

(* The list in memory has nothing that the file has not, and it has what    *)
(* every CREATE that is done has added (chidb_step, schema_load).           *)
THEOREM SchemaIsKnown == Spec => []SchemaKnown
<1>1. DatabaseInv => SchemaKnown
  BY InvKnows
<1>2. QED
  BY <1>1, InvHolds, PTL

(* A statement that is done has entered its rows in the indexes it knew of  *)
(* (codegen_insert, codegen_create_index).                                  *)
THEOREM DoneIsIndexed == Spec => []DoneMeansIndexed
<1>1. DatabaseInv => DoneMeansIndexed
  BY InvIndexed
<1>2. QED
  BY <1>1, InvHolds, PTL
=============================================================================
