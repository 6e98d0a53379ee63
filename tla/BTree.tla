------------------------------- MODULE BTree --------------------------------
(***************************************************************************)
(* The B-Trees of a chidb file (src/libchidb/btree.c): chidb_Btree_insert, *)
(* chidb_Btree_insertNonFull and chidb_Btree_split on a file of pages.     *)
(*                                                                         *)
(* A database is a forest: the schema table is rooted at page 1, which     *)
(* also holds the file header, and every CREATE TABLE or CREATE INDEX adds *)
(* a tree rooted at a new page.  A table tree is a B+-Tree keyed by the    *)
(* primary key, an index tree is keyed by the indexed column (keyIdx) and  *)
(* carries the primary key (keyPk).                                        *)
(*                                                                         *)
(* Pages keep the real byte arithmetic: the two offsets of a page header   *)
(* that say where the cell offset array ends and where the cells begin.    *)
(* The bytes of a record are abstracted to their number.  One step of the  *)
(* insertion is one call of the code: the insert that looks at the root,   *)
(* then one insertNonFull per level.                                       *)
(***************************************************************************)
EXTENDS Integers, FiniteSets, SequencesExt

CONSTANTS
    TableKeys,      \* the keys inserted in tables
    IndexKeys,      \* the keyIdx inserted in indexes
    ShortRecords,   \* table records of ShortSize bytes
    LongRecords,    \* table records of LongSize bytes
    KeyPks,         \* the keyPk inserted in indexes
    ShortSize, LongSize,
    PageSize,       \* bytes in a page (1024 in a file chidb creates)
    FileHeader,     \* bytes of the file header in page 1 (100 in a chidb file)
    MaxPages,       \* bound of the model: pages the file may grow to
    Reserve,        \* bound of the model: free pages left when an insert begins
    MaxTrees,       \* bound of the model: trees in the file
    Idle,           \* no insert is in progress
    NoValue         \* a table's internal cells carry no value

Word16(n) == n % 65536                    \* what a uint16_t keeps of n

TABLE_INTERNAL == "table_internal"
TABLE_LEAF     == "table_leaf"
INDEX_INTERNAL == "index_internal"
INDEX_LEAF     == "index_leaf"
NodeTypes == {TABLE_INTERNAL, TABLE_LEAF, INDEX_INTERNAL, INDEX_LEAF}
LeafTypes == {TABLE_LEAF, INDEX_LEAF}
Unallocated == "unallocated"

is_internal(t) == t \in {TABLE_INTERNAL, INDEX_INTERNAL}
is_index(t) == t \in {INDEX_INTERNAL, INDEX_LEAF}

Pages == 1 .. MaxPages
Records == ShortRecords \cup LongRecords
Vals == Records \cup KeyPks

BTreeCell == [key : Nat, val : Vals \cup {NoValue}, child : 0 .. MaxPages]
BTreeNode == [type : NodeTypes \cup {Unallocated},
              free_offset : Nat,
              cells_offset : Nat,
              cells : Seq(BTreeCell),
              right_page : 0 .. MaxPages]
Insertion == [nroot : Pages, npage : Pages, btc : BTreeCell]

(* A page is of one of the sizes the file header can name (powers of two   *)
(* up to 32 KiB; chidb creates files of 1 KiB pages) and a record is no    *)
(* larger than a page.                                                     *)
ASSUME ConstantsAssumption ==
    /\ TableKeys \subseteq Nat /\ IndexKeys \subseteq Nat
    /\ ShortSize \in Nat /\ LongSize \in Nat
    /\ ShortSize <= LongSize /\ LongSize <= PageSize
    /\ ShortRecords \cap LongRecords = {}
    /\ PageSize \in Nat /\ PageSize <= 32768
    /\ FileHeader \in Nat
    /\ MaxPages \in Nat \ {0} /\ MaxTrees \in Nat /\ Reserve \in Nat
    /\ NoValue \notin Vals
    /\ Idle \notin Insertion
    /\ Idle \notin [tree : Pages, key : Nat, val : Vals \cup {NoValue}]

(* A split divides cells by their number and does not look at what room it *)
(* makes.  It makes enough if a leaf that has no room for a cell of `long` *)
(* bytes (with its slot in the cell array) has so many cells that half of  *)
(* them, less the median, take `long` bytes even if all are short; and if  *)
(* the root can take two separators.  These sizes are safe; others are not *)
(* (see the run btree_long_records).                                       *)
LeafRoom == PageSize - FileHeader - 8

HalvesHaveRoom(short, long) ==
    \A n \in 0 .. PageSize :
      n * long > LeafRoom - long => (n - (n \div 2) - 1) * short >= long

SafeSizes ==
    /\ HalvesHaveRoom(ShortSize + 10, LongSize + 10)
    /\ HalvesHaveRoom(14, 14)
    /\ PageSize - FileHeader - 12 >= 36

VARIABLES
    nodes,      \* the nodes in the file's pages
    n_pages,    \* the pager's count of pages
    roots,      \* the root pages of the trees
    op,         \* the insert in progress: its root, the page it visits, its cell
    rc          \* the result of the last insert that returned

vars == <<nodes, n_pages, roots, op, rc>>
-----------------------------------------------------------------------------
(* The layout of a page.                                                   *)

node_header_base(p) == IF p = 1 THEN FileHeader ELSE 0
node_header_size(t) == IF is_internal(t) THEN 12 ELSE 8

data_size(v) == IF v \in LongRecords THEN LongSize ELSE ShortSize

cell_size(t, c) ==
    CASE t = TABLE_INTERNAL -> 8
      [] t = TABLE_LEAF     -> 8 + data_size(c.val)
      [] t = INDEX_INTERNAL -> 16
      [] t = INDEX_LEAF     -> 12
      [] OTHER              -> 0

(* The bytes that the cells of a node of type t take together: each cell   *)
(* that of a short one, and the long records what they have more.          *)
LongCells(t, cells) ==
    {i \in 1 .. Len(cells) : t = TABLE_LEAF /\ cells[i].val \in LongRecords}

ShortCellSize(t) ==
    CASE t = TABLE_INTERNAL -> 8
      [] t = TABLE_LEAF     -> 8 + ShortSize
      [] t = INDEX_INTERNAL -> 16
      [] t = INDEX_LEAF     -> 12
      [] OTHER              -> 0

CellBytes(t, cells) ==
    ShortCellSize(t) * Len(cells)
      + (LongSize - ShortSize) * Cardinality(LongCells(t, cells))

node_free_space(n) == Word16(n.cells_offset - n.free_offset)

(* Mutant: the room for a cell without the two bytes of its slot.          *)
FullWithoutSlot(n, c) == node_free_space(n) < Word16(cell_size(n.type, c))

Full(n, c) == node_free_space(n) < Word16(cell_size(n.type, c) + 2)

(* What chidb_Btree_getCell reads back of a cell written in a node of      *)
(* type t.  The keys of tables are written as a varint32, four bytes of    *)
(* seven bits each; those of indexes in four whole bytes.                  *)
varint32(k) == k % 268435456

Stored(t, c) ==
    [key   |-> IF is_index(t) THEN c.key ELSE varint32(c.key),
     val   |-> IF t = TABLE_INTERNAL THEN NoValue ELSE c.val,
     child |-> IF is_internal(t) THEN c.child ELSE 0]
-----------------------------------------------------------------------------
(* Operations on one node.  Positions count from 1.                        *)

initEmptyNode(p, t) ==
    [type |-> t,
     free_offset |-> Word16(node_header_base(p) + node_header_size(t)),
     cells_offset |-> Word16(PageSize),
     cells |-> <<>>,
     right_page |-> 0]

insertCell(n, i, c) ==
    [n EXCEPT !.cells = InsertAt(@, i, Stored(n.type, c)),
              !.cells_offset = Word16(@ - cell_size(n.type, c)),
              !.free_offset = Word16(@ + 2)]

(* The loops that copy cells, one insertCell after the other, to a node    *)
(* that holds none.                                                        *)
InsertCells(n, cells) ==
    [n EXCEPT !.cells = cells,
              !.cells_offset = Word16(@ - CellBytes(n.type, cells)),
              !.free_offset = Word16(@ + 2 * Len(cells))]

AtOrAfter(n, key) == {i \in 1 .. Len(n.cells) : n.cells[i].key >= key}

find_position(n, key) ==
    IF AtOrAfter(n, key) = {} THEN Len(n.cells) + 1 ELSE Min(AtOrAfter(n, key))

child_at(n, i) ==
    IF i = Len(n.cells) + 1 THEN n.right_page ELSE n.cells[i].child

ChildFor(n, key) == child_at(n, find_position(n, key))

(* Mutants of split: the median of a leaf stays above the separator; it    *)
(* goes to no half; an inner median's child goes to both halves; the       *)
(* separator points where the median did.                                  *)
SplitOf(ns, parent, child, i, nM, low, high, sepchild) ==
    LET N == ns[child]
        median == N.cells[(Len(N.cells) \div 2) + 1]
        right == IF is_internal(N.type) THEN median.child ELSE 0
    IN  [ns EXCEPT
           ![nM] = [InsertCells(initEmptyNode(nM, N.type),
                                SubSeq(N.cells, 1, low))
                      EXCEPT !.right_page = right],
           ![child] = [InsertCells(initEmptyNode(child, N.type),
                                   SubSeq(N.cells, high, Len(N.cells)))
                         EXCEPT !.right_page = N.right_page],
           ![parent] = insertCell(@, i, [median EXCEPT !.child = sepchild])]

SplitKeepsMedianAbove(ns, parent, child, i, nM) ==
    LET m == Len(ns[child].cells) \div 2
        leaf == ~is_internal(ns[child].type)
    IN  SplitOf(ns, parent, child, i, nM, m, IF leaf THEN m + 1 ELSE m + 2, nM)

SplitDropsMedian(ns, parent, child, i, nM) ==
    LET m == Len(ns[child].cells) \div 2
    IN  SplitOf(ns, parent, child, i, nM, m, m + 2, nM)

SplitSharesMedian(ns, parent, child, i, nM) ==
    LET m == Len(ns[child].cells) \div 2
        leaf == ~is_internal(ns[child].type)
    IN  SplitOf(ns, parent, child, i, nM,
                IF leaf THEN m + 1 ELSE m, IF leaf THEN m + 2 ELSE m + 1, nM)

SplitForgetsPointer(ns, parent, child, i, nM) ==
    LET N == ns[child]
        m == Len(N.cells) \div 2
        leaf == ~is_internal(N.type)
    IN  SplitOf(ns, parent, child, i, nM, IF leaf THEN m + 1 ELSE m, m + 2,
                N.cells[m + 1].child)

(* chidb_Btree_split of node N = ns[child], whose parent points to it at   *)
(* position i: the new page nM takes the cells below the median (in a leaf *)
(* the median too), N keeps those above it, and the parent gets the median *)
(* as the separator of the two.                                            *)
split(ns, parent, child, i, nM) ==
    LET N == ns[child]
        m == Len(N.cells) \div 2
        median == N.cells[m + 1]
        lower == SubSeq(N.cells, 1, IF is_internal(N.type) THEN m ELSE m + 1)
        upper == SubSeq(N.cells, m + 2, Len(N.cells))
        right == IF is_internal(N.type) THEN median.child ELSE 0
    IN  [ns EXCEPT
           ![nM] = [InsertCells(initEmptyNode(nM, N.type), lower)
                      EXCEPT !.right_page = right],
           ![child] = [InsertCells(initEmptyNode(child, N.type), upper)
                         EXCEPT !.right_page = N.right_page],
           ![parent] = insertCell(@, i, [median EXCEPT !.child = nM])]

(* The root's page number never changes: its content moves to page nC, the *)
(* root becomes an empty internal node over nC, and nC is split.           *)
splitRoot(ns, r, nC, nM) ==
    LET root == ns[r]
        top == IF is_index(root.type) THEN INDEX_INTERNAL ELSE TABLE_INTERNAL
    IN  split([ns EXCEPT
                 ![nC] = [InsertCells(initEmptyNode(nC, root.type), root.cells)
                            EXCEPT !.right_page = root.right_page],
                 ![r] = [initEmptyNode(r, top) EXCEPT !.right_page = nC]],
              r, nC, 1, nM)
-----------------------------------------------------------------------------
(* A file that chidb_Btree_open has just created.                          *)
Init ==
    /\ nodes = [p \in Pages |->
                  IF p = 1 THEN initEmptyNode(1, TABLE_LEAF)
                           ELSE initEmptyNode(p, Unallocated)]
    /\ n_pages = 1
    /\ roots = {1}
    /\ op = Idle
    /\ rc = "OK"

(* Mutant: the pager's count of pages is not raised.                       *)
NewTreeUncounted(t) ==
    /\ op = Idle
    /\ Cardinality(roots) < MaxTrees
    /\ n_pages < MaxPages
    /\ nodes' = [nodes EXCEPT ![n_pages + 1] = initEmptyNode(n_pages + 1, t)]
    /\ roots' = roots \cup {n_pages + 1}
    /\ UNCHANGED <<n_pages, op, rc>>

(* chidb_Btree_newNode, as CREATE TABLE and CREATE INDEX call it.          *)
NewTree(t) ==
    /\ op = Idle
    /\ Cardinality(roots) < MaxTrees
    /\ n_pages < MaxPages
    /\ n_pages' = n_pages + 1
    /\ nodes' = [nodes EXCEPT ![n_pages'] = initEmptyNode(n_pages', t)]
    /\ roots' = roots \cup {n_pages'}
    /\ UNCHANGED <<op, rc>>

(* Mutant: the root is not looked at.                                      *)
InsertWithoutLook(r, c) ==
    /\ op = Idle
    /\ n_pages + Reserve <= MaxPages
    /\ op' = [nroot |-> r, npage |-> r, btc |-> c]
    /\ UNCHANGED <<nodes, n_pages, roots, rc>>

(* chidb_Btree_insert up to its call of insertNonFull on the root.         *)
Insert(r, c) ==
    /\ op = Idle
    /\ n_pages + Reserve <= MaxPages
    /\ op' = [nroot |-> r, npage |-> r, btc |-> c]
    /\ \/ /\ ~Full(nodes[r], c)
          /\ UNCHANGED <<nodes, n_pages>>
       \/ /\ Full(nodes[r], c)
          /\ n_pages + 2 <= MaxPages
          /\ n_pages' = n_pages + 2
          /\ nodes' = splitRoot(nodes, r, n_pages + 1, n_pages + 2)
    /\ UNCHANGED <<roots, rc>>

InsertInTable(r, k, d) ==
    /\ ~is_index(nodes[r].type)
    /\ Insert(r, [key |-> k, val |-> d, child |-> 0])

InsertInIndex(r, keyIdx, keyPk) ==
    /\ is_index(nodes[r].type)
    /\ Insert(r, [key |-> keyIdx, val |-> keyPk, child |-> 0])

(* chidb_Btree_insertNonFull on an internal node: the child that covers    *)
(* the key is split first if it is full, and chosen again.                 *)
AtInternal == op # Idle /\ is_internal(nodes[op.npage].type)

(* Mutants: the descent starts over at the root; the page of a split is    *)
(* one that is in use; a child is split as a root is; the child is not     *)
(* chosen again after the split.                                           *)
DescendFromRoot ==
    /\ AtInternal
    /\ LET child == ChildFor(nodes[op.npage], op.btc.key)
       IN  /\ ~Full(nodes[child], op.btc)
           /\ op' = [op EXCEPT !.npage = IF is_internal(nodes[child].type)
                                         THEN op.nroot ELSE child]
    /\ UNCHANGED <<nodes, n_pages, roots, rc>>

SplitOntoLastPage ==
    /\ AtInternal
    /\ LET here == op.npage
           pos == find_position(nodes[here], op.btc.key)
           child == child_at(nodes[here], pos)
       IN  /\ Full(nodes[child], op.btc)
           /\ nodes' = split(nodes, here, child, pos, n_pages)
           /\ op' = [op EXCEPT !.npage = ChildFor(nodes'[here], op.btc.key)]
    /\ UNCHANGED <<n_pages, roots, rc>>

SplitChildAsRoot ==
    /\ AtInternal
    /\ n_pages + 2 <= MaxPages
    /\ LET child == ChildFor(nodes[op.npage], op.btc.key)
       IN  /\ Full(nodes[child], op.btc)
           /\ n_pages' = n_pages + 2
           /\ nodes' = splitRoot(nodes, child, n_pages + 1, n_pages + 2)
           /\ op' = [op EXCEPT !.npage = child]
    /\ UNCHANGED <<roots, rc>>

SplitAndStay ==
    /\ AtInternal
    /\ n_pages < MaxPages
    /\ LET here == op.npage
           pos == find_position(nodes[here], op.btc.key)
           child == child_at(nodes[here], pos)
       IN  /\ Full(nodes[child], op.btc)
           /\ n_pages' = n_pages + 1
           /\ nodes' = split(nodes, here, child, pos, n_pages + 1)
           /\ op' = [op EXCEPT !.npage = child]
    /\ UNCHANGED <<roots, rc>>

Descend ==
    /\ AtInternal
    /\ LET child == ChildFor(nodes[op.npage], op.btc.key)
       IN  /\ ~Full(nodes[child], op.btc)
           /\ op' = [op EXCEPT !.npage = child]
    /\ UNCHANGED <<nodes, n_pages, roots, rc>>

SplitAndDescend ==
    /\ AtInternal
    /\ n_pages < MaxPages
    /\ LET here == op.npage
           pos == find_position(nodes[here], op.btc.key)
           child == child_at(nodes[here], pos)
       IN  /\ Full(nodes[child], op.btc)
           /\ n_pages' = n_pages + 1
           /\ nodes' = split(nodes, here, child, pos, n_pages + 1)
           /\ op' = [op EXCEPT !.npage = ChildFor(nodes'[here], op.btc.key)]
    /\ UNCHANGED <<roots, rc>>

(* chidb_Btree_insertNonFull on a leaf.                                    *)
AtLeaf == op # Idle /\ ~is_internal(nodes[op.npage].type)

(* Mutant: the last cell is not compared.                                  *)
HoldsKeyBeforeLast(n, key) ==
    LET pos == find_position(n, key)
    IN  pos < Len(n.cells) /\ n.cells[pos].key = key

HoldsKey(n, key) ==
    LET pos == find_position(n, key)
    IN  pos <= Len(n.cells) /\ n.cells[pos].key = key

(* The value of the entry that insertNonFull finds in a leaf for a key.    *)
ValueIn(n, key) ==
    IF HoldsKey(n, key) THEN n.cells[find_position(n, key)].val ELSE NoValue

RejectDuplicate ==
    /\ AtLeaf
    /\ HoldsKey(nodes[op.npage], op.btc.key)
    /\ op' = Idle
    /\ rc' = "EDUPLICATE"
    /\ UNCHANGED <<nodes, n_pages, roots>>

InsertInLeaf ==
    /\ AtLeaf
    /\ ~HoldsKey(nodes[op.npage], op.btc.key)
    /\ nodes' = [nodes EXCEPT ![op.npage] =
                   insertCell(@, find_position(@, op.btc.key), op.btc)]
    /\ op' = Idle
    /\ rc' = "OK"
    /\ UNCHANGED <<n_pages, roots>>

InsertNonFull == Descend \/ SplitAndDescend \/ RejectDuplicate \/ InsertInLeaf

Next ==
    \/ \E t \in LeafTypes : NewTree(t)
    \/ \E r \in roots, k \in TableKeys, d \in Records : InsertInTable(r, k, d)
    \/ \E r \in roots, k \in IndexKeys, pk \in KeyPks : InsertInIndex(r, k, pk)
    \/ InsertNonFull

(* An insert runs in the calling thread and nothing in it waits: once      *)
(* called, it goes on until it returns.                                    *)
Spec == Init /\ [][Next]_vars /\ WF_vars(InsertNonFull)
-----------------------------------------------------------------------------
(* What the file holds, read the way the code reads it.                    *)

Allocated == 1 .. n_pages

Children(n) ==
    IF is_internal(n.type)
    THEN {n.cells[i].child : i \in 1 .. Len(n.cells)} \cup {n.right_page}
    ELSE {}

(* The pages of the subtree under page r.                                  *)
PagesUnder(r) ==
    LET under[p \in Allocated] ==
          {p} \cup UNION {under[q] : q \in Children(nodes[p])}
    IN  under[r]

CellsOf(p) == {nodes[p].cells[i] : i \in 1 .. Len(nodes[p].cells)}

LeafCells(r) ==
    UNION {CellsOf(p) : p \in {q \in PagesUnder(r) : ~is_internal(nodes[q].type)}}

(* The leaf that covers a key: every walk down a tree, of insertNonFull and *)
(* of chidb_Btree_find, goes by find_position and child_at.                *)
LeafFor(r, k) ==
    LET leaf[p \in Allocated] ==
          IF is_internal(nodes[p].type) THEN leaf[ChildFor(nodes[p], k)] ELSE p
    IN  leaf[r]

(* chidb_Btree_find from root r: the value stored with key k, or NoValue   *)
(* for CHIDB_ENOTFOUND.  The one kind of leaf it knows is a table's: in an *)
(* index it would go on below the leaf, to a child that nobody has set,    *)
(* and has no value here.                                                  *)
Find(r, k) ==
    LET n == nodes[LeafFor(r, k)]
        hits == {i \in 1 .. Len(n.cells) : n.cells[i].key = k}
    IN  CASE n.type = TABLE_LEAF /\ hits # {} -> n.cells[Min(hits)].val
          [] n.type = TABLE_LEAF /\ hits = {} -> NoValue

(* The levels below page r at which leaves lie.                            *)
LeafDepths(r) ==
    LET depths[p \in Allocated] ==
          IF is_internal(nodes[p].type)
          THEN {d + 1 : d \in UNION {depths[q] : q \in Children(nodes[p])}}
          ELSE {0}
    IN  depths[r]
-----------------------------------------------------------------------------
(* Every variable has its type.                                            *)
TypeOK ==
    /\ n_pages \in Pages
    /\ nodes \in [Pages -> BTreeNode]
    /\ roots \subseteq 1 .. n_pages
    /\ op \in Insertion \cup {Idle}
    /\ rc \in {"OK", "EDUPLICATE"}

(* The header of a page tells the truth about its cells and the cell array *)
(* never runs into the cells: insertCell, which "assumes that there is     *)
(* enough space", is never called on a node without it.                    *)
Layout(p, n) ==
    /\ n.free_offset =
         node_header_base(p) + node_header_size(n.type) + 2 * Len(n.cells)
    /\ n.cells_offset = PageSize - CellBytes(n.type, n.cells)
    /\ n.free_offset <= n.cells_offset

NoPageOverflows == \A p \in Allocated : Layout(p, nodes[p])

(* Pages in use are nodes, and point to other pages in use only, and an    *)
(* insert visits pages in use: neither getNodeByPage nor the pager ever    *)
(* meets a page number it must refuse.                                     *)
WellLinked ==
    /\ \A p \in Allocated :
         /\ nodes[p].type \in NodeTypes
         /\ Children(nodes[p]) \subseteq Allocated \ {p}
    /\ op # Idle => op.nroot \in roots /\ op.npage \in Allocated

(* The precondition of insertNonFull: the node it is called on has room    *)
(* for the cell it may have to take, the inserted cell in a leaf and a     *)
(* separator in an internal node.  A split does not look again.            *)
RoomWhereInsertGoes ==
    op # Idle => ~Full(nodes[op.npage], op.btc)

(* The inductive invariant that proves the four of them (BTree_proofs).    *)
PageInv == TypeOK /\ WellLinked /\ NoPageOverflows /\ RoomWhereInsertGoes

(* Every allocated page is a node of exactly one tree and hangs from at    *)
(* most one parent pointer, roots from none: no split loses a page, links  *)
(* one twice, or takes one of another tree.                                *)
Pointers ==
    UNION {{<<p, i>> : i \in 1 .. Len(nodes[p].cells) + 1} :
             p \in {q \in Allocated : is_internal(nodes[q].type)}}

EveryPageInOneTree ==
    \A p \in Allocated :
      /\ Cardinality({r \in roots : p \in PagesUnder(r)}) = 1
      /\ Cardinality({w \in Pointers : child_at(nodes[w[1]], w[2]) = p})
           = IF p \in roots THEN 0 ELSE 1

(* An entry that is in some leaf of a table is the one chidb_Btree_find    *)
(* comes to from the root, at every moment of an insert.                   *)
EveryEntryIsFound ==
    \A r \in roots : ~is_index(nodes[r].type) =>
      \A c \in LeafCells(r) : Find(r, c.key) = c.val

(* The walk of insertNonFull for a key that is in some leaf of a tree, a   *)
(* table's or an index's, comes to that leaf and compares the key with the *)
(* entry itself: at every moment of an insert, one more insert of the key  *)
(* would be answered CHIDB_EDUPLICATE.                                     *)
EveryEntryIsReached ==
    \A r \in roots : \A c \in LeafCells(r) :
      ValueIn(nodes[LeafFor(r, c.key)], c.key) = c.val

(* A separator is the largest entry of the subtree on its left, and that   *)
(* subtree is never empty: find_position sends a key equal to a separator  *)
(* to the left, where the median of a leaf split went.                     *)
SeparatorIsLargestOnItsLeft ==
    \A p \in Allocated : is_internal(nodes[p].type) =>
      \A i \in 1 .. Len(nodes[p].cells) :
        LET sep == nodes[p].cells[i]
        IN  /\ \A c \in LeafCells(sep.child) : c.key <= sep.key
            /\ \E c \in LeafCells(sep.child) :
                 /\ c.key = sep.key
                 /\ is_index(nodes[p].type) => c.val = sep.val

(* All leaves of a tree are at the same depth: a tree grows at its root.   *)
Balanced == \A r \in roots : Cardinality(LeafDepths(r)) = 1

(* No key is twice in the leaves of a tree: an insert that returned OK     *)
(* found no entry with that key (btree.c, "CHIDB_EDUPLICATE: An entry with *)
(* that key already exists").  It fails for keys that differ by 2^28, and  *)
(* no run asks for it (README, section 3).                                 *)
LeafCellsWithKey(r, k) ==
    UNION {{<<p, i>> : i \in {j \in 1 .. Len(nodes[p].cells) :
                                nodes[p].cells[j].key = k}} :
             p \in {q \in PagesUnder(r) : ~is_internal(nodes[q].type)}}

KeysAreUnique ==
    \A r \in roots, k \in TableKeys \cup IndexKeys :
      Cardinality(LeafCellsWithKey(r, k)) <= 1

(* An index holds each of its entries in one cell: "an index B-Tree        *)
(* contains as many entries as the table it indexes [...] both the         *)
(* internal and leaf nodes contain entries" (docs, fileformat.html).  It   *)
(* fails at the first split of an index leaf (README, section 3).          *)
IndexHoldsEachEntryOnce ==
    \A r \in roots : is_index(nodes[r].type) =>
      \A p, q \in PagesUnder(r) : \A c \in CellsOf(p), d \in CellsOf(q) :
        (c.key = d.key) => (p = q /\ c = d)

(* A step writes pages of the tree it inserts in, and new pages; the trees *)
(* of other tables and indexes it leaves alone.                            *)
OtherTreesUntouched ==
    [][\A r \in roots : (op # Idle /\ op.nroot # r) =>
         \A p \in PagesUnder(r) : nodes'[p] = nodes[p]]_vars

(* An insert that was called returns, whatever it has to split on its way. *)
InsertReturns == (op # Idle) ~> (op = Idle)

(* The entries that cells cs are in the tree with root r, those of the     *)
(* file, and the one that is being inserted.                               *)
EntriesOf(r, cs) == {[tree |-> r, key |-> c.key, val |-> c.val] : c \in cs}
Entries == UNION {EntriesOf(r, LeafCells(r)) : r \in roots}
Pending == IF op = Idle THEN Idle
           ELSE [tree |-> op.nroot, key |-> op.btc.key, val |-> op.btc.val]

(* The file implements the map of its entries: a split changes no tree's   *)
(* content, an insert adds its entry or reports the key that is there.     *)
Store == INSTANCE KeyedStore WITH
    FirstTree <- 1,
    Trees <- Pages,
    Keys <- TableKeys \cup IndexKeys,
    trees <- roots,
    entries <- Entries,
    pending <- Pending

ImplementsKeyedStore == Store!Spec
=============================================================================
