-------------------------- MODULE BTreeStore_proofs --------------------------
(***************************************************************************)
(* Module BTree implements module KeyedStore, for every value of the       *)
(* constants.  What remains after module BTreeKeys_proofs is the end of an *)
(* insert: the leaf it comes to is the one that holds its key if a leaf of *)
(* the tree does, so that EDUPLICATE tells the truth, and the cell put in  *)
(* the leaf adds one entry to one tree.  Splits and steps down are steps   *)
(* that the store does not see.                                            *)
(***************************************************************************)
EXTENDS BTreeKeys_proofs

-----------------------------------------------------------------------------
(* What the file holds.                                                    *)

(* The entries of the trees rts when the one with root r contains f[r].    *)
EntriesIn(rts, f) == UNION {EntriesOf(r, f[r]) : r \in rts}

(* The entries of the file are what the invariant on the keys says.        *)
LEMMA EntriesAre ==
  \A f : PageInv /\ Stores(f) => Entries = EntriesIn(roots, f)
<1> SUFFICES ASSUME NEW f, PageInv, Stores(f) PROVE Entries = EntriesIn(roots, f)
  OBVIOUS
<1>1. PICK own, ht, cov, con :
        KeysHold(own, ht, cov, con) /\ \A r \in roots : con[r] = f[r]
  BY DEF Stores
<1>2. roots \subseteq Allocated
  BY DEF PageInv, TypeOK, Allocated
<1>3. con \in [Pages -> SUBSET BTreeCell] /\ Allocated \subseteq Pages
  BY <1>1, ConstantsAssumption
     DEF KeysHold, Ordered, ContainsEntries, PageInv, TypeOK, Allocated, Pages
<1>4. ASSUME NEW r \in roots PROVE LeafCells(r) = f[r]
  <2>1. \A c : c \in LeafCells(r) <=> c \in con[r]
    BY <1>1, <1>2, LeafCellsAre
  <2>2. con[r] = f[r]
    BY <1>1
  <2>3. QED
    BY <2>1, <2>2
<1>5. QED
  BY <1>4 DEF Entries, EntriesIn

(* The same of the next state.                                             *)
EntriesKnown == \A f : PageInv /\ Stores(f) => Entries = EntriesIn(roots, f)

LEMMA EntriesAreNext ==
  \A f : PageInv' /\ Stores(f)' => Entries' = EntriesIn(roots', f)
<1>1. EntriesKnown
  BY EntriesAre DEF EntriesKnown
<1>2. EntriesKnown'
  BY <1>1, PTL
<1>3. QED
  BY <1>2 DEF EntriesKnown
-----------------------------------------------------------------------------
(* What an insert finds in the leaf it comes to.                           *)

(* A page contains the entries of its tree whose keys it covers.           *)
LEMMA ContentsOfTree ==
  ASSUME PageInv, NEW own, NEW ht, NEW cov, NEW con, KeysHold(own, ht, cov, con)
  PROVE  \A p \in Allocated : \A c :
           c \in con[p] <=> c \in con[own[p]] /\ c.key \in cov[p]
<1> DEFINE Good(p) == \A c : c \in con[p] <=> c \in con[own[p]] /\ c.key \in cov[p]
           Bad == {p \in Allocated : ~Good(p)}
           above == [p \in Allocated |-> ht[own[p]] - ht[p]]
<1>1. SUFFICES ASSUME Bad # {} PROVE FALSE
  OBVIOUS
<1>2. /\ Shape(nodes, n_pages, roots, own, ht)
      /\ Covers(nodes, n_pages, roots, cov) /\ Apart(n_pages, own, ht, cov)
      /\ ContainsEntries(nodes, n_pages, roots, cov, con)
  BY DEF KeysHold, TreesHold, Ordered
<1>3. /\ Allocated = 1 .. n_pages /\ Allocated \subseteq Pages
      /\ roots \subseteq Allocated
      /\ \A r \in roots : own[r] = r
      /\ \A p \in Allocated :
           /\ nodes[p] \in BTreeNode
           /\ nodes[p].type \in NodeTypes
           /\ own[p] \in roots
           /\ ht[p] \in Nat
           /\ ht[p] <= ht[own[p]]
           /\ Children(nodes[p]) \subseteq Allocated \ roots
           /\ \A q \in Children(nodes[p]) : own[q] = own[p] /\ ht[p] = ht[q] + 1
      /\ \A q \in Allocated \ roots : \E p \in Allocated : q \in Children(nodes[p])
  BY <1>2, ShapeParts
<1>4. PICK p \in Bad : \A q \in Bad : above[p] <= above[q]
  <2>1. \A q \in Bad : above[q] \in Nat
    <3>1. SUFFICES ASSUME NEW q \in Bad PROVE above[q] \in Nat
      OBVIOUS
    <3>2. /\ q \in Allocated /\ ht[q] \in Nat /\ ht[own[q]] \in Nat
          /\ ht[q] <= ht[own[q]]
      BY <1>3
    <3>3. above[q] = ht[own[q]] - ht[q]
      BY <3>2
    <3> HIDE DEF above
    <3>4. QED
      BY <3>2, <3>3
  <2> HIDE DEF Bad, above
  <2>2. QED
    BY <1>1, <2>1, LeastRank
<1>5. p \in Allocated /\ p \in 1 .. n_pages
  BY <1>3
<1>6. \A c \in con[p] : c.key \in cov[p]
  BY <1>2, <1>5 DEF ContainsEntries
<1>7. CASE p \in roots
  <2>1. own[p] = p
    BY <1>3, <1>7
  <2>2. QED
    BY <1>6, <2>1
<1>8. CASE p \notin roots
  <2>1. PICK q \in Allocated : p \in Children(nodes[q])
    BY <1>3, <1>5, <1>8
  <2>2. own[p] = own[q] /\ ht[q] = ht[p] + 1
    BY <1>3, <2>1
  <2>3. Good(q)
    <3>1. ht[p] \in Nat /\ ht[q] \in Nat /\ ht[own[p]] \in Nat
      BY <1>3, <1>5, <2>1
    <3>2. above[p] = ht[own[p]] - ht[p] /\ above[q] = ht[own[p]] - ht[q]
      BY <1>5, <2>1, <2>2
    <3>3. ~(above[p] <= above[q])
      <4> HIDE DEF above
      <4>1. QED
        BY <2>2, <3>1, <3>2
    <3>4. QED
      BY <1>4, <2>1, <3>3
  <2>4. is_internal(nodes[q].type) /\ q \in 1 .. n_pages
    BY <1>3, <2>1 DEF Children
  <2>5. \A x : x \in Children(nodes[q]) <=> \E i \in Nat : Link(nodes, q, i, x)
    BY <1>3, <2>1, ChildrenAreLinked
  <2>6. \A c : c \in con[q] <=> \E x \in Children(nodes[q]) : c \in con[x]
    <3>1. \A c : c \in con[q] <=> Under(nodes, con, q, c)
      BY <1>2, <2>4 DEF ContainsEntries
    <3>2. QED
      BY <2>4, <2>5, <3>1 DEF Under
  <2>7. cov[p] \subseteq cov[q]
    <3>1. PICK i \in Nat : Link(nodes, q, i, p)
      BY <2>1, <2>5
    <3>2. cov[p] = {k \in cov[q] : SlotOf(nodes[q], k, i)}
      BY <1>2, <2>4, <3>1 DEF Covers
    <3>3. QED
      BY <3>2
  <2>8. ASSUME NEW c \in con[p] PROVE c \in con[own[p]]
    <3>1. c \in con[q]
      BY <2>1, <2>6
    <3>2. QED
      BY <2>2, <2>3, <3>1
  <2>9. ASSUME NEW c \in con[own[p]], c.key \in cov[p] PROVE c \in con[p]
    <3>1. c \in con[q]
      BY <2>2, <2>3, <2>7, <2>9
    <3>2. PICK x \in Children(nodes[q]) : c \in con[x]
      BY <2>6, <3>1
    <3>3. x \in 1 .. n_pages /\ own[x] = own[p] /\ ht[x] = ht[p]
      <4>1. x \in Allocated /\ own[x] = own[q] /\ ht[q] = ht[x] + 1
        BY <1>3, <2>1, <3>2
      <4>2. ht[x] \in Nat /\ ht[p] \in Nat
        BY <1>3, <1>5, <4>1
      <4>3. QED
        BY <1>3, <2>2, <4>1, <4>2
    <3>4. c.key \in cov[x]
      BY <1>2, <3>2, <3>3 DEF ContainsEntries
    <3>5. x = p
      BY <1>2, <1>5, <2>9, <3>3, <3>4 DEF Apart
    <3>6. QED
      BY <3>2, <3>5
  <2>10. QED
    BY <1>6, <2>8, <2>9
<1>9. QED
  BY <1>7, <1>8

(* find_position stops at a key that is there.                             *)
LEMMA HoldsKeyIs ==
  ASSUME NEW n \in BTreeNode, Ascending(n), NEW k \in Nat
  PROVE  HoldsKey(n, k) <=> \E i \in 1 .. Len(n.cells) : n.cells[i].key = k
<1> DEFINE pos == find_position(n, k)
<1>1. Len(n.cells) \in Nat /\ \A i \in 1 .. Len(n.cells) : n.cells[i].key \in Nat
  BY CellTypes
<1>2. SlotOf(n, k, pos)
  BY SlotFound
<1>3. /\ pos \in 1 .. Len(n.cells) + 1
      /\ \A j \in 1 .. Len(n.cells) : j < pos => n.cells[j].key < k
  BY <1>2 DEF SlotOf, SlotIn, KeysOf
<1>4. pos <= Len(n.cells) => k <= n.cells[pos].key
  BY <1>1, <1>2, <1>3 DEF SlotOf, SlotIn, KeysOf
<1>5. \A i, l \in 1 .. Len(n.cells) : i < l => n.cells[i].key < n.cells[l].key
  BY DEF Ascending, Ascends, KeysOf
<1> HIDE DEF pos
<1>6. ASSUME NEW i \in 1 .. Len(n.cells), n.cells[i].key = k
      PROVE  pos <= Len(n.cells) /\ n.cells[pos].key = k
  <2>1. ~(i < pos)
    BY <1>1, <1>3, <1>6
  <2>2. pos \in 1 .. Len(n.cells)
    BY <1>1, <1>3, <2>1
  <2>3. ~(pos < i)
    BY <1>1, <1>4, <1>5, <1>6, <2>2
  <2>4. i = pos
    BY <1>1, <2>1, <2>2, <2>3
  <2>5. QED
    BY <1>6, <2>2, <2>4
<1>7. HoldsKey(n, k) <=> pos <= Len(n.cells) /\ n.cells[pos].key = k
  BY DEF HoldsKey, pos
<1>8. QED
  BY <1>1, <1>3, <1>6, <1>7

(* The leaf an insert comes to holds its key just if the tree does.        *)
LEMMA KeyIsInTree ==
  ASSUME PageInv, NEW f, Stores(f), AtLeaf
  PROVE  HoldsKey(nodes[op.npage], op.btc.key)
           <=> \E c \in f[op.nroot] : c.key = op.btc.key
<1> DEFINE p == op.npage
           n == nodes[p]
           k == op.btc.key
<1>1. PICK own, ht, cov, con :
        KeysHold(own, ht, cov, con) /\ \A r \in roots : con[r] = f[r]
  BY DEF Stores
<1>2. /\ op # Idle /\ op \in Insertion /\ ~is_internal(n.type)
      /\ op.nroot \in roots /\ p \in Allocated
  BY DEF AtLeaf, PageInv, TypeOK, WellLinked
<1>3. k \in Nat /\ k \in cov[p] /\ own[p] = op.nroot
  <2>1. k \in Nat
    BY <1>2 DEF Insertion, BTreeCell
  <2>2. QED
    BY <1>1, <1>2, <2>1 DEF KeysHold, TreesHold
<1>4. n \in BTreeNode /\ Ascending(n) /\ \A c : c \in con[p] <=> c \in CellsOf(p)
  BY <1>1, <1>2, OrderParts
<1>5. HoldsKey(n, k) <=> \E i \in 1 .. Len(n.cells) : n.cells[i].key = k
  BY <1>3, <1>4, HoldsKeyIs
<1>6. HoldsKey(n, k) <=> \E c \in con[p] : c.key = k
  BY <1>4, <1>5 DEF CellsOf
<1>7. \A c : c \in con[p] <=> c \in con[op.nroot] /\ c.key \in cov[p]
  BY <1>1, <1>2, <1>3, ContentsOfTree
<1>8. con[op.nroot] = f[op.nroot]
  BY <1>1, <1>2
<1>9. QED
  BY <1>3, <1>6, <1>7, <1>8
-----------------------------------------------------------------------------
(* The steps of the file are steps of the store.                           *)

(* The variables of the store after a step that changes no contents.       *)
LEMMA SameEntries ==
  ASSUME PageInv, PageInv', NEW f, Stores(f), Stores(f)', roots' = roots
  PROVE  Entries' = Entries
BY EntriesAre, EntriesAreNext

(* An insert in progress is not taken for none.                            *)
LEMMA PendingIs ==
  ASSUME PageInv, op # Idle
  PROVE  Pending # Idle
<1>1. /\ op.nroot \in Pages /\ op.btc.key \in Nat
      /\ op.btc.val \in Vals \cup {NoValue}
  BY DEF PageInv, TypeOK, Insertion, BTreeCell
<1>2. Pending \in [tree : Pages, key : Nat, val : Vals \cup {NoValue}]
  BY <1>1 DEF Pending
<1>3. QED
  BY <1>2, ConstantsAssumption

(* A tree is created.                                                      *)
LEMMA NewTreeCreates ==
  ASSUME SafeSizes, PageInv, PageInv', KeysInv, NEW t \in LeafTypes, NewTree(t)
  PROVE  Store!Create(n_pages + 1) /\ n_pages + 1 \in Pages
<1>1. /\ op = Idle /\ op' = Idle /\ rc' = rc
      /\ n_pages < MaxPages /\ n_pages \in Nat
      /\ roots' = roots \cup {n_pages + 1} /\ roots \subseteq 1 .. n_pages
  BY DEF NewTree, PageInv, TypeOK, Pages
<1>2. n_pages + 1 \in Pages /\ n_pages + 1 \notin roots
  BY <1>1, ConstantsAssumption DEF Pages
<1>3. PICK f \in [Pages -> SUBSET BTreeCell] : Stores(f)
  BY DEF KeysInv
<1>4. PICK g : g = [f EXCEPT ![n_pages + 1] = {}]
  OBVIOUS
<1>5. Stores(g)'
  BY <1>3, <1>4, NewTreeKeepsKeys
<1>6. Entries = EntriesIn(roots, f) /\ Entries' = EntriesIn(roots', g)
  BY <1>3, <1>5, EntriesAre, EntriesAreNext
<1>7. /\ \A r \in roots : g[r] = f[r]
      /\ g[n_pages + 1] = {}
  <2>1. roots \subseteq Pages
    BY <1>1, ConstantsAssumption DEF Pages
  <2>2. QED
    BY <1>2, <1>3, <1>4, <2>1
<1>8. EntriesIn(roots', g) = EntriesIn(roots, f)
  <2>1. EntriesOf(n_pages + 1, g[n_pages + 1]) = {}
    BY <1>7 DEF EntriesOf
  <2>2. EntriesIn(roots', g)
          = EntriesIn(roots, g) \cup EntriesOf(n_pages + 1, g[n_pages + 1])
    BY <1>1 DEF EntriesIn
  <2>3. EntriesIn(roots, g) = EntriesIn(roots, f)
    BY <1>7 DEF EntriesIn
  <2>4. QED
    BY <2>1, <2>2, <2>3
<1>9. Pending = Idle /\ Pending' = Idle
  BY <1>1 DEF Pending
<1>10. QED
  BY <1>1, <1>2, <1>6, <1>8, <1>9 DEF Store!Create

(* An insert is called.                                                    *)
LEMMA InsertBegins ==
  ASSUME SafeSizes, PageInv, PageInv', KeysInv,
         NEW r \in roots, NEW c \in BTreeCell,
         FitsIn(nodes[r].type, c.key), Insert(r, c)
  PROVE  Store!Begin(r, c.key, c.val)
<1>1. /\ op = Idle /\ op' = [nroot |-> r, npage |-> r, btc |-> c]
      /\ roots' = roots /\ rc' = rc
  BY DEF Insert
<1>2. op' # Idle
  <2>1. r \in Pages
    <3>1. roots \subseteq 1 .. n_pages /\ n_pages \in Pages
      BY DEF PageInv, TypeOK
    <3>2. QED
      BY <3>1, ConstantsAssumption DEF Pages
  <2>2. op' \in Insertion
    BY <1>1, <2>1 DEF Insertion
  <2>3. QED
    BY <2>2, ConstantsAssumption
<1>3. Pending = Idle /\ Pending' = [tree |-> r, key |-> c.key, val |-> c.val]
  BY <1>1, <1>2 DEF Pending
<1>4. PICK f \in [Pages -> SUBSET BTreeCell] : Stores(f)
  BY DEF KeysInv
<1>5. Stores(f)'
  BY <1>4, InsertKeepsKeys
<1>6. Entries' = Entries
  BY <1>1, <1>4, <1>5, SameEntries
<1>7. QED
  BY <1>1, <1>3, <1>6 DEF Store!Begin

(* A step down the tree moves the insert to another page.                  *)
LEMMA DescentMoves ==
  ASSUME SafeSizes, PageInv, PageInv', Descend \/ SplitAndDescend
  PROVE  /\ op # Idle /\ op' # Idle
         /\ op'.nroot = op.nroot /\ op'.btc = op.btc
         /\ roots' = roots /\ rc' = rc
<1> DEFINE here == op.npage
           key == op.btc.key
<1>1. AtInternal /\ roots' = roots /\ rc' = rc
  BY DEF Descend, SplitAndDescend
<1>2. /\ op \in Insertion /\ op # Idle /\ key \in Nat /\ here \in 1 .. n_pages
      /\ ChildFor(nodes[here], key) \in Pages /\ is_internal(nodes[here].type)
  BY <1>1, PagesOfDescent
<1>3. PICK p \in Pages : op' = [op EXCEPT !.npage = p]
  <2>1. CASE Descend
    BY <1>2, <2>1 DEF Descend
  <2>2. CASE SplitAndDescend
    <3>1. /\ nodes' \in [Pages -> BTreeNode] /\ nodes'[here] \in BTreeNode
          /\ n_pages' = n_pages + 1 /\ n_pages \in Nat
          /\ op' = [op EXCEPT !.npage = ChildFor(nodes'[here], key)]
          /\ \E m : IsSplit(nodes, nodes', here, ChildFor(nodes[here], key),
                            find_position(nodes[here], key), n_pages + 1, m)
      BY <1>1, <2>2, PagesOfSplit, PagesOfDescent
    <3>2. is_internal(nodes'[here].type)
      BY <1>2, <3>1 DEF IsSplit
    <3>3. Link(nodes', here, find_position(nodes'[here], key), ChildFor(nodes'[here], key))
          /\ find_position(nodes'[here], key) \in Nat
      BY <1>2, <3>1, <3>2, ChildLinked
    <3>4. here \in 1 .. n_pages' /\ Children(nodes'[here]) \subseteq 1 .. n_pages'
      <4>1. here \in 1 .. n_pages'
        BY <1>2, <3>1
      <4>2. QED
        BY <4>1 DEF PageInv, WellLinked, Allocated
    <3>5. ChildFor(nodes'[here], key) \in Children(nodes'[here])
      BY <3>1, <3>2, <3>3, ChildrenAreLinked
    <3>6. 1 .. n_pages' \subseteq Pages
      <4>1. n_pages' \in Pages
        BY DEF PageInv, TypeOK
      <4>2. QED
        BY <4>1, ConstantsAssumption DEF Pages
    <3>7. QED
      BY <3>1, <3>4, <3>5, <3>6
  <2>3. QED
    BY <2>1, <2>2
<1>4. /\ op' \in Insertion /\ op'.nroot = op.nroot /\ op'.btc = op.btc
  BY <1>2, <1>3, InsertionType
<1>5. QED
  BY <1>1, <1>2, <1>4, ConstantsAssumption

(* The store does not see it.                                              *)
LEMMA DescentIsUnseen ==
  ASSUME SafeSizes, PageInv, PageInv', KeysInv, Descend \/ SplitAndDescend
  PROVE  UNCHANGED Store!vars
<1>1. /\ op # Idle /\ op' # Idle
      /\ op'.nroot = op.nroot /\ op'.btc = op.btc
      /\ roots' = roots /\ rc' = rc
  BY DescentMoves
<1>2. Pending' = Pending
  BY <1>1 DEF Pending
<1>3. PICK f \in [Pages -> SUBSET BTreeCell] : Stores(f)
  BY DEF KeysInv
<1>4. Stores(f)'
  BY <1>3, DescendKeepsKeys, SplitAndDescendKeepsKeys
<1>5. Entries' = Entries
  BY <1>1, <1>3, <1>4, SameEntries
<1>6. QED
  BY <1>1, <1>2, <1>5 DEF Store!vars

(* What the entries of the tree an insert goes to tell of its key.         *)
LEMMA PresentIs ==
  ASSUME PageInv, NEW f, Stores(f), op # Idle
  PROVE  Store!Present <=> \E c \in f[op.nroot] : c.key = op.btc.key
<1>1. Entries = EntriesIn(roots, f)
  BY EntriesAre
<1>2. Pending.tree = op.nroot /\ Pending.key = op.btc.key
  BY DEF Pending
<1>3. op.nroot \in roots
  BY DEF PageInv, WellLinked
<1>4. ASSUME NEW c \in f[op.nroot], c.key = op.btc.key PROVE Store!Present
  <2>1. [tree |-> op.nroot, key |-> c.key, val |-> c.val] \in Entries
    BY <1>1, <1>3 DEF EntriesIn, EntriesOf
  <2>2. QED
    BY <1>2, <1>4, <2>1 DEF Store!Present
<1>5. ASSUME Store!Present PROVE \E c \in f[op.nroot] : c.key = op.btc.key
  <2>1. PICK e \in Entries : e.tree = op.nroot /\ e.key = op.btc.key
    BY <1>2, <1>5 DEF Store!Present
  <2>2. PICK r \in roots : \E c \in f[r] : e = [tree |-> r, key |-> c.key, val |-> c.val]
    BY <1>1, <2>1 DEF EntriesIn, EntriesOf
  <2>3. QED
    BY <2>1, <2>2
<1>6. QED
  BY <1>4, <1>5

(* An insert that meets its key is rejected.                               *)
LEMMA RejectionFinishes ==
  ASSUME SafeSizes, PageInv, PageInv', KeysInv, RejectDuplicate
  PROVE  Store!Finish
<1>1. /\ AtLeaf /\ op # Idle /\ op' = Idle /\ rc' = "EDUPLICATE"
      /\ HoldsKey(nodes[op.npage], op.btc.key)
      /\ nodes' = nodes /\ n_pages' = n_pages /\ roots' = roots
  BY DEF RejectDuplicate, AtLeaf
<1>2. PICK f \in [Pages -> SUBSET BTreeCell] : Stores(f)
  BY DEF KeysInv
<1>3. Store!Present
  BY <1>1, <1>2, KeyIsInTree, PresentIs
<1>4. Stores(f)'
  BY <1>1, <1>2, SamePagesKeepKeys
<1>5. Entries' = Entries
  BY <1>1, <1>2, <1>4, SameEntries
<1>6. Pending # Idle /\ Pending' = Idle
  BY <1>1, PendingIs DEF Pending
<1>7. QED
  BY <1>1, <1>3, <1>5, <1>6 DEF Store!Finish

(* An insert that does not meet its key adds its entry.                    *)
LEMMA InsertionFinishes ==
  ASSUME SafeSizes, PageInv, PageInv', KeysInv, InsertInLeaf
  PROVE  Store!Finish
<1>1. /\ AtLeaf /\ op # Idle /\ op' = Idle /\ rc' = "OK" /\ roots' = roots
      /\ ~HoldsKey(nodes[op.npage], op.btc.key)
  BY DEF InsertInLeaf, AtLeaf
<1>2. PICK f \in [Pages -> SUBSET BTreeCell] : Stores(f)
  BY DEF KeysInv
<1>3. ~Store!Present
  BY <1>1, <1>2, KeyIsInTree, PresentIs
<1>4. PICK c : c = Stored(nodes[op.npage].type, op.btc)
  OBVIOUS
<1>5. PICK root : root = op.nroot
  OBVIOUS
<1>6. PICK g : g = [f EXCEPT ![root] = @ \cup {c}]
  OBVIOUS
<1>7. Stores(g)'
  BY <1>2, <1>4, <1>5, <1>6, InsertInLeafKeepsKeys
<1>8. Entries = EntriesIn(roots, f) /\ Entries' = EntriesIn(roots, g)
  BY <1>1, <1>2, <1>7, EntriesAre, EntriesAreNext
<1>9. Pending = [tree |-> root, key |-> c.key, val |-> c.val]
  <2>1. ~is_internal(nodes[op.npage].type)
    BY <1>1 DEF AtLeaf
  <2>2. nodes[op.npage].type # TABLE_INTERNAL
    BY <2>1 DEF is_internal
  <2>3. FitsIn(nodes[op.npage].type, op.btc.key)
    BY <1>1, <1>2 DEF Stores, KeysHold
  <2>4. c.key = op.btc.key /\ c.val = op.btc.val
    BY <1>4, <2>2, <2>3 DEF Stored, FitsIn
  <2>5. QED
    BY <1>1, <1>5, <2>4 DEF Pending
<1>10. /\ root \in roots
       /\ g[root] = f[root] \cup {c}
       /\ \A r \in roots : r # root => g[r] = f[r]
  <2>1. root \in roots
    BY <1>1, <1>5 DEF PageInv, WellLinked
  <2>2. roots \subseteq Pages
    <3>1. roots \subseteq 1 .. n_pages /\ n_pages \in Pages
      BY DEF PageInv, TypeOK
    <3>2. QED
      BY <3>1, ConstantsAssumption DEF Pages
  <2>3. QED
    BY <1>2, <1>6, <2>1, <2>2
<1>11. EntriesIn(roots, g) = EntriesIn(roots, f) \cup {Pending}
  <2>1. EntriesOf(root, g[root]) = EntriesOf(root, f[root]) \cup {Pending}
    BY <1>9, <1>10 DEF EntriesOf
  <2>2. \A r \in roots : r # root => EntriesOf(r, g[r]) = EntriesOf(r, f[r])
    BY <1>10
  <2>3. ASSUME NEW e
        PROVE  e \in EntriesIn(roots, g) <=> e \in EntriesIn(roots, f) \/ e = Pending
    BY <1>10, <2>1, <2>2, SMTT(30) DEF EntriesIn
  <2>4. QED
    BY <2>3
<1>12. Pending # Idle /\ Pending' = Idle
  BY <1>1, PendingIs DEF Pending
<1>13. QED
  BY <1>1, <1>3, <1>8, <1>11, <1>12 DEF Store!Finish

(* A new file is an empty store.                                           *)
LEMMA InitMaps ==
  SafeSizes /\ Init => Store!Init
<1> SUFFICES ASSUME SafeSizes, Init PROVE Store!Init
  OBVIOUS
<1>1. PageInv
  BY InitPageInv
<1>2. PICK f : f = [p \in Pages |-> {}]
  OBVIOUS
<1>3. Stores(f)
  BY <1>2, InitKeys
<1>4. roots = {1} /\ op = Idle /\ rc = "OK" /\ 1 \in Pages
  BY ConstantsAssumption DEF Init, Pages
<1>5. f[1] = {}
  BY <1>2, <1>4
<1>6. Entries = {}
  BY <1>1, <1>3, <1>4, <1>5, EntriesAre DEF EntriesIn, EntriesOf
<1>7. QED
  BY <1>4, <1>6 DEF Store!Init, Pending

(* Every step of the file is a step of the store, or one it does not see.  *)
LEMMA NextMaps ==
  SafeSizes /\ KeysFit /\ PageInv /\ PageInv' /\ KeysInv /\ [Next]_vars
    => [Store!Next]_(Store!vars)
<1> SUFFICES ASSUME SafeSizes, KeysFit, PageInv, PageInv', KeysInv, [Next]_vars
             PROVE  [Store!Next]_(Store!vars)
  OBVIOUS
<1>1. roots \subseteq Pages
  <2>1. roots \subseteq 1 .. n_pages /\ n_pages \in Pages
    BY DEF PageInv, TypeOK
  <2>2. QED
    BY <2>1, ConstantsAssumption DEF Pages
<1>2. ASSUME NEW t \in LeafTypes, NewTree(t) PROVE Store!Next
  BY <1>2, NewTreeCreates DEF Store!Next
<1>3. ASSUME NEW r \in roots, NEW k \in TableKeys, NEW d \in Records, InsertInTable(r, k, d)
      PROVE  Store!Next
  <2> DEFINE c == [key |-> k, val |-> d, child |-> 0]
  <2>1. c \in BTreeCell /\ c.key = k /\ c.val = d /\ d \in Vals
    BY ConstantsAssumption DEF BTreeCell, Vals
  <2>2. Insert(r, c)
    BY <1>3 DEF InsertInTable
  <2>3. FitsIn(nodes[r].type, c.key)
    BY <2>1, InsertedKeyFits
  <2> HIDE DEF c
  <2>4. Store!Begin(r, k, d)
    BY <2>1, <2>2, <2>3, InsertBegins
  <2>5. QED
    BY <1>1, <2>1, <2>4 DEF Store!Next
<1>4. ASSUME NEW r \in roots, NEW k \in IndexKeys, NEW pk \in KeyPks,
             InsertInIndex(r, k, pk)
      PROVE  Store!Next
  <2> DEFINE c == [key |-> k, val |-> pk, child |-> 0]
  <2>1. c \in BTreeCell /\ c.key = k /\ c.val = pk /\ pk \in Vals
    BY ConstantsAssumption DEF BTreeCell, Vals
  <2>2. Insert(r, c) /\ is_index(nodes[r].type)
    BY <1>4 DEF InsertInIndex
  <2>3. FitsIn(nodes[r].type, c.key)
    BY <2>2, InsertedKeyFits
  <2> HIDE DEF c
  <2>4. Store!Begin(r, k, pk)
    BY <2>1, <2>2, <2>3, InsertBegins
  <2>5. QED
    BY <1>1, <2>1, <2>4 DEF Store!Next
<1>5. ASSUME Descend \/ SplitAndDescend PROVE UNCHANGED Store!vars
  BY <1>5, DescentIsUnseen
<1>6. ASSUME RejectDuplicate \/ InsertInLeaf PROVE Store!Next
  BY <1>6, RejectionFinishes, InsertionFinishes DEF Store!Next
<1>7. ASSUME UNCHANGED vars PROVE UNCHANGED Store!vars
  <2>1. nodes' = nodes /\ n_pages' = n_pages /\ roots' = roots /\ op' = op /\ rc' = rc
    BY <1>7 DEF vars
  <2>2. Pending' = Pending
    BY <2>1 DEF Pending
  <2>3. PICK f \in [Pages -> SUBSET BTreeCell] : Stores(f)
    BY DEF KeysInv
  <2>4. Stores(f)'
    BY <2>1, <2>3, SamePagesKeepKeys
  <2>5. Entries' = Entries
    BY <2>1, <2>3, <2>4, SameEntries
  <2>6. QED
    BY <2>1, <2>2, <2>5 DEF Store!vars
<1>8. QED
  BY <1>2, <1>3, <1>4, <1>5, <1>6, <1>7 DEF Next, InsertNonFull

(* The file keeps what the store promises: its trees are maps from keys to *)
(* values that only grow, an insert adds its entry or reports the one that *)
(* is there, and neither splits nor the descent change what is stored.     *)
(* That an insert returns is left to the runs.                             *)
THEOREM FileImplementsStore ==
  ASSUME SafeSizes, KeysFit
  PROVE  Spec => Store!Safety
<1>1. Spec => [](PageInv /\ KeysInv)
  BY TreesStayOrdered
<1>2. Init => Store!Init
  BY InitMaps
<1>3. PageInv /\ KeysInv /\ (PageInv /\ KeysInv)' /\ [Next]_vars
        => [Store!Next]_(Store!vars)
  BY NextMaps
<1>4. QED
  BY <1>1, <1>2, <1>3, PTL DEF Spec, Store!Safety
-----------------------------------------------------------------------------
(* Keys.                                                                   *)

(* Leaves of a tree that hold cells with the same key are one, and so are  *)
(* the cells.                                                              *)
LEMMA OneCellPerKey ==
  PageInv /\ KeysInv => KeysAreUnique
<1> SUFFICES ASSUME PageInv, KeysInv, NEW r \in roots, NEW k
             PROVE  Cardinality(LeafCellsWithKey(r, k)) <= 1
  BY DEF KeysAreUnique
<1>1. PICK own, ht, cov, con : KeysHold(own, ht, cov, con)
  BY DEF KeysInv, Stores
<1>2. /\ Shape(nodes, n_pages, roots, own, ht)
      /\ Apart(n_pages, own, ht, cov) /\ ContainsEntries(nodes, n_pages, roots, cov, con)
  BY <1>1 DEF KeysHold, TreesHold, Ordered
<1>3. ASSUME NEW w \in LeafCellsWithKey(r, k)
      PROVE  \E p \in 1 .. n_pages, i \in Nat :
               /\ w = <<p, i>>
               /\ own[p] = r /\ ht[p] = 0 /\ k \in cov[p]
               /\ nodes[p] \in BTreeNode /\ Ascending(nodes[p])
               /\ i \in 1 .. Len(nodes[p].cells) /\ nodes[p].cells[i].key = k
  <2>1. PICK p \in PagesUnder(r) :
          /\ ~is_internal(nodes[p].type)
          /\ \E i \in 1 .. Len(nodes[p].cells) :
               w = <<p, i>> /\ nodes[p].cells[i].key = k
    BY DEF LeafCellsWithKey
  <2>2. PICK i \in 1 .. Len(nodes[p].cells) : w = <<p, i>> /\ nodes[p].cells[i].key = k
    BY <2>1
  <2>3. p \in Allocated /\ own[p] = r
    BY <1>2, <2>1, PagesUnderRoot
  <2>4. /\ p \in 1 .. n_pages /\ nodes[p] \in BTreeNode /\ Ascending(nodes[p])
        /\ \A c : c \in con[p] <=> c \in CellsOf(p)
    BY <1>1, <2>1, <2>3, OrderParts
  <2>5. ht[p] = 0
    <3>1. ht[p] \in Nat /\ (is_internal(nodes[p].type) <=> ht[p] > 0)
      BY <1>2, <2>3, ShapeParts
    <3>2. QED
      BY <2>1, <3>1
  <2>6. k \in cov[p]
    <3>1. nodes[p].cells[i] \in con[p]
      BY <2>4 DEF CellsOf
    <3>2. QED
      BY <1>2, <2>2, <2>4, <3>1 DEF ContainsEntries
  <2>7. QED
    BY <2>2, <2>3, <2>4, <2>5, <2>6
<1>4. ASSUME NEW w \in LeafCellsWithKey(r, k), NEW x \in LeafCellsWithKey(r, k)
      PROVE  w = x
  <2>1. PICK p \in 1 .. n_pages, i \in Nat :
               /\ w = <<p, i>>
               /\ own[p] = r /\ ht[p] = 0 /\ k \in cov[p]
               /\ nodes[p] \in BTreeNode /\ Ascending(nodes[p])
               /\ i \in 1 .. Len(nodes[p].cells) /\ nodes[p].cells[i].key = k
    BY <1>3
  <2>2. PICK q \in 1 .. n_pages, j \in Nat :
               /\ x = <<q, j>>
               /\ own[q] = r /\ ht[q] = 0 /\ k \in cov[q]
               /\ nodes[q] \in BTreeNode /\ Ascending(nodes[q])
               /\ j \in 1 .. Len(nodes[q].cells) /\ nodes[q].cells[j].key = k
    BY <1>3
  <2>3. p = q
    BY <1>2, <2>1, <2>2 DEF Apart
  <2>4. /\ i \in 1 .. Len(nodes[p].cells) /\ j \in 1 .. Len(nodes[p].cells)
        /\ nodes[p].cells[i].key = k /\ nodes[p].cells[j].key = k
    BY <2>1, <2>2, <2>3
  <2>5. k \in Nat
    BY <2>1, CellTypes
  <2>6. ~(i < j) /\ ~(j < i)
    <3>1. \A a, b \in 1 .. Len(nodes[p].cells) :
            a < b => nodes[p].cells[a].key < nodes[p].cells[b].key
      BY <2>1 DEF Ascending, Ascends, KeysOf
    <3>2. ~(k < k)
      BY <2>5
    <3>3. QED
      BY <2>4, <3>1, <3>2
  <2>7. i = j
    BY <2>4, <2>6
  <2>8. QED
    BY <2>1, <2>2, <2>3, <2>7
<1> HIDE DEF LeafCellsWithKey
<1>5. CASE LeafCellsWithKey(r, k) = {}
  BY <1>5, FS_EmptySet
<1>6. CASE LeafCellsWithKey(r, k) # {}
  <2>1. PICK w : LeafCellsWithKey(r, k) = {w}
    BY <1>4, <1>6
  <2>2. Cardinality({w}) = 1
    BY FS_Singleton
  <2>3. QED
    BY <2>1, <2>2
<1>7. QED
  BY <1>5, <1>6

(* Every key is in one cell of the leaves of its tree: insertNonFull finds *)
(* the entry it must not add a second time, if there is one.               *)
THEOREM KeysStayUnique ==
  ASSUME SafeSizes, KeysFit
  PROVE  Spec => []KeysAreUnique
<1>1. Spec => [](PageInv /\ KeysInv)
  BY TreesStayOrdered
<1>2. QED
  BY <1>1, OneCellPerKey, PTL
=============================================================================
