-------------------------- MODULE PageForest_proofs -------------------------
(***************************************************************************)
(* What a crash leaves of the trees of module PageWrites, and what it      *)
(* costs, for every value of the constants: in every file that the writes  *)
(* of a call pass through, the pages that can be reached form trees, what  *)
(* can be reached is found, and all entries are there but those that the   *)
(* call may cost.                                                          *)
(*                                                                         *)
(* The pages of such a file that no pointer leads to can hold anything:    *)
(* the halves of a split that was not finished, the copy of a root.  So    *)
(* the owners, heights and ranges of keys of BTreeForest_proofs and        *)
(* BTreeKeys_proofs are those of some of its pages here: a set that holds  *)
(* the roots and that pointers do not leave.  A page has only some of the  *)
(* keys that its parent's slot takes, since a split that was not finished  *)
(* leaves keys that lead to a page that never had them.                    *)
(***************************************************************************)
EXTENDS PageWrites_proofs, BTreeKeys_proofs

-----------------------------------------------------------------------------
(* Marks of some of the first pages of ns, those of l.pages: l.own, the    *)
(* root a page is under, l.ht, its height, and l.keys, keys that are       *)
(* searched through it.                                                    *)

MarksTyped(ns, count, l) ==
    /\ l.pages \subseteq 1 .. count
    /\ \A p \in l.pages : p \in Pages /\ ns[p] \in BTreeNode
    /\ l.own \in [Pages -> Pages] /\ l.ht \in [Pages -> Nat]
    /\ l.keys \in [Pages -> SUBSET Nat]

(* The roots that are in the file are marked, and take all keys.           *)
RootsMarked(count, rts, l) ==
    \A r \in rts : r \in 1 .. count =>
      r \in l.pages /\ l.own[r] = r /\ l.keys[r] = Nat

(* A marked page is under a marked root; it is a leaf if its height is 0.  *)
LevelsMarked(ns, count, rts, l) ==
    \A p \in l.pages :
      /\ l.own[p] \in rts /\ l.own[p] \in l.pages
      /\ l.ht[p] < count
      /\ is_internal(ns[p].type) <=> l.ht[p] > 0

(* A pointer, if it is to a page at all, leads to a marked page of the     *)
(* same tree and kind, one level down, whose keys are those of the slot;   *)
LinksMarked(ns, rts, l) ==
    \A p \in l.pages, i \in Nat : \A q : Link(ns, p, i, q) /\ q # 0 =>
      /\ q \in l.pages /\ q \notin rts
      /\ l.own[q] = l.own[p]
      /\ l.ht[p] = l.ht[q] + 1
      /\ is_index(ns[q].type) <=> is_index(ns[p].type)
      /\ \A k \in l.keys[q] : k \in l.keys[p] /\ SlotOf(ns[p], k, i)

(* and no other leads there.                                               *)
OneMarkedLink(ns, l) ==
    \A p1, p2 \in l.pages, i1, i2 \in Nat : \A q :
      Link(ns, p1, i1, q) /\ Link(ns, p2, i2, q) /\ q # 0 => p1 = p2 /\ i1 = i2

(* Cells go up, each where its key is searched.  On the right of a         *)
(* separator there are keys as well.                                       *)
SortedNode(n, keys) ==
    /\ Ascending(n)
    /\ \A i \in 1 .. Len(n.cells) :
         /\ n.cells[i].key \in keys
         /\ FitsIn(n.type, n.cells[i].key)
         /\ is_internal(n.type) => \E k \in keys : n.cells[i].key < k
         /\ ~is_internal(n.type) => n.cells[i].val # NoValue

CellsMarked(ns, l) == \A p \in l.pages : SortedNode(ns[p], l.keys[p])

Marked(ns, count, rts, l) ==
    /\ MarksTyped(ns, count, l)
    /\ RootsMarked(count, rts, l)
    /\ LevelsMarked(ns, count, rts, l)
    /\ LinksMarked(ns, rts, l)
    /\ OneMarkedLink(ns, l)
    /\ CellsMarked(ns, l)

(* They are the marks of any file with the same marked pages and roots.    *)
LEMMA SameMarks ==
  ASSUME NEW ns, NEW count \in Nat, NEW rts, NEW l, Marked(ns, count, rts, l),
         NEW new, NEW n \in Nat, count <= n, \A p \in l.pages : new[p] = ns[p],
         NEW rts2, rts2 \cap (1 .. n) = rts \cap (1 .. count)
  PROVE  Marked(new, n, rts2, l)
<1>1. /\ MarksTyped(ns, count, l) /\ RootsMarked(count, rts, l)
      /\ LevelsMarked(ns, count, rts, l) /\ LinksMarked(ns, rts, l)
      /\ OneMarkedLink(ns, l) /\ CellsMarked(ns, l)
  BY DEF Marked
<1>2. \A p \in l.pages : p \in 1 .. count /\ p \in 1 .. n
  BY <1>1 DEF MarksTyped
<1>3. /\ \A r \in rts2 : r \in 1 .. n => r \in rts /\ r \in 1 .. count
      /\ \A p \in l.pages : p \in rts <=> p \in rts2
  BY <1>2
<1>4. MarksTyped(new, n, l)
  BY <1>1, <1>2 DEF MarksTyped
<1>5. RootsMarked(n, rts2, l)
  BY <1>1, <1>3 DEF RootsMarked
<1>6. LevelsMarked(new, n, rts2, l)
  <2>1. SUFFICES ASSUME NEW p \in l.pages
                 PROVE  /\ l.own[p] \in rts2 /\ l.own[p] \in l.pages
                        /\ l.ht[p] < n
                        /\ is_internal(new[p].type) <=> l.ht[p] > 0
    BY DEF LevelsMarked
  <2>2. /\ l.own[p] \in rts /\ l.own[p] \in l.pages /\ l.ht[p] < count
        /\ is_internal(ns[p].type) <=> l.ht[p] > 0
    BY <1>1 DEF LevelsMarked
  <2>3. l.ht[p] \in Nat
    BY <1>1 DEF MarksTyped
  <2>4. QED
    BY <1>3, <2>2, <2>3
<1>7. \A p \in l.pages, i \in Nat : \A q : Link(new, p, i, q) <=> Link(ns, p, i, q)
  BY DEF Link
<1>8. LinksMarked(new, rts2, l)
  <2>1. SUFFICES ASSUME NEW p \in l.pages, NEW i \in Nat, NEW q, Link(new, p, i, q), q # 0
                 PROVE  /\ q \in l.pages /\ q \notin rts2
                        /\ l.own[q] = l.own[p]
                        /\ l.ht[p] = l.ht[q] + 1
                        /\ is_index(new[q].type) <=> is_index(new[p].type)
                        /\ \A k \in l.keys[q] : k \in l.keys[p] /\ SlotOf(new[p], k, i)
    BY DEF LinksMarked
  <2>2. Link(ns, p, i, q)
    BY <1>7, <2>1
  <2>3. /\ q \in l.pages /\ q \notin rts
        /\ l.own[q] = l.own[p]
        /\ l.ht[p] = l.ht[q] + 1
        /\ is_index(ns[q].type) <=> is_index(ns[p].type)
        /\ \A k \in l.keys[q] : k \in l.keys[p] /\ SlotOf(ns[p], k, i)
    BY <1>1, <2>1, <2>2 DEF LinksMarked
  <2>4. new[p] = ns[p] /\ new[q] = ns[q]
    BY <2>3
  <2>5. QED
    BY <1>3, <2>3, <2>4
<1>9. OneMarkedLink(new, l)
  BY <1>1, <1>7 DEF OneMarkedLink
<1>10. CellsMarked(new, l)
  BY <1>1 DEF CellsMarked
<1>11. QED
  BY <1>4, <1>5, <1>6, <1>8, <1>9, <1>10 DEF Marked

(* The links of node n that are to pages are those of node `was`, s slots  *)
(* further on, for the same keys.                                          *)
LinksOf(ns, new, c, s) ==
    \A j \in Nat : \A q : Link(new, c, j, q) /\ q # 0 =>
      /\ Link(ns, c, j + s, q)
      /\ \A k \in Nat : SlotOf(ns[c], k, j + s) => SlotOf(new[c], k, j)

(* One marked page changed, that keeps its type and has no link that it    *)
(* had not.                                                                *)
LEMMA PageReplaced ==
  ASSUME NEW ns, NEW count, NEW rts, NEW l, Marked(ns, count, rts, l),
         NEW c \in l.pages, NEW new, \A p \in l.pages \ {c} : new[p] = ns[p],
         new[c] \in BTreeNode, new[c].type = ns[c].type,
         SortedNode(new[c], l.keys[c]),
         NEW s \in Nat, LinksOf(ns, new, c, s)
  PROVE  Marked(new, count, rts, l)
<1>1. /\ MarksTyped(ns, count, l) /\ RootsMarked(count, rts, l)
      /\ LevelsMarked(ns, count, rts, l) /\ LinksMarked(ns, rts, l)
      /\ OneMarkedLink(ns, l) /\ CellsMarked(ns, l)
  BY DEF Marked
<1>2. \A p \in l.pages : new[p].type = ns[p].type
  OBVIOUS
<1>3. MarksTyped(new, count, l)
  BY <1>1 DEF MarksTyped
<1>4. LevelsMarked(new, count, rts, l)
  BY <1>1, <1>2 DEF LevelsMarked
<1>5. CellsMarked(new, l)
  <2>1. SUFFICES ASSUME NEW p \in l.pages PROVE SortedNode(new[p], l.keys[p])
    BY DEF CellsMarked
  <2>2. CASE p = c
    BY <2>2
  <2>3. CASE p # c
    BY <1>1, <2>3 DEF CellsMarked
  <2>4. QED
    BY <2>2, <2>3
<1>6. ASSUME NEW p \in l.pages, NEW i \in Nat, NEW q, Link(new, p, i, q), q # 0
      PROVE  IF p = c THEN /\ Link(ns, p, i + s, q) /\ i + s \in Nat
                           /\ \A k \in Nat : SlotOf(ns[p], k, i + s) => SlotOf(new[p], k, i)
                      ELSE Link(ns, p, i, q) /\ new[p] = ns[p]
  <2>1. CASE p = c
    BY <1>6, <2>1 DEF LinksOf
  <2>2. CASE p # c
    BY <1>6, <2>2 DEF Link
  <2>3. QED
    BY <2>1, <2>2
<1>7. LinksMarked(new, rts, l)
  <2>1. SUFFICES ASSUME NEW p \in l.pages, NEW i \in Nat, NEW q, Link(new, p, i, q), q # 0
                 PROVE  /\ q \in l.pages /\ q \notin rts
                        /\ l.own[q] = l.own[p]
                        /\ l.ht[p] = l.ht[q] + 1
                        /\ is_index(new[q].type) <=> is_index(new[p].type)
                        /\ \A k \in l.keys[q] : k \in l.keys[p] /\ SlotOf(new[p], k, i)
    BY DEF LinksMarked
  <2>2. PICK j \in Nat : /\ Link(ns, p, j, q)
                         /\ \A k \in Nat : SlotOf(ns[p], k, j) => SlotOf(new[p], k, i)
    BY <1>6, <2>1
  <2>3. /\ q \in l.pages /\ q \notin rts
        /\ l.own[q] = l.own[p]
        /\ l.ht[p] = l.ht[q] + 1
        /\ is_index(ns[q].type) <=> is_index(ns[p].type)
        /\ \A k \in l.keys[q] : k \in l.keys[p] /\ SlotOf(ns[p], k, j)
    BY <1>1, <2>1, <2>2 DEF LinksMarked
  <2>4. l.keys[q] \subseteq Nat
    BY <1>1, <2>3 DEF MarksTyped
  <2>5. QED
    BY <1>2, <2>2, <2>3, <2>4
<1>8. OneMarkedLink(new, l)
  <2>1. SUFFICES ASSUME NEW p1 \in l.pages, NEW p2 \in l.pages,
                        NEW i1 \in Nat, NEW i2 \in Nat, NEW q,
                        Link(new, p1, i1, q), Link(new, p2, i2, q), q # 0
                 PROVE  p1 = p2 /\ i1 = i2
    BY DEF OneMarkedLink
  <2> DEFINE was(p, i) == IF p = c THEN i + s ELSE i
  <2>2. /\ Link(ns, p1, was(p1, i1), q) /\ was(p1, i1) \in Nat
        /\ Link(ns, p2, was(p2, i2), q) /\ was(p2, i2) \in Nat
    BY <1>6, <2>1
  <2>3. p1 = p2 /\ was(p1, i1) = was(p2, i2)
    BY <1>1, <2>1, <2>2 DEF OneMarkedLink
  <2>4. QED
    BY <2>3
<1>9. QED
  BY <1>1, <1>3, <1>4, <1>5, <1>7, <1>8 DEF Marked
-----------------------------------------------------------------------------
(* A split of the marked page child, to which slot i of the marked page    *)
(* parent leads.                                                           *)

Dividing(ns, new, count, nM, rts, l, parent, i, child, m) ==
    /\ ns \in [Pages -> BTreeNode] /\ new \in [Pages -> BTreeNode]
    /\ count \in Nat /\ nM \in Pages /\ nM = count + 1 /\ rts \subseteq 1 .. count
    /\ Marked(ns, count, rts, l)
    /\ parent \in l.pages /\ i \in Nat /\ Link(ns, parent, i, child) /\ child # 0
    /\ IsSplit(ns, new, parent, child, i, nM, m)
    /\ ~is_internal(ns[child].type) => m + 1 < Len(ns[child].cells)

(* What the marks say of the pages of a split.                             *)
LEMMA DividingPages ==
  ASSUME NEW ns, NEW new, NEW count, NEW nM, NEW rts, NEW l,
         NEW parent, NEW i, NEW child, NEW m,
         Dividing(ns, new, count, nM, rts, l, parent, i, child, m)
  PROVE  /\ \A p \in l.pages : p \in 1 .. count /\ p \in Pages /\ p # nM
         /\ 1 .. nM = (1 .. count) \cup {nM}
         /\ child \in l.pages /\ child \notin rts /\ parent # child
         /\ l.own[child] = l.own[parent] /\ l.ht[parent] = l.ht[child] + 1
         /\ ns[child] \in BTreeNode /\ ns[parent] \in BTreeNode
         /\ ns[parent].type \in NodeTypes
         /\ is_internal(ns[parent].type) /\ i \in 1 .. Len(ns[parent].cells) + 1
         /\ child = child_at(ns[parent], i)
         /\ is_index(ns[child].type) <=> is_index(ns[parent].type)
         /\ m \in Nat /\ m + 1 \in 1 .. Len(ns[child].cells)
         /\ \A k \in l.keys[child] : k \in l.keys[parent] /\ SlotOf(ns[parent], k, i)
<1>1. /\ count \in Nat /\ nM = count + 1
      /\ MarksTyped(ns, count, l) /\ LinksMarked(ns, rts, l)
      /\ parent \in l.pages /\ i \in Nat /\ Link(ns, parent, i, child) /\ child # 0
      /\ m \in Nat /\ m + 1 \in 1 .. Len(ns[child].cells)
  BY DEF Dividing, Marked, IsSplit
<1>2. \A p \in l.pages : p \in 1 .. count /\ p \in Pages /\ p # nM /\ ns[p] \in BTreeNode
  BY <1>1 DEF MarksTyped
<1>3. 1 .. nM = (1 .. count) \cup {nM}
  BY <1>1
<1>4. /\ child \in l.pages /\ child \notin rts
      /\ l.own[child] = l.own[parent] /\ l.ht[parent] = l.ht[child] + 1
      /\ is_index(ns[child].type) <=> is_index(ns[parent].type)
      /\ \A k \in l.keys[child] : k \in l.keys[parent] /\ SlotOf(ns[parent], k, i)
  BY <1>1 DEF LinksMarked
<1>5. parent # child
  <2>1. l.ht[child] \in Nat
    BY <1>1, <1>2, <1>4 DEF MarksTyped
  <2>2. QED
    BY <1>4, <2>1
<1>6. /\ is_internal(ns[parent].type) /\ i \in 1 .. Len(ns[parent].cells) + 1
      /\ child = child_at(ns[parent], i) /\ ns[parent].type \in NodeTypes
  BY <1>1 DEF Link, is_internal, NodeTypes
<1>7. QED
  BY <1>1, <1>2, <1>3, <1>4, <1>5, <1>6

(* The median: keys above it come to the child, and so it divides the slot *)
(* that the child hangs from.                                              *)
LEMMA DividingKeys ==
  ASSUME NEW ns, NEW new, NEW count, NEW nM, NEW rts, NEW l,
         NEW parent, NEW i, NEW child, NEW m,
         Dividing(ns, new, count, nM, rts, l, parent, i, child, m)
  PROVE  LET K == ns[child].cells[m + 1].key
         IN  /\ K \in Nat /\ K \in l.keys[child] /\ FitsIn(ns[parent].type, K)
             /\ \E k \in l.keys[child] : K < k
             /\ i <= Len(ns[parent].cells) => K < ns[parent].cells[i].key
             /\ new[parent].cells[i].key = K
             /\ new[parent].cells[i].child = nM
             /\ DividesSlots(ns, new, parent, child, i, nM, m, K)
<1> DEFINE N == ns[child]
           P == ns[parent]
           K == N.cells[m + 1].key
<1>1. /\ ns \in [Pages -> BTreeNode] /\ new \in [Pages -> BTreeNode]
      /\ nM \in Pages /\ i \in Nat
      /\ MarksTyped(ns, count, l) /\ CellsMarked(ns, l)
      /\ IsSplit(ns, new, parent, child, i, nM, m)
      /\ ~is_internal(N.type) => m + 1 < Len(N.cells)
      /\ parent \in l.pages
  BY DEF Dividing, Marked
<1>2. /\ \A p \in l.pages : p \in Pages
      /\ child \in l.pages
      /\ N \in BTreeNode /\ P \in BTreeNode /\ P.type \in NodeTypes
      /\ is_internal(P.type) /\ i \in 1 .. Len(P.cells) + 1
      /\ is_index(N.type) <=> is_index(P.type)
      /\ m \in Nat /\ m + 1 \in 1 .. Len(N.cells)
      /\ \A k \in l.keys[child] : SlotOf(P, k, i)
  BY DividingPages
<1>3. /\ Len(N.cells) \in Nat /\ Len(P.cells) \in Nat
      /\ \A j \in 1 .. Len(N.cells) : N.cells[j].key \in Nat
      /\ \A j \in 1 .. Len(P.cells) : P.cells[j].key \in Nat
  BY <1>2, CellTypes
<1>4. /\ Ascending(N)
      /\ \A j \in 1 .. Len(N.cells) :
           /\ N.cells[j].key \in l.keys[child] /\ FitsIn(N.type, N.cells[j].key)
           /\ is_internal(N.type) => \E k \in l.keys[child] : N.cells[j].key < k
  BY <1>1, <1>2 DEF CellsMarked, SortedNode
<1>5. K \in Nat /\ K \in l.keys[child] /\ FitsIn(P.type, K)
  BY <1>2, <1>3, <1>4 DEF FitsIn
<1>6. \E k \in l.keys[child] : K < k
  <2>1. CASE is_internal(N.type)
    BY <1>2, <1>4, <2>1
  <2>2. CASE ~is_internal(N.type)
    <3>1. m + 2 \in 1 .. Len(N.cells) /\ m + 1 < m + 2
      BY <1>1, <1>2, <1>3, <2>2
    <3>2. K < N.cells[m + 2].key
      BY <1>2, <1>4, <3>1 DEF Ascending, Ascends, KeysOf
    <3>3. QED
      BY <1>4, <3>1, <3>2
  <2>3. QED
    BY <2>1, <2>2
<1>7. ASSUME i <= Len(P.cells)
      PROVE  K < P.cells[i].key
  <2>1. PICK k \in l.keys[child] : K < k
    BY <1>6
  <2>2. SlotOf(P, k, i) /\ k \in Nat
    BY <1>1, <1>2 DEF MarksTyped
  <2>3. i \in 1 .. Len(P.cells)
    BY <1>1, <1>2, <1>3, <1>7
  <2>4. k <= P.cells[i].key
    BY <1>7, <2>2, <2>3 DEF SlotOf, SlotIn, KeysOf
  <2>5. P.cells[i].key \in Nat
    BY <1>3, <2>3
  <2>6. QED
    BY <1>5, <2>1, <2>2, <2>4, <2>5
<1>8. new[parent].cells[i] = Stored(P.type, Separator(N.cells[m + 1], nM))
  BY <1>1 DEF IsSplit
<1>9. /\ new[parent].cells[i].key = K
      /\ new[parent].cells[i].child = nM
  <2> HIDE DEF N, P
  <2>1. QED
    BY <1>2, <1>5, <1>8 DEF Stored, Separator, FitsIn
<1> HIDE DEF K
<1>10. DividesSlots(ns, new, parent, child, i, nM, m, K)
  BY <1>1, <1>2, <1>4, <1>5, <1>7, <1>9, SplitSlots DEF K
<1>11. QED
  BY <1>5, <1>6, <1>7, <1>9, <1>10 DEF K

(* The new page is marked as the child is, and takes its keys up to K.     *)
SplitMarks(l, child, nM, K) ==
    [pages |-> l.pages \cup {nM},
     own |-> [l.own EXCEPT ![nM] = l.own[child]],
     ht |-> [l.ht EXCEPT ![nM] = l.ht[child]],
     keys |-> SplitKeys(l.keys, child, nM, K)]

LEMMA SplitMarksAre ==
  ASSUME NEW ns, NEW new, NEW count, NEW nM, NEW rts, NEW l,
         NEW parent, NEW i, NEW child, NEW m,
         Dividing(ns, new, count, nM, rts, l, parent, i, child, m), NEW K
  PROVE  LET l2 == SplitMarks(l, child, nM, K)
         IN  /\ l2.pages = l.pages \cup {nM}
             /\ l2.own \in [Pages -> Pages] /\ l2.ht \in [Pages -> Nat]
             /\ l2.keys \in [Pages -> SUBSET Nat]
             /\ l2.own[nM] = l.own[child] /\ l2.ht[nM] = l.ht[child]
             /\ \A p \in l.pages : l2.own[p] = l.own[p] /\ l2.ht[p] = l.ht[p]
             /\ l2.keys[nM] = {k \in l.keys[child] : k <= K}
             /\ l2.keys[child] = {k \in l.keys[child] : K < k}
             /\ \A p \in l.pages \ {child} : l2.keys[p] = l.keys[p]
             /\ \A p \in l2.pages : OldPage(child, nM, p) \in l.pages
             /\ \A p \in l2.pages : /\ l2.own[p] = l.own[OldPage(child, nM, p)]
                                    /\ l2.ht[p] = l.ht[OldPage(child, nM, p)]
<1> DEFINE l2 == SplitMarks(l, child, nM, K)
<1>1. /\ l.own \in [Pages -> Pages] /\ l.ht \in [Pages -> Nat]
      /\ l.keys \in [Pages -> SUBSET Nat] /\ nM \in Pages
  BY DEF Dividing, Marked, MarksTyped
<1>2. /\ \A p \in l.pages : p \in Pages /\ p # nM
      /\ child \in l.pages
  BY DividingPages
<1>3. /\ l2.pages = l.pages \cup {nM}
      /\ l2.own = [l.own EXCEPT ![nM] = l.own[child]]
      /\ l2.ht = [l.ht EXCEPT ![nM] = l.ht[child]]
      /\ l2.keys = [l.keys EXCEPT ![nM] = {k \in l.keys[child] : k <= K},
                                  ![child] = {k \in l.keys[child] : K < k}]
  BY DEF SplitMarks, SplitKeys
<1> HIDE DEF l2
<1>4. l.keys[child] \subseteq Nat /\ child \in Pages
  BY <1>1, <1>2
<1>5. /\ l2.own \in [Pages -> Pages] /\ l2.ht \in [Pages -> Nat]
      /\ l2.own[nM] = l.own[child] /\ l2.ht[nM] = l.ht[child]
      /\ \A p \in l.pages : l2.own[p] = l.own[p] /\ l2.ht[p] = l.ht[p]
  BY <1>1, <1>2, <1>3
<1>6. /\ l2.keys \in [Pages -> SUBSET Nat]
      /\ l2.keys[nM] = {k \in l.keys[child] : k <= K}
      /\ l2.keys[child] = {k \in l.keys[child] : K < k}
      /\ \A p \in l.pages \ {child} : l2.keys[p] = l.keys[p]
  BY <1>1, <1>2, <1>3, <1>4
<1>7. /\ \A p \in l2.pages : OldPage(child, nM, p) \in l.pages
      /\ \A p \in l2.pages : /\ l2.own[p] = l.own[OldPage(child, nM, p)]
                             /\ l2.ht[p] = l.ht[OldPage(child, nM, p)]
  BY <1>2, <1>3, <1>5 DEF OldPage
<1>8. QED
  BY <1>3, <1>5, <1>6, <1>7 DEF l2

(* Where the links of the marked pages come from.                          *)
LEMMA DividedLinks ==
  ASSUME NEW ns, NEW new, NEW count, NEW nM, NEW rts, NEW l,
         NEW parent, NEW i, NEW child, NEW m,
         Dividing(ns, new, count, nM, rts, l, parent, i, child, m),
         NEW p \in l.pages \cup {nM}, NEW j \in Nat, NEW q, Link(new, p, j, q), q # 0
  PROVE  LET was == OldPage(child, nM, p)
             oj == OldSlot(parent, child, i, m, p, j)
         IN  /\ p = nM => j <= m + 1
             /\ new[p].type = ns[was].type
             /\ \/ p = parent /\ j = i /\ q = nM
                \/ /\ ~(p = parent /\ j = i)
                   /\ was \in l.pages /\ oj \in Nat /\ Link(ns, was, oj, q)
                   /\ q \in l.pages /\ q \notin rts /\ q # nM
                   /\ l.own[q] = l.own[was]
                   /\ l.ht[was] = l.ht[q] + 1
                   /\ is_index(ns[q].type) <=> is_index(ns[was].type)
                   /\ \A k \in l.keys[q] : k \in l.keys[was] /\ SlotOf(ns[was], k, oj)
                   /\ q = child => was = parent /\ oj = i
                   /\ was = parent /\ oj = i => q = child
<1> DEFINE was == OldPage(child, nM, p)
           oj == OldSlot(parent, child, i, m, p, j)
<1>1. /\ ns \in [Pages -> BTreeNode] /\ nM \in Pages
      /\ parent \in l.pages /\ i \in Nat /\ Link(ns, parent, i, child) /\ child # 0
      /\ IsSplit(ns, new, parent, child, i, nM, m)
      /\ LinksMarked(ns, rts, l) /\ OneMarkedLink(ns, l)
  BY DEF Dividing, Marked
<1>2. /\ \A x \in l.pages : x \in Pages /\ x # nM
      /\ child \in l.pages /\ child \notin rts /\ parent # child
      /\ ns[parent].type \in NodeTypes
      /\ is_internal(ns[parent].type) /\ i \in 1 .. Len(ns[parent].cells) + 1
      /\ child = child_at(ns[parent], i)
  BY DividingPages
<1>3. parent \in Pages /\ child \in Pages /\ nM # parent /\ nM # child
      /\ p \in Pages /\ was \in l.pages
  BY <1>1, <1>2 DEF OldPage
<1>4. /\ \A x \in Pages : new[x].type = ns[OldPage(child, nM, x)].type
      /\ \A x \in Nat : \A y : Link(new, nM, x, y) => x <= m + 1
      /\ Link(new, parent, i, nM)
      /\ \A x \in Pages, z \in Nat : \A y :
           Link(new, x, z, y) /\ ~(x = parent /\ z = i) =>
             /\ Link(ns, OldPage(child, nM, x), OldSlot(parent, child, i, m, x, z), y)
             /\ OldSlot(parent, child, i, m, x, z) \in Nat
  BY <1>1, <1>2, <1>3, SplitLinks, SMTT(30)
<1>5. CASE p = parent /\ j = i
  BY <1>3, <1>4, <1>5 DEF Link
<1>6. CASE ~(p = parent /\ j = i)
  <2>1. Link(ns, was, oj, q) /\ oj \in Nat
    BY <1>3, <1>4, <1>6
  <2> HIDE DEF was, oj
  <2>2. /\ q \in l.pages /\ q \notin rts
        /\ l.own[q] = l.own[was]
        /\ l.ht[was] = l.ht[q] + 1
        /\ is_index(ns[q].type) <=> is_index(ns[was].type)
        /\ \A k \in l.keys[q] : k \in l.keys[was] /\ SlotOf(ns[was], k, oj)
    BY <1>1, <1>3, <2>1 DEF LinksMarked
  <2>3. q = child => was = parent /\ oj = i
    BY <1>1, <1>3, <2>1 DEF OneMarkedLink
  <2>4. was = parent /\ oj = i => q = child
    BY <1>2, <2>1 DEF Link
  <2>5. (p = nM => j <= m + 1) /\ new[p].type = ns[was].type
    BY <1>3, <1>4 DEF was
  <2>6. QED
    BY <1>2, <1>3, <1>6, <2>1, <2>2, <2>3, <2>4, <2>5 DEF was, oj
<1>7. QED
  BY <1>5, <1>6

(* After the split the marked pages have levels,                           *)
LEMMA SplitKeepsLevelsMarked ==
  ASSUME NEW ns, NEW new, NEW count, NEW nM, NEW rts, NEW l,
         NEW parent, NEW i, NEW child, NEW m,
         Dividing(ns, new, count, nM, rts, l, parent, i, child, m), NEW K
  PROVE  LET l2 == SplitMarks(l, child, nM, K)
         IN  /\ MarksTyped(new, nM, l2)
             /\ RootsMarked(nM, rts, l2)
             /\ LevelsMarked(new, nM, rts, l2)
             /\ OneMarkedLink(new, l2)
<1> DEFINE l2 == SplitMarks(l, child, nM, K)
<1>1. /\ new \in [Pages -> BTreeNode] /\ nM \in Pages /\ rts \subseteq 1 .. count
      /\ count \in Nat /\ nM = count + 1
      /\ MarksTyped(ns, count, l) /\ RootsMarked(count, rts, l)
      /\ LevelsMarked(ns, count, rts, l) /\ OneMarkedLink(ns, l)
      /\ ns \in [Pages -> BTreeNode] /\ parent \in l.pages /\ i \in Nat
      /\ IsSplit(ns, new, parent, child, i, nM, m)
  BY DEF Dividing, Marked
<1>2. /\ \A p \in l.pages : p \in 1 .. count /\ p \in Pages /\ p # nM
      /\ 1 .. nM = (1 .. count) \cup {nM}
      /\ child \in l.pages /\ child \notin rts /\ parent # child
      /\ ns[parent].type \in NodeTypes
      /\ is_internal(ns[parent].type) /\ i \in 1 .. Len(ns[parent].cells) + 1
      /\ m \in Nat
  BY DividingPages
<1>3. /\ l2.pages = l.pages \cup {nM}
      /\ l2.own \in [Pages -> Pages] /\ l2.ht \in [Pages -> Nat]
      /\ l2.keys \in [Pages -> SUBSET Nat]
      /\ \A p \in l.pages : l2.own[p] = l.own[p] /\ l2.ht[p] = l.ht[p]
      /\ \A p \in l.pages \ {child} : l2.keys[p] = l.keys[p]
      /\ \A p \in l2.pages : OldPage(child, nM, p) \in l.pages
      /\ \A p \in l2.pages : /\ l2.own[p] = l.own[OldPage(child, nM, p)]
                             /\ l2.ht[p] = l.ht[OldPage(child, nM, p)]
  BY SplitMarksAre
<1> HIDE DEF l2
<1>4. MarksTyped(new, nM, l2)
  BY <1>1, <1>2, <1>3 DEF MarksTyped
<1>5. RootsMarked(nM, rts, l2)
  <2>1. SUFFICES ASSUME NEW r \in rts
                 PROVE  r \in l2.pages /\ l2.own[r] = r /\ l2.keys[r] = Nat
    BY DEF RootsMarked
  <2>2. r \in l.pages /\ l.own[r] = r /\ l.keys[r] = Nat
    BY <1>1 DEF RootsMarked
  <2>3. QED
    BY <1>2, <1>3, <2>2
<1>6. \A p \in Pages : new[p].type = ns[OldPage(child, nM, p)].type
  <2>1. parent \in Pages /\ child \in Pages /\ nM # parent /\ nM # child
    BY <1>1, <1>2
  <2>2. QED
    BY <1>1, <1>2, <2>1, SplitLinks, SMTT(30)
<1>7. LevelsMarked(new, nM, rts, l2)
  <2>1. SUFFICES ASSUME NEW p \in l2.pages
                 PROVE  /\ l2.own[p] \in rts /\ l2.own[p] \in l2.pages
                        /\ l2.ht[p] < nM
                        /\ is_internal(new[p].type) <=> l2.ht[p] > 0
    BY DEF LevelsMarked
  <2> DEFINE was == OldPage(child, nM, p)
  <2>2. was \in l.pages /\ l2.own[p] = l.own[was] /\ l2.ht[p] = l.ht[was]
    BY <1>3
  <2>3. p \in Pages /\ new[p].type = ns[was].type
    BY <1>1, <1>2, <1>3, <1>6
  <2> HIDE DEF was
  <2>4. /\ l.own[was] \in rts /\ l.own[was] \in l.pages
        /\ l.ht[was] < count
        /\ is_internal(ns[was].type) <=> l.ht[was] > 0
    BY <1>1, <2>2 DEF LevelsMarked
  <2>5. l.ht[was] \in Nat
    BY <1>1, <1>2, <2>2 DEF MarksTyped
  <2>6. QED
    BY <1>1, <1>3, <2>2, <2>3, <2>4, <2>5
<1>8. OneMarkedLink(new, l2)
  <2>1. SUFFICES ASSUME NEW p1 \in l2.pages, NEW p2 \in l2.pages,
                        NEW i1 \in Nat, NEW i2 \in Nat, NEW q,
                        Link(new, p1, i1, q), Link(new, p2, i2, q), q # 0
                 PROVE  p1 = p2 /\ i1 = i2
    BY DEF OneMarkedLink
  <2> DEFINE old(p) == OldPage(child, nM, p)
             slot(p, j) == OldSlot(parent, child, i, m, p, j)
  <2>0. p1 \in l.pages \cup {nM} /\ p2 \in l.pages \cup {nM}
    BY <1>3
  <2>2. ASSUME NEW p \in l.pages \cup {nM}, NEW j \in Nat, Link(new, p, j, q)
        PROVE  /\ p = nM => j <= m + 1
               /\ \/ p = parent /\ j = i /\ q = nM
                  \/ /\ ~(p = parent /\ j = i) /\ q # nM
                     /\ old(p) \in l.pages /\ slot(p, j) \in Nat
                     /\ Link(ns, old(p), slot(p, j), q)
    BY <2>1, <2>2, DividedLinks
  <2> HIDE DEF old, slot
  <2>4. CASE q = nM
    BY <2>0, <2>1, <2>2, <2>4
  <2>5. CASE q # nM
    <3>1. old(p1) = old(p2) /\ slot(p1, i1) = slot(p2, i2)
      <4>1. old(p1) \in l.pages /\ slot(p1, i1) \in Nat /\ Link(ns, old(p1), slot(p1, i1), q)
        BY ONLY <2>0, <2>1, <2>2, <2>5
      <4>2. old(p2) \in l.pages /\ slot(p2, i2) \in Nat /\ Link(ns, old(p2), slot(p2, i2), q)
        BY ONLY <2>0, <2>1, <2>2, <2>5
      <4>3. OneMarkedLink(ns, l) /\ q # 0
        BY <1>1, <2>1
      <4>4. QED
        BY ONLY <4>1, <4>2, <4>3 DEF OneMarkedLink
    <3>2. i1 >= 1 /\ i2 >= 1
      BY <2>1 DEF Link
    <3>3. nM # parent /\ nM # child /\ parent # child /\ m \in Nat
      BY <1>1, <1>2
    <3>4. /\ ~(p1 = parent /\ i1 = i) /\ (p1 = nM => i1 <= m + 1)
          /\ ~(p2 = parent /\ i2 = i) /\ (p2 = nM => i2 <= m + 1)
      BY <2>0, <2>1, <2>2, <2>5
    <3>5. QED
      BY <1>1, <2>1, <3>1, <3>2, <3>3, <3>4 DEF old, slot, OldPage, OldSlot
  <2>6. QED
    BY <2>4, <2>5
<1>9. QED
  BY <1>4, <1>5, <1>7, <1>8 DEF l2

(* the links lead to pages of the same tree, for the keys of their slots,  *)
LEMMA SplitKeepsLinksMarked ==
  ASSUME NEW ns, NEW new, NEW count, NEW nM, NEW rts, NEW l,
         NEW parent, NEW i, NEW child, NEW m,
         Dividing(ns, new, count, nM, rts, l, parent, i, child, m)
  PROVE  LinksMarked(new, rts, SplitMarks(l, child, nM, ns[child].cells[m + 1].key))
<1> DEFINE K == ns[child].cells[m + 1].key
           N == ns[child]
           P == ns[parent]
           l2 == SplitMarks(l, child, nM, K)
<1>1. /\ nM \in Pages /\ i \in Nat /\ nM = count + 1 /\ count \in Nat
      /\ rts \subseteq 1 .. count
      /\ MarksTyped(ns, count, l)
      /\ IsSplit(ns, new, parent, child, i, nM, m)
      /\ parent \in l.pages
  BY DEF Dividing, Marked
<1>2. /\ \A p \in l.pages : p \in Pages /\ p # nM
      /\ child \in l.pages /\ parent # child
      /\ l.own[child] = l.own[parent] /\ l.ht[parent] = l.ht[child] + 1
      /\ is_index(N.type) <=> is_index(P.type)
      /\ m \in Nat /\ m + 1 \in 1 .. Len(N.cells)
      /\ \A k \in l.keys[child] : k \in l.keys[parent] /\ SlotOf(P, k, i)
  BY DividingPages
<1>3. /\ l2.pages = l.pages \cup {nM}
      /\ l2.own[nM] = l.own[child] /\ l2.ht[nM] = l.ht[child]
      /\ \A p \in l.pages : l2.own[p] = l.own[p] /\ l2.ht[p] = l.ht[p]
      /\ l2.keys[nM] = {k \in l.keys[child] : k <= K}
      /\ l2.keys[child] = {k \in l.keys[child] : K < k}
      /\ \A p \in l.pages \ {child} : l2.keys[p] = l.keys[p]
      /\ \A p \in l2.pages : OldPage(child, nM, p) \in l.pages
      /\ \A p \in l2.pages : /\ l2.own[p] = l.own[OldPage(child, nM, p)]
                             /\ l2.ht[p] = l.ht[OldPage(child, nM, p)]
  BY SMTT(30), SplitMarksAre
<1>4. K \in Nat /\ DividesSlots(ns, new, parent, child, i, nM, m, K)
  BY DividingKeys
<1> HIDE DEF l2, K
<1>5. \A k \in Nat, j \in Nat :
        /\ SlotOf(N, k, j) => (k <= K <=> j <= m + 1)
        /\ is_internal(N.type) /\ k <= K => (SlotOf(new[nM], k, j) <=> SlotOf(N, k, j))
        /\ K < k => (SlotOf(new[child], k, j) <=> j > 0 /\ SlotOf(N, k, j + m + 1))
        /\ j < i => (SlotOf(new[parent], k, j) <=> SlotOf(P, k, j))
        /\ SlotOf(new[parent], k, i) <=> SlotOf(P, k, i) /\ k <= K
        /\ SlotOf(new[parent], k, i + 1) <=> SlotOf(P, k, i) /\ K < k
        /\ j > i + 1 => (SlotOf(new[parent], k, j) <=> SlotOf(P, k, j - 1))
  BY <1>4 DEF DividesSlots
<1>6. \A p \in l.pages : l.keys[p] \subseteq Nat
  BY <1>1, <1>2 DEF MarksTyped
<1>7. SUFFICES ASSUME NEW p \in l2.pages, NEW j \in Nat, NEW q, Link(new, p, j, q), q # 0
               PROVE  /\ q \in l2.pages /\ q \notin rts
                      /\ l2.own[q] = l2.own[p]
                      /\ l2.ht[p] = l2.ht[q] + 1
                      /\ is_index(new[q].type) <=> is_index(new[p].type)
                      /\ \A k \in l2.keys[q] : k \in l2.keys[p] /\ SlotOf(new[p], k, j)
  BY DEF LinksMarked, l2, K
<1> DEFINE was == OldPage(child, nM, p)
           oj == OldSlot(parent, child, i, m, p, j)
<1>8. /\ p = nM => j <= m + 1
      /\ new[p].type = ns[was].type
      /\ \/ p = parent /\ j = i /\ q = nM
         \/ /\ ~(p = parent /\ j = i)
            /\ was \in l.pages /\ oj \in Nat /\ Link(ns, was, oj, q)
            /\ q \in l.pages /\ q \notin rts /\ q # nM
            /\ l.own[q] = l.own[was]
            /\ l.ht[was] = l.ht[q] + 1
            /\ is_index(ns[q].type) <=> is_index(ns[was].type)
            /\ \A k \in l.keys[q] : k \in l.keys[was] /\ SlotOf(ns[was], k, oj)
            /\ q = child => was = parent /\ oj = i
            /\ was = parent /\ oj = i => q = child
  BY <1>3, <1>7, DividedLinks
<1>9. l2.own[p] = l.own[was] /\ l2.ht[p] = l.ht[was] /\ j > 0
  BY <1>3, <1>7 DEF Link
<1>10. /\ \A x \in l.pages : new[x].type = ns[x].type
       /\ new[nM].type = N.type
       /\ \A x \in Pages \ {parent, child, nM} : new[x] = ns[x]
  BY <1>1, <1>2 DEF IsSplit
<1>11. CASE p = parent /\ j = i /\ q = nM
  <2>1. was = parent /\ nM \notin rts
    BY <1>1, <1>2, <1>11 DEF OldPage
  <2>2. \A k \in l2.keys[nM] : k \in l2.keys[parent] /\ SlotOf(new[parent], k, i)
    BY <1>1, <1>2, <1>3, <1>5, <1>6
  <2>3. QED
    BY <1>1, <1>2, <1>3, <1>9, <1>10, <1>11, <2>1, <2>2
<1>12. CASE ~(p = parent /\ j = i)
  <2>1. /\ was \in l.pages /\ oj \in Nat /\ Link(ns, was, oj, q)
        /\ q \in l.pages /\ q \notin rts /\ q # nM
        /\ l.own[q] = l.own[was]
        /\ l.ht[was] = l.ht[q] + 1
        /\ is_index(ns[q].type) <=> is_index(ns[was].type)
        /\ \A k \in l.keys[q] : k \in l.keys[was] /\ SlotOf(ns[was], k, oj)
        /\ q = child => was = parent /\ oj = i
        /\ was = parent /\ oj = i => q = child
        /\ l.keys[q] \subseteq Nat
    BY <1>6, <1>8, <1>12
  <2>2. /\ q \in l2.pages /\ l2.own[q] = l2.own[p] /\ l2.ht[p] = l2.ht[q] + 1
        /\ is_index(new[q].type) <=> is_index(new[p].type)
    BY <1>3, <1>8, <1>9, <1>10, <2>1
  <2>3. l2.keys[q] \subseteq l.keys[q]
    BY <1>3, <2>1
  <2>4. \A k \in l2.keys[q] : k \in l2.keys[p] /\ SlotOf(new[p], k, j)
    <3>1. CASE p = nM
      <4>1. was = child /\ oj = j /\ q # child /\ j <= m + 1 /\ is_internal(N.type)
        <5>1. was = child /\ oj = j
          BY <1>1, <1>2, <3>1 DEF OldPage, OldSlot
        <5>2. QED
          BY <1>2, <1>8, <2>1, <3>1, <5>1 DEF Link
      <4>2. QED
        BY <1>2, <1>3, <1>4, <1>5, <2>1, <2>3, <3>1, <4>1
    <3>2. CASE p = child
      <4>1. was = child /\ oj = j + m + 1 /\ q # child
        <5>1. was = child /\ oj = j + m + 1
          BY <1>2, <3>2 DEF OldPage, OldSlot
        <5>2. QED
          BY <1>2, <2>1, <5>1
      <4>2. ~(oj <= m + 1)
        BY <1>2, <1>9, <4>1
      <4>3. ASSUME NEW k \in l2.keys[q]
            PROVE  k \in l2.keys[child] /\ SlotOf(new[child], k, j)
        <5>1. k \in Nat /\ k \in l.keys[child] /\ SlotOf(N, k, oj)
          BY <2>1, <2>3, <4>1
        <5>2. K < k
          BY <1>4, <1>5, <2>1, <4>2, <5>1
        <5>3. QED
          BY <1>3, <1>5, <1>9, <4>1, <5>1, <5>2
      <4>4. QED
        BY <3>2, <4>3
    <3>3. CASE p = parent
      <4>1. was = parent /\ oj = (IF j > i THEN j - 1 ELSE j) /\ j # i
        BY <1>1, <1>2, <1>12, <3>3 DEF OldPage, OldSlot
      <4>2. l2.keys[p] = l.keys[parent]
        BY <1>1, <1>2, <1>3, <3>3
      <4>3. CASE j = i + 1
        <5>1. oj = i /\ q = child
          BY <1>1, <2>1, <4>1, <4>3
        <5>2. QED
          BY <1>3, <1>5, <2>1, <2>3, <3>3, <4>1, <4>2, <4>3, <5>1
      <4>4. CASE j < i
        <5>1. oj = j
          BY <1>1, <4>1, <4>4
        <5>2. QED
          BY <1>5, <2>1, <2>3, <3>3, <4>1, <4>2, <4>4, <5>1
      <4>5. CASE j > i + 1
        <5>1. oj = j - 1
          BY <1>1, <4>1, <4>5
        <5>2. QED
          BY <1>5, <2>1, <2>3, <3>3, <4>1, <4>2, <4>5, <5>1
      <4>6. QED
        BY <1>1, <4>1, <4>3, <4>4, <4>5
    <3>4. CASE p \notin {parent, child, nM}
      <4>1. was = p /\ oj = j /\ p \in l.pages
        BY <1>3, <3>4 DEF OldPage, OldSlot
      <4>2. new[p] = ns[p] /\ l2.keys[p] = l.keys[p]
        BY <1>2, <1>3, <1>10, <3>4, <4>1
      <4>3. QED
        BY <2>1, <2>3, <4>1, <4>2
    <3>5. QED
      BY <3>1, <3>2, <3>3, <3>4
  <2>5. QED
    BY <2>1, <2>2, <2>4
<1>13. QED
  BY <1>8, <1>11, <1>12

(* and their cells are in order.                                           *)
LEMMA SplitKeepsCellsMarked ==
  ASSUME NEW ns, NEW new, NEW count, NEW nM, NEW rts, NEW l,
         NEW parent, NEW i, NEW child, NEW m,
         Dividing(ns, new, count, nM, rts, l, parent, i, child, m)
  PROVE  CellsMarked(new, SplitMarks(l, child, nM, ns[child].cells[m + 1].key))
<1> DEFINE N == ns[child]
           P == ns[parent]
           A == new[nM]
           B == new[child]
           C == new[parent]
           K == N.cells[m + 1].key
           len == Len(N.cells)
           plen == Len(P.cells)
           l2 == SplitMarks(l, child, nM, K)
<1>1. /\ CellsMarked(ns, l) /\ MarksTyped(ns, count, l) /\ Link(ns, parent, i, child)
      /\ parent \in l.pages /\ i \in Nat
      /\ new \in [Pages -> BTreeNode] /\ nM \in Pages
      /\ IsSplit(ns, new, parent, child, i, nM, m)
  BY DEF Dividing, Marked
<1>2. /\ \A p \in l.pages : p \in Pages /\ p # nM
      /\ child \in l.pages /\ parent # child
      /\ N \in BTreeNode /\ P \in BTreeNode /\ i \in 1 .. plen + 1
      /\ is_internal(P.type)
      /\ m \in Nat /\ m + 1 \in 1 .. len
      /\ \A k \in l.keys[child] : k \in l.keys[parent] /\ SlotOf(P, k, i)
  BY DividingPages
<1>3. /\ K \in Nat /\ K \in l.keys[child] /\ FitsIn(P.type, K)
      /\ \E k \in l.keys[child] : K < k
      /\ i <= plen => K < P.cells[i].key
      /\ C.cells[i].key = K
  BY DividingKeys
<1>4. /\ l2.pages = l.pages \cup {nM}
      /\ l2.keys[nM] = {k \in l.keys[child] : k <= K}
      /\ l2.keys[child] = {k \in l.keys[child] : K < k}
      /\ \A p \in l.pages \ {child} : l2.keys[p] = l.keys[p]
  BY SplitMarksAre
<1>5. /\ A.type = N.type /\ B.type = N.type /\ C.type = P.type
      /\ Len(A.cells) = IF is_internal(N.type) THEN m ELSE m + 1
      /\ \A j \in 1 .. Len(A.cells) : A.cells[j] = N.cells[j]
      /\ Len(B.cells) = len - m - 1
      /\ \A j \in 1 .. Len(B.cells) : B.cells[j] = N.cells[j + m + 1]
      /\ Len(C.cells) = plen + 1
      /\ \A j \in 1 .. plen : C.cells[IF j < i THEN j ELSE j + 1] = P.cells[j]
      /\ \A q \in Pages \ {parent, child, nM} : new[q] = ns[q]
  BY <1>1 DEF IsSplit
<1>6. /\ len \in Nat /\ plen \in Nat
      /\ KeysOf(N) \in [1 .. len -> Nat] /\ KeysOf(P) \in [1 .. plen -> Nat]
      /\ KeysOf(C) \in [1 .. plen + 1 -> Nat]
      /\ \A j \in 1 .. len : N.cells[j].key \in Nat
      /\ \A j \in 1 .. plen : P.cells[j].key \in Nat
  <2>1. C \in BTreeNode
    BY <1>1, <1>2
  <2>2. QED
    BY <1>2, <1>5, <2>1, CellTypes
<1>7. /\ SortedNode(N, l.keys[child]) /\ SortedNode(P, l.keys[parent])
      /\ Ascends(KeysOf(N), len) /\ Ascends(KeysOf(P), plen)
  BY <1>1, <1>2 DEF CellsMarked, SortedNode, Ascending
<1>8. /\ \A j \in 1 .. len :
           /\ N.cells[j].key \in l.keys[child] /\ FitsIn(N.type, N.cells[j].key)
           /\ is_internal(N.type) => \E k \in l.keys[child] : N.cells[j].key < k
           /\ ~is_internal(N.type) => N.cells[j].val # NoValue
           /\ j < m + 1 => N.cells[j].key < K
           /\ j > m + 1 => K < N.cells[j].key
      /\ \A j \in 1 .. plen :
           /\ P.cells[j].key \in l.keys[parent] /\ FitsIn(P.type, P.cells[j].key)
           /\ \E k \in l.keys[parent] : P.cells[j].key < k
  <2>1. \A j \in 1 .. len : /\ j < m + 1 => N.cells[j].key < K
                            /\ j > m + 1 => K < N.cells[j].key
    BY <1>2, <1>7 DEF Ascends, KeysOf
  <2>2. QED
    BY <1>2, <1>7, <2>1 DEF SortedNode
<1>9. /\ \A j \in 1 .. plen : j < i => P.cells[j].key < K
      /\ \A j \in 1 .. plen : j >= i => K < P.cells[j].key
  <2>1. SlotOf(P, K, i)
    BY <1>2, <1>3
  <2>2. ASSUME NEW j \in 1 .. plen, j < i PROVE P.cells[j].key < K
    BY <2>1, <2>2 DEF SlotOf, SlotIn, KeysOf
  <2>3. ASSUME NEW j \in 1 .. plen, j >= i PROVE K < P.cells[j].key
    <3>1. i \in 1 .. plen /\ K < P.cells[i].key
      BY <1>1, <1>2, <1>3, <1>6, <2>3
    <3>2. j = i \/ P.cells[i].key < P.cells[j].key
      <4>1. j = i \/ i < j
        BY <1>1, <2>3
      <4>2. i < j => P.cells[i].key < P.cells[j].key
        BY <1>7, <3>1 DEF Ascends, KeysOf
      <4>3. QED
        BY <4>1, <4>2
    <3>3. P.cells[i].key \in Nat /\ P.cells[j].key \in Nat /\ K \in Nat
      BY <1>3, <1>6, <3>1
    <3> HIDE DEF K, P
    <3>4. QED
      BY <3>1, <3>2, <3>3
  <2>4. QED
    BY <2>2, <2>3
<1>10. /\ \A j \in 1 .. plen : j < i => C.cells[j] = P.cells[j]
       /\ \A j \in 1 .. plen : j >= i => C.cells[j + 1] = P.cells[j]
  <2>1. ASSUME NEW j \in 1 .. plen, j >= i PROVE C.cells[j + 1] = P.cells[j]
    <3>1. ~(j < i)
      BY <1>1, <2>1
    <3>2. QED
      BY <1>5, <3>1
  <2>2. QED
    BY <1>5, <2>1
<1> HIDE DEF K, N, P, A, B, C, len, plen, l2
<1>12. SortedNode(A, l2.keys[nM])
  <2>1. /\ Len(A.cells) \in Nat /\ Len(A.cells) <= len
        /\ \A j \in 1 .. Len(A.cells) : j \in 1 .. len /\ j <= m + 1
        /\ is_internal(N.type) => \A j \in 1 .. Len(A.cells) : j < m + 1
    BY <1>2, <1>5, <1>6
  <2>2. \A j \in 1 .. Len(A.cells) : KeysOf(A)[j] = KeysOf(N)[j]
    BY <1>5, <2>1 DEF KeysOf, len
  <2>3. Ascends(KeysOf(A), Len(A.cells))
    BY <1>7, <2>1, <2>2 DEF Ascends
  <2>4. ASSUME NEW j \in 1 .. Len(A.cells)
        PROVE  /\ A.cells[j].key \in l2.keys[nM]
               /\ FitsIn(A.type, A.cells[j].key)
               /\ is_internal(A.type) => \E k \in l2.keys[nM] : A.cells[j].key < k
               /\ ~is_internal(A.type) => A.cells[j].val # NoValue
    <3>1. A.cells[j] = N.cells[j] /\ j \in 1 .. len /\ j <= m + 1 /\ j \in Nat
      BY <1>5, <2>1
    <3>2. N.cells[j].key <= K
      <4>1. CASE j = m + 1
        BY <1>3, <4>1 DEF K
      <4>2. CASE j # m + 1
        <5>1. j < m + 1
          BY <1>2, <3>1, <4>2
        <5>2. QED
          BY SMTT(30), <1>3, <1>6, <1>8, <3>1, <5>1
      <4>3. QED
        BY <4>1, <4>2
    <3>3. K \in l2.keys[nM]
      BY <1>3, <1>4
    <3>4. QED
      BY <1>4, <1>5, <1>8, <2>1, <3>1, <3>2, <3>3
  <2>5. QED
    BY <2>3, <2>4 DEF SortedNode, Ascending
<1>13. SortedNode(B, l2.keys[child])
  <2>1. /\ Len(B.cells) \in Nat /\ m + 1 \in Nat /\ Len(B.cells) + (m + 1) <= len
        /\ \A j \in 1 .. Len(B.cells) : /\ j + m + 1 \in 1 .. len /\ j + m + 1 = j + (m + 1)
                                        /\ j + m + 1 > m + 1
    BY <1>2, <1>5, <1>6
  <2>2. \A j \in 1 .. Len(B.cells) : KeysOf(B)[j] = KeysOf(N)[j + (m + 1)]
    BY <1>5, <2>1 DEF KeysOf, len
  <2>3. Ascends(KeysOf(B), Len(B.cells))
    <3> DEFINE a == KeysOf(N)
               b == KeysOf(B)
               n == Len(B.cells)
               d == m + 1
    <3>1. /\ len \in Nat /\ a \in [1 .. len -> Nat] /\ Ascends(a, len)
          /\ n \in Nat /\ d \in Nat /\ n + d <= len
          /\ \A j \in 1 .. n : b[j] = a[j + d]
      BY <1>6, <1>7, <2>1, <2>2
    <3> HIDE DEF a, b, n, d
    <3>2. Ascends(b, n)
      BY <3>1, AscendsInPart, ZenonT(30)
    <3>3. QED
      BY <3>2 DEF b, n
  <2>4. ASSUME NEW j \in 1 .. Len(B.cells)
        PROVE  /\ B.cells[j].key \in l2.keys[child]
               /\ FitsIn(B.type, B.cells[j].key)
               /\ is_internal(B.type) => \E k \in l2.keys[child] : B.cells[j].key < k
               /\ ~is_internal(B.type) => B.cells[j].val # NoValue
    <3> DEFINE c == N.cells[j + m + 1]
    <3>1. B.cells[j] = c
      BY <1>5
    <3>2. /\ c.key \in l.keys[child] /\ FitsIn(N.type, c.key) /\ K < c.key
          /\ is_internal(N.type) => \E k \in l.keys[child] : c.key < k
          /\ ~is_internal(N.type) => c.val # NoValue
          /\ c.key \in Nat
      BY <1>6, <1>8, <2>1
    <3> HIDE DEF c
    <3>3. \A k \in l.keys[child] : k \in Nat
      BY <1>1, <1>2 DEF MarksTyped
    <3>4. \A k \in l.keys[child] : c.key < k => k \in l2.keys[child]
      BY <1>3, <1>4, <3>2, <3>3
    <3>5. QED
      BY <1>4, <1>5, <3>1, <3>2, <3>4
  <2>5. QED
    BY <2>3, <2>4 DEF SortedNode, Ascending
<1>14. SortedNode(C, l2.keys[parent])
  <2>0. l2.keys[parent] = l.keys[parent]
    BY <1>1, <1>2, <1>4
  <2>1. i \in 1 .. plen + 1 /\ KeysOf(C)[i] = K
    BY <1>2, <1>3, <1>5 DEF KeysOf
  <2>2. ASSUME NEW j \in 1 .. plen, j < i
        PROVE  KeysOf(C)[j] = KeysOf(P)[j] /\ KeysOf(P)[j] < K
    <3>1. j \in 1 .. Len(C.cells)
      BY <1>5, <1>6
    <3>2. QED
      BY <1>9, <1>10, <2>2, <3>1 DEF KeysOf, plen
  <2>3. ASSUME NEW j \in 1 .. plen, j >= i
        PROVE  KeysOf(C)[j + 1] = KeysOf(P)[j] /\ K < KeysOf(P)[j]
    <3>1. j + 1 \in 1 .. Len(C.cells)
      BY <1>5, <1>6
    <3>2. QED
      BY <1>9, <1>10, <2>3, <3>1 DEF KeysOf, plen
  <2>4. Ascends(KeysOf(C), plen + 1)
    BY <1>6, <1>7, <2>1, <2>2, <2>3, AscendsAfterInsert
  <2>5. ASSUME NEW j \in 1 .. Len(C.cells)
        PROVE  /\ C.cells[j].key \in l.keys[parent]
               /\ FitsIn(C.type, C.cells[j].key)
               /\ \E k \in l.keys[parent] : C.cells[j].key < k
    <3>1. CASE j < i
      <4>1. j \in 1 .. plen
        BY <1>1, <1>2, <1>5, <1>6, <3>1
      <4>2. QED
        BY <1>5, <1>8, <1>10, <3>1, <4>1
    <3>2. CASE j = i
      BY <1>2, <1>3, <1>5, <3>2
    <3>3. CASE i < j
      <4>1. j - 1 \in 1 .. plen /\ j - 1 >= i /\ (j - 1) + 1 = j
        BY <1>1, <1>2, <1>5, <1>6, <3>3
      <4>2. C.cells[j] = P.cells[j - 1]
        BY <1>10, <4>1
      <4>3. QED
        BY <1>5, <1>8, <4>1, <4>2
    <3>4. QED
      BY <1>1, <3>1, <3>2, <3>3
  <2>6. is_internal(C.type)
    BY <1>2, <1>5
  <2>7. QED
    BY <1>5, <2>0, <2>4, <2>5, <2>6 DEF SortedNode, Ascending
<1>15. ASSUME NEW p \in l2.pages
       PROVE  SortedNode(new[p], l2.keys[p])
  <2>1. CASE p \in {parent, child, nM}
    BY <1>12, <1>13, <1>14, <2>1 DEF A, B, C
  <2>2. CASE p \notin {parent, child, nM}
    <3>1. p \in l.pages /\ p # child /\ new[p] = ns[p] /\ l2.keys[p] = l.keys[p]
      BY <1>2, <1>4, <1>5, <2>2
    <3>2. QED
      BY <1>1, <3>1 DEF CellsMarked
  <2>3. QED
    BY <2>1, <2>2
<1>16. QED
  BY <1>15 DEF CellsMarked, l2, K, N

(* The nodes after a split are marked.                                     *)
LEMMA SplitKeepsMarks ==
  ASSUME NEW ns, NEW new, NEW count, NEW nM, NEW rts, NEW l,
         NEW parent, NEW i, NEW child, NEW m,
         Dividing(ns, new, count, nM, rts, l, parent, i, child, m)
  PROVE  Marked(new, nM, rts, SplitMarks(l, child, nM, ns[child].cells[m + 1].key))
BY SplitKeepsLevelsMarked, SplitKeepsLinksMarked, SplitKeepsCellsMarked DEF Marked

(* A page that is new is not marked: what it holds does not matter.        *)
LEMMA NewPageUnmarked ==
  ASSUME NEW ns, NEW count \in Nat, NEW rts, NEW l, Marked(ns, count, rts, l),
         rts \subseteq 1 .. count, NEW p, p = count + 1, NEW node
  PROVE  /\ Marked([ns EXCEPT ![p] = node], p, rts, l)
         /\ p \notin l.pages
<1>1. l.pages \subseteq 1 .. count
  BY DEF Marked, MarksTyped
<1>2. p \notin l.pages /\ p \in Nat /\ count <= p
  BY <1>1
<1>3. rts \cap (1 .. p) = rts \cap (1 .. count)
  OBVIOUS
<1>4. \A x \in l.pages : [ns EXCEPT ![p] = node][x] = ns[x]
  BY <1>2
<1>5. QED
  BY <1>2, <1>3, <1>4, SameMarks

(* While it is written, the pages have the marks that they had.            *)
LEMMA SplitStagesMarked ==
  ASSUME SafeSizes, NEW ns, NEW new, NEW count, NEW nM, NEW rts, NEW l,
         NEW parent, NEW i, NEW child, NEW m,
         Dividing(ns, new, count, nM, rts, l, parent, i, child, m),
         ns[child].type \in NodeTypes
  PROVE  \A k \in 1 .. 4 : Marked(SplitStage(ns, new, child, nM, k), nM, rts, l)
<1> DEFINE t == ns[child].type
           low == [ns EXCEPT ![nM] = new[nM]]
           N == ns[child]
           K == N.cells[m + 1].key
<1>1. /\ ns \in [Pages -> BTreeNode] /\ new \in [Pages -> BTreeNode]
      /\ count \in Nat /\ nM \in Pages /\ nM = count + 1 /\ rts \subseteq 1 .. count
      /\ Marked(ns, count, rts, l) /\ i \in Nat /\ parent \in l.pages
      /\ IsSplit(ns, new, parent, child, i, nM, m)
  BY DEF Dividing
<1>2. /\ \A p \in l.pages : p \in Pages /\ p # nM
      /\ child \in l.pages /\ parent # child /\ m \in Nat
      /\ ns[parent].type \in NodeTypes
      /\ is_internal(ns[parent].type) /\ i \in 1 .. Len(ns[parent].cells) + 1
  BY DividingPages
<1>3. Marked(low, nM, rts, l) /\ Marked([ns EXCEPT ![nM] = initEmptyNode(nM, t)], nM, rts, l)
  BY <1>1, NewPageUnmarked
<1>4. child \in Pages /\ child # nM /\ low[child] = ns[child]
      /\ low \in [Pages -> BTreeNode]
  BY <1>1, <1>2
<1>5. /\ initEmptyNode(child, t) \in BTreeNode
      /\ initEmptyNode(child, t).type = t
      /\ initEmptyNode(child, t).cells = << >>
      /\ initEmptyNode(child, t).right_page = 0
  BY <1>4, BlankIsSound
<1> HIDE DEF low
<1>6. ASSUME NEW node \in BTreeNode, node.type = t, SortedNode(node, l.keys[child]),
             NEW s \in Nat,
             LinksOf(low, [low EXCEPT ![child] = node], child, s)
      PROVE  Marked([low EXCEPT ![child] = node], nM, rts, l)
  <2> DEFINE st == [low EXCEPT ![child] = node]
  <2>1. st[child] = node /\ \A p \in l.pages \ {child} : st[p] = low[p]
    BY <1>2, <1>4
  <2>2. LinksOf(low, st, child, s)
    BY <1>6
  <2> HIDE DEF st
  <2>3. Marked(st, nM, rts, l)
    BY <1>2, <1>3, <1>4, <1>6, <2>1, <2>2, PageReplaced
  <2>4. QED
    BY <2>3 DEF st
<1>7. Marked([low EXCEPT ![child] = initEmptyNode(child, t)], nM, rts, l)
  <2> DEFINE node == initEmptyNode(child, t)
             st == [low EXCEPT ![child] = node]
  <2>0. node \in BTreeNode /\ node.type = t /\ Len(node.cells) = 0 /\ node.right_page = 0
    BY <1>5
  <2> HIDE DEF node
  <2>1. SortedNode(node, l.keys[child])
    BY <2>0 DEF SortedNode, Ascending, Ascends
  <2>2. st[child] = node
    BY <1>4
  <2> HIDE DEF st
  <2>3. LinksOf(low, st, child, 0)
    <3>1. \A j \in Nat : \A q : Link(st, child, j, q) => q = 0
      BY <2>0, <2>2 DEF Link, child_at
    <3>2. QED
      BY <3>1 DEF LinksOf
  <2>4. QED
    BY <1>6, <2>0, <2>1, <2>3 DEF st, node
<1>8. Marked([low EXCEPT ![child] = new[child]], nM, rts, l)
  <2> DEFINE st == [low EXCEPT ![child] = new[child]]
  <2>1. new[child] \in BTreeNode /\ new[child].type = t /\ st[child] = new[child]
    BY <1>1, <1>4 DEF IsSplit
  <2> HIDE DEF st
  <2>2. SortedNode(new[child], l.keys[child])
    <3> DEFINE l2 == SplitMarks(l, child, nM, K)
    <3>1. /\ l2.pages = l.pages \cup {nM}
          /\ l2.keys[child] = {k \in l.keys[child] : K < k}
      BY SplitMarksAre
    <3>2. CellsMarked(new, l2)
      BY SplitKeepsCellsMarked
    <3> HIDE DEF l2
    <3>3. SortedNode(new[child], l2.keys[child]) /\ l2.keys[child] \subseteq l.keys[child]
      BY <1>2, <3>1, <3>2 DEF CellsMarked
    <3>4. QED
      BY <3>3 DEF SortedNode
  <2>3. LinksOf(low, st, child, m + 1)
    <3>1. SUFFICES ASSUME NEW j \in Nat, NEW q, Link(st, child, j, q), q # 0
                   PROVE  /\ Link(low, child, j + (m + 1), q)
                          /\ \A k \in Nat : SlotOf(low[child], k, j + (m + 1))
                                              => SlotOf(st[child], k, j)
      BY DEF LinksOf
    <3>2. Link(new, child, j, q) /\ j > 0
      BY <2>1, <3>1 DEF Link
    <3>3. j + m + 1 = j + (m + 1) /\ ~(j + m + 1 <= m + 1) /\ j + m + 1 \in Nat
      BY <1>2, <3>2
    <3>4. Link(ns, child, j + m + 1, q)
      <4>1. OldPage(child, nM, child) = child /\ OldSlot(parent, child, i, m, child, j) = j + m + 1
        BY <1>4 DEF OldPage, OldSlot
      <4>2. child \in l.pages \cup {nM} /\ child # parent
        BY <1>2
      <4>3. Link(ns, OldPage(child, nM, child), OldSlot(parent, child, i, m, child, j), q)
        BY <3>1, <3>2, <4>2, DividedLinks
      <4>4. QED
        BY <4>1, <4>3
    <3>5. K \in Nat /\ DividesSlots(ns, new, parent, child, i, nM, m, K)
      BY DividingKeys
    <3> HIDE DEF K
    <3>6. ASSUME NEW k \in Nat, SlotOf(ns[child], k, j + m + 1)
          PROVE  SlotOf(new[child], k, j)
      <4>1. K < k
        BY <3>3, <3>5, <3>6 DEF DividesSlots
      <4>2. QED
        BY <3>2, <3>5, <3>6, <4>1 DEF DividesSlots
    <3>7. QED
      BY <1>4, <2>1, <3>3, <3>4, <3>6 DEF Link
  <2>4. QED
    BY <1>2, <1>6, <2>1, <2>2, <2>3 DEF st
<1>9. QED
  BY <1>3, <1>7, <1>8 DEF SplitStage, low
-----------------------------------------------------------------------------
(* The marked root r is raised by a level, onto page nC.                   *)

Raising(ns, count, nC, rts, l, r) ==
    /\ ns \in [Pages -> BTreeNode]
    /\ count \in Nat /\ nC \in Pages /\ nC = count + 1 /\ rts \subseteq 1 .. count
    /\ Marked(ns, count, rts, l)
    /\ r \in rts /\ ns[r].type \in NodeTypes

LEMMA RaisingPages ==
  ASSUME NEW ns, NEW count, NEW nC, NEW rts, NEW l, NEW r, Raising(ns, count, nC, rts, l, r)
  PROVE  /\ \A p \in l.pages : /\ p \in 1 .. count /\ p \in Pages /\ p # nC
                               /\ ns[p] \in BTreeNode /\ l.ht[p] \in Nat
         /\ r \in l.pages /\ r \in Pages /\ r # nC /\ l.own[r] = r /\ l.keys[r] = Nat
         /\ nC \notin l.pages /\ nC \notin rts
         /\ l.ht[r] \in Nat /\ l.ht[r] < count
         /\ \A p \in l.pages, i \in Nat : \A q : Link(ns, p, i, q) /\ q # 0 =>
              q \in l.pages \ {r}
<1>1. /\ count \in Nat /\ nC = count + 1 /\ rts \subseteq 1 .. count /\ r \in rts
      /\ MarksTyped(ns, count, l) /\ RootsMarked(count, rts, l)
      /\ LevelsMarked(ns, count, rts, l) /\ LinksMarked(ns, rts, l)
  BY DEF Raising, Marked
<1>2. \A p \in l.pages : /\ p \in 1 .. count /\ p \in Pages
                         /\ ns[p] \in BTreeNode /\ l.ht[p] \in Nat
  BY <1>1 DEF MarksTyped
<1>3. nC \notin 1 .. count
  BY <1>1
<1>4. r \in l.pages /\ l.own[r] = r /\ l.keys[r] = Nat
  BY <1>1 DEF RootsMarked
<1>5. l.ht[r] < count
  BY <1>1, <1>4 DEF LevelsMarked
<1>6. \A p \in l.pages, i \in Nat : \A q : Link(ns, p, i, q) /\ q # 0 =>
        q \in l.pages \ {r}
  BY <1>1 DEF LinksMarked
<1>7. QED
  BY <1>1, <1>2, <1>3, <1>4, <1>5, <1>6

LEMMA LiftedIsLift ==
  ASSUME SafeSizes, NEW ns \in [Pages -> BTreeNode], NEW r \in Pages, NEW nC \in Pages, r # nC,
         ns[r].type \in NodeTypes
  PROVE  /\ IsLift(ns, Lifted(ns, r, nC), r, nC)
         /\ Lifted(ns, r, nC) \in [Pages -> BTreeNode]
<1> DEFINE C == Copied(ns, r, nC)
           E == Emptied(ns, r, nC)
           B == initEmptyNode(r, Top(ns, r))
<1>1. /\ C \in BTreeNode /\ C.type = ns[r].type /\ C.cells = ns[r].cells
      /\ C.right_page = ns[r].right_page
  <2>1. /\ ns[r] \in BTreeNode /\ ns[r].cells \in Seq(BTreeCell)
        /\ ns[r].right_page \in 0 .. MaxPages
    BY DEF BTreeNode
  <2>2. QED
    BY <2>1, FilledNodeType DEF Copied
<1>2. Top(ns, r) \in NodeTypes
  BY DEF Top, NodeTypes
<1>3. /\ B \in BTreeNode /\ B.type = Top(ns, r) /\ B.cells = << >>
  BY <1>2, BlankIsSound
<1>4. E = [B EXCEPT !.right_page = nC]
  BY DEF Emptied, Top
<1>5. nC \in 0 .. MaxPages
  BY ConstantsAssumption DEF Pages
<1> HIDE DEF C, E, B
<1>6. /\ E \in BTreeNode /\ E.type = Top(ns, r) /\ E.cells = << >> /\ E.right_page = nC
  BY <1>3, <1>4, <1>5 DEF BTreeNode
<1>7. Lifted(ns, r, nC) = [ns EXCEPT ![nC] = C, ![r] = E]
  BY DEF Lifted, LiftStage, C, E
<1>8. QED
  BY <1>1, <1>6, <1>7 DEF IsLift, Top

(* The root's page is blank.                                               *)
RaisedMarks(l, r) ==
    [pages |-> l.pages, own |-> l.own, ht |-> [l.ht EXCEPT ![r] = @ + 1], keys |-> l.keys]

(* It is over its copy.                                                    *)
LiftMarks(l, r, nC) ==
    [pages |-> l.pages \cup {nC},
     own |-> [l.own EXCEPT ![nC] = r],
     ht |-> [l.ht EXCEPT ![nC] = l.ht[r], ![r] = l.ht[r] + 1],
     keys |-> [l.keys EXCEPT ![nC] = Nat]]

LEMMA LiftMarksAre ==
  ASSUME NEW ns, NEW count, NEW nC, NEW rts, NEW l, NEW r, Raising(ns, count, nC, rts, l, r)
  PROVE  LET l2 == LiftMarks(l, r, nC)
         IN  /\ l2.pages = l.pages \cup {nC}
             /\ l2.own \in [Pages -> Pages] /\ l2.ht \in [Pages -> Nat]
             /\ l2.keys \in [Pages -> SUBSET Nat]
             /\ l2.own[nC] = r /\ l2.ht[nC] = l.ht[r] /\ l2.keys[nC] = Nat
             /\ l2.ht[r] = l.ht[r] + 1
             /\ \A p \in l.pages : l2.own[p] = l.own[p] /\ l2.keys[p] = l.keys[p]
             /\ \A p \in l.pages \ {r} : l2.ht[p] = l.ht[p]
<1> DEFINE l2 == LiftMarks(l, r, nC)
<1>1. /\ l.own \in [Pages -> Pages] /\ l.ht \in [Pages -> Nat]
      /\ l.keys \in [Pages -> SUBSET Nat] /\ nC \in Pages
  BY DEF Raising, Marked, MarksTyped
<1>2. /\ \A p \in l.pages : p \in Pages /\ p # nC
      /\ r \in Pages /\ r # nC /\ nC \notin l.pages /\ l.ht[r] \in Nat
  BY RaisingPages
<1>3. /\ l2.pages = l.pages \cup {nC} /\ l2.own = [l.own EXCEPT ![nC] = r]
      /\ l2.ht = [l.ht EXCEPT ![nC] = l.ht[r], ![r] = l.ht[r] + 1]
      /\ l2.keys = [l.keys EXCEPT ![nC] = Nat]
  BY DEF LiftMarks
<1> HIDE DEF l2
<1>4. l2.own \in [Pages -> Pages] /\ l2.own[nC] = r /\ \A p \in l.pages : l2.own[p] = l.own[p]
  BY <1>1, <1>2, <1>3
<1>5. l2.keys \in [Pages -> SUBSET Nat] /\ l2.keys[nC] = Nat
      /\ \A p \in l.pages : l2.keys[p] = l.keys[p]
  BY <1>1, <1>2, <1>3
<1>6. l2.ht \in [Pages -> Nat] /\ l2.ht[nC] = l.ht[r] /\ l2.ht[r] = l.ht[r] + 1
      /\ \A p \in l.pages \ {r} : l2.ht[p] = l.ht[p]
  BY <1>1, <1>2, <1>3
<1>7. QED
  BY <1>3, <1>4, <1>5, <1>6 DEF l2

(* The links of the nodes with a root blanked, and with it over its copy.  *)
LEMMA RaisedLinks ==
  ASSUME NEW ns, NEW count, NEW nC, NEW rts, NEW l, NEW r, Raising(ns, count, nC, rts, l, r),
         NEW new, IsLift(ns, new, r, nC),
         NEW p \in l.pages \cup {nC}, NEW j \in Nat, NEW q, Link(new, p, j, q), q # 0
  PROVE  LET was == IF p = nC THEN r ELSE p
         IN  IF p = r THEN j = 1 /\ q = nC
             ELSE /\ Link(ns, was, j, q) /\ was \in l.pages
                  /\ q \in l.pages /\ q \notin rts /\ q # r /\ q # nC
                  /\ l.own[q] = l.own[was]
                  /\ l.ht[was] = l.ht[q] + 1
                  /\ is_index(ns[q].type) <=> is_index(ns[was].type)
                  /\ \A k \in l.keys[q] : k \in l.keys[was] /\ SlotOf(ns[was], k, j)
<1> DEFINE was == IF p = nC THEN r ELSE p
<1>1. /\ \A x \in l.pages : x \in Pages /\ x # nC
      /\ r \in l.pages /\ r \in Pages /\ r # nC
      /\ \A x \in l.pages, i \in Nat : \A y : Link(ns, x, i, y) /\ y # 0 =>
           y \in l.pages \ {r}
  BY RaisingPages
<1>2. LinksMarked(ns, rts, l) /\ nC \in Pages
  BY DEF Raising, Marked
<1>3. LiftedLinks(ns, new, r, nC)
  BY <1>1, <1>2, LiftLinks
<1>4. CASE p = r
  BY <1>3, <1>4 DEF LiftedLinks
<1>5. CASE p # r
  <2>1. Link(ns, was, j, q)
    <3>1. CASE p = nC
      BY <1>3, <3>1 DEF LiftedLinks
    <3>2. CASE p # nC
      <4>1. p \in Pages \ {r, nC}
        BY <1>1, <1>5, <3>2
      <4>2. QED
        BY <1>3, <3>2, <4>1 DEF LiftedLinks
    <3>3. QED
      BY <3>1, <3>2
  <2>2. was \in l.pages
    BY <1>1
  <2> HIDE DEF was
  <2>3. /\ q \in l.pages /\ q \notin rts
        /\ l.own[q] = l.own[was]
        /\ l.ht[was] = l.ht[q] + 1
        /\ is_index(ns[q].type) <=> is_index(ns[was].type)
        /\ \A k \in l.keys[q] : k \in l.keys[was] /\ SlotOf(ns[was], k, j)
    BY <1>2, <2>1, <2>2 DEF LinksMarked
  <2>4. q \in l.pages \ {r}
    BY <1>1, <2>1, <2>2
  <2>5. QED
    BY <1>1, <1>5, <2>1, <2>2, <2>3, <2>4 DEF was
<1>6. QED
  BY <1>4, <1>5

LEMMA LiftKeepsMarks ==
  ASSUME NEW ns, NEW count, NEW nC, NEW rts, NEW l, NEW r, Raising(ns, count, nC, rts, l, r),
         NEW new \in [Pages -> BTreeNode], IsLift(ns, new, r, nC)
  PROVE  Marked(new, nC, rts, LiftMarks(l, r, nC))
<1> DEFINE l2 == LiftMarks(l, r, nC)
<1>1. /\ count \in Nat /\ nC \in Pages /\ nC = count + 1 /\ rts \subseteq 1 .. count
      /\ r \in rts /\ ns[r].type \in NodeTypes
      /\ MarksTyped(ns, count, l) /\ RootsMarked(count, rts, l)
      /\ LevelsMarked(ns, count, rts, l) /\ LinksMarked(ns, rts, l)
      /\ OneMarkedLink(ns, l) /\ CellsMarked(ns, l)
  BY DEF Raising, Marked
<1>2. /\ \A p \in l.pages : /\ p \in 1 .. count /\ p \in Pages /\ p # nC
                            /\ ns[p] \in BTreeNode /\ l.ht[p] \in Nat
      /\ r \in l.pages /\ r \in Pages /\ r # nC /\ l.own[r] = r /\ l.keys[r] = Nat
      /\ nC \notin l.pages /\ nC \notin rts
      /\ l.ht[r] \in Nat /\ l.ht[r] < count
  BY RaisingPages
<1>3. /\ l2.pages = l.pages \cup {nC}
      /\ l2.own \in [Pages -> Pages] /\ l2.ht \in [Pages -> Nat]
      /\ l2.keys \in [Pages -> SUBSET Nat]
      /\ l2.own[nC] = r /\ l2.ht[nC] = l.ht[r] /\ l2.keys[nC] = Nat
      /\ l2.ht[r] = l.ht[r] + 1
      /\ \A p \in l.pages : l2.own[p] = l.own[p] /\ l2.keys[p] = l.keys[p]
      /\ \A p \in l.pages \ {r} : l2.ht[p] = l.ht[p]
  BY LiftMarksAre
<1> HIDE DEF l2
<1>4. 1 .. nC = (1 .. count) \cup {nC}
  BY <1>1
<1>5. /\ \A p \in l.pages \ {r} : new[p] = ns[p]
      /\ new[nC].type = ns[r].type /\ new[nC].cells = ns[r].cells
      /\ new[r].cells = << >> /\ new[r].type = Top(ns, r)
  BY <1>2 DEF IsLift, Top
<1>6. /\ is_internal(new[r].type)
      /\ is_index(new[r].type) <=> is_index(ns[r].type)
  BY <1>1, <1>2, LiftLinks DEF LiftedLinks
<1>7. MarksTyped(new, nC, l2)
  BY <1>1, <1>2, <1>3, <1>4 DEF MarksTyped
<1>8. RootsMarked(nC, rts, l2)
  BY <1>1, <1>3 DEF RootsMarked
<1>9. LevelsMarked(new, nC, rts, l2)
  <2>1. SUFFICES ASSUME NEW p \in l2.pages
                 PROVE  /\ l2.own[p] \in rts /\ l2.own[p] \in l2.pages
                        /\ l2.ht[p] < nC
                        /\ is_internal(new[p].type) <=> l2.ht[p] > 0
    BY DEF LevelsMarked
  <2>2. \A x \in l.pages : /\ l.own[x] \in rts /\ l.own[x] \in l.pages
                           /\ l.ht[x] < count
                           /\ is_internal(ns[x].type) <=> l.ht[x] > 0
    BY <1>1 DEF LevelsMarked
  <2>3. CASE p = r
    BY <1>1, <1>2, <1>3, <1>6, <2>2, <2>3
  <2>4. CASE p = nC
    <3>1. /\ l2.own[p] = r /\ l2.ht[p] = l.ht[r] /\ new[p].type = ns[r].type
          /\ r \in l2.pages
      BY <1>2, <1>3, <1>5, <2>4
    <3>2. l.ht[r] < nC /\ (is_internal(ns[r].type) <=> l.ht[r] > 0)
      BY <1>1, <1>2, <2>2
    <3>3. QED
      BY <1>1, <3>1, <3>2
  <2>5. CASE p # r /\ p # nC
    <3>1. p \in l.pages /\ p \in l.pages \ {r}
      BY <1>3, <2>1, <2>5
    <3>2. l.ht[p] \in Nat /\ l.ht[p] < count /\ l.ht[p] < nC
      BY <1>1, <1>2, <2>2, <3>1
    <3>3. QED
      BY <1>3, <1>5, <2>2, <3>1, <3>2
  <2>6. QED
    BY <2>3, <2>4, <2>5
<1>10. LinksMarked(new, rts, l2)
  <2>1. SUFFICES ASSUME NEW p \in l2.pages, NEW j \in Nat, NEW q, Link(new, p, j, q), q # 0
                 PROVE  /\ q \in l2.pages /\ q \notin rts
                        /\ l2.own[q] = l2.own[p]
                        /\ l2.ht[p] = l2.ht[q] + 1
                        /\ is_index(new[q].type) <=> is_index(new[p].type)
                        /\ \A k \in l2.keys[q] : k \in l2.keys[p] /\ SlotOf(new[p], k, j)
    BY DEF LinksMarked
  <2> DEFINE was == IF p = nC THEN r ELSE p
  <2>2. p \in l.pages \cup {nC}
    BY <1>3
  <2>3. IF p = r THEN j = 1 /\ q = nC
        ELSE /\ Link(ns, was, j, q) /\ was \in l.pages
             /\ q \in l.pages /\ q \notin rts /\ q # r /\ q # nC
             /\ l.own[q] = l.own[was]
             /\ l.ht[was] = l.ht[q] + 1
             /\ is_index(ns[q].type) <=> is_index(ns[was].type)
             /\ \A k \in l.keys[q] : k \in l.keys[was] /\ SlotOf(ns[was], k, j)
    BY <2>1, <2>2, RaisedLinks
  <2>4. CASE p = r
    <3>1. j = 1 /\ q = nC
      BY <2>3, <2>4
    <3>2. \A k \in Nat : SlotOf(new[r], k, 1)
      <4>1. Len(new[r].cells) = 0
        BY <1>5
      <4>2. QED
        BY <4>1 DEF SlotOf, SlotIn
    <3>3. QED
      BY <1>2, <1>3, <1>5, <1>6, <2>4, <3>1, <3>2
  <2>5. CASE p # r
    <3>1. /\ was \in l.pages
          /\ q \in l.pages \ {r} /\ q \notin rts /\ q # nC
          /\ l.own[q] = l.own[was]
          /\ l.ht[was] = l.ht[q] + 1
          /\ is_index(ns[q].type) <=> is_index(ns[was].type)
          /\ \A k \in l.keys[q] : k \in l.keys[was] /\ SlotOf(ns[was], k, j)
      BY <2>3, <2>5
    <3>2. /\ l2.own[p] = l.own[was] /\ l2.ht[p] = l.ht[was] /\ l2.keys[p] = l.keys[was]
          /\ new[p].type = ns[was].type /\ new[p].cells = ns[was].cells
      BY <1>2, <1>3, <1>5, <2>2, <2>5
    <3>3. /\ l2.own[q] = l.own[q] /\ l2.ht[q] = l.ht[q] /\ l2.keys[q] = l.keys[q]
          /\ new[q] = ns[q] /\ q \in l2.pages
      BY <1>3, <1>5, <3>1
    <3> HIDE DEF was
    <3>4. \A k : SlotOf(ns[was], k, j) => SlotOf(new[p], k, j)
      BY <3>2 DEF SlotOf, KeysOf
    <3>5. QED
      BY <3>1, <3>2, <3>3, <3>4
  <2>6. QED
    BY <2>4, <2>5
<1>11. OneMarkedLink(new, l2)
  <2>1. SUFFICES ASSUME NEW p1 \in l2.pages, NEW p2 \in l2.pages,
                        NEW i1 \in Nat, NEW i2 \in Nat, NEW q,
                        Link(new, p1, i1, q), Link(new, p2, i2, q), q # 0
                 PROVE  p1 = p2 /\ i1 = i2
    BY DEF OneMarkedLink
  <2> DEFINE was(p) == IF p = nC THEN r ELSE p
  <2>2. ASSUME NEW p \in l2.pages, NEW i \in Nat, Link(new, p, i, q)
        PROVE  IF p = r THEN i = 1 /\ q = nC
               ELSE Link(ns, was(p), i, q) /\ was(p) \in l.pages /\ q # nC
    <3>1. p \in l.pages \cup {nC} /\ q # 0
      BY <1>3, <2>1
    <3>2. QED
      BY <2>2, <3>1, RaisedLinks
  <2>3. CASE q = nC
    BY <2>1, <2>2, <2>3
  <2>4. CASE q # nC
    <3>1. /\ Link(ns, was(p1), i1, q) /\ was(p1) \in l.pages /\ p1 # r
          /\ Link(ns, was(p2), i2, q) /\ was(p2) \in l.pages /\ p2 # r
      BY <2>1, <2>2, <2>4
    <3>2. was(p1) = was(p2) /\ i1 = i2
      BY <1>1, <2>1, <3>1 DEF OneMarkedLink
    <3>3. QED
      BY <3>1, <3>2
  <2>5. QED
    BY <2>3, <2>4
<1>12. CellsMarked(new, l2)
  <2>1. SUFFICES ASSUME NEW p \in l2.pages PROVE SortedNode(new[p], l2.keys[p])
    BY DEF CellsMarked
  <2>2. CASE p = r
    <3>1. Len(new[r].cells) = 0
      BY <1>5
    <3>2. QED
      BY <2>2, <3>1 DEF SortedNode, Ascending, Ascends
  <2>3. CASE p = nC
    <3>1. SortedNode(ns[r], l.keys[r])
      BY <1>1, <1>2 DEF CellsMarked
    <3>2. l2.keys[p] = l.keys[r]
      BY <1>2, <1>3, <2>3
    <3>3. QED
      BY <1>5, <2>3, <3>1, <3>2 DEF SortedNode, Ascending, KeysOf
  <2>4. CASE p # r /\ p # nC
    BY <1>1, <1>3, <1>5, <2>4 DEF CellsMarked
  <2>5. QED
    BY <2>2, <2>3, <2>4
<1>13. QED
  BY <1>7, <1>8, <1>9, <1>10, <1>11, <1>12 DEF Marked, l2

(* The root blank: its page is that of an internal node without pointers.  *)
LEMMA BlankRootMarked ==
  ASSUME NEW ns, NEW count, NEW nC, NEW rts, NEW l, NEW r, Raising(ns, count, nC, rts, l, r),
         NEW new \in [Pages -> BTreeNode], \A p \in l.pages \ {r} : new[p] = ns[p],
         new[r].type = Top(ns, r), new[r].cells = << >>, new[r].right_page = 0
  PROVE  Marked(new, nC, rts, RaisedMarks(l, r))
<1> DEFINE l2 == RaisedMarks(l, r)
<1>1. /\ count \in Nat /\ nC \in Pages /\ nC = count + 1 /\ rts \subseteq 1 .. count
      /\ r \in rts /\ ns[r].type \in NodeTypes
      /\ MarksTyped(ns, count, l) /\ RootsMarked(count, rts, l)
      /\ LevelsMarked(ns, count, rts, l) /\ LinksMarked(ns, rts, l)
      /\ OneMarkedLink(ns, l) /\ CellsMarked(ns, l)
      /\ l.ht \in [Pages -> Nat]
  BY DEF Raising, Marked, MarksTyped
<1>2. /\ \A p \in l.pages : /\ p \in 1 .. count /\ p \in Pages
                            /\ ns[p] \in BTreeNode /\ l.ht[p] \in Nat
      /\ r \in l.pages /\ r \in Pages
      /\ l.ht[r] \in Nat /\ l.ht[r] < count
      /\ \A p \in l.pages, i \in Nat : \A q : Link(ns, p, i, q) /\ q # 0 =>
           q \in l.pages \ {r}
  BY RaisingPages
<1>3. /\ l2.pages = l.pages /\ l2.own = l.own /\ l2.keys = l.keys
      /\ l2.ht \in [Pages -> Nat] /\ l2.ht[r] = l.ht[r] + 1
      /\ \A p \in l.pages \ {r} : l2.ht[p] = l.ht[p]
  BY <1>1, <1>2 DEF RaisedMarks
<1> HIDE DEF l2
<1>4. 1 .. nC = (1 .. count) \cup {nC}
  BY <1>1
<1>5. is_internal(new[r].type) /\ Len(new[r].cells) = 0
  BY DEF is_internal, Top
<1>6. \A j \in Nat : \A q : ~(Link(new, r, j, q) /\ q # 0)
  BY <1>5 DEF Link, child_at
<1>7. ASSUME NEW p \in l.pages, NEW j \in Nat, NEW q, Link(new, p, j, q), q # 0
      PROVE  p # r /\ Link(ns, p, j, q) /\ q # r
  <2>1. p # r
    BY <1>6, <1>7
  <2>2. Link(ns, p, j, q)
    BY <1>7, <2>1 DEF Link
  <2>3. QED
    BY <1>2, <1>7, <2>1, <2>2
<1>8. MarksTyped(new, nC, l2)
  BY <1>1, <1>2, <1>3, <1>4 DEF MarksTyped
<1>9. RootsMarked(nC, rts, l2)
  BY <1>1, <1>3 DEF RootsMarked
<1>10. LevelsMarked(new, nC, rts, l2)
  <2>1. SUFFICES ASSUME NEW p \in l.pages
                 PROVE  /\ l.own[p] \in rts /\ l.own[p] \in l.pages
                        /\ l2.ht[p] < nC
                        /\ is_internal(new[p].type) <=> l2.ht[p] > 0
    BY <1>3 DEF LevelsMarked
  <2>2. /\ l.own[p] \in rts /\ l.own[p] \in l.pages
        /\ l.ht[p] < count
        /\ is_internal(ns[p].type) <=> l.ht[p] > 0
    BY <1>1 DEF LevelsMarked
  <2>3. CASE p = r
    BY <1>1, <1>2, <1>3, <1>5, <2>2, <2>3
  <2>4. CASE p # r
    <3>1. l.ht[p] < nC
      BY <1>1, <1>2, <2>2
    <3>2. QED
      BY <1>3, <2>2, <2>4, <3>1
  <2>5. QED
    BY <2>3, <2>4
<1>11. LinksMarked(new, rts, l2)
  <2>1. SUFFICES ASSUME NEW p \in l.pages, NEW j \in Nat, NEW q, Link(new, p, j, q), q # 0
                 PROVE  /\ q \in l.pages /\ q \notin rts
                        /\ l.own[q] = l.own[p]
                        /\ l2.ht[p] = l2.ht[q] + 1
                        /\ is_index(new[q].type) <=> is_index(new[p].type)
                        /\ \A k \in l.keys[q] : k \in l.keys[p] /\ SlotOf(new[p], k, j)
    BY <1>3 DEF LinksMarked
  <2>2. p # r /\ Link(ns, p, j, q) /\ q # r
    BY <1>7, <2>1
  <2>3. /\ q \in l.pages /\ q \notin rts
        /\ l.own[q] = l.own[p]
        /\ l.ht[p] = l.ht[q] + 1
        /\ is_index(ns[q].type) <=> is_index(ns[p].type)
        /\ \A k \in l.keys[q] : k \in l.keys[p] /\ SlotOf(ns[p], k, j)
    BY <1>1, <2>1, <2>2 DEF LinksMarked
  <2>4. /\ new[p] = ns[p] /\ new[q] = ns[q] /\ l2.ht[p] = l.ht[p] /\ l2.ht[q] = l.ht[q]
    BY <1>3, <2>2, <2>3
  <2>5. QED
    BY <2>3, <2>4
<1>12. OneMarkedLink(new, l2)
  BY <1>1, <1>3, <1>7 DEF OneMarkedLink
<1>13. CellsMarked(new, l2)
  <2>1. SUFFICES ASSUME NEW p \in l.pages PROVE SortedNode(new[p], l.keys[p])
    BY <1>3 DEF CellsMarked
  <2>2. CASE p = r
    BY <1>5, <2>2 DEF SortedNode, Ascending, Ascends
  <2>3. CASE p # r
    BY <1>1, <2>3 DEF CellsMarked
  <2>4. QED
    BY <2>2, <2>3
<1>14. QED
  BY <1>8, <1>9, <1>10, <1>11, <1>12, <1>13 DEF Marked, l2

(* The marks of the pages while a root is raised.                          *)
LiftStageMarks(l, r, nC, k) ==
    CASE k = 3 -> RaisedMarks(l, r)
      [] k = 4 -> LiftMarks(l, r, nC)
      [] OTHER -> l

LEMMA LiftStagesMarked ==
  ASSUME SafeSizes,
         NEW ns, NEW count, NEW nC, NEW rts, NEW l, NEW r, Raising(ns, count, nC, rts, l, r)
  PROVE  \A k \in 1 .. 4 : Marked(LiftStage(ns, r, nC, k), nC, rts, LiftStageMarks(l, r, nC, k))
<1> DEFINE low == [ns EXCEPT ![nC] = Copied(ns, r, nC)]
           B == initEmptyNode(r, Top(ns, r))
           blank == [low EXCEPT ![r] = B]
<1>1. /\ ns \in [Pages -> BTreeNode] /\ count \in Nat /\ nC \in Pages /\ nC = count + 1
      /\ rts \subseteq 1 .. count /\ Marked(ns, count, rts, l) /\ ns[r].type \in NodeTypes
  BY DEF Raising
<1>2. r \in Pages /\ r # nC /\ \A p \in l.pages : p # nC /\ p \in Pages
  BY RaisingPages
<1>3. /\ Marked([ns EXCEPT ![nC] = initEmptyNode(nC, ns[r].type)], nC, rts, l)
      /\ Marked(low, nC, rts, l)
  BY <1>1, NewPageUnmarked
<1>4. Marked(Lifted(ns, r, nC), nC, rts, LiftMarks(l, r, nC))
  BY <1>1, <1>2, LiftedIsLift, LiftKeepsMarks
<1>5. Marked(blank, nC, rts, RaisedMarks(l, r))
  <2>1. Top(ns, r) \in NodeTypes
    BY DEF Top, NodeTypes
  <2>2. B \in BTreeNode /\ B.type = Top(ns, r) /\ B.cells = << >> /\ B.right_page = 0
    BY <1>2, <2>1, BlankIsSound
  <2>3. Copied(ns, r, nC) \in BTreeNode
    <3>1. /\ ns[r] \in BTreeNode /\ ns[r].cells \in Seq(BTreeCell)
          /\ ns[r].right_page \in 0 .. MaxPages
      BY <1>1, <1>2 DEF BTreeNode
    <3>2. QED
      BY <1>1, <3>1, FilledNodeType DEF Copied
  <2> HIDE DEF B
  <2>4. /\ blank \in [Pages -> BTreeNode] /\ blank[r] = B
        /\ \A p \in l.pages \ {r} : blank[p] = ns[p]
    BY <1>1, <1>2, <2>2, <2>3
  <2> HIDE DEF blank
  <2>5. QED
    BY <2>2, <2>4, BlankRootMarked
<1>6. \A k \in 1 .. 4 : k = 1 \/ k = 2 \/ k = 3 \/ k = 4
  OBVIOUS
<1>7. /\ LiftStage(ns, r, nC, 1) = [ns EXCEPT ![nC] = initEmptyNode(nC, ns[r].type)]
      /\ LiftStage(ns, r, nC, 2) = low
      /\ LiftStage(ns, r, nC, 3) = blank
      /\ LiftStage(ns, r, nC, 4) = Lifted(ns, r, nC)
  BY DEF LiftStage, Lifted
<1>8. /\ LiftStageMarks(l, r, nC, 1) = l /\ LiftStageMarks(l, r, nC, 2) = l
      /\ LiftStageMarks(l, r, nC, 3) = RaisedMarks(l, r)
      /\ LiftStageMarks(l, r, nC, 4) = LiftMarks(l, r, nC)
  BY DEF LiftStageMarks
<1> HIDE DEF low, blank
<1>9. QED
  BY <1>3, <1>4, <1>5, <1>6, <1>7, <1>8
-----------------------------------------------------------------------------
(* An insert that goes down to page c brings its key there.                *)

Visiting(ns, count, rts, l, p, i, c, k) ==
    /\ Marked(ns, count, rts, l)
    /\ p \in l.pages /\ i \in Nat /\ Link(ns, p, i, c) /\ c # 0
    /\ k \in Nat /\ k \in l.keys[p] /\ SlotOf(ns[p], k, i)

GrowMarks(l, c, k) ==
    [pages |-> l.pages, own |-> l.own, ht |-> l.ht,
     keys |-> [l.keys EXCEPT ![c] = @ \cup {k}]]

LEMMA GrowKeepsMarks ==
  ASSUME NEW ns, NEW count, NEW rts, NEW l, NEW p, NEW i, NEW c, NEW k,
         Visiting(ns, count, rts, l, p, i, c, k)
  PROVE  LET l2 == GrowMarks(l, c, k)
         IN  /\ Marked(ns, count, rts, l2)
             /\ l2.pages = l.pages /\ l2.own = l.own /\ l2.ht = l.ht
             /\ k \in l2.keys[c] /\ \A x \in l.pages : l.keys[x] \subseteq l2.keys[x]
             /\ c \in l.pages /\ c \notin rts /\ l.own[c] = l.own[p]
             /\ l.ht[p] = l.ht[c] + 1
             /\ is_index(ns[c].type) <=> is_index(ns[p].type)
<1> DEFINE l2 == GrowMarks(l, c, k)
<1>1. /\ MarksTyped(ns, count, l) /\ RootsMarked(count, rts, l)
      /\ LevelsMarked(ns, count, rts, l) /\ LinksMarked(ns, rts, l)
      /\ OneMarkedLink(ns, l) /\ CellsMarked(ns, l)
      /\ p \in l.pages /\ i \in Nat /\ Link(ns, p, i, c) /\ c # 0
      /\ k \in Nat /\ k \in l.keys[p] /\ SlotOf(ns[p], k, i)
      /\ l.keys \in [Pages -> SUBSET Nat] /\ \A x \in l.pages : x \in Pages
  BY DEF Visiting, Marked, MarksTyped
<1>2. /\ c \in l.pages /\ c \notin rts /\ l.own[c] = l.own[p]
      /\ l.ht[p] = l.ht[c] + 1
      /\ is_index(ns[c].type) <=> is_index(ns[p].type)
  BY <1>1 DEF LinksMarked
<1>3. /\ l2.pages = l.pages /\ l2.own = l.own /\ l2.ht = l.ht
      /\ l2.keys \in [Pages -> SUBSET Nat]
      /\ l2.keys[c] = l.keys[c] \cup {k}
      /\ \A x \in l.pages \ {c} : l2.keys[x] = l.keys[x]
  BY <1>1, <1>2 DEF GrowMarks
<1> HIDE DEF l2
<1>4. \A x \in l.pages : l.keys[x] \subseteq l2.keys[x]
  BY <1>3
<1>5. MarksTyped(ns, count, l2)
  BY <1>1, <1>3 DEF MarksTyped
<1>6. RootsMarked(count, rts, l2)
  BY <1>1, <1>2, <1>3 DEF RootsMarked
<1>7. LevelsMarked(ns, count, rts, l2)
  BY <1>1, <1>3 DEF LevelsMarked
<1>8. OneMarkedLink(ns, l2)
  BY <1>1, <1>3 DEF OneMarkedLink
<1>9. LinksMarked(ns, rts, l2)
  <2>1. SUFFICES ASSUME NEW x \in l.pages, NEW j \in Nat, NEW q, Link(ns, x, j, q), q # 0
                 PROVE  /\ q \in l.pages /\ q \notin rts
                        /\ l.own[q] = l.own[x]
                        /\ l.ht[x] = l.ht[q] + 1
                        /\ is_index(ns[q].type) <=> is_index(ns[x].type)
                        /\ \A y \in l2.keys[q] : y \in l2.keys[x] /\ SlotOf(ns[x], y, j)
    BY <1>3 DEF LinksMarked
  <2>2. /\ q \in l.pages /\ q \notin rts
        /\ l.own[q] = l.own[x]
        /\ l.ht[x] = l.ht[q] + 1
        /\ is_index(ns[q].type) <=> is_index(ns[x].type)
        /\ \A y \in l.keys[q] : y \in l.keys[x] /\ SlotOf(ns[x], y, j)
    BY <1>1, <2>1 DEF LinksMarked
  <2>3. CASE q = c
    <3>1. x = p /\ j = i
      BY <1>1, <2>1, <2>3 DEF OneMarkedLink
    <3>2. \A y \in l2.keys[q] : y \in l.keys[x] /\ SlotOf(ns[x], y, j)
      BY <1>1, <1>3, <2>2, <2>3, <3>1
    <3>3. QED
      BY <1>4, <2>2, <3>2
  <2>4. CASE q # c
    BY <1>3, <1>4, <2>2, <2>4
  <2>5. QED
    BY <2>3, <2>4
<1>10. CellsMarked(ns, l2)
  <2>1. ASSUME NEW x \in l.pages PROVE SortedNode(ns[x], l2.keys[x])
    <3>1. SortedNode(ns[x], l.keys[x]) /\ l.keys[x] \subseteq l2.keys[x]
      BY <1>1, <1>4 DEF CellsMarked
    <3>2. QED
      BY <3>1 DEF SortedNode
  <2>2. QED
    BY <1>3, <2>1 DEF CellsMarked
<1>11. Marked(ns, count, rts, l2)
  BY <1>5, <1>6, <1>7, <1>8, <1>9, <1>10 DEF Marked
<1>12. QED
  BY <1>1, <1>2, <1>3, <1>4, <1>11 DEF l2

(* A new tree: one page without cells.                                     *)
Rooting(ns, count, rts, l, new, p, rts2) ==
    /\ Marked(ns, count, rts, l)
    /\ count \in Nat /\ p \in Pages /\ p = count + 1
    /\ \A q \in l.pages : new[q] = ns[q]
    /\ new[p] \in BTreeNode /\ ~is_internal(new[p].type) /\ new[p].cells = << >>
    /\ rts2 \cap (1 .. p) = (rts \cap (1 .. count)) \cup {p}

NewRootMarks(l, p) ==
    [pages |-> l.pages \cup {p},
     own |-> [l.own EXCEPT ![p] = p], ht |-> [l.ht EXCEPT ![p] = 0],
     keys |-> [l.keys EXCEPT ![p] = Nat]]

LEMMA NewRootMarked ==
  ASSUME NEW ns, NEW count, NEW rts, NEW l, NEW new, NEW p, NEW rts2,
         Rooting(ns, count, rts, l, new, p, rts2)
  PROVE  LET l2 == NewRootMarks(l, p)
         IN  /\ Marked(new, p, rts2, l2)
             /\ l2.pages = l.pages \cup {p} /\ l2.own[p] = p /\ p \notin l.pages
             /\ \A q \in l.pages : l2.own[q] = l.own[q]
<1> DEFINE l2 == NewRootMarks(l, p)
<1>1. /\ count \in Nat /\ p \in Pages /\ p = count + 1
      /\ \A q \in l.pages : new[q] = ns[q]
      /\ new[p] \in BTreeNode /\ ~is_internal(new[p].type) /\ new[p].cells = << >>
      /\ rts2 \cap (1 .. p) = (rts \cap (1 .. count)) \cup {p}
      /\ Marked(ns, count, rts, l)
  BY DEF Rooting
<1>2. /\ l.pages \subseteq 1 .. count /\ p \notin 1 .. count
      /\ l.own \in [Pages -> Pages] /\ l.ht \in [Pages -> Nat]
      /\ l.keys \in [Pages -> SUBSET Nat] /\ \A q \in l.pages : q \in Pages
  BY <1>1 DEF Marked, MarksTyped
<1>3. /\ l2.pages = l.pages \cup {p} /\ p \notin l.pages
      /\ l2.own \in [Pages -> Pages] /\ l2.ht \in [Pages -> Nat]
      /\ l2.keys \in [Pages -> SUBSET Nat]
      /\ l2.own[p] = p /\ l2.ht[p] = 0 /\ l2.keys[p] = Nat
      /\ \A q \in l.pages : l2.own[q] = l.own[q] /\ l2.ht[q] = l.ht[q] /\ l2.keys[q] = l.keys[q]
  BY <1>1, <1>2 DEF NewRootMarks
<1> HIDE DEF l2
<1>4. 1 .. p = (1 .. count) \cup {p}
  BY <1>1
<1> DEFINE mine == rts \cap (1 .. count)
<1>5. Marked(new, p, mine, l)
  <2>1. mine \cap (1 .. p) = rts \cap (1 .. count) /\ count <= p /\ p \in Nat
    BY <1>1, <1>4
  <2> HIDE DEF mine
  <2>2. QED
    BY <1>1, <2>1, SameMarks
<1>6. /\ MarksTyped(new, p, l) /\ RootsMarked(p, mine, l)
      /\ LevelsMarked(new, p, mine, l) /\ LinksMarked(new, mine, l)
      /\ OneMarkedLink(new, l) /\ CellsMarked(new, l)
  BY <1>5 DEF Marked
<1>7. /\ \A r \in rts2 : r \in 1 .. p => r \in mine \/ r = p
      /\ p \in rts2 /\ mine \subseteq rts2
      /\ \A q \in l.pages : q \in rts2 => q \in mine
      /\ p \notin mine
  <2>1. p \in 1 .. p
    BY <1>4
  <2>2. \A q \in l.pages : q \in 1 .. p /\ q # p
    BY <1>2, <1>4
  <2>3. QED
    BY <1>1, <1>2, <2>1, <2>2
<1> HIDE DEF mine
<1>8. MarksTyped(new, p, l2)
  BY <1>1, <1>2, <1>3, <1>4, <1>6 DEF MarksTyped
<1>9. RootsMarked(p, rts2, l2)
  <2>1. ASSUME NEW r \in rts2, r \in 1 .. p
        PROVE  r \in l2.pages /\ l2.own[r] = r /\ l2.keys[r] = Nat
    <3>1. CASE r = p
      BY <1>3, <3>1
    <3>2. CASE r \in mine
      BY <1>3, <1>6, <2>1, <3>2 DEF RootsMarked
    <3>3. QED
      BY <1>7, <2>1, <3>1, <3>2
  <2>2. QED
    BY <2>1 DEF RootsMarked
<1>10. LevelsMarked(new, p, rts2, l2)
  <2>1. SUFFICES ASSUME NEW x \in l2.pages
                 PROVE  /\ l2.own[x] \in rts2 /\ l2.own[x] \in l2.pages
                        /\ l2.ht[x] < p
                        /\ is_internal(new[x].type) <=> l2.ht[x] > 0
    BY DEF LevelsMarked
  <2>2. CASE x = p
    BY <1>1, <1>3, <1>7, <2>2
  <2>3. CASE x \in l.pages
    BY <1>3, <1>6, <1>7, <2>3 DEF LevelsMarked
  <2>4. QED
    BY <1>3, <2>2, <2>3
<1>11. \A j, q : ~Link(new, p, j, q)
  BY <1>1 DEF Link
<1>12. LinksMarked(new, rts2, l2)
  <2>1. SUFFICES ASSUME NEW x \in l2.pages, NEW j \in Nat, NEW q, Link(new, x, j, q), q # 0
                 PROVE  /\ q \in l2.pages /\ q \notin rts2
                        /\ l2.own[q] = l2.own[x]
                        /\ l2.ht[x] = l2.ht[q] + 1
                        /\ is_index(new[q].type) <=> is_index(new[x].type)
                        /\ \A y \in l2.keys[q] : y \in l2.keys[x] /\ SlotOf(new[x], y, j)
    BY DEF LinksMarked
  <2>2. x \in l.pages
    BY <1>3, <1>11, <2>1
  <2>3. /\ q \in l.pages /\ q \notin mine
        /\ l.own[q] = l.own[x]
        /\ l.ht[x] = l.ht[q] + 1
        /\ is_index(new[q].type) <=> is_index(new[x].type)
        /\ \A y \in l.keys[q] : y \in l.keys[x] /\ SlotOf(new[x], y, j)
    BY <1>6, <2>1, <2>2 DEF LinksMarked
  <2>4. QED
    BY <1>3, <1>7, <2>2, <2>3
<1>13. OneMarkedLink(new, l2)
  <2>1. SUFFICES ASSUME NEW p1 \in l2.pages, NEW p2 \in l2.pages,
                        NEW i1 \in Nat, NEW i2 \in Nat, NEW q,
                        Link(new, p1, i1, q), Link(new, p2, i2, q), q # 0
                 PROVE  p1 = p2 /\ i1 = i2
    BY DEF OneMarkedLink
  <2>2. p1 \in l.pages /\ p2 \in l.pages
    BY <1>3, <1>11, <2>1
  <2>3. QED
    BY <1>6, <2>1, <2>2 DEF OneMarkedLink
<1>14. CellsMarked(new, l2)
  <2>1. SUFFICES ASSUME NEW x \in l2.pages PROVE SortedNode(new[x], l2.keys[x])
    BY DEF CellsMarked
  <2>2. CASE x = p
    <3>1. Len(new[p].cells) = 0
      BY <1>1
    <3>2. QED
      BY <2>2, <3>1 DEF SortedNode, Ascending, Ascends
  <2>3. CASE x \in l.pages
    BY <1>3, <1>6, <2>3 DEF CellsMarked
  <2>4. QED
    BY <1>3, <2>2, <2>3
<1>15. QED
  BY <1>3, <1>8, <1>9, <1>10, <1>12, <1>13, <1>14 DEF Marked, l2
-----------------------------------------------------------------------------
(* The search for a key, from page to page.                                *)

LEMMA SlotLeads ==
  ASSUME NEW ns, NEW p, ns[p] \in BTreeNode, NEW k \in Nat, NEW i, NEW q,
         Link(ns, p, i, q), SlotOf(ns[p], k, i)
  PROVE  q = ChildFor(ns[p], k)
BY SlotFound DEF Link, ChildFor

LEMMA SearchLeads ==
  ASSUME NEW ns, NEW p, ns[p] \in BTreeNode, is_internal(ns[p].type), NEW k \in Nat
  PROVE  \E i \in Nat : Link(ns, p, i, ChildFor(ns[p], k)) /\ SlotOf(ns[p], k, i)
BY SlotFound, ChildLinked

LEMMA FoundCell ==
  ASSUME NEW n \in BTreeNode, NEW k, ValueIn(n, k) # NoValue
  PROVE  \E j \in 1 .. Len(n.cells) : n.cells[j].key = k /\ n.cells[j].val = ValueIn(n, k)
<1> DEFINE hits == AtOrAfter(n, k)
           j == find_position(n, k)
<1>1. j <= Len(n.cells) /\ n.cells[j].key = k /\ ValueIn(n, k) = n.cells[j].val
  BY DEF ValueIn, HoldsKey
<1>2. Len(n.cells) \in Nat
  BY CellTypes
<1>3. hits \subseteq 1 .. Len(n.cells)
  BY DEF AtOrAfter
<1>4. j = IF hits = {} THEN Len(n.cells) + 1 ELSE Min(hits)
  BY DEF find_position
<1> HIDE DEF hits, j
<1>5. j \in 1 .. Len(n.cells)
  <2>1. CASE hits = {}
    BY <1>1, <1>2, <1>4, <2>1
  <2>2. CASE hits # {}
    <3>1. hits \subseteq Nat
      BY <1>3
    <3>2. Min(hits) \in hits
      BY <2>2, <3>1, MinExists
    <3>3. QED
      BY <1>3, <1>4, <2>2, <3>2
  <2>3. QED
    BY <2>1, <2>2
<1>6. QED
  BY <1>1, <1>5

(* Where a search goes on after a split, in the parent and in the halves.  *)
LEMMA DividedSearch ==
  ASSUME NEW ns, NEW new, NEW count, NEW nM, NEW rts, NEW l,
         NEW parent, NEW i, NEW child, NEW m,
         Dividing(ns, new, count, nM, rts, l, parent, i, child, m),
         NEW k \in Nat, NEW p \in l.pages \cup {nM}, is_internal(new[p].type),
         p = nM => k <= ns[child].cells[m + 1].key,
         p = child => ns[child].cells[m + 1].key < k
  PROVE  LET K == ns[child].cells[m + 1].key
             was == OldPage(child, nM, p)
         IN  ChildFor(new[p], k) = IF p = parent /\ ChildFor(ns[parent], k) = child /\ k <= K
                                   THEN nM ELSE ChildFor(ns[was], k)
<1> DEFINE K == ns[child].cells[m + 1].key
           was == OldPage(child, nM, p)
<1>1. /\ ns \in [Pages -> BTreeNode] /\ new \in [Pages -> BTreeNode]
      /\ count \in Nat /\ nM \in Pages /\ i \in Nat
      /\ parent \in l.pages /\ Link(ns, parent, i, child) /\ child # 0
      /\ IsSplit(ns, new, parent, child, i, nM, m)
      /\ OneMarkedLink(ns, l)
  BY DEF Dividing, Marked
<1>2. /\ \A x \in l.pages : x \in 1 .. count /\ x \in Pages /\ x # nM
      /\ child \in l.pages /\ parent # child
      /\ ns[parent].type \in NodeTypes
      /\ is_internal(ns[parent].type) /\ i \in 1 .. Len(ns[parent].cells) + 1
      /\ m \in Nat
  BY DividingPages
<1>3. DividesSlots(ns, new, parent, child, i, nM, m, K) /\ K \in Nat
  BY DividingKeys
<1>4. /\ p \in Pages /\ was \in Pages /\ was \in l.pages
      /\ new[p] \in BTreeNode /\ ns[was] \in BTreeNode /\ ns[parent] \in BTreeNode
      /\ parent \in Pages /\ child \in Pages /\ nM # parent /\ nM # child
  BY <1>1, <1>2 DEF OldPage
<1>5. /\ \A x \in Pages : new[x].type = ns[OldPage(child, nM, x)].type
      /\ Link(new, parent, i, nM)
      /\ \A x \in Pages, j \in Nat : \A q :
           Link(new, x, j, q) /\ ~(x = parent /\ j = i) =>
             /\ Link(ns, OldPage(child, nM, x), OldSlot(parent, child, i, m, x, j), q)
             /\ OldSlot(parent, child, i, m, x, j) \in Nat
  BY SMTT(30), <1>1, <1>2, <1>4, SplitLinks
<1> DEFINE q == ChildFor(new[p], k)
<1>6. PICK j \in Nat : Link(new, p, j, q) /\ SlotOf(new[p], k, j)
  BY <1>4, SearchLeads
<1> HIDE DEF q, K
<1>7. ChildFor(ns[parent], k) = child <=> SlotOf(ns[parent], k, i)
  <2>1. SlotOf(ns[parent], k, i) => ChildFor(ns[parent], k) = child
    BY <1>1, <1>4, SlotLeads
  <2>2. ASSUME ChildFor(ns[parent], k) = child PROVE SlotOf(ns[parent], k, i)
    <3>1. PICK x \in Nat : Link(ns, parent, x, child) /\ SlotOf(ns[parent], k, x)
      BY <1>2, <1>4, <2>2, SearchLeads
    <3>2. x = i
      BY <1>1, <3>1 DEF OneMarkedLink
    <3>3. QED
      BY <3>1, <3>2
  <2>3. QED
    BY <2>1, <2>2
<1>8. CASE p = parent /\ j = i
  <2>1. SlotOf(ns[parent], k, i) /\ k <= K
    BY <1>1, <1>3, <1>6, <1>8 DEF DividesSlots
  <2>2. q = nM
    BY <1>5, <1>6, <1>8 DEF Link
  <2>3. QED
    BY <1>7, <1>8, <2>1, <2>2 DEF q, K
<1>9. CASE ~(p = parent /\ j = i)
  <2> DEFINE oj == OldSlot(parent, child, i, m, p, j)
  <2>1. Link(ns, was, oj, q) /\ oj \in Nat
    BY <1>4, <1>5, <1>6, <1>9
  <2>2. SlotOf(ns[was], k, oj) /\ ~(p = parent /\ SlotOf(ns[parent], k, i) /\ k <= K)
    <3>1. CASE p = parent
      <4>1. ~(SlotOf(ns[parent], k, i) /\ k <= K)
        <5>1. SUFFICES ASSUME SlotOf(ns[parent], k, i), k <= K PROVE FALSE
          OBVIOUS
        <5>2. SlotOf(new[parent], k, i)
          BY <1>1, <1>3, <5>1 DEF DividesSlots
        <5>3. j = i
          BY <1>4, <1>6, <3>1, <5>2, SlotFound
        <5>4. QED
          BY <1>9, <3>1, <5>3
      <4>2. was = parent /\ oj = IF j > i THEN j - 1 ELSE j
        BY <1>2, <1>4, <3>1 DEF OldPage, OldSlot
      <4>3. j < i \/ j = i + 1 \/ j > i + 1
        BY <1>1, <1>9, <3>1
      <4>4. CASE j < i
        BY <1>1, <1>3, <1>6, <3>1, <4>1, <4>2, <4>4 DEF DividesSlots
      <4>5. CASE j = i + 1
        <5>1. oj = i
          BY <1>1, <4>2, <4>5
        <5>2. SlotOf(ns[parent], k, i)
          BY <1>1, <1>3, <1>6, <3>1, <4>5 DEF DividesSlots
        <5>3. QED
          BY <4>1, <4>2, <5>1, <5>2
      <4>6. CASE j > i + 1
        <5>1. oj = j - 1
          BY <1>1, <4>2, <4>6
        <5>2. SlotOf(ns[parent], k, j - 1)
          BY <1>1, <1>3, <1>6, <3>1, <4>6 DEF DividesSlots
        <5>3. QED
          BY <4>1, <4>2, <5>1, <5>2
      <4>7. QED
        BY <4>3, <4>4, <4>5, <4>6
    <3>2. CASE p = nM
      <4>1. was = child /\ oj = j /\ p # parent
        BY <1>4, <3>2 DEF OldPage, OldSlot
      <4>2. is_internal(ns[child].type)
        BY <1>4, <1>5, <4>1
      <4>3. QED
        BY <1>3, <1>6, <3>2, <4>1, <4>2 DEF DividesSlots, K
    <3>3. CASE p = child
      <4>1. was = child /\ oj = j + m + 1 /\ p # parent
        BY <1>2, <1>4, <3>3 DEF OldPage, OldSlot
      <4>2. QED
        BY <1>3, <1>6, <3>3, <4>1 DEF DividesSlots, K
    <3>4. CASE p \notin {parent, child, nM}
      <4>1. was = p /\ oj = j
        BY <3>4 DEF OldPage, OldSlot
      <4>2. new[p] = ns[p]
        BY <1>1, <1>4, <3>4 DEF IsSplit
      <4>3. QED
        BY <1>6, <3>4, <4>1, <4>2
    <3>5. QED
      BY <3>1, <3>2, <3>3, <3>4
  <2>3. q = ChildFor(ns[was], k)
    BY <1>4, <2>1, <2>2, SlotLeads
  <2>4. QED
    BY <1>7, <2>2, <2>3 DEF q, K
<1>10. QED
  BY <1>8, <1>9

(* What a full leaf has is in that of its halves that has the key.         *)
LEMMA DividedLeaf ==
  ASSUME NEW ns, NEW new, NEW count, NEW nM, NEW rts, NEW l,
         NEW parent, NEW i, NEW child, NEW m,
         Dividing(ns, new, count, nM, rts, l, parent, i, child, m),
         ~is_internal(ns[child].type),
         NEW k \in Nat, ValueIn(ns[child], k) # NoValue
  PROVE  LET K == ns[child].cells[m + 1].key
         IN  ValueIn(new[IF k <= K THEN nM ELSE child], k) = ValueIn(ns[child], k)
<1> DEFINE N == ns[child]
           K == N.cells[m + 1].key
           half == IF k <= K THEN nM ELSE child
<1>1. /\ ns \in [Pages -> BTreeNode] /\ new \in [Pages -> BTreeNode]
      /\ nM \in Pages /\ CellsMarked(ns, l)
      /\ IsSplit(ns, new, parent, child, i, nM, m)
  BY DEF Dividing, Marked
<1>2. /\ child \in l.pages /\ child \in Pages /\ N \in BTreeNode
      /\ m \in Nat /\ m + 1 \in 1 .. Len(N.cells)
  BY DividingPages
<1>3. PICK j \in 1 .. Len(N.cells) : N.cells[j].key = k /\ N.cells[j].val = ValueIn(N, k)
  BY <1>2, FoundCell
<1>4. K \in Nat
  BY DividingKeys
<1>5. /\ Len(N.cells) \in Nat /\ \A x \in 1 .. Len(N.cells) : N.cells[x].key \in Nat
      /\ \A x, y \in 1 .. Len(N.cells) : x < y => N.cells[x].key < N.cells[y].key
  <2>1. Ascending(N)
    BY <1>1, <1>2 DEF CellsMarked, SortedNode
  <2>2. Len(N.cells) \in Nat /\ \A x \in 1 .. Len(N.cells) : N.cells[x].key \in Nat
    BY <1>2, CellTypes
  <2>3. QED
    BY <2>1, <2>2 DEF Ascending, Ascends, KeysOf
<1>6. k <= K <=> j <= m + 1
  <2>1. j <= m + 1 \/ m + 1 < j
    BY <1>2
  <2>2. m + 1 < j => K < k
    BY <1>2, <1>3, <1>5
  <2>3. j <= m + 1 => k <= K
    <3>1. j = m + 1 => k = K
      BY <1>3
    <3>2. j < m + 1 => k < K
      BY <1>2, <1>3, <1>5
    <3>3. k \in Nat /\ K \in Nat /\ j \in Nat /\ m \in Nat
      BY <1>2, <1>4
    <3> HIDE DEF K
    <3>4. QED
      BY <3>1, <3>2, <3>3
  <2>4. QED
    BY <1>4, <2>1, <2>2, <2>3
<1>7. Ascending(new[nM]) /\ Ascending(new[child])
  <2>1. CellsMarked(new, SplitMarks(l, child, nM, K))
    BY SplitKeepsCellsMarked
  <2>2. SplitMarks(l, child, nM, K).pages = l.pages \cup {nM}
    BY DEF SplitMarks
  <2>3. QED
    BY <1>2, <2>1, <2>2 DEF CellsMarked, SortedNode
<1>8. CASE k <= K
  <2>1. j \in 1 .. Len(new[nM].cells) /\ new[nM].cells[j] = N.cells[j]
    BY <1>1, <1>2, <1>6, <1>8 DEF IsSplit
  <2>2. new[nM] \in BTreeNode
    BY <1>1
  <2>3. ValueIn(new[nM], new[nM].cells[j].key) = new[nM].cells[j].val
    BY <1>7, <2>1, <2>2, CellIsFound
  <2>4. QED
    BY <1>3, <1>8, <2>1, <2>3
<1>9. CASE ~(k <= K)
  <2> DEFINE x == j - m - 1
  <2>1. x \in 1 .. Len(new[child].cells) /\ new[child].cells[x] = N.cells[j]
    <3>1. x \in 1 .. Len(N.cells) - m - 1 /\ x + m + 1 = j
      BY <1>2, <1>5, <1>6, <1>9
    <3> HIDE DEF x
    <3>2. QED
      BY <1>1, <3>1 DEF IsSplit
  <2> HIDE DEF x
  <2>2. new[child] \in BTreeNode
    BY <1>1, <1>2
  <2>3. ValueIn(new[child], new[child].cells[x].key) = new[child].cells[x].val
    BY <1>7, <2>1, <2>2, CellIsFound
  <2>4. QED
    BY <1>3, <1>9, <2>1, <2>3
<1>10. QED
  BY <1>8, <1>9
-----------------------------------------------------------------------------
(* The path of an entry: pages of its tree that hold the root and the page *)
(* where the search for its key goes on from each of them, and of which    *)
(* the leaves have it.                                                     *)

EntryRecord == [tree : Pages, key : Nat, val : Vals]

IsPath(ns, l, e, X) ==
    /\ X \subseteq l.pages /\ e.tree \in X
    /\ \A x \in X :
         /\ l.own[x] = e.tree
         /\ is_internal(ns[x].type) => ChildFor(ns[x], e.key) \in X
         /\ ~is_internal(ns[x].type) => ValueIn(ns[x], e.key) = e.val

HasPath(ns, l, e) == \E X \in SUBSET l.pages : IsPath(ns, l, e, X)

LEMMA EntryTypes ==
  ASSUME NEW e \in EntryRecord
  PROVE  e.tree \in Pages /\ e.key \in Nat /\ e.val \in Vals /\ e.val # NoValue
BY ConstantsAssumption DEF EntryRecord

(* It stays where its pages stay.                                          *)
LEMMA SamePath ==
  ASSUME NEW ns, NEW l, NEW e, NEW X, IsPath(ns, l, e, X),
         NEW new, \A x \in X : new[x] = ns[x],
         NEW l2, X \subseteq l2.pages, \A x \in X : l2.own[x] = l.own[x]
  PROVE  IsPath(new, l2, e, X)
BY DEF IsPath

(* A split moves it to the half that has its key.                          *)
LEMMA SplitKeepsPath ==
  ASSUME NEW ns, NEW new, NEW count, NEW nM, NEW rts, NEW l,
         NEW parent, NEW i, NEW child, NEW m,
         Dividing(ns, new, count, nM, rts, l, parent, i, child, m),
         NEW e \in EntryRecord, e.tree \in rts, HasPath(ns, l, e)
  PROVE  HasPath(new, SplitMarks(l, child, nM, ns[child].cells[m + 1].key), e)
<1> DEFINE K == ns[child].cells[m + 1].key
           l2 == SplitMarks(l, child, nM, K)
           k == e.key
<1>1. PICK X \in SUBSET l.pages : IsPath(ns, l, e, X)
  BY DEF HasPath
<1>2. /\ X \subseteq l.pages /\ e.tree \in X
      /\ \A x \in X :
           /\ l.own[x] = e.tree
           /\ is_internal(ns[x].type) => ChildFor(ns[x], k) \in X
           /\ ~is_internal(ns[x].type) => ValueIn(ns[x], k) = e.val
  BY <1>1 DEF IsPath
<1>3. /\ k \in Nat /\ e.val # NoValue
  BY EntryTypes
<1>4. /\ ns \in [Pages -> BTreeNode] /\ new \in [Pages -> BTreeNode]
      /\ parent \in l.pages /\ i \in Nat /\ Link(ns, parent, i, child) /\ child # 0
      /\ IsSplit(ns, new, parent, child, i, nM, m)
      /\ OneMarkedLink(ns, l)
  BY DEF Dividing, Marked
<1>5. /\ \A x \in l.pages : x \in 1 .. count /\ x \in Pages /\ x # nM
      /\ child \in l.pages /\ child \notin rts /\ parent # child
      /\ is_internal(ns[parent].type)
  BY DividingPages
<1>6. /\ l2.pages = l.pages \cup {nM}
      /\ l2.own[nM] = l.own[child]
      /\ \A x \in l.pages : l2.own[x] = l.own[x]
  BY SplitMarksAre
<1>7. K \in Nat
  BY DividingKeys
<1> DEFINE half == IF k <= K THEN nM ELSE child
           Y == IF child \in X THEN (X \ {child}) \cup {half} ELSE X
<1>8. \A x \in l.pages \ {parent, child} : new[x] = ns[x]
  BY <1>4, <1>5 DEF IsSplit
<1>9. /\ new[nM].type = ns[child].type /\ new[child].type = ns[child].type
      /\ new[parent].type = ns[parent].type
  BY <1>4 DEF IsSplit
<1>10. ASSUME NEW x \in l.pages, is_internal(ns[x].type), ChildFor(ns[x], k) = child
       PROVE  x = parent
  <2>1. ns[x] \in BTreeNode
    BY <1>4, <1>5, <1>10
  <2>2. PICK j \in Nat : Link(ns, x, j, child)
    BY <1>3, <1>10, <2>1, SearchLeads
  <2>3. QED
    BY <1>4, <1>10, <2>2 DEF OneMarkedLink
<1>11. \A p \in l.pages \cup {nM} :
         is_internal(new[p].type) /\ (p = nM => k <= K) /\ (p = child => K < k) =>
           ChildFor(new[p], k) = IF p = parent /\ ChildFor(ns[parent], k) = child /\ k <= K
                                 THEN nM ELSE ChildFor(ns[OldPage(child, nM, p)], k)
  BY <1>3, DividedSearch
<1>12. ~is_internal(ns[child].type) /\ ValueIn(ns[child], k) # NoValue =>
         ValueIn(new[half], k) = ValueIn(ns[child], k)
  BY <1>3, DividedLeaf
<1> HIDE DEF K, l2, k
<1>13. half = nM => k <= K
  BY <1>5
<1>14. half = child => K < k
  BY <1>3, <1>5, <1>7
<1>15. e.tree \in Y /\ Y \subseteq l2.pages
  BY <1>2, <1>5, <1>6
<1>16. ASSUME NEW y \in Y
       PROVE  /\ l2.own[y] = e.tree
              /\ is_internal(new[y].type) => ChildFor(new[y], k) \in Y
              /\ ~is_internal(new[y].type) => ValueIn(new[y], k) = e.val
  <2>1. CASE child \in X /\ y = half
    <3>1. l2.own[y] = e.tree
      BY <1>2, <1>5, <1>6, <2>1
    <3>2. new[y].type = ns[child].type
      BY <1>9, <2>1
    <3>3. ASSUME is_internal(new[y].type) PROVE ChildFor(new[y], k) \in Y
      <4>1. ChildFor(ns[child], k) \in X
        BY <1>2, <2>1, <3>2, <3>3
      <4>2. ChildFor(ns[child], k) # child
        BY <1>5, <1>10, <3>2, <3>3
      <4>3. y # parent /\ y \in l.pages \cup {nM}
        BY <1>4, <1>5, <2>1
      <4>4. OldPage(child, nM, y) = child
        BY <2>1 DEF OldPage
      <4>5. ChildFor(new[y], k) = ChildFor(ns[OldPage(child, nM, y)], k)
        BY <1>5, <1>11, <1>13, <1>14, <2>1, <3>3, <4>3
      <4>6. QED
        BY <2>1, <4>1, <4>2, <4>4, <4>5
    <3>4. ASSUME ~is_internal(new[y].type) PROVE ValueIn(new[y], k) = e.val
      BY <1>2, <1>3, <1>12, <2>1, <3>2, <3>4
    <3>5. QED
      BY <3>1, <3>3, <3>4
  <2>2. CASE ~(child \in X /\ y = half)
    <3>1. y \in X /\ y # child /\ y \in l.pages /\ y # nM
      BY <1>2, <1>5, <2>2
    <3>2. l2.own[y] = e.tree
      BY <1>2, <1>6, <3>1
    <3>3. CASE y = parent
      <4>1. ChildFor(ns[parent], k) \in X
        BY <1>2, <1>5, <3>1, <3>3
      <4>2. is_internal(new[y].type)
        BY <1>5, <1>9, <3>3
      <4>3. ChildFor(new[y], k) = IF ChildFor(ns[parent], k) = child /\ k <= K
                                  THEN nM ELSE ChildFor(ns[OldPage(child, nM, y)], k)
        BY <1>11, <3>1, <3>3, <4>2
      <4>4. OldPage(child, nM, y) = parent
        BY <3>1, <3>3 DEF OldPage
      <4>5. QED
        BY <3>2, <4>1, <4>2, <4>3, <4>4
    <3>4. CASE y # parent
      <4>1. new[y] = ns[y]
        BY <1>8, <3>1, <3>4
      <4>2. is_internal(ns[y].type) => ChildFor(ns[y], k) \in X /\ ChildFor(ns[y], k) # child
        BY <1>2, <1>10, <3>1, <3>4
      <4>3. ~is_internal(ns[y].type) => ValueIn(ns[y], k) = e.val
        BY <1>2, <3>1
      <4>4. QED
        BY <3>2, <4>1, <4>2, <4>3
    <3>5. QED
      BY <3>3, <3>4
  <2>3. QED
    BY <2>1, <2>2
<1> HIDE DEF Y
<1>17. IsPath(new, l2, e, Y) /\ Y \in SUBSET l2.pages
  BY <1>15, <1>16 DEF IsPath, k
<1>18. HasPath(new, l2, e)
  BY <1>17 DEF HasPath
<1>19. QED
  BY <1>18 DEF l2, K

(* Until the parent is written, a path that the page is not on stays.      *)
LEMMA SplitStagesKeepPath ==
  ASSUME NEW ns, NEW new, NEW count, NEW nM, NEW rts, NEW l,
         NEW parent, NEW i, NEW child, NEW m,
         Dividing(ns, new, count, nM, rts, l, parent, i, child, m),
         NEW e, NEW X, IsPath(ns, l, e, X), child \notin X
  PROVE  \A k \in 0 .. 4 : IsPath(SplitStage(ns, new, child, nM, k), l, e, X)
<1>1. /\ \A x \in l.pages : x \in Pages /\ x # nM
      /\ X \subseteq l.pages /\ ns \in [Pages -> BTreeNode]
  <2>1. \A x \in l.pages : x \in Pages /\ x # nM
    BY DividingPages
  <2>2. QED
    BY <2>1 DEF IsPath, Dividing
<1>2. ASSUME NEW k \in 0 .. 4, NEW x \in X
      PROVE  SplitStage(ns, new, child, nM, k)[x] = ns[x]
  <2>1. x # nM /\ x # child /\ x \in Pages
    BY <1>1
  <2>2. k = 0 \/ k = 1 \/ k = 2 \/ k = 3 \/ k = 4
    OBVIOUS
  <2>3. /\ SplitStage(ns, new, child, nM, 0)[x] = ns[x]
        /\ SplitStage(ns, new, child, nM, 1)[x] = ns[x]
        /\ SplitStage(ns, new, child, nM, 2)[x] = ns[x]
        /\ SplitStage(ns, new, child, nM, 3)[x] = ns[x]
        /\ SplitStage(ns, new, child, nM, 4)[x] = ns[x]
    BY <1>1, <2>1 DEF SplitStage
  <2>4. QED
    BY <2>2, <2>3
<1>3. QED
  BY <1>1, <1>2, SamePath

(* A root that is raised sends the search on to its copy.                  *)
LEMMA LiftKeepsPath ==
  ASSUME SafeSizes,
         NEW ns, NEW count, NEW nC, NEW rts, NEW l, NEW r, Raising(ns, count, nC, rts, l, r),
         NEW e \in EntryRecord, HasPath(ns, l, e)
  PROVE  HasPath(Lifted(ns, r, nC), LiftMarks(l, r, nC), e)
<1> DEFINE new == Lifted(ns, r, nC)
           l2 == LiftMarks(l, r, nC)
           k == e.key
<1>1. PICK X \in SUBSET l.pages : IsPath(ns, l, e, X)
  BY DEF HasPath
<1>2. /\ X \subseteq l.pages /\ e.tree \in X
      /\ \A x \in X :
           /\ l.own[x] = e.tree
           /\ is_internal(ns[x].type) => ChildFor(ns[x], k) \in X
           /\ ~is_internal(ns[x].type) => ValueIn(ns[x], k) = e.val
  BY <1>1 DEF IsPath
<1>3. /\ \A p \in l.pages : p \in Pages /\ p # nC
      /\ r \in l.pages /\ r \in Pages /\ r # nC /\ l.own[r] = r
  BY RaisingPages
<1>4. /\ ns \in [Pages -> BTreeNode] /\ nC \in Pages /\ ns[r].type \in NodeTypes
  BY DEF Raising
<1>5. IsLift(ns, new, r, nC) /\ new \in [Pages -> BTreeNode]
  BY <1>3, <1>4, LiftedIsLift
<1>6. /\ l2.pages = l.pages \cup {nC} /\ l2.own[nC] = r
      /\ \A p \in l.pages : l2.own[p] = l.own[p]
  BY LiftMarksAre
<1>7. k \in Nat
  BY EntryTypes
<1> HIDE DEF new, l2, k
<1> DEFINE Y == IF r \in X THEN X \cup {nC} ELSE X
<1>8. e.tree \in Y /\ Y \in SUBSET l2.pages
  BY <1>2, <1>6
<1>9. /\ new[nC].type = ns[r].type
      /\ \A key : ChildFor(new[nC], key) = ChildFor(ns[r], key)
      /\ \A key : ValueIn(new[nC], key) = ValueIn(ns[r], key)
  <2>1. new[nC].type = ns[r].type /\ new[nC].cells = ns[r].cells
        /\ new[nC].right_page = ns[r].right_page
    BY <1>5 DEF IsLift
  <2>2. QED
    BY <2>1 DEF ChildFor, child_at, find_position, AtOrAfter, HoldsKey, ValueIn
<1>10. is_internal(new[r].type) /\ ChildFor(new[r], k) = nC
  <2>1. LiftedLinks(ns, new, r, nC)
    BY <1>3, <1>4, <1>5, LiftLinks
  <2>2. is_internal(new[r].type) /\ new[r] \in BTreeNode
    BY <1>3, <1>5, <2>1 DEF LiftedLinks
  <2>3. PICK j \in Nat : Link(new, r, j, ChildFor(new[r], k))
    BY <1>7, <2>2, SearchLeads
  <2>4. QED
    BY <2>1, <2>2, <2>3 DEF LiftedLinks
<1>11. ASSUME NEW y \in Y
       PROVE  /\ l2.own[y] = e.tree
              /\ is_internal(new[y].type) => ChildFor(new[y], k) \in Y
              /\ ~is_internal(new[y].type) => ValueIn(new[y], k) = e.val
  <2>1. CASE y = nC
    <3>1. r \in X
      BY <1>2, <1>3, <2>1
    <3>2. QED
      BY <1>2, <1>3, <1>6, <1>9, <2>1, <3>1
  <2>2. CASE y = r
    BY <1>2, <1>3, <1>6, <1>10, <2>2
  <2>3. CASE y # nC /\ y # r
    <3>1. y \in X /\ y \in Pages \ {r, nC} /\ y \in l.pages
      BY <1>2, <1>3, <2>3
    <3>2. new[y] = ns[y]
      BY <1>5, <3>1 DEF IsLift
    <3>3. QED
      BY <1>2, <1>6, <3>1, <3>2
  <2>4. QED
    BY <2>1, <2>2, <2>3
<1> HIDE DEF Y
<1>12. HasPath(new, l2, e)
  BY <1>8, <1>11 DEF HasPath, IsPath, k
<1>13. QED
  BY <1>12 DEF new, l2

(* While it is written, the paths of other trees stay.                     *)
LEMMA LiftStagesKeepPath ==
  ASSUME SafeSizes,
         NEW ns, NEW count, NEW nC, NEW rts, NEW l, NEW r, Raising(ns, count, nC, rts, l, r),
         NEW e, NEW X, IsPath(ns, l, e, X), r \notin X
  PROVE  \A k \in 0 .. 4 : IsPath(LiftStage(ns, r, nC, k), LiftStageMarks(l, r, nC, k), e, X)
<1>1. /\ \A x \in l.pages : x \in Pages /\ x # nC
      /\ X \subseteq l.pages /\ r \in l.pages /\ r # nC /\ ns \in [Pages -> BTreeNode]
  <2>1. (\A x \in l.pages : x \in Pages /\ x # nC) /\ r \in l.pages /\ r # nC
    BY RaisingPages
  <2>2. QED
    BY <2>1 DEF IsPath, Raising
<1>2. /\ LiftMarks(l, r, nC).pages = l.pages \cup {nC}
      /\ \A p \in l.pages : LiftMarks(l, r, nC).own[p] = l.own[p]
  BY LiftMarksAre
<1>3. ASSUME NEW k \in 0 .. 4
      PROVE  /\ \A x \in X : LiftStage(ns, r, nC, k)[x] = ns[x]
             /\ X \subseteq LiftStageMarks(l, r, nC, k).pages
             /\ \A x \in X : LiftStageMarks(l, r, nC, k).own[x] = l.own[x]
  <2>1. \A x \in X : x # nC /\ x # r /\ x \in l.pages
    BY <1>1
  <2>2. k = 0 \/ k = 1 \/ k = 2 \/ k = 3 \/ k = 4
    OBVIOUS
  <2>3. \A x \in X : LiftStage(ns, r, nC, k)[x] = ns[x]
    <3>1. SUFFICES ASSUME NEW x \in X PROVE LiftStage(ns, r, nC, k)[x] = ns[x]
      OBVIOUS
    <3>2. x # nC /\ x # r /\ x \in Pages
      BY <1>1, <2>1
    <3>3. /\ LiftStage(ns, r, nC, 0)[x] = ns[x]
          /\ LiftStage(ns, r, nC, 1)[x] = ns[x]
          /\ LiftStage(ns, r, nC, 2)[x] = ns[x]
          /\ LiftStage(ns, r, nC, 3)[x] = ns[x]
          /\ LiftStage(ns, r, nC, 4)[x] = ns[x]
      BY <1>1, <3>2 DEF LiftStage
    <3>4. QED
      BY <2>2, <3>3
  <2>4. CASE k = 4
    <3>1. LiftStageMarks(l, r, nC, k) = LiftMarks(l, r, nC)
      BY <2>4 DEF LiftStageMarks
    <3>2. QED
      BY <1>1, <1>2, <2>3, <3>1
  <2>5. CASE k # 4
    <3>1. /\ LiftStageMarks(l, r, nC, k).pages = l.pages
          /\ LiftStageMarks(l, r, nC, k).own = l.own
      BY <2>2, <2>5 DEF LiftStageMarks, RaisedMarks
    <3>2. QED
      BY <1>1, <2>3, <3>1
  <2>6. QED
    BY <2>4, <2>5
<1>4. QED
  BY <1>3, SamePath

(* A cell more in a leaf that has not its key.                             *)
PuttingIn(ns, new, count, rts, l, p, i, c) ==
    /\ ns \in [Pages -> BTreeNode] /\ new \in [Pages -> BTreeNode]
    /\ Marked(ns, count, rts, l)
    /\ p \in l.pages /\ ~is_internal(ns[p].type)
    /\ c \in BTreeCell /\ c.key \in l.keys[p] /\ FitsIn(ns[p].type, c.key)
    /\ c.val # NoValue
    /\ IsPut(ns[p], new[p], i, c)
    /\ \A q \in Pages \ {p} : new[q] = ns[q]

SortedAfterPut(ns, new, l, p, c) ==
    /\ p \in Pages /\ ns[p] \in BTreeNode /\ new[p] \in BTreeNode
    /\ new[p].type = ns[p].type /\ ~is_internal(ns[p].type)
    /\ \A q \in l.pages : q \in Pages
    /\ Ascending(new[p])
    /\ \A j \in 1 .. Len(new[p].cells) : FitsIn(new[p].type, new[p].cells[j].key)
    /\ \A x : (\E j \in 1 .. Len(new[p].cells) : x = new[p].cells[j])
                <=> x = c \/ \E j \in 1 .. Len(ns[p].cells) : x = ns[p].cells[j]

LEMMA PutSorts ==
  ASSUME NEW ns, NEW new, NEW count, NEW rts, NEW l, NEW p, NEW i, NEW c,
         PuttingIn(ns, new, count, rts, l, p, i, c)
  PROVE  SortedAfterPut(ns, new, l, p, c)
<1>1. /\ ns \in [Pages -> BTreeNode] /\ new \in [Pages -> BTreeNode]
      /\ p \in l.pages /\ ~is_internal(ns[p].type)
      /\ c \in BTreeCell /\ FitsIn(ns[p].type, c.key)
      /\ IsPut(ns[p], new[p], i, c)
      /\ CellsMarked(ns, l) /\ \A q \in l.pages : q \in Pages
  BY DEF PuttingIn, Marked, MarksTyped
<1>2. /\ p \in Pages /\ ns[p] \in BTreeNode /\ new[p] \in BTreeNode
      /\ Ascending(ns[p])
      /\ \A j \in 1 .. Len(ns[p].cells) : FitsIn(ns[p].type, ns[p].cells[j].key)
  BY <1>1 DEF CellsMarked, SortedNode
<1>3. new[p].type = ns[p].type
  BY <1>1 DEF IsPut
<1>4. QED
  BY <1>1, <1>2, <1>3, PutKeepsSorted DEF SortedAfterPut

LEMMA PutKeepsMarks ==
  ASSUME NEW ns, NEW new, NEW count, NEW rts, NEW l, NEW p, NEW i, NEW c,
         PuttingIn(ns, new, count, rts, l, p, i, c)
  PROVE  Marked(new, count, rts, l)
<1>1. /\ p \in l.pages /\ c.key \in l.keys[p] /\ c.val # NoValue
      /\ \A q \in Pages \ {p} : new[q] = ns[q]
      /\ CellsMarked(ns, l) /\ Marked(ns, count, rts, l)
  BY DEF PuttingIn, Marked
<1>2. /\ new[p] \in BTreeNode
      /\ new[p].type = ns[p].type /\ ~is_internal(ns[p].type)
      /\ \A q \in l.pages : q \in Pages
      /\ Ascending(new[p])
      /\ \A j \in 1 .. Len(new[p].cells) : FitsIn(new[p].type, new[p].cells[j].key)
      /\ \A x : (\E j \in 1 .. Len(new[p].cells) : x = new[p].cells[j])
                  <=> x = c \/ \E j \in 1 .. Len(ns[p].cells) : x = ns[p].cells[j]
  <2>1. SortedAfterPut(ns, new, l, p, c)
    BY PutSorts
  <2>2. QED
    BY <2>1 DEF SortedAfterPut
<1>3. SortedNode(new[p], l.keys[p])
  <2>1. \A j \in 1 .. Len(ns[p].cells) :
          ns[p].cells[j].key \in l.keys[p] /\ ns[p].cells[j].val # NoValue
    BY <1>1, <1>2 DEF CellsMarked, SortedNode
  <2>2. \A j \in 1 .. Len(new[p].cells) :
          new[p].cells[j].key \in l.keys[p] /\ new[p].cells[j].val # NoValue
    BY <1>1, <1>2, <2>1
  <2>3. QED
    BY <1>2, <2>2 DEF SortedNode
<1>4. LinksOf(ns, new, p, 0)
  BY <1>2 DEF LinksOf, Link
<1>5. \A q \in l.pages \ {p} : new[q] = ns[q]
  BY <1>1, <1>2
<1>6. QED
  BY <1>1, <1>2, <1>3, <1>4, <1>5, PageReplaced

LEMMA PutKeepsPath ==
  ASSUME NEW ns, NEW new, NEW count, NEW rts, NEW l, NEW p, NEW i, NEW c,
         PuttingIn(ns, new, count, rts, l, p, i, c),
         NEW e \in EntryRecord, HasPath(ns, l, e)
  PROVE  HasPath(new, l, e)
<1>1. PICK X \in SUBSET l.pages : IsPath(ns, l, e, X)
  BY DEF HasPath
<1>2. \A q \in Pages \ {p} : new[q] = ns[q]
  BY DEF PuttingIn
<1>3. /\ ns[p] \in BTreeNode /\ new[p] \in BTreeNode
      /\ new[p].type = ns[p].type /\ ~is_internal(ns[p].type)
      /\ \A q \in l.pages : q \in Pages
      /\ Ascending(new[p])
      /\ \A x : (\E j \in 1 .. Len(new[p].cells) : x = new[p].cells[j])
                  <=> x = c \/ \E j \in 1 .. Len(ns[p].cells) : x = ns[p].cells[j]
  <2>1. SortedAfterPut(ns, new, l, p, c)
    BY PutSorts
  <2>2. QED
    BY <2>1 DEF SortedAfterPut
<1>4. e.val # NoValue
  BY EntryTypes
<1>5. p \in X => ValueIn(new[p], e.key) = e.val
  <2>1. SUFFICES ASSUME p \in X PROVE ValueIn(new[p], e.key) = e.val
    OBVIOUS
  <2>2. ValueIn(ns[p], e.key) = e.val
    BY <1>1, <1>3, <2>1 DEF IsPath
  <2>3. PICK j \in 1 .. Len(ns[p].cells) :
          ns[p].cells[j].key = e.key /\ ns[p].cells[j].val = e.val
    BY <1>3, <1>4, <2>2, FoundCell
  <2>4. PICK x \in 1 .. Len(new[p].cells) : new[p].cells[x] = ns[p].cells[j]
    BY <1>3
  <2>5. ValueIn(new[p], new[p].cells[x].key) = new[p].cells[x].val
    BY <1>3, CellIsFound
  <2>6. QED
    BY <2>3, <2>4, <2>5
<1>6. \A x \in X \ {p} : new[x] = ns[x]
  BY <1>2, <1>3
<1>7. IsPath(new, l, e, X)
  BY <1>1, <1>3, <1>5, <1>6 DEF IsPath
<1>8. QED
  BY <1>7 DEF HasPath

(* The insert's own path, from the root to the page that it visits.        *)
IsTrail(ns, l, tree, here, key, T) ==
    /\ T \subseteq l.pages /\ tree \in T /\ here \in T
    /\ \A x \in T : l.own[x] = tree
    /\ \A x \in T \ {here} : is_internal(ns[x].type) /\ ChildFor(ns[x], key) \in T

(* The cell that it puts is on it.                                         *)
LEMMA TrailIsPath ==
  ASSUME NEW ns, NEW new, NEW count, NEW rts, NEW l, NEW p, NEW i, NEW c,
         PuttingIn(ns, new, count, rts, l, p, i, c),
         NEW tree, NEW T, IsTrail(ns, l, tree, p, c.key, T)
  PROVE  HasPath(new, l, [tree |-> tree, key |-> c.key, val |-> c.val])
<1> DEFINE e == [tree |-> tree, key |-> c.key, val |-> c.val]
<1>1. \A q \in Pages \ {p} : new[q] = ns[q]
  BY DEF PuttingIn
<1>2. /\ new[p] \in BTreeNode
      /\ new[p].type = ns[p].type /\ ~is_internal(ns[p].type)
      /\ \A q \in l.pages : q \in Pages
      /\ Ascending(new[p])
      /\ \A x : (\E j \in 1 .. Len(new[p].cells) : x = new[p].cells[j])
                  <=> x = c \/ \E j \in 1 .. Len(ns[p].cells) : x = ns[p].cells[j]
  <2>1. SortedAfterPut(ns, new, l, p, c)
    BY PutSorts
  <2>2. QED
    BY <2>1 DEF SortedAfterPut
<1>3. ValueIn(new[p], c.key) = c.val
  <2>1. PICK j \in 1 .. Len(new[p].cells) : new[p].cells[j] = c
    BY <1>2
  <2>2. ValueIn(new[p], new[p].cells[j].key) = new[p].cells[j].val
    BY <1>2, CellIsFound
  <2>3. QED
    BY <2>1, <2>2
<1>4. \A x \in T \ {p} : new[x] = ns[x]
  BY <1>1, <1>2 DEF IsTrail
<1>5. e.tree = tree /\ e.key = c.key /\ e.val = c.val
  OBVIOUS
<1> HIDE DEF e
<1>6. IsPath(new, l, e, T) /\ T \in SUBSET l.pages
  BY <1>2, <1>3, <1>4, <1>5 DEF IsPath, IsTrail
<1>7. QED
  BY <1>6 DEF HasPath, e
-----------------------------------------------------------------------------
(* What can be reached in a file.  The functions that FilePagesUnder and   *)
(* Finds ask for exist.                                                    *)

IsIterate(g, N, x, F) ==
    /\ g = [n \in 0 .. N |-> g[n]]
    /\ g[0] = x /\ \A n \in 1 .. N : g[n] = F[g[n - 1]]

LEMMA Iterates ==
  ASSUME NEW N \in Nat, NEW x, NEW F
  PROVE  \E g : IsIterate(g, N, x, F)
<1> DEFINE Upto(v, n) == v[0] = x /\ \A i \in 1 .. n : v[i] = F[v[i - 1]]
           S == {n \in Nat : ~ \E v : Upto(v, n)}
<1>1. ASSUME S # {}
      PROVE  FALSE
  <2>1. PICK n \in S : \A m \in S : n <= m
    BY <1>1, LeastOf
  <2>2. n # 0
    <3>1. Upto([i \in {0} |-> x], 0)
      OBVIOUS
    <3>2. QED
      BY <2>1, <3>1
  <2>3. n - 1 \in Nat /\ n - 1 \notin S
    <3>1. n \in Nat
      BY <2>1
    <3> HIDE DEF S
    <3>2. n - 1 \in Nat /\ n - 1 < n
      BY <2>2, <3>1
    <3>3. QED
      BY <2>1, <3>1, <3>2
  <2>4. PICK v : Upto(v, n - 1)
    BY <2>3
  <2> DEFINE u == [i \in 0 .. n |-> IF i = n THEN F[v[n - 1]] ELSE v[i]]
  <2>5. Upto(u, n)
    <3>1. u[0] = x
      BY <2>1, <2>2, <2>4
    <3>2. ASSUME NEW i \in 1 .. n
          PROVE  u[i] = F[u[i - 1]]
      <4>1. i \in 0 .. n /\ i - 1 \in 0 .. n /\ i - 1 # n
        BY <2>1
      <4>2. u[i - 1] = v[i - 1]
        BY <4>1
      <4>3. CASE i = n
        BY <4>1, <4>2, <4>3
      <4>4. CASE i # n
        <5>1. i \in 1 .. n - 1 /\ u[i] = v[i]
          BY <2>1, <4>1, <4>4
        <5>2. v[i] = F[v[i - 1]]
          BY <2>4, <5>1
        <5>3. QED
          BY <4>2, <5>1, <5>2
      <4>5. QED
        BY <4>3, <4>4
    <3>3. QED
      BY <3>1, <3>2
  <2> HIDE DEF u
  <2>6. QED
    BY <2>1, <2>5
<1>2. PICK v : Upto(v, N)
  BY <1>1
<1> DEFINE u == [i \in 0 .. N |-> v[i]]
<1>3. u[0] = x
  BY <1>2
<1>4. ASSUME NEW i \in 1 .. N
      PROVE  u[i] = F[u[i - 1]]
  <2>1. i \in 0 .. N /\ i - 1 \in 0 .. N
    OBVIOUS
  <2>2. u[i] = v[i] /\ u[i - 1] = v[i - 1]
    BY <2>1
  <2>3. v[i] = F[v[i - 1]]
    BY <1>2
  <2>4. QED
    BY <2>2, <2>3
<1>5. u = [i \in 0 .. N |-> u[i]]
  OBVIOUS
<1> HIDE DEF u
<1>6. QED
  BY <1>3, <1>4, <1>5 DEF IsIterate

(* The pages after n steps from x.                                         *)
IsReach(reach, f, x) ==
    /\ reach[0] = {x} \cap DOMAIN f
    /\ \A n \in 1 .. Len(f) :
         reach[n] = reach[n - 1] \cup UNION {FileChildren(f, p) : p \in reach[n - 1]}

LEMMA ReachIs ==
  ASSUME NEW f \in Seq(BTreeNode), NEW x
  PROVE  \E reach : IsReach(reach, f, x) /\ FilePagesUnder(f, x) = reach[Len(f)]
<1> DEFINE N == Len(f)
           D == DOMAIN f
           start == {x} \cap D
           wider(B) == B \cup UNION {FileChildren(f, p) : p \in B}
           F == [B \in SUBSET D |-> wider(B)]
           Def(g) == g = [n \in 0 .. N |-> IF n = 0 THEN start
                                           ELSE LET before == g[n - 1] IN wider(before)]
           r == CHOOSE g : Def(g)
<1>1. N \in Nat
  OBVIOUS
<1>2. PICK g : IsIterate(g, N, start, F)
  BY <1>1, Iterates
<1>3. \A B \in SUBSET D : F[B] = wider(B) /\ wider(B) \in SUBSET D
  BY DEF FileChildren
<1> DEFINE Out == {n \in 0 .. N : g[n] \notin SUBSET D}
<1>4. Out = {}
  <2>1. SUFFICES ASSUME Out # {} PROVE FALSE
    OBVIOUS
  <2>2. PICK n \in Out : \A m \in Out : n <= m
    <3>1. Out \subseteq Nat
      BY <1>1
    <3> HIDE DEF Out
    <3>2. QED
      BY <2>1, <3>1, LeastOf
  <2>3. g[0] = start /\ start \in SUBSET D /\ \A i \in 1 .. N : g[i] = F[g[i - 1]]
    BY <1>2 DEF IsIterate
  <2> HIDE DEF F, start, D
  <2>4. n # 0 /\ n \in 1 .. N
    BY <2>2, <2>3
  <2>5. n - 1 \in 0 .. N /\ n - 1 < n /\ n \in Nat
    BY <2>4
  <2>6. n - 1 \notin Out
    <3> HIDE DEF Out
    <3>1. QED
      BY <2>2, <2>5
  <2>7. g[n - 1] \in SUBSET D
    BY <2>5, <2>6
  <2>8. g[n] \in SUBSET D
    <3>1. F[g[n - 1]] \in SUBSET D
      BY <1>3, <2>7
    <3>2. QED
      BY <2>3, <2>4, <3>1
  <2>9. QED
    BY <2>2, <2>8
<1> HIDE DEF F, D
<1>5. \A n \in 1 .. N : g[n] = wider(g[n - 1])
  <2>1. SUFFICES ASSUME NEW n \in 1 .. N PROVE g[n] = wider(g[n - 1])
    OBVIOUS
  <2>2. n - 1 \in 0 .. N
    OBVIOUS
  <2>3. g[n - 1] \in SUBSET D
    BY <1>4, <2>2
  <2>4. F[g[n - 1]] = wider(g[n - 1])
    BY <1>3, <2>3
  <2>5. g[n] = F[g[n - 1]]
    BY <1>2 DEF IsIterate
  <2>6. QED
    BY <2>4, <2>5
<1> HIDE DEF wider, start
<1>6. Def(g)
  <2>1. g = [n \in 0 .. N |-> g[n]] /\ g[0] = start
    BY <1>2 DEF IsIterate
  <2>2. ASSUME NEW n \in 0 .. N
        PROVE  g[n] = IF n = 0 THEN start ELSE wider(g[n - 1])
    <3>1. CASE n = 0
      BY <2>1, <3>1
    <3>2. CASE n # 0
      <4>1. n \in 1 .. N
        BY <1>1, <3>2
      <4>2. QED
        BY <1>5, <3>2, <4>1
    <3>3. QED
      BY <3>1, <3>2
  <2>3. [n \in 0 .. N |-> g[n]] = [n \in 0 .. N |-> IF n = 0 THEN start ELSE wider(g[n - 1])]
    BY <2>2
  <2>4. QED
    BY <2>1, <2>3
<1>7. Def(r)
  BY <1>6
<1> HIDE DEF r
<1>8. IsReach(r, f, x)
  <2>1. \A n \in 0 .. N : r[n] = IF n = 0 THEN start ELSE wider(r[n - 1])
    BY <1>7
  <2>2. \A n \in 1 .. N : r[n] = wider(r[n - 1])
    BY <2>1
  <2>3. r[0] = start
    BY <1>1, <2>1
  <2>4. QED
    BY <2>2, <2>3 DEF IsReach, wider, start, D
<1>9. FilePagesUnder(f, x) = r[Len(f)]
  BY DEF FilePagesUnder, r, wider, start, D
<1>10. QED
  BY <1>8, <1>9

(* A file that is read by its marks.                                       *)
Reading(f, rts, l) ==
    /\ f \in Seq(BTreeNode) /\ Len(f) <= MaxPages
    /\ Marked(f, Len(f), rts, l)

FileLinks(f, rts, l) ==
    /\ Len(f) \in Nat /\ DOMAIN f = 1 .. Len(f)
    /\ \A p \in l.pages :
         /\ p \in DOMAIN f /\ p \in Pages /\ f[p] \in BTreeNode
         /\ l.ht[p] \in Nat /\ l.ht[p] < Len(f)
         /\ is_internal(f[p].type) <=> l.ht[p] > 0
         /\ \A q : q \in FileChildren(f, p) <=> q # 0 /\ \E i \in Nat : Link(f, p, i, q)
         /\ \A q \in FileChildren(f, p) :
              /\ q \in l.pages /\ q \notin rts
              /\ l.own[q] = l.own[p] /\ l.ht[p] = l.ht[q] + 1

LEMMA FileLinksAre ==
  ASSUME NEW f, NEW rts, NEW l, Reading(f, rts, l)
  PROVE  FileLinks(f, rts, l)
<1>1. /\ f \in Seq(BTreeNode) /\ MarksTyped(f, Len(f), l)
      /\ LevelsMarked(f, Len(f), rts, l) /\ LinksMarked(f, rts, l)
  BY DEF Reading, Marked
<1>2. Len(f) \in Nat /\ DOMAIN f = 1 .. Len(f)
  BY <1>1
<1>3. ASSUME NEW p \in l.pages
      PROVE  /\ p \in DOMAIN f /\ p \in Pages /\ f[p] \in BTreeNode
             /\ l.ht[p] \in Nat /\ l.ht[p] < Len(f)
             /\ is_internal(f[p].type) <=> l.ht[p] > 0
  BY <1>1, <1>2 DEF MarksTyped, LevelsMarked
<1>4. ASSUME NEW p \in l.pages, NEW q
      PROVE  /\ q \in FileChildren(f, p) <=> q # 0 /\ \E i \in Nat : Link(f, p, i, q)
             /\ q \in FileChildren(f, p) =>
                  /\ q \in l.pages /\ q \notin rts
                  /\ l.own[q] = l.own[p] /\ l.ht[p] = l.ht[q] + 1
  <2>1. q \in Children(f[p]) <=> \E i \in Nat : Link(f, p, i, q)
    BY <1>3, ChildrenAreLinked
  <2>2. ASSUME q # 0, \E i \in Nat : Link(f, p, i, q)
        PROVE  /\ q \in l.pages /\ q \notin rts
               /\ l.own[q] = l.own[p] /\ l.ht[p] = l.ht[q] + 1
    BY <1>1, <2>2 DEF LinksMarked
  <2>3. q \in l.pages => q \in DOMAIN f
    BY <1>3
  <2>4. q \in DOMAIN f => q # 0
    BY <1>2
  <2>5. QED
    BY <2>1, <2>2, <2>3, <2>4 DEF FileChildren
<1>5. QED
  BY <1>2, <1>3, <1>4 DEF FileLinks

(* What FilePagesUnder reaches: pages that no pointer leaves, and no more  *)
(* of them than have to be there.                                          *)
Reached(f, l, x) ==
    LET Y == FilePagesUnder(f, x)
    IN  /\ x \in Y /\ Y \subseteq l.pages
        /\ \A p \in Y : FileChildren(f, p) \subseteq Y
        /\ \A S : x \in S /\ (\A p \in S \cap Y : FileChildren(f, p) \subseteq S) => Y \subseteq S

LEMMA ReachedPages ==
  ASSUME NEW f, NEW rts, NEW l, Reading(f, rts, l), NEW x \in l.pages
  PROVE  Reached(f, l, x)
<1> DEFINE N == Len(f)
<1>1. /\ N \in Nat /\ x \in DOMAIN f /\ f \in Seq(BTreeNode)
      /\ \A p \in l.pages : /\ l.ht[p] \in Nat /\ l.ht[p] < N
                            /\ \A q \in FileChildren(f, p) : q \in l.pages /\ l.ht[p] = l.ht[q] + 1
  <2>1. FileLinks(f, rts, l)
    BY FileLinksAre
  <2>2. QED
    BY <2>1 DEF FileLinks, Reading
<1>2. PICK reach : IsReach(reach, f, x) /\ FilePagesUnder(f, x) = reach[N]
  BY <1>1, ReachIs
<1>3. /\ reach[0] = {x}
      /\ \A n \in 1 .. N : \A q :
           q \in reach[n] <=> q \in reach[n - 1] \/ \E p \in reach[n - 1] : q \in FileChildren(f, p)
  BY <1>1, <1>2 DEF IsReach
<1> DEFINE Y == FilePagesUnder(f, x)
<1> HIDE DEF N
<1>4. ASSUME NEW S, x \in S, \A p \in S : FileChildren(f, p) \subseteq S
      PROVE  \A n \in 0 .. N : reach[n] \subseteq S
  <2> DEFINE Bad == {n \in 0 .. N : ~(reach[n] \subseteq S)}
  <2>1. SUFFICES ASSUME Bad # {} PROVE FALSE
    OBVIOUS
  <2>2. PICK n \in Bad : \A m \in Bad : n <= m
    <3>1. Bad \subseteq Nat
      BY <1>1
    <3> HIDE DEF Bad
    <3>2. QED
      BY <2>1, <3>1, LeastOf
  <2>3. n # 0 /\ n \in 1 .. N /\ n - 1 \in 0 .. N /\ n - 1 < n /\ ~(n <= n - 1)
    BY <1>1, <1>3, <1>4, <2>2
  <2>4. reach[n - 1] \subseteq S
    <3>1. n - 1 \notin Bad
      <4> HIDE DEF Bad
      <4>1. QED
        BY <2>2, <2>3
    <3>2. QED
      BY <2>3, <3>1
  <2>5. reach[n] \subseteq S
    BY <1>3, <1>4, <2>3, <2>4
  <2>6. QED
    BY <2>2, <2>5
<1>5. \A n \in 0 .. N : reach[n] \subseteq l.pages
  <2>1. x \in l.pages /\ \A p \in l.pages : FileChildren(f, p) \subseteq l.pages
    BY <1>1
  <2>2. QED
    BY <1>4, <2>1
<1>6. x \in Y
  <2> DEFINE Bad == {n \in 0 .. N : x \notin reach[n]}
  <2>1. SUFFICES ASSUME Bad # {} PROVE FALSE
    BY <1>1, <1>2
  <2>2. PICK n \in Bad : \A m \in Bad : n <= m
    <3>1. Bad \subseteq Nat
      BY <1>1
    <3> HIDE DEF Bad
    <3>2. QED
      BY <2>1, <3>1, LeastOf
  <2>3. n # 0 /\ n \in 1 .. N /\ n - 1 \in 0 .. N /\ ~(n <= n - 1)
    BY <1>1, <1>3, <2>2
  <2>4. x \in reach[n - 1]
    <3>1. n - 1 \notin Bad
      <4> HIDE DEF Bad
      <4>1. QED
        BY <2>2, <2>3
    <3>2. QED
      BY <2>3, <3>1
  <2>5. x \in reach[n]
    BY <1>3, <2>3, <2>4
  <2>6. QED
    BY <2>2, <2>5
<1>7. \A p \in Y : FileChildren(f, p) \subseteq Y
  <2> DEFINE Shallow(n) == \A p \in reach[n] :
                             l.ht[x] < l.ht[p] + n => FileChildren(f, p) \subseteq reach[n]
             Bad == {n \in 0 .. N : ~Shallow(n)}
  <2>1. Bad = {}
    <3>1. SUFFICES ASSUME Bad # {} PROVE FALSE
      OBVIOUS
    <3>2. PICK n \in Bad : \A m \in Bad : n <= m
      <4>1. Bad \subseteq Nat
        BY <1>1
      <4> HIDE DEF Bad
      <4>2. QED
        BY <3>1, <4>1, LeastOf
    <3>3. n # 0
      <4>1. Shallow(0)
        BY <1>1, <1>3
      <4>2. QED
        BY <3>2, <4>1
    <3>4. n \in 1 .. N /\ n - 1 \in 0 .. N /\ ~(n <= n - 1) /\ n \in Nat /\ n - 1 \in Nat
      <4>1. n \in 0 .. N
        BY <3>2
      <4> HIDE DEF Bad
      <4>2. QED
        BY <1>1, <3>3, <4>1
    <3>5. Shallow(n - 1)
      <4>1. n - 1 \notin Bad
        <5> HIDE DEF Bad
        <5>1. QED
          BY <3>2, <3>4
      <4> HIDE DEF Shallow
      <4>2. QED
        BY <3>4, <4>1
    <3>6. Shallow(n)
      <4>1. SUFFICES ASSUME NEW p \in reach[n], l.ht[x] < l.ht[p] + n
                     PROVE  FileChildren(f, p) \subseteq reach[n]
        OBVIOUS
      <4>2. CASE p \in reach[n - 1]
        BY <1>3, <3>4, <4>2
      <4>3. CASE p \notin reach[n - 1]
        <5>1. PICK o \in reach[n - 1] : p \in FileChildren(f, o)
          BY <1>3, <3>4, <4>3
        <5>2. o \in l.pages /\ p \in l.pages /\ l.ht[o] = l.ht[p] + 1
          BY <1>1, <1>5, <3>4, <5>1
        <5>3. l.ht[x] < l.ht[o] + (n - 1)
          BY <1>1, <3>4, <4>1, <5>2
        <5>4. FileChildren(f, o) \subseteq reach[n - 1]
          BY <3>5, <5>1, <5>3
        <5>5. QED
          BY <4>3, <5>1, <5>4
      <4>4. QED
        BY <4>2, <4>3
    <3>7. QED
      BY <3>2, <3>6
  <2>2. Shallow(N)
    <3>1. N \in 0 .. N
      BY <1>1
    <3> HIDE DEF Shallow
    <3>2. QED
      BY <2>1, <3>1
  <2>3. \A p \in Y : p \in l.pages /\ l.ht[x] < l.ht[p] + N
    <3>1. \A p \in Y : p \in l.pages
      BY <1>1, <1>2, <1>5
    <3>2. \A p \in l.pages : l.ht[x] < l.ht[p] + N
      BY <1>1
    <3>3. QED
      BY <3>1, <3>2
  <2>4. QED
    BY <1>2, <2>2, <2>3
<1>8. ASSUME NEW S, x \in S, \A p \in S \cap Y : FileChildren(f, p) \subseteq S
      PROVE  Y \subseteq S
  <2>1. x \in S \cap Y /\ \A p \in S \cap Y : FileChildren(f, p) \subseteq S \cap Y
    BY <1>6, <1>7, <1>8
  <2>2. \A n \in 0 .. N : reach[n] \subseteq S \cap Y
    <3> DEFINE SY == S \cap Y
    <3>1. x \in SY /\ \A p \in SY : FileChildren(f, p) \subseteq SY
      BY <2>1
    <3> HIDE DEF SY
    <3>2. \A n \in 0 .. N : reach[n] \subseteq SY
      BY <1>4, <3>1
    <3>3. QED
      BY <3>2 DEF SY
  <2>3. N \in 0 .. N
    BY <1>1
  <2>4. QED
    BY <1>2, <2>2, <2>3
<1>9. Y \subseteq l.pages
  <2>1. N \in 0 .. N
    BY <1>1
  <2>2. QED
    BY <1>2, <1>5, <2>1
<1>10. QED
  BY <1>6, <1>7, <1>8, <1>9 DEF Reached
-----------------------------------------------------------------------------
(* What the walk for a key finds in a file, after n pages.                 *)

SearchTypes(f, k) ==
    \A p \in DOMAIN f :
      /\ f[p] \in BTreeNode
      /\ ValueIn(f[p], k) \in Vals \cup {NoValue}
      /\ is_internal(f[p].type) => ChildFor(f[p], k) \in 0 .. MaxPages

LEMMA SearchTyped ==
  ASSUME NEW f \in Seq(BTreeNode), NEW k \in Nat
  PROVE  SearchTypes(f, k)
<1>1. SUFFICES ASSUME NEW p \in DOMAIN f
               PROVE  /\ f[p] \in BTreeNode
                      /\ ValueIn(f[p], k) \in Vals \cup {NoValue}
                      /\ is_internal(f[p].type) => ChildFor(f[p], k) \in 0 .. MaxPages
  BY DEF SearchTypes
<1>2. f[p] \in BTreeNode
  OBVIOUS
<1>3. \A j \in 1 .. Len(f[p].cells) : f[p].cells[j] \in BTreeCell
  BY <1>2 DEF BTreeNode
<1>4. ValueIn(f[p], k) \in Vals \cup {NoValue}
  <2>1. SUFFICES ASSUME ValueIn(f[p], k) # NoValue PROVE ValueIn(f[p], k) \in Vals \cup {NoValue}
    OBVIOUS
  <2>2. PICK j \in 1 .. Len(f[p].cells) :
          f[p].cells[j].key = k /\ f[p].cells[j].val = ValueIn(f[p], k)
    BY <1>2, <2>1, FoundCell
  <2>3. f[p].cells[j] \in BTreeCell
    BY <1>3
  <2>4. f[p].cells[j].val \in Vals \cup {NoValue}
    BY <2>3 DEF BTreeCell
  <2>5. QED
    BY <2>2, <2>4
<1>5. ASSUME is_internal(f[p].type)
      PROVE  ChildFor(f[p], k) \in 0 .. MaxPages
  <2>1. PICK i \in Nat : Link(f, p, i, ChildFor(f[p], k)) /\ SlotOf(f[p], k, i)
    BY <1>2, <1>5, SearchLeads
  <2>2. i \in 1 .. Len(f[p].cells) + 1 /\ ChildFor(f[p], k) = child_at(f[p], i)
    BY <2>1 DEF Link
  <2>3. Len(f[p].cells) \in Nat /\ f[p].right_page \in 0 .. MaxPages
    BY <1>2 DEF BTreeNode
  <2>4. CASE i = Len(f[p].cells) + 1
    BY <2>2, <2>3, <2>4 DEF child_at
  <2>5. CASE i # Len(f[p].cells) + 1
    <3>1. i \in 1 .. Len(f[p].cells)
      BY <2>2, <2>3, <2>5
    <3>2. f[p].cells[i].child \in 0 .. MaxPages
      BY <1>3, <3>1 DEF BTreeCell
    <3>3. QED
      BY <2>2, <2>5, <3>2 DEF child_at
  <2>6. QED
    BY <2>4, <2>5
<1>6. QED
  BY <1>2, <1>4, <1>5

IsSearch(find, f, k) ==
    \A n \in 0 .. Len(f), p \in 0 .. MaxPages :
      find[n][p] = IF p \notin DOMAIN f \/ n = 0 THEN NoValue
                   ELSE IF is_internal(f[p].type) THEN find[n - 1][ChildFor(f[p], k)]
                   ELSE ValueIn(f[p], k)

LEMMA SearchIs ==
  ASSUME NEW f \in Seq(BTreeNode), NEW k \in Nat
  PROVE  \E find : IsSearch(find, f, k) /\ \A r : Finds(f, r, k) = find[Len(f)][r]
<1> DEFINE N == Len(f)
           P == 0 .. MaxPages
           Rows == [P -> Vals \cup {NoValue}]
           none == [p \in P |-> NoValue]
           next(row) == [p \in P |-> IF p \notin DOMAIN f THEN NoValue
                                     ELSE IF is_internal(f[p].type) THEN row[ChildFor(f[p], k)]
                                     ELSE ValueIn(f[p], k)]
           F == [row \in Rows |-> next(row)]
           Value(g, n, p) == IF p \notin DOMAIN f \/ n = 0 THEN NoValue
                             ELSE IF is_internal(f[p].type) THEN g[n - 1][ChildFor(f[p], k)]
                             ELSE ValueIn(f[p], k)
           Def(g) == g = [n \in 0 .. N |-> [p \in P |-> Value(g, n, p)]]
           s == CHOOSE g : Def(g)
<1>1. N \in Nat
  OBVIOUS
<1>2. PICK g : IsIterate(g, N, none, F)
  <2> HIDE DEF F, none
  <2>1. QED
    BY <1>1, Iterates
<1>3. \A row \in Rows : F[row] = next(row) /\ next(row) \in Rows
  <2>1. ASSUME NEW row \in Rows, NEW p \in P
        PROVE  (IF p \notin DOMAIN f THEN NoValue
                ELSE IF is_internal(f[p].type) THEN row[ChildFor(f[p], k)]
                ELSE ValueIn(f[p], k)) \in Vals \cup {NoValue}
    <3>1. p \in DOMAIN f => /\ ValueIn(f[p], k) \in Vals \cup {NoValue}
                            /\ is_internal(f[p].type) => ChildFor(f[p], k) \in P
      <4>1. SearchTypes(f, k)
        BY SearchTyped
      <4>2. QED
        BY <4>1 DEF SearchTypes
    <3>2. QED
      BY <3>1
  <2>2. QED
    BY <2>1
<1>4. g = [n \in 0 .. N |-> g[n]] /\ g[0] = none /\ \A n \in 1 .. N : g[n] = F[g[n - 1]]
  BY <1>2 DEF IsIterate
<1>5. none \in Rows
  OBVIOUS
<1> HIDE DEF F, Rows
<1> DEFINE Out == {n \in 0 .. N : g[n] \notin Rows}
<1>6. Out = {}
  <2>1. SUFFICES ASSUME Out # {} PROVE FALSE
    OBVIOUS
  <2>2. PICK n \in Out : \A m \in Out : n <= m
    <3>1. Out \subseteq Nat
      BY <1>1
    <3> HIDE DEF Out
    <3>2. QED
      BY <2>1, <3>1, LeastOf
  <2> HIDE DEF none, next
  <2>3. n # 0
    BY <1>4, <1>5, <2>2
  <2>4. n \in 1 .. N /\ n - 1 \in 0 .. N /\ ~(n <= n - 1)
    BY <1>1, <2>2, <2>3
  <2>5. n - 1 \notin Out
    <3> HIDE DEF Out
    <3>1. QED
      BY <2>2, <2>4
  <2>6. g[n - 1] \in Rows
    BY <2>4, <2>5
  <2>7. g[n] = F[g[n - 1]]
    BY <1>4, <2>4
  <2>8. F[g[n - 1]] \in Rows
    BY <1>3, <2>6
  <2>9. QED
    BY <2>2, <2>7, <2>8
<1>7. Def(g)
  <2>1. ASSUME NEW n \in 0 .. N
        PROVE  g[n] = [p \in P |-> Value(g, n, p)]
    <3>1. CASE n = 0
      <4>1. \A p \in P : Value(g, n, p) = NoValue
        BY <3>1
      <4> HIDE DEF Value
      <4>2. QED
        BY <1>4, <3>1, <4>1
    <3>2. CASE n # 0
      <4>1. n \in 1 .. N /\ n - 1 \in 0 .. N
        BY <1>1, <3>2
      <4>2. g[n - 1] \in Rows
        BY <1>6, <4>1
      <4>3. g[n] = next(g[n - 1])
        <5> HIDE DEF next
        <5>1. g[n] = F[g[n - 1]]
          BY <1>4, <4>1
        <5>2. F[g[n - 1]] = next(g[n - 1])
          BY <1>3, <4>2
        <5>3. QED
          BY <5>1, <5>2
      <4>4. ASSUME NEW p \in P
            PROVE  next(g[n - 1])[p] = Value(g, n, p)
        BY <3>2
      <4>5. next(g[n - 1]) = [p \in P |-> next(g[n - 1])[p]]
        OBVIOUS
      <4> HIDE DEF next, Value
      <4>6. QED
        BY <4>3, <4>4, <4>5
    <3>3. QED
      BY <3>1, <3>2
  <2> HIDE DEF Value
  <2>2. [n \in 0 .. N |-> g[n]] = [n \in 0 .. N |-> [p \in P |-> Value(g, n, p)]]
    BY <2>1
  <2>3. QED
    BY <1>4, <2>2
<1>8. Def(s)
  <2> HIDE DEF Def
  <2>1. QED
    BY <1>7
<1> HIDE DEF s
<1>9. IsSearch(s, f, k)
  <2>1. \A n \in 0 .. N, p \in P : s[n][p] = Value(s, n, p)
    <3>1. ASSUME NEW n \in 0 .. N, NEW p \in P
          PROVE  s[n][p] = Value(s, n, p)
      <4> HIDE DEF Value, N, P
      <4>1. s[n] = [q \in P |-> Value(s, n, q)]
        BY <1>8
      <4>2. QED
        BY <4>1
    <3>2. QED
      BY <3>1
  <2>2. QED
    BY <2>1 DEF IsSearch, N, P, Value
<1>10. ASSUME NEW r
       PROVE  Finds(f, r, k) = s[Len(f)][r]
  BY DEF Finds, s, Def, Value, N, P
<1>11. QED
  BY <1>9, <1>10

(* The search goes on to a child, if there is one for the key.             *)
LEMMA SearchedChild ==
  ASSUME NEW f, NEW rts, NEW l, Reading(f, rts, l), NEW p \in l.pages,
         is_internal(f[p].type), NEW k \in Nat
  PROVE  LET c == ChildFor(f[p], k)
         IN  c \in 0 .. MaxPages /\ (c # 0 => c \in FileChildren(f, p))
<1>1. p \in DOMAIN f /\ f[p] \in BTreeNode
      /\ \A q : q \in FileChildren(f, p) <=> q # 0 /\ \E i \in Nat : Link(f, p, i, q)
  <2>1. FileLinks(f, rts, l)
    BY FileLinksAre
  <2>2. QED
    BY <2>1 DEF FileLinks
<1>2. \E i \in Nat : Link(f, p, i, ChildFor(f[p], k))
  BY <1>1, SearchLeads
<1>3. ChildFor(f[p], k) \in 0 .. MaxPages
  <2>1. f \in Seq(BTreeNode)
    BY DEF Reading
  <2>2. SearchTypes(f, k)
    BY <2>1, SearchTyped
  <2>3. QED
    BY <1>1, <2>2 DEF SearchTypes
<1>4. QED
  BY <1>1, <1>2, <1>3

(* What has a path is found,                                               *)
LEMMA PathIsFound ==
  ASSUME NEW f, NEW rts, NEW l, Reading(f, rts, l), NEW e \in EntryRecord, HasPath(f, l, e)
  PROVE  Finds(f, e.tree, e.key) = e.val
<1> DEFINE N == Len(f)
           k == e.key
<1>1. PICK X \in SUBSET l.pages : IsPath(f, l, e, X)
  BY DEF HasPath
<1>2. e.tree \in Pages /\ k \in Nat /\ e.val # NoValue /\ f \in Seq(BTreeNode) /\ N <= MaxPages
      /\ N \in Nat
  BY EntryTypes DEF Reading
<1>3. PICK find : IsSearch(find, f, k) /\ \A r : Finds(f, r, k) = find[N][r]
  BY <1>2, SearchIs
<1>4. /\ e.tree \in X
      /\ \A x \in X : /\ x \in l.pages
                      /\ is_internal(f[x].type) => ChildFor(f[x], k) \in X
                      /\ ~is_internal(f[x].type) => ValueIn(f[x], k) = e.val
  BY <1>1 DEF IsPath
<1>5. \A p \in l.pages : /\ p \in DOMAIN f /\ p \in 0 .. MaxPages /\ p # 0
                         /\ l.ht[p] \in Nat /\ l.ht[p] < N
                         /\ \A q \in FileChildren(f, p) : l.ht[p] = l.ht[q] + 1
  <2>1. FileLinks(f, rts, l)
    BY FileLinksAre
  <2>2. MaxPages \in Nat
    BY ConstantsAssumption
  <2>3. QED
    BY <2>1, <2>2 DEF FileLinks, Pages
<1> HIDE DEF N, k
<1> DEFINE Bad == {p \in X : \E n \in 0 .. N : l.ht[p] < n /\ find[n][p] # e.val}
<1>6. Bad = {}
  <2>1. SUFFICES ASSUME Bad # {} PROVE FALSE
    OBVIOUS
  <2>2. \A x \in Bad : l.ht[x] \in Nat
    BY <1>4, <1>5
  <2>3. PICK p \in Bad : \A y \in Bad : l.ht[p] <= l.ht[y]
    <3> HIDE DEF Bad
    <3>1. QED
      BY <2>1, <2>2, LeastRank
  <2>4. PICK n \in 0 .. N : l.ht[p] < n /\ find[n][p] # e.val
    BY <2>3
  <2>5. /\ p \in X /\ p \in l.pages /\ p \in DOMAIN f /\ p \in 0 .. MaxPages
        /\ l.ht[p] \in Nat /\ n # 0 /\ n - 1 \in 0 .. N
    <3>1. p \in X
      BY <2>3
    <3>2. p \in l.pages /\ p \in DOMAIN f /\ p \in 0 .. MaxPages /\ l.ht[p] \in Nat
      BY <1>4, <1>5, <3>1
    <3> HIDE DEF Bad
    <3>3. n # 0 /\ n - 1 \in 0 .. N
      BY <1>2, <2>4, <3>2
    <3>4. QED
      BY <3>1, <3>2, <3>3
  <2>6. find[n][p] = IF is_internal(f[p].type) THEN find[n - 1][ChildFor(f[p], k)]
                     ELSE ValueIn(f[p], k)
    BY <1>3, <2>5 DEF IsSearch, N
  <2>7. CASE is_internal(f[p].type)
    <3> DEFINE c == ChildFor(f[p], k)
    <3>1. c \in X
      BY <1>4, <2>5, <2>7
    <3>2. c \in FileChildren(f, p)
      <4>1. c \in 0 .. MaxPages /\ (c # 0 => c \in FileChildren(f, p))
        BY <1>2, <2>5, <2>7, SearchedChild
      <4>2. c # 0
        BY <1>4, <1>5, <3>1
      <4>3. QED
        BY <4>1, <4>2
    <3> HIDE DEF c, Bad
    <3>3. l.ht[p] = l.ht[c] + 1 /\ l.ht[c] \in Nat
      BY <1>4, <1>5, <2>5, <3>1, <3>2
    <3>4. l.ht[c] < n - 1 /\ ~(l.ht[p] <= l.ht[c])
      BY <1>2, <2>4, <2>5, <3>3
    <3>5. c \notin Bad
      BY <2>3, <3>4
    <3>6. find[n - 1][c] = e.val
      BY <2>5, <3>1, <3>4, <3>5 DEF Bad
    <3>7. QED
      BY <2>4, <2>6, <2>7, <3>6 DEF c
  <2>8. CASE ~is_internal(f[p].type)
    BY <1>4, <2>4, <2>5, <2>6, <2>8
  <2>9. QED
    BY <2>7, <2>8
<1>7. N \in 0 .. N /\ l.ht[e.tree] < N
  BY <1>2, <1>4, <1>5
<1>8. find[N][e.tree] = e.val
  BY <1>4, <1>6, <1>7
<1>9. QED
  BY <1>3, <1>8 DEF k

(* and what is found has one.                                              *)
LEMMA FoundIsPath ==
  ASSUME NEW f, NEW rts, NEW l, Reading(f, rts, l), NEW e \in EntryRecord,
         e.tree \in rts, e.tree \in DOMAIN f, Finds(f, e.tree, e.key) = e.val
  PROVE  HasPath(f, l, e)
<1> DEFINE N == Len(f)
           k == e.key
<1>1. e.tree \in Pages /\ k \in Nat /\ e.val # NoValue /\ f \in Seq(BTreeNode) /\ N \in Nat
  BY EntryTypes DEF Reading
<1>2. PICK find : IsSearch(find, f, k) /\ \A r : Finds(f, r, k) = find[N][r]
  BY <1>1, SearchIs
<1>3. e.tree \in l.pages /\ l.own[e.tree] = e.tree
  <2>1. e.tree \in 1 .. Len(f)
    BY <1>1
  <2>2. QED
    BY <2>1 DEF Reading, Marked, RootsMarked
<1>4. \A p \in l.pages : /\ p \in DOMAIN f /\ p \in 0 .. MaxPages
                         /\ \A q \in FileChildren(f, p) : q \in l.pages /\ l.own[q] = l.own[p]
  <2>1. FileLinks(f, rts, l)
    BY FileLinksAre
  <2>2. MaxPages \in Nat
    BY ConstantsAssumption
  <2>3. QED
    BY <2>1, <2>2 DEF FileLinks, Pages
<1>5. \A n \in 0 .. N, p \in 0 .. MaxPages :
        find[n][p] = IF p \notin DOMAIN f \/ n = 0 THEN NoValue
                     ELSE IF is_internal(f[p].type) THEN find[n - 1][ChildFor(f[p], k)]
                     ELSE ValueIn(f[p], k)
  BY <1>2 DEF IsSearch
<1>6. 0 \notin DOMAIN f
  BY <1>1
<1> DEFINE X == {p \in l.pages : l.own[p] = e.tree /\ \E n \in 0 .. N : find[n][p] = e.val}
<1> HIDE DEF N, k
<1>7. e.tree \in X
  <2>1. N \in 0 .. N /\ find[N][e.tree] = e.val
    BY <1>1, <1>2 DEF k
  <2>2. QED
    BY <1>3, <2>1
<1>8. ASSUME NEW x \in X
      PROVE  /\ l.own[x] = e.tree
             /\ is_internal(f[x].type) => ChildFor(f[x], k) \in X
             /\ ~is_internal(f[x].type) => ValueIn(f[x], k) = e.val
  <2>1. PICK n \in 0 .. N : find[n][x] = e.val
    OBVIOUS
  <2>2. x \in l.pages /\ x \in DOMAIN f /\ x \in 0 .. MaxPages /\ l.own[x] = e.tree
    BY <1>4
  <2> HIDE DEF X
  <2>3. n # 0
    BY <1>1, <1>5, <2>1, <2>2
  <2>4. find[n][x] = IF is_internal(f[x].type) THEN find[n - 1][ChildFor(f[x], k)]
                     ELSE ValueIn(f[x], k)
    BY <1>5, <2>2, <2>3
  <2>5. ASSUME is_internal(f[x].type)
        PROVE  ChildFor(f[x], k) \in X
    <3> DEFINE c == ChildFor(f[x], k)
    <3>1. c \in 0 .. MaxPages /\ (c # 0 => c \in FileChildren(f, x))
      BY <1>1, <2>2, <2>5, SearchedChild
    <3>2. n - 1 \in 0 .. N
      BY <1>1, <2>3
    <3>3. find[n - 1][c] = e.val
      BY <2>1, <2>4, <2>5
    <3> HIDE DEF c
    <3>4. c \in DOMAIN f
      BY <1>1, <1>5, <3>1, <3>2, <3>3
    <3>5. c \in l.pages /\ l.own[c] = e.tree
      BY <1>4, <1>6, <2>2, <3>1, <3>4
    <3>6. c \in X
      BY <3>2, <3>3, <3>5 DEF X
    <3>7. QED
      BY <3>6 DEF c
  <2>6. QED
    BY <2>1, <2>2, <2>4, <2>5
<1>9. X \in SUBSET l.pages
  OBVIOUS
<1> HIDE DEF X
<1>10. IsPath(f, l, e, X)
  BY <1>7, <1>8, <1>9 DEF IsPath, k
<1>11. QED
  BY <1>9, <1>10 DEF HasPath
-----------------------------------------------------------------------------
(* The pages under a page.                                                 *)

UnderPage(f, l, p) ==
    LET Y == FilePagesUnder(f, p)
    IN  /\ p \in Y /\ Y \subseteq l.pages
        /\ \A y \in Y : l.own[y] = l.own[p] /\ l.keys[y] \subseteq l.keys[p]
        /\ ~is_internal(f[p].type) => Y = {p}
        /\ \A c \in FileChildren(f, p) : FilePagesUnder(f, c) \subseteq Y
        /\ \A y \in Y : y = p \/ \E c \in FileChildren(f, p) : y \in FilePagesUnder(f, c)

LEMMA UnderPageIs ==
  ASSUME NEW f, NEW rts, NEW l, Reading(f, rts, l), NEW p \in l.pages
  PROVE  UnderPage(f, l, p)
<1> DEFINE Y == FilePagesUnder(f, p)
<1>1. ASSUME NEW x \in l.pages
      PROVE  /\ x \in FilePagesUnder(f, x) /\ FilePagesUnder(f, x) \subseteq l.pages
             /\ \A y \in FilePagesUnder(f, x) : FileChildren(f, y) \subseteq FilePagesUnder(f, x)
             /\ \A S : /\ x \in S
                       /\ \A y \in S \cap FilePagesUnder(f, x) : FileChildren(f, y) \subseteq S
                       => FilePagesUnder(f, x) \subseteq S
  <2>1. Reached(f, l, x)
    BY ReachedPages
  <2>2. QED
    BY <2>1 DEF Reached
<1>2. FileLinks(f, rts, l)
  BY FileLinksAre
<1>3. \A y \in l.pages : FileChildren(f, y) \subseteq l.pages
  BY <1>2 DEF FileLinks
<1>4. \A y \in l.pages : \A q \in FileChildren(f, y) :
        l.own[q] = l.own[y] /\ l.keys[q] \subseteq l.keys[y]
  <2>1. SUFFICES ASSUME NEW y \in l.pages, NEW q \in FileChildren(f, y)
                 PROVE  l.own[q] = l.own[y] /\ l.keys[q] \subseteq l.keys[y]
    OBVIOUS
  <2>2. q # 0 /\ \E i \in Nat : Link(f, y, i, q)
    BY <1>2 DEF FileLinks
  <2>3. LinksMarked(f, rts, l)
    BY DEF Reading, Marked
  <2>4. QED
    BY <2>2, <2>3 DEF LinksMarked
<1>5. \A y \in Y : l.own[y] = l.own[p] /\ l.keys[y] \subseteq l.keys[p]
  <2> DEFINE S == {y \in l.pages : l.own[y] = l.own[p] /\ l.keys[y] \subseteq l.keys[p]}
  <2>1. p \in S /\ \A y \in S : FileChildren(f, y) \subseteq S
    BY <1>3, <1>4
  <2>2. Y \subseteq S
    <3> HIDE DEF S
    <3>1. QED
      BY <1>1, <2>1
  <2>3. QED
    BY <2>2
<1>6. ASSUME ~is_internal(f[p].type)
      PROVE  Y = {p}
  <2>1. FileChildren(f, p) = {}
    BY <1>6 DEF FileChildren, Children
  <2>2. Y \subseteq {p}
    BY <1>1, <2>1
  <2>3. QED
    BY <1>1, <2>2
<1>7. ASSUME NEW c \in FileChildren(f, p)
      PROVE  FilePagesUnder(f, c) \subseteq Y
  <2>1. c \in l.pages /\ c \in Y
    BY <1>1, <1>3
  <2>2. \A y \in Y : FileChildren(f, y) \subseteq Y
    BY <1>1
  <2> HIDE DEF Y
  <2>3. QED
    BY <1>1, <2>1, <2>2
<1>8. \A y \in Y : y = p \/ \E c \in FileChildren(f, p) : y \in FilePagesUnder(f, c)
  <2> DEFINE S == {p} \cup UNION {FilePagesUnder(f, c) : c \in FileChildren(f, p)}
  <2>1. \A y \in S : FileChildren(f, y) \subseteq S
    <3>1. SUFFICES ASSUME NEW y \in S, NEW q \in FileChildren(f, y) PROVE q \in S
      OBVIOUS
    <3>2. CASE y = p
      <4>1. q \in l.pages /\ q \in FileChildren(f, p)
        BY <1>3, <3>1, <3>2
      <4>2. q \in FilePagesUnder(f, q)
        BY <1>1, <4>1
      <4>3. QED
        BY <4>1, <4>2
    <3>3. CASE y # p
      <4>1. PICK c \in FileChildren(f, p) : y \in FilePagesUnder(f, c)
        BY <3>1, <3>3
      <4>2. c \in l.pages
        BY <1>3
      <4>3. q \in FilePagesUnder(f, c)
        BY <1>1, <3>1, <4>1, <4>2
      <4>4. QED
        BY <4>1, <4>3
    <3>4. QED
      BY <3>2, <3>3
  <2>2. Y \subseteq S
    <3>1. p \in S
      OBVIOUS
    <3> HIDE DEF S
    <3>2. QED
      BY <1>1, <2>1, <3>1
  <2>3. QED
    BY <2>2
<1>9. p \in Y /\ Y \subseteq l.pages
  BY <1>1
<1>10. QED
  BY <1>5, <1>6, <1>7, <1>8, <1>9 DEF UnderPage

(* From a page that leads to a leaf the search for its keys goes there.    *)
LEMMA SearchGoesUnder ==
  ASSUME NEW f, NEW rts, NEW l, Reading(f, rts, l), NEW p \in l.pages,
         is_internal(f[p].type), NEW q \in FilePagesUnder(f, p), ~is_internal(f[q].type),
         NEW k \in l.keys[q]
  PROVE  LET c == ChildFor(f[p], k)
         IN  /\ c \in FileChildren(f, p) /\ c \in l.pages
             /\ q \in FilePagesUnder(f, c)
             /\ l.own[c] = l.own[p] /\ l.ht[p] = l.ht[c] + 1
<1>1. FileLinks(f, rts, l)
  BY FileLinksAre
<1>2. q \in l.pages /\ \E c \in FileChildren(f, p) : q \in FilePagesUnder(f, c)
  <2>1. UnderPage(f, l, p)
    BY UnderPageIs
  <2>2. QED
    BY <2>1 DEF UnderPage
<1>3. PICK c \in FileChildren(f, p) : q \in FilePagesUnder(f, c)
  BY <1>2
<1>4. c \in l.pages /\ l.own[c] = l.own[p] /\ l.ht[p] = l.ht[c] + 1 /\ c # 0
      /\ f[p] \in BTreeNode /\ \E i \in Nat : Link(f, p, i, c)
  BY <1>1 DEF FileLinks
<1>5. k \in l.keys[c]
  <2>1. UnderPage(f, l, c)
    BY <1>4, UnderPageIs
  <2>2. QED
    BY <1>3, <2>1 DEF UnderPage
<1>6. k \in Nat
  BY <1>2 DEF Reading, Marked, MarksTyped
<1>7. PICK i \in Nat : Link(f, p, i, c)
  BY <1>4
<1>8. SlotOf(f[p], k, i)
  BY <1>4, <1>5, <1>7 DEF Reading, Marked, LinksMarked
<1>9. c = ChildFor(f[p], k)
  BY <1>4, <1>6, <1>7, <1>8, SlotLeads
<1>10. QED
  BY <1>3, <1>4, <1>9

(* What is lost with a page: the entries whose path leads through it are   *)
(* under it.                                                               *)
LEMMA PathLeadsUnder ==
  ASSUME NEW f, NEW rts, NEW l, Reading(f, rts, l), NEW e \in EntryRecord,
         NEW X, IsPath(f, l, e, X), NEW c \in X
  PROVE  e \in EntriesUnder(f, e.tree, c)
<1> DEFINE Y == FilePagesUnder(f, c)
           S == X \cap Y
<1>1. /\ e.key \in Nat /\ e.val # NoValue
      /\ e = [tree |-> e.tree, key |-> e.key, val |-> e.val]
  BY EntryTypes DEF EntryRecord
<1>2. /\ X \subseteq l.pages
      /\ \A x \in X : /\ is_internal(f[x].type) => ChildFor(f[x], e.key) \in X
                      /\ ~is_internal(f[x].type) => ValueIn(f[x], e.key) = e.val
  BY DEF IsPath
<1>3. FileLinks(f, rts, l)
  BY FileLinksAre
<1>4. c \in Y /\ \A y \in Y : FileChildren(f, y) \subseteq Y
  <2>1. Reached(f, l, c)
    BY <1>2, ReachedPages
  <2>2. QED
    BY <2>1 DEF Reached
<1>5. \A x \in S : l.ht[x] \in Nat
  BY <1>2, <1>3 DEF FileLinks
<1>6. PICK x \in S : \A y \in S : l.ht[x] <= l.ht[y]
  <2>1. S # {}
    BY <1>4
  <2> HIDE DEF S
  <2>2. QED
    BY <1>5, <2>1, LeastRank
<1>7. ~is_internal(f[x].type)
  <2>1. SUFFICES ASSUME is_internal(f[x].type) PROVE FALSE
    OBVIOUS
  <2> DEFINE d == ChildFor(f[x], e.key)
  <2>2. d \in X /\ x \in l.pages /\ d \in l.pages
    BY <1>2, <2>1
  <2>3. d # 0
    <3>1. 0 \notin DOMAIN f
      BY <1>3 DEF FileLinks
    <3>2. QED
      BY <1>3, <2>2, <3>1 DEF FileLinks
  <2>4. d \in FileChildren(f, x)
    <3>1. d \in 0 .. MaxPages /\ (d # 0 => d \in FileChildren(f, x))
      BY <1>1, <2>1, <2>2, SearchedChild
    <3>2. QED
      BY <2>3, <3>1
  <2> HIDE DEF d
  <2>5. d \in S /\ l.ht[x] = l.ht[d] + 1 /\ l.ht[d] \in Nat
    BY <1>3, <1>4, <2>2, <2>4 DEF FileLinks
  <2>6. l.ht[x] <= l.ht[d]
    BY <1>6, <2>5
  <2> HIDE DEF S
  <2>7. QED
    BY <2>5, <2>6
<1>8. f[x] \in BTreeNode /\ ValueIn(f[x], e.key) = e.val /\ x \in Y
  BY <1>2, <1>3, <1>6, <1>7 DEF FileLinks
<1>9. PICK j \in 1 .. Len(f[x].cells) : f[x].cells[j].key = e.key /\ f[x].cells[j].val = e.val
  BY <1>1, <1>8, FoundCell
<1>10. e = [tree |-> e.tree, key |-> f[x].cells[j].key, val |-> f[x].cells[j].val]
  BY <1>1, <1>9
<1> HIDE DEF S, Y
<1>11. QED
  BY <1>7, <1>8, <1>10 DEF EntriesUnder, Y

(* A cell of a leaf that can be reached from root r.                       *)
ReachedCell(f, l, r, q, i) ==
    /\ q \in FilePagesUnder(f, r) /\ ~is_internal(f[q].type)
    /\ i \in 1 .. Len(f[q].cells)

LEMMA ReachedCellFacts ==
  ASSUME NEW f, NEW rts, NEW l, Reading(f, rts, l), NEW r \in rts, r \in DOMAIN f,
         NEW q, NEW i, ReachedCell(f, l, r, q, i)
  PROVE  /\ r \in l.pages /\ l.own[r] = r /\ q \in l.pages
         /\ f[q] \in BTreeNode /\ Ascending(f[q])
         /\ f[q].cells[i].key \in l.keys[q]
         /\ f[q].cells[i].val # NoValue
<1>1. FileLinks(f, rts, l)
  BY FileLinksAre
<1>2. r \in 1 .. Len(f)
  BY <1>1 DEF FileLinks
<1>3. r \in l.pages /\ l.own[r] = r
  BY <1>2 DEF Reading, Marked, RootsMarked
<1>4. q \in l.pages
  <2>1. Reached(f, l, r)
    BY <1>3, ReachedPages
  <2>2. QED
    BY <2>1 DEF Reached, ReachedCell
<1>5. SortedNode(f[q], l.keys[q])
  BY <1>4 DEF Reading, Marked, CellsMarked
<1>6. QED
  BY <1>1, <1>3, <1>4, <1>5 DEF FileLinks, SortedNode, ReachedCell

(* It is on a path,                                                        *)
LEMMA ReachedCellHasPath ==
  ASSUME NEW f, NEW rts, NEW l, Reading(f, rts, l), NEW r \in rts, r \in DOMAIN f,
         NEW q, NEW i, ReachedCell(f, l, r, q, i)
  PROVE  LET c == f[q].cells[i]
         IN  HasPath(f, l, [tree |-> r, key |-> c.key, val |-> c.val])
<1> DEFINE c == f[q].cells[i]
           e == [tree |-> r, key |-> c.key, val |-> c.val]
           X == {x \in l.pages : l.own[x] = r /\ q \in FilePagesUnder(f, x)}
<1>1. /\ r \in l.pages /\ l.own[r] = r /\ q \in l.pages
      /\ f[q] \in BTreeNode /\ Ascending(f[q])
      /\ c.key \in l.keys[q]
  BY ReachedCellFacts
<1>2. ~is_internal(f[q].type) /\ i \in 1 .. Len(f[q].cells) /\ r \in X
  BY <1>1 DEF ReachedCell
<1>3. e.tree = r /\ e.key = c.key /\ e.val = c.val
  OBVIOUS
<1> HIDE DEF c
<1>4. ASSUME NEW x \in X, is_internal(f[x].type)
      PROVE  ChildFor(f[x], c.key) \in X
  <2>1. /\ ChildFor(f[x], c.key) \in l.pages
        /\ q \in FilePagesUnder(f, ChildFor(f[x], c.key))
        /\ l.own[ChildFor(f[x], c.key)] = l.own[x]
    BY <1>1, <1>2, <1>4, SearchGoesUnder
  <2>2. QED
    BY <1>4, <2>1
<1>5. ASSUME NEW x \in X, ~is_internal(f[x].type)
      PROVE  ValueIn(f[x], c.key) = c.val
  <2>1. q = x
    <3>1. UnderPage(f, l, x)
      BY UnderPageIs
    <3>2. QED
      BY <1>5, <3>1 DEF UnderPage
  <2>2. QED
    BY <1>1, <1>2, <2>1, CellIsFound DEF c
<1>6. X \in SUBSET l.pages /\ \A x \in X : l.own[x] = r
  OBVIOUS
<1> HIDE DEF X, e
<1>7. IsPath(f, l, e, X)
  BY <1>2, <1>3, <1>4, <1>5, <1>6 DEF IsPath
<1>8. HasPath(f, l, e)
  BY <1>6, <1>7 DEF HasPath
<1>9. QED
  BY <1>8 DEF e, c

(* and the only one with its key.                                          *)
LEMMA ReachedCellIsAlone ==
  ASSUME NEW f, NEW rts, NEW l, Reading(f, rts, l), NEW r \in rts, r \in DOMAIN f,
         NEW q, NEW i, ReachedCell(f, l, r, q, i),
         NEW q2, NEW i2, ReachedCell(f, l, r, q2, i2),
         f[q].cells[i].key = f[q2].cells[i2].key
  PROVE  q = q2 /\ i = i2
<1> DEFINE k == f[q].cells[i].key
<1>1. /\ r \in l.pages /\ q \in l.pages
      /\ f[q] \in BTreeNode /\ Ascending(f[q])
      /\ k \in l.keys[q]
  BY ReachedCellFacts
<1>2. k \in l.keys[q2]
  <2>1. f[q2].cells[i2].key \in l.keys[q2]
    BY ReachedCellFacts
  <2>2. QED
    BY <2>1
<1>3. /\ q \in FilePagesUnder(f, r) /\ ~is_internal(f[q].type) /\ i \in 1 .. Len(f[q].cells)
      /\ q2 \in FilePagesUnder(f, r) /\ ~is_internal(f[q2].type) /\ i2 \in 1 .. Len(f[q2].cells)
  BY DEF ReachedCell
<1> HIDE DEF k
<1> DEFINE Both == {x \in l.pages : q \in FilePagesUnder(f, x) /\ q2 \in FilePagesUnder(f, x)}
<1>4. \A x \in l.pages : l.ht[x] \in Nat
  <2>1. FileLinks(f, rts, l)
    BY FileLinksAre
  <2>2. QED
    BY <2>1 DEF FileLinks
<1>5. PICK x \in Both : \A y \in Both : l.ht[x] <= l.ht[y]
  <2>1. r \in Both /\ \A y \in Both : l.ht[y] \in Nat
    BY <1>1, <1>3, <1>4
  <2> HIDE DEF Both
  <2>2. QED
    BY <2>1, LeastRank
<1>6. ~is_internal(f[x].type)
  <2>1. SUFFICES ASSUME is_internal(f[x].type) PROVE FALSE
    OBVIOUS
  <2> DEFINE c == ChildFor(f[x], k)
  <2>2. c \in l.pages /\ q \in FilePagesUnder(f, c) /\ l.ht[x] = l.ht[c] + 1
    BY <1>1, <1>3, <2>1, SearchGoesUnder
  <2>3. q2 \in FilePagesUnder(f, c)
    BY <1>2, <1>3, <2>1, SearchGoesUnder
  <2> HIDE DEF c
  <2>4. c \in Both /\ l.ht[c] \in Nat
    BY <1>4, <2>2, <2>3
  <2>5. l.ht[x] <= l.ht[c]
    BY <1>5, <2>4
  <2> HIDE DEF Both
  <2>6. QED
    BY <2>2, <2>4, <2>5
<1>7. q = q2
  <2>1. x \in l.pages /\ q \in FilePagesUnder(f, x) /\ q2 \in FilePagesUnder(f, x)
    BY <1>5
  <2>2. UnderPage(f, l, x)
    BY <2>1, UnderPageIs
  <2>3. QED
    BY <1>6, <2>1, <2>2 DEF UnderPage
<1>8. i = i2
  <2>1. /\ i \in 1 .. Len(f[q].cells) /\ i2 \in 1 .. Len(f[q].cells)
        /\ f[q].cells[i].key = f[q].cells[i2].key
    BY <1>3, <1>7
  <2>2. Len(f[q].cells) \in Nat /\ \A j \in 1 .. Len(f[q].cells) : f[q].cells[j] \in BTreeCell
    BY <1>1 DEF BTreeNode
  <2>3. f[q].cells[i].key \in Nat /\ f[q].cells[i2].key \in Nat
    BY <2>1, <2>2 DEF BTreeCell
  <2>4. i \in Nat /\ i2 \in Nat
    BY <2>1, <2>2
  <2>5. /\ i < i2 => f[q].cells[i].key < f[q].cells[i2].key
        /\ i2 < i => f[q].cells[i2].key < f[q].cells[i].key
    BY <1>1, <2>1 DEF Ascending, Ascends, KeysOf
  <2>6. QED
    BY <2>1, <2>3, <2>4, <2>5
<1>9. QED
  BY <1>7, <1>8

(* So what can be read can be found.                                       *)
LEMMA ReadIsFound ==
  ASSUME NEW f, NEW rts, NEW l, Reading(f, rts, l), NEW r \in rts, r \in DOMAIN f,
         NEW e \in EntriesUnder(f, r, r)
  PROVE  /\ e \in EntryRecord /\ e.tree = r /\ HasPath(f, l, e)
         /\ Finds(f, r, e.key) = e.val
         /\ Cardinality(CellsWith(f, r, e.key)) = 1
<1>0. PICK q \in {y \in FilePagesUnder(f, r) : ~is_internal(f[y].type)} :
        \E i \in 1 .. Len(f[q].cells) :
          e = [tree |-> r, key |-> f[q].cells[i].key, val |-> f[q].cells[i].val]
  BY DEF EntriesUnder
<1>1. PICK i \in 1 .. Len(f[q].cells) :
        e = [tree |-> r, key |-> f[q].cells[i].key, val |-> f[q].cells[i].val]
  BY <1>0
<1>2. ReachedCell(f, l, r, q, i)
  BY DEF ReachedCell
<1>3. e.tree = r /\ e.key = f[q].cells[i].key /\ e.val = f[q].cells[i].val
  BY <1>1
<1>4. /\ r \in l.pages /\ f[q] \in BTreeNode
      /\ f[q].cells[i].val # NoValue
  BY <1>2, ReachedCellFacts
<1>5. e \in EntryRecord
  <2>1. f[q].cells[i] \in BTreeCell
    BY <1>4 DEF BTreeNode
  <2>2. f[q].cells[i].key \in Nat /\ f[q].cells[i].val \in Vals
    BY <1>4, <2>1 DEF BTreeCell
  <2>3. r \in Pages
    BY <1>4 DEF Reading, Marked, MarksTyped
  <2>4. QED
    BY <1>1, <2>2, <2>3 DEF EntryRecord
<1>6. HasPath(f, l, e)
  <2>1. HasPath(f, l, [tree |-> r, key |-> f[q].cells[i].key, val |-> f[q].cells[i].val])
    BY <1>2, ReachedCellHasPath
  <2>2. QED
    BY <1>1, <2>1
<1>7. Finds(f, r, e.key) = e.val
  <2>1. Finds(f, e.tree, e.key) = e.val
    BY <1>5, <1>6, PathIsFound
  <2>2. QED
    BY <1>3, <2>1
<1>8. CellsWith(f, r, e.key) = {<<q, i>>}
  <2>1. <<q, i>> \in CellsWith(f, r, e.key)
    BY <1>3 DEF CellsWith
  <2>2. ASSUME NEW w \in CellsWith(f, r, e.key)
        PROVE  w = <<q, i>>
    <3>1. PICK y \in FilePagesUnder(f, r) : /\ ~is_internal(f[y].type)
                                            /\ \E j \in 1 .. Len(f[y].cells) :
                                                 f[y].cells[j].key = e.key /\ w = <<y, j>>
      BY <2>2 DEF CellsWith
    <3>2. PICK j \in 1 .. Len(f[y].cells) : f[y].cells[j].key = e.key /\ w = <<y, j>>
      BY <3>1
    <3>3. ReachedCell(f, l, r, y, j)
      BY <3>1 DEF ReachedCell
    <3>4. f[q].cells[i].key = f[y].cells[j].key
      BY <1>3, <3>2
    <3>5. q = y /\ i = j
      BY <1>2, <3>3, <3>4, ReachedCellIsAlone
    <3>6. QED
      BY <3>2, <3>5
  <2>3. QED
    BY <2>1, <2>2
<1>9. Cardinality(CellsWith(f, r, e.key)) = 1
  BY <1>8, SingletonCardinality
<1>10. QED
  BY <1>3, <1>5, <1>6, <1>7, <1>9
-----------------------------------------------------------------------------
(* The trees that can be reached.                                          *)

(* A root that is not in the file leads nowhere.                           *)
LEMMA NothingUnder ==
  ASSUME NEW f \in Seq(BTreeNode), NEW r, r \notin DOMAIN f
  PROVE  FilePagesUnder(f, r) = {}
<1> DEFINE N == Len(f)
<1>1. N \in Nat
  OBVIOUS
<1>2. PICK reach : IsReach(reach, f, r) /\ FilePagesUnder(f, r) = reach[N]
  BY ReachIs
<1>3. /\ reach[0] = {}
      /\ \A n \in 1 .. N : reach[n - 1] = {} => reach[n] = {}
  BY <1>2 DEF IsReach
<1> HIDE DEF N
<1> DEFINE Bad == {n \in 0 .. N : reach[n] # {}}
<1>4. Bad = {}
  <2>1. SUFFICES ASSUME Bad # {} PROVE FALSE
    OBVIOUS
  <2>2. PICK n \in Bad : \A m \in Bad : n <= m
    <3>1. Bad \subseteq Nat
      BY <1>1
    <3> HIDE DEF Bad
    <3>2. QED
      BY <2>1, <3>1, LeastOf
  <2>3. n # 0 /\ n \in 1 .. N /\ n - 1 \in 0 .. N /\ ~(n <= n - 1) /\ reach[n] # {}
    BY <1>1, <1>3, <2>2
  <2>4. n - 1 \notin Bad
    <3> HIDE DEF Bad
    <3>1. QED
      BY <2>2, <2>3
  <2>5. QED
    BY <1>3, <2>3, <2>4
<1>5. N \in 0 .. N
  BY <1>1
<1>6. QED
  BY <1>2, <1>4, <1>5

(* The root of what it leads to is its own.                                *)
LEMMA OwnPages ==
  ASSUME NEW f, NEW rts, NEW l, Reading(f, rts, l), NEW r \in rts, NEW p \in FilePagesUnder(f, r)
  PROVE  /\ r \in l.pages /\ l.own[r] = r
         /\ p \in l.pages /\ l.own[p] = r
<1>1. r \in DOMAIN f
  <2>1. f \in Seq(BTreeNode)
    BY DEF Reading
  <2>2. QED
    BY <2>1, NothingUnder
<1>2. r \in 1 .. Len(f)
  <2>1. FileLinks(f, rts, l)
    BY FileLinksAre
  <2>2. QED
    BY <1>1, <2>1 DEF FileLinks
<1>3. r \in l.pages /\ l.own[r] = r
  BY <1>2 DEF Reading, Marked, RootsMarked
<1>4. UnderPage(f, l, r)
  BY <1>3, UnderPageIs
<1>5. QED
  BY <1>3, <1>4 DEF UnderPage

(* Each pointer that can be read is a link of a marked page.               *)
LEMMA ReachedPointer ==
  ASSUME NEW f, NEW l, Reading(f, roots, l), NEW p, NEW w
  PROVE  w \in FilePointersTo(f, p) <=>
           \E s \in roots : \E x \in FilePagesUnder(f, s) : \E i \in Nat :
             w = <<x, i>> /\ Link(f, x, i, p)
<1>1. ASSUME NEW s \in roots, NEW x \in FilePagesUnder(f, s)
      PROVE  Len(f[x].cells) \in Nat
  <2>1. x \in l.pages
    BY OwnPages
  <2>2. f[x] \in BTreeNode
    BY <2>1 DEF Reading, Marked, MarksTyped
  <2>3. QED
    BY <2>2 DEF BTreeNode
<1>2. ASSUME w \in FilePointersTo(f, p)
      PROVE  \E s \in roots : \E x \in FilePagesUnder(f, s) : \E i \in Nat :
               w = <<x, i>> /\ Link(f, x, i, p)
  <2>1. w \in FilePointers(f) /\ child_at(f[w[1]], w[2]) = p
    BY <1>2 DEF FilePointersTo
  <2>2. PICK x \in UNION {FilePagesUnder(f, s) : s \in roots} :
          is_internal(f[x].type) /\ \E i \in 1 .. Len(f[x].cells) + 1 : w = <<x, i>>
    BY <2>1 DEF FilePointers
  <2>3. PICK i \in 1 .. Len(f[x].cells) + 1 : w = <<x, i>>
    BY <2>2
  <2>4. PICK s \in roots : x \in FilePagesUnder(f, s)
    BY <2>2
  <2>5. i \in Nat
    BY <1>1, <2>3, <2>4
  <2>6. w[1] = x /\ w[2] = i
    BY <2>3
  <2>7. Link(f, x, i, p)
    BY <2>1, <2>2, <2>3, <2>6 DEF Link
  <2>8. QED
    BY <2>3, <2>4, <2>5, <2>7
<1>3. ASSUME NEW s \in roots, NEW x \in FilePagesUnder(f, s), NEW i \in Nat,
             w = <<x, i>>, Link(f, x, i, p)
      PROVE  w \in FilePointersTo(f, p)
  <2>1. is_internal(f[x].type) /\ i \in 1 .. Len(f[x].cells) + 1 /\ p = child_at(f[x], i)
    BY <1>3 DEF Link
  <2>2. w \in FilePointers(f)
    BY <1>3, <2>1 DEF FilePointers
  <2>3. w[1] = x /\ w[2] = i
    BY <1>3
  <2>4. QED
    BY <2>1, <2>2, <2>3 DEF FilePointersTo
<1>4. QED
  BY <1>2, <1>3

LEMMA ReachedTrees ==
  ASSUME NEW f, NEW l, Reading(f, roots, l), NEW r \in roots, NEW p \in FilePagesUnder(f, r)
  PROVE  /\ \A s \in roots \ {r} : p \notin FilePagesUnder(f, s)
         /\ Cardinality(FilePointersTo(f, p)) = IF p = r THEN 0 ELSE 1
<1>1. r \in l.pages /\ p \in l.pages /\ l.own[p] = r
  BY OwnPages
<1>2. \A s \in roots \ {r} : p \notin FilePagesUnder(f, s)
  <2>1. SUFFICES ASSUME NEW s \in roots \ {r}, p \in FilePagesUnder(f, s) PROVE FALSE
    OBVIOUS
  <2>2. l.own[p] = s
    BY <2>1, OwnPages
  <2>3. QED
    BY <1>1, <2>2
<1>3. FileLinks(f, roots, l)
  BY FileLinksAre
<1>4. p # 0
  BY <1>1, <1>3 DEF FileLinks
<1>5. LinksMarked(f, roots, l) /\ OneMarkedLink(f, l)
  BY DEF Reading, Marked
<1>6. ASSUME p = r
      PROVE  Cardinality(FilePointersTo(f, p)) = 0
  <2>1. ASSUME NEW w \in FilePointersTo(f, p)
        PROVE  FALSE
    <3>1. PICK s \in roots : \E x \in FilePagesUnder(f, s) : \E i \in Nat :
            w = <<x, i>> /\ Link(f, x, i, p)
      BY ReachedPointer
    <3>2. PICK x \in FilePagesUnder(f, s) : \E i \in Nat : Link(f, x, i, p)
      BY <3>1
    <3>3. x \in l.pages
      BY OwnPages
    <3>4. p \notin roots
      BY <1>4, <1>5, <3>2, <3>3 DEF LinksMarked
    <3>5. QED
      BY <1>6, <3>4
  <2>2. FilePointersTo(f, p) = {}
    BY <2>1
  <2>3. QED
    BY <2>2, FS_EmptySet
<1>7. ASSUME p # r
      PROVE  Cardinality(FilePointersTo(f, p)) = 1
  <2> DEFINE Y == FilePagesUnder(f, r)
             S == Y \ {p}
  <2>1. PICK x \in Y : p \in FileChildren(f, x)
    <3>1. SUFFICES ASSUME \A x \in Y : p \notin FileChildren(f, x) PROVE FALSE
      OBVIOUS
    <3>2. Reached(f, l, r)
      BY <1>1, ReachedPages
    <3>3. /\ r \in Y /\ \A x \in Y : FileChildren(f, x) \subseteq Y
          /\ r \in S /\ (\A x \in S \cap Y : FileChildren(f, x) \subseteq S) => Y \subseteq S
      BY <3>2 DEF Reached
    <3> HIDE DEF Y
    <3>4. \A x \in S \cap Y : FileChildren(f, x) \subseteq S
      BY <3>1, <3>3
    <3>5. p \in Y /\ r \in S
      BY <1>7, <3>3 DEF Y
    <3>6. QED
      BY <3>3, <3>4, <3>5
  <2>2. x \in l.pages
    BY OwnPages
  <2>3. PICK i \in Nat : Link(f, x, i, p)
    BY <1>3, <2>1, <2>2 DEF FileLinks
  <2>4. <<x, i>> \in FilePointersTo(f, p)
    BY <2>1, <2>3, ReachedPointer
  <2>5. ASSUME NEW w \in FilePointersTo(f, p)
        PROVE  w = <<x, i>>
    <3>1. PICK s \in roots : \E y \in FilePagesUnder(f, s) : \E j \in Nat :
            w = <<y, j>> /\ Link(f, y, j, p)
      BY ReachedPointer
    <3>2. PICK y \in FilePagesUnder(f, s) : \E j \in Nat :
            w = <<y, j>> /\ Link(f, y, j, p)
      BY <3>1
    <3>3. PICK j \in Nat : w = <<y, j>> /\ Link(f, y, j, p)
      BY <3>2
    <3>4. y \in l.pages
      BY OwnPages
    <3>5. y = x /\ j = i
      BY <1>4, <1>5, <2>2, <2>3, <3>3, <3>4 DEF OneMarkedLink
    <3>6. QED
      BY <3>3, <3>5
  <2>6. FilePointersTo(f, p) = {<<x, i>>}
    BY <2>4, <2>5
  <2>7. QED
    BY <2>6, SingletonCardinality
<1>8. QED
  BY <1>2, <1>6, <1>7
-----------------------------------------------------------------------------
(* The invariant.  Trees: marks of the first n pages of ns, by which each  *)
(* entry of A has a path.                                                  *)
Trees(ns, n, rts, l, A) ==
    Marked(ns, n, rts, l) /\ \A e \in A : HasPath(ns, l, e)

(* A file from which the entries of A can be read, and those that writes w *)
(* make of file f.                                                         *)
Kept(f, rts, A) ==
    /\ f \in Seq(BTreeNode) /\ Len(f) <= MaxPages
    /\ \E l : Trees(f, Len(f), rts, l, A)

KeptAll(f, w, rts, A) == \A i \in 0 .. Len(w) : Kept(ViewsOf(f, w)[i], rts, A)

(* The insert in progress came by a trail for its key to its page, which   *)
(* takes the key.                                                          *)
Going(ns, l, o) ==
    o # Idle => /\ o.btc.key \in l.keys[o.npage]
                /\ FitsIn(ns[o.npage].type, o.btc.key)
                /\ o.btc.val \in Vals
                /\ \E T \in SUBSET l.pages : IsTrail(ns, l, o.nroot, o.npage, o.btc.key, T)

(* The nodes make trees with all entries whose insert returned; and so do  *)
(* the file and each of the files that the writes of the call make of it,  *)
(* but for the entries at risk.                                            *)
ForestInv ==
    /\ 1 \in roots
    /\ \A e \in acked : e \in EntryRecord /\ e.tree \in roots
    /\ Kept(file, roots, acked \ atRisk)
    /\ KeptAll(Flushed, todo, roots, acked \ atRisk)
    /\ \E l : Trees(nodes, n_pages, roots, l, acked) /\ Going(nodes, l, op)

(* They are the trees of any file with the same pages,                     *)
LEMMA SameTrees ==
  ASSUME NEW ns, NEW n \in Nat, NEW rts, NEW l, NEW A, Trees(ns, n, rts, l, A),
         NEW new, \A p \in 1 .. n : new[p] = ns[p],
         NEW rts2, rts2 \cap (1 .. n) = rts \cap (1 .. n)
  PROVE  Trees(new, n, rts2, l, A)
<1>1. Marked(ns, n, rts, l) /\ \A e \in A : HasPath(ns, l, e)
  BY DEF Trees
<1>2. \A p \in l.pages : new[p] = ns[p]
  BY <1>1 DEF Marked, MarksTyped
<1>3. Marked(new, n, rts2, l)
  BY <1>1, <1>2, SameMarks
<1>4. ASSUME NEW e \in A PROVE HasPath(new, l, e)
  <2>1. PICK X \in SUBSET l.pages : IsPath(ns, l, e, X)
    BY <1>1 DEF HasPath
  <2>2. IsPath(new, l, e, X)
    BY <1>2, <2>1, SamePath
  <2>3. QED
    BY <2>2 DEF HasPath
<1>5. QED
  BY <1>3, <1>4 DEF Trees

(* and of the file that they make.                                         *)
LEMMA TreesAreKept ==
  ASSUME NEW f, NEW ns, NEW n \in Nat, n <= MaxPages, Holds(f, ns, n),
         NEW rts, NEW l, NEW A, Trees(ns, n, rts, l, A),
         NEW rts2, rts2 \cap (1 .. n) = rts \cap (1 .. n)
  PROVE  Kept(f, rts2, A)
<1>1. f \in Seq(BTreeNode) /\ Len(f) = n /\ \A p \in 1 .. n : f[p] = ns[p]
  BY DEF Holds
<1>2. Trees(f, n, rts2, l, A)
  BY <1>1, SameTrees
<1>3. QED
  BY <1>1, <1>2 DEF Kept

LEMMA KeptLess ==
  ASSUME NEW f, NEW rts, NEW A, Kept(f, rts, A), NEW B, B \subseteq A
  PROVE  Kept(f, rts, B)
BY DEF Kept, Trees

(* The files of no write.                                                  *)
LEMMA NoViews ==
  ASSUME NEW f, NEW rts, NEW A, Kept(f, rts, A)
  PROVE  KeptAll(f, << >>, rts, A)
<1> DEFINE w == << >>
<1>1. Len(w) \in Nat /\ Len(w) = 0
  OBVIOUS
<1> HIDE DEF w
<1>2. ViewsOf(f, w)[0] = f
  BY <1>1, FirstViews
<1>3. \A i \in 0 .. Len(w) : i = 0
  BY <1>1
<1>4. KeptAll(f, w, rts, A)
  BY <1>2, <1>3 DEF KeptAll
<1>5. QED
  BY <1>4 DEF w

(* A call reads first: the file is then the first of those of its writes.  *)
LEMMA CallKeeps ==
  ASSUME NEW w, Len(w) \in Nat, NEW risk, Call(w, risk),
         KeptAll(Flushed, w, roots', acked' \ risk)
  PROVE  Kept(file, roots, acked \ atRisk)' /\ KeptAll(Flushed, todo, roots, acked \ atRisk)'
<1>1. file' = Flushed /\ buffer' = None /\ todo' = w /\ atRisk' = risk
  BY DEF Call
<1>2. Flushed' = Flushed
  BY <1>1, NothingToFlush DEF Flushed
<1>3. ViewsOf(Flushed, w)[0] = Flushed /\ 0 \in 0 .. Len(w)
  BY FirstViews
<1>4. Kept(Flushed, roots', acked' \ risk)
  BY <1>3 DEF KeptAll
<1>5. Kept(file, roots, acked \ atRisk)'
  BY <1>1, <1>4
<1>6. KeptAll(Flushed, todo, roots, acked \ atRisk)'
  BY <1>1, <1>2
<1>7. QED
  BY <1>5, <1>6

(* Between two calls the file and the page in the stream are the nodes.    *)
LEMMA ReturnedKept ==
  ASSUME WritesInv, Returned, NEW l, NEW A, Trees(nodes, n_pages, roots, l, A),
         NEW rts2, rts2 \cap (1 .. n_pages) = roots \cap (1 .. n_pages)
  PROVE  Kept(Flushed, rts2, A)
<1>1. Holds(Flushed, nodes, n_pages) /\ n_pages \in Nat
  BY ReturnedFacts
<1>2. n_pages <= MaxPages
  BY <1>1, ConstantsAssumption DEF WritesInv, NodesInv, Pages
<1>3. QED
  BY <1>1, <1>2, TreesAreKept

(* A call that writes nothing.                                             *)
LEMMA QuietKeepsForest ==
  ASSUME WritesInv, ForestInv, Returned, Call(<< >>, {}),
         UNCHANGED <<nodes, n_pages, roots, acked>>,
         NEW l, Trees(nodes, n_pages, roots, l, acked), Going(nodes, l, op')
  PROVE  ForestInv'
<1>1. KeptAll(Flushed, << >>, roots, acked \ {})
  <2>1. Kept(Flushed, roots, acked \ {})
    <3>1. Kept(Flushed, roots, acked)
      BY ReturnedKept
    <3>2. acked \ {} = acked
      OBVIOUS
    <3>3. QED
      BY <3>1, <3>2
  <2>2. QED
    BY <2>1, NoViews
<1>2. Kept(file, roots, acked \ atRisk)' /\ KeptAll(Flushed, todo, roots, acked \ atRisk)'
  <2> DEFINE w == << >>
  <2>1. Call(w, {}) /\ Len(w) \in Nat /\ KeptAll(Flushed, w, roots', acked' \ {})
    BY <1>1
  <2> HIDE DEF w
  <2>2. QED
    BY <2>1, CallKeeps
<1>3. Trees(nodes, n_pages, roots, l, acked)' /\ Going(nodes', l, op')
  OBVIOUS
<1>4. 1 \in roots' /\ \A e \in acked' : e \in EntryRecord /\ e.tree \in roots'
  BY DEF ForestInv
<1>5. QED
  BY <1>2, <1>3, <1>4 DEF ForestInv

(* chidb_Pager_writePage.                                                  *)
LEMMA WritePageKeepsForest ==
  ASSUME WritesInv, ForestInv, WritePage
  PROVE  ForestInv'
<1>1. /\ todo # << >> /\ file' = Flushed /\ buffer' = Head(todo) /\ todo' = Tail(todo)
      /\ UNCHANGED <<nodes, n_pages, roots, op, acked, atRisk>>
  BY DEF WritePage, vars
<1>2. todo \in Seq(PageWrite)
  BY DEF WritesInv, FileInv, Leads
<1>3. /\ Len(Tail(todo)) = Len(todo) - 1 /\ Len(todo) \in Nat /\ Len(todo) >= 1
      /\ \A i \in 0 .. Len(todo) - 1 :
           ViewsOf(Flush(Flushed, Head(todo)), Tail(todo))[i] = ViewsOf(Flushed, todo)[i + 1]
  BY <1>1, <1>2, ViewsAfterFirst
<1>4. Flushed' = Flush(Flushed, Head(todo))
  BY <1>1 DEF Flushed
<1>5. \A i \in 0 .. Len(todo) : Kept(ViewsOf(Flushed, todo)[i], roots, acked \ atRisk)
  BY DEF ForestInv, KeptAll
<1>6. Kept(file', roots, acked \ atRisk)
  <2>1. ViewsOf(Flushed, todo)[0] = Flushed /\ 0 \in 0 .. Len(todo)
    BY <1>3, FirstViews
  <2>2. QED
    BY <1>1, <1>5, <2>1
<1>7. KeptAll(Flushed', todo', roots, acked \ atRisk)
  <2>1. SUFFICES ASSUME NEW i \in 0 .. Len(Tail(todo))
                 PROVE  Kept(ViewsOf(Flush(Flushed, Head(todo)), Tail(todo))[i],
                             roots, acked \ atRisk)
    BY <1>1, <1>4 DEF KeptAll
  <2>2. i \in 0 .. Len(todo) - 1 /\ i + 1 \in 0 .. Len(todo)
    BY <1>3
  <2>3. QED
    BY <1>3, <1>5, <2>2
<1>8. /\ Kept(file, roots, acked \ atRisk)'
      /\ KeptAll(Flushed, todo, roots, acked \ atRisk)'
  BY <1>1, <1>6, <1>7
<1>9. \E l : Trees(nodes', n_pages', roots', l, acked') /\ Going(nodes', l, op')
  BY <1>1 DEF ForestInv
<1>10. 1 \in roots' /\ \A e \in acked' : e \in EntryRecord /\ e.tree \in roots'
  BY <1>1 DEF ForestInv
<1>11. QED
  BY <1>8, <1>9, <1>10 DEF ForestInv

(* insertNonFull: what an insert finds where it is.                        *)
GoingIs(l) ==
    /\ op \in Insertion /\ op # Idle /\ op.npage \in 1 .. n_pages /\ op.nroot \in roots
    /\ op.btc \in BTreeCell /\ op.btc.key \in Nat
    /\ Marked(nodes, n_pages, roots, l)
    /\ op.npage \in l.pages
    /\ op.btc.key \in l.keys[op.npage] /\ FitsIn(nodes[op.npage].type, op.btc.key)
    /\ op.btc.val \in Vals

LEMMA GoingFacts ==
  ASSUME WritesInv, op # Idle, NEW l, Trees(nodes, n_pages, roots, l, acked), Going(nodes, l, op)
  PROVE  /\ GoingIs(l)
         /\ \E T \in SUBSET l.pages : IsTrail(nodes, l, op.nroot, op.npage, op.btc.key, T)
<1>1. op \in Insertion /\ op.npage \in 1 .. n_pages /\ op.nroot \in roots
  BY DEF WritesInv, NodesInv
<1>2. op.btc \in BTreeCell /\ op.btc.key \in Nat
  BY <1>1, InsertionType
<1>3. PICK T \in SUBSET l.pages : IsTrail(nodes, l, op.nroot, op.npage, op.btc.key, T)
  BY DEF Going
<1>4. op.npage \in l.pages
  BY <1>3 DEF IsTrail
<1>5. GoingIs(l)
  BY <1>1, <1>2, <1>4 DEF GoingIs, Trees, Going
<1>6. QED
  BY <1>3, <1>5

(* At a leaf that has the key; and where a crash left no page to go to.    *)
LEMMA RejectKeepsForest ==
  ASSUME WritesInv, ForestInv, CallReject \/ RejectPageNumber
  PROVE  ForestInv'
<1>1. /\ Returned /\ Call(<< >>, {}) /\ UNCHANGED <<nodes, n_pages, roots, acked>>
      /\ op' = Idle
  BY DEF CallReject, RejectDuplicate, RejectPageNumber
<1>2. PICK l : Trees(nodes, n_pages, roots, l, acked)
  BY DEF ForestInv
<1>3. Going(nodes, l, op')
  BY <1>1 DEF Going
<1>4. QED
  BY <1>1, <1>2, <1>3, QuietKeepsForest

(* At an internal node: the slot at which it goes on.                      *)
LEMMA GoingOn ==
  ASSUME SafeSizes, WritesInv, Returned, AtInternal, ChildHere, NEW l, GoingIs(l)
  PROVE  LET pos == find_position(nodes[op.npage], op.btc.key)
             child == child_at(nodes[op.npage], pos)
         IN  /\ Visiting(nodes, n_pages, roots, l, op.npage, pos, child, op.btc.key)
             /\ pos \in 1 .. Len(nodes[op.npage].cells) + 1 /\ pos \in Nat
             /\ child = ChildFor(nodes[op.npage], op.btc.key)
<1> DEFINE here == op.npage
           key == op.btc.key
           pos == find_position(nodes[here], key)
           child == child_at(nodes[here], pos)
<1>1. /\ here \in l.pages /\ key \in Nat /\ key \in l.keys[here]
      /\ Marked(nodes, n_pages, roots, l)
  BY DEF GoingIs
<1>2. /\ here \in 1 .. n_pages /\ nodes \in [Pages -> BTreeNode]
      /\ \A p \in 1 .. n_pages : p \in Pages
      /\ child \in (1 .. n_pages) \ {here} /\ is_internal(nodes[here].type)
  BY VisitedIsGood DEF AtInternal
<1>3. nodes[here] \in BTreeNode
  BY <1>2
<1>4. pos \in 1 .. Len(nodes[here].cells) + 1 /\ SlotOf(nodes[here], key, pos)
  BY <1>1, <1>3, PositionFound, SlotFound
<1>5. Len(nodes[here].cells) \in Nat
  BY <1>3, CellTypes
<1>6. child = ChildFor(nodes[here], key)
  BY DEF ChildFor
<1> HIDE DEF pos
<1>7. pos \in Nat
  BY <1>4, <1>5
<1>8. Link(nodes, here, pos, child) /\ child # 0
  BY <1>2, <1>4 DEF Link
<1> HIDE DEF child
<1>9. Visiting(nodes, n_pages, roots, l, here, pos, child, key)
  BY <1>1, <1>4, <1>7, <1>8 DEF Visiting
<1>10. QED
  BY <1>4, <1>6, <1>7, <1>9 DEF pos, child

(* The marks that bring the key to the child: the trail goes on there.     *)
LEMMA GrownTrees ==
  ASSUME NEW ns, NEW count, NEW rts, NEW l, NEW A, Trees(ns, count, rts, l, A),
         NEW p, NEW i, NEW c, NEW k, Visiting(ns, count, rts, l, p, i, c, k),
         NEW tree, NEW T, IsTrail(ns, l, tree, p, k, T),
         c = ChildFor(ns[p], k), is_internal(ns[p].type)
  PROVE  LET l2 == GrowMarks(l, c, k)
         IN  /\ Trees(ns, count, rts, l2, A)
             /\ IsTrail(ns, l2, tree, c, k, T \cup {c})
             /\ T \cup {c} \subseteq l2.pages
             /\ k \in l2.keys[c]
             /\ is_index(ns[c].type) <=> is_index(ns[p].type)
<1> DEFINE l2 == GrowMarks(l, c, k)
<1>1. /\ Marked(ns, count, rts, l2)
      /\ l2.pages = l.pages /\ l2.own = l.own
      /\ k \in l2.keys[c]
      /\ c \in l.pages /\ l.own[c] = l.own[p]
      /\ is_index(ns[c].type) <=> is_index(ns[p].type)
  BY GrowKeepsMarks
<1> HIDE DEF l2
<1>2. ASSUME NEW e \in A PROVE HasPath(ns, l2, e)
  BY <1>1 DEF Trees, HasPath, IsPath
<1>3. Trees(ns, count, rts, l2, A)
  BY <1>1, <1>2 DEF Trees
<1>4. IsTrail(ns, l2, tree, c, k, T \cup {c}) /\ T \cup {c} \subseteq l2.pages
  BY <1>1 DEF IsTrail
<1>5. QED
  BY <1>1, <1>3, <1>4 DEF l2

LEMMA DescendKeepsForest ==
  ASSUME SafeSizes, WritesInv, ForestInv, CallDescend
  PROVE  ForestInv'
<1> DEFINE here == op.npage
           key == op.btc.key
           pos == find_position(nodes[here], key)
           child == child_at(nodes[here], pos)
<1>1. Returned /\ ChildHere /\ Descend /\ Call(<< >>, {}) /\ AtInternal /\ acked' = acked
      /\ op # Idle /\ is_internal(nodes[here].type)
  BY DEF CallDescend, Descend, AtInternal
<1>2. PICK l : Trees(nodes, n_pages, roots, l, acked) /\ Going(nodes, l, op)
  BY DEF ForestInv
<1>3. GoingIs(l)
  BY <1>1, <1>2, GoingFacts
<1>4. PICK T \in SUBSET l.pages : IsTrail(nodes, l, op.nroot, here, key, T)
  BY <1>1, <1>2, GoingFacts
<1>5. /\ Visiting(nodes, n_pages, roots, l, here, pos, child, key)
      /\ child = ChildFor(nodes[here], key)
  BY <1>1, <1>3, GoingOn
<1>6. /\ op' = [op EXCEPT !.npage = child]
      /\ UNCHANGED <<nodes, n_pages, roots>>
  BY <1>1, <1>5 DEF Descend
<1> HIDE DEF pos, child
<1> DEFINE l2 == GrowMarks(l, child, key)
           T2 == T \cup {child}
<1>7. /\ Trees(nodes, n_pages, roots, l2, acked)
      /\ IsTrail(nodes, l2, op.nroot, child, key, T2) /\ T2 \subseteq l2.pages
      /\ key \in l2.keys[child]
      /\ is_index(nodes[child].type) <=> is_index(nodes[here].type)
  <2>1. /\ Trees(nodes, n_pages, roots, l, acked)
        /\ Visiting(nodes, n_pages, roots, l, here, pos, child, key)
        /\ IsTrail(nodes, l, op.nroot, here, key, T)
        /\ child = ChildFor(nodes[here], key) /\ is_internal(nodes[here].type)
    BY <1>1, <1>2, <1>4, <1>5
  <2> HIDE DEF here, key
  <2>2. QED
    BY ONLY <2>1, GrownTrees
<1> HIDE DEF l2, T2
<1>8. op \in Insertion /\ op'.npage = child /\ op'.btc = op.btc /\ op'.nroot = op.nroot
  BY <1>3, <1>6 DEF GoingIs, Insertion
<1>9. FitsIn(nodes[child].type, key)
  BY <1>3, <1>7 DEF GoingIs, FitsIn
<1>10. Going(nodes, l2, op')
  BY <1>3, <1>7, <1>8, <1>9 DEF Going, GoingIs
<1>11. QED
  BY <1>1, <1>6, <1>7, <1>10, QuietKeepsForest

(* The writes of a call lead to its nodes: the last of the files has their *)
(* trees.                                                                  *)
LEMMA CallLeads ==
  ASSUME WritesInv', NEW w, NEW risk, Call(w, risk)
  PROVE  /\ Leads(Flushed, w, nodes', n_pages') /\ n_pages' \in Nat /\ n_pages' <= MaxPages
         /\ w \in Seq(PageWrite) /\ Len(w) \in Nat
<1>1. file' = Flushed /\ buffer' = None /\ todo' = w
  BY DEF Call
<1>2. Flushed' = Flushed
  BY <1>1, NothingToFlush DEF Flushed
<1>3. Leads(Flushed', todo', nodes', n_pages') /\ n_pages' \in Pages
  BY DEF WritesInv, FileInv, NodesInv
<1>4. n_pages' \in Nat /\ n_pages' <= MaxPages
  BY <1>3, ConstantsAssumption DEF Pages
<1>5. Leads(Flushed, w, nodes', n_pages')
  BY <1>1, <1>2, <1>3
<1>6. w \in Seq(PageWrite)
  BY <1>5 DEF Leads
<1>7. QED
  BY <1>4, <1>5, <1>6

LEMMA LastIsKept ==
  ASSUME NEW f, NEW w, NEW ns, NEW n \in Nat, n <= MaxPages, Leads(f, w, ns, n),
         NEW rts, NEW l, NEW A, Trees(ns, n, rts, l, A)
  PROVE  Kept(ViewsOf(f, w)[Len(w)], rts, A)
<1>1. Holds(ViewsOf(f, w)[Len(w)], ns, n)
  BY DEF Leads
<1>2. QED
  BY <1>1, TreesAreKept

LEMMA OneWriteKeeps ==
  ASSUME WritesInv', NEW b, NEW risk, Call(<<b>>, risk),
         Kept(Flushed, roots', acked' \ risk),
         NEW l, Trees(nodes', n_pages', roots', l, acked')
  PROVE  Kept(file, roots, acked \ atRisk)' /\ KeptAll(Flushed, todo, roots, acked \ atRisk)'
<1> DEFINE w == <<b>>
           A == acked' \ risk
<1>1. Call(w, risk) /\ Len(w) = 1 /\ w[1] = b
  OBVIOUS
<1> HIDE DEF w
<1>2. /\ Leads(Flushed, w, nodes', n_pages') /\ n_pages' \in Nat /\ n_pages' <= MaxPages
      /\ Len(w) \in Nat
  BY <1>1, CallLeads
<1>3. Kept(ViewsOf(Flushed, w)[Len(w)], roots', acked')
  BY <1>2, LastIsKept
<1>4. Kept(ViewsOf(Flushed, w)[Len(w)], roots', A)
  BY <1>3, KeptLess
<1>5. Kept(ViewsOf(Flushed, w)[0], roots', A)
  <2>1. ViewsOf(Flushed, w)[0] = Flushed
    BY <1>2, FirstViews
  <2>2. QED
    BY <2>1
<1>6. \A i \in 0 .. Len(w) : i = 0 \/ i = Len(w)
  BY <1>1
<1>7. KeptAll(Flushed, w, roots', A)
  BY <1>4, <1>5, <1>6 DEF KeptAll
<1>8. QED
  BY <1>1, <1>2, <1>7, CallKeeps

(* At a leaf that has not the key: it is put where a search looks for it.  *)
LEMMA LeafPut ==
  ASSUME WritesInv, Returned, InsertInLeaf, NEW l, GoingIs(l), nodes' \in [Pages -> BTreeNode]
  PROVE  LET c == Stored(nodes[op.npage].type, op.btc)
         IN  /\ PuttingIn(nodes, nodes', n_pages, roots, l, op.npage,
                          find_position(nodes[op.npage], op.btc.key), c)
             /\ c.key = op.btc.key /\ c.val = op.btc.val
<1> DEFINE p == op.npage
           key == op.btc.key
           i == find_position(nodes[p], key)
           c == Stored(nodes[p].type, op.btc)
           new == insertCell(nodes[p], i, op.btc)
<1>1. /\ op \in Insertion /\ p \in 1 .. n_pages /\ op.btc \in BTreeCell /\ key \in Nat
      /\ Marked(nodes, n_pages, roots, l) /\ p \in l.pages
      /\ key \in l.keys[p] /\ FitsIn(nodes[p].type, key) /\ op.btc.val \in Vals
  BY DEF GoingIs
<1>2. /\ ~is_internal(nodes[p].type) /\ ~HoldsKey(nodes[p], key)
      /\ nodes' = [nodes EXCEPT ![p] = new]
  BY DEF InsertInLeaf, AtLeaf
<1>3. p \in Pages /\ nodes \in [Pages -> BTreeNode] /\ nodes[p] \in BTreeNode
  BY <1>1 DEF WritesInv, NodesInv, Marked, MarksTyped
<1>4. c \in BTreeCell /\ c.key = key /\ c.val = op.btc.val /\ c.val # NoValue
  <2>1. c \in BTreeCell
    <3>1. SoundNodes(nodes, n_pages) /\ nodes[1].type # Unallocated
      BY ReturnedFacts DEF InsertInLeaf, AtLeaf, WritesInv, NodesInv
    <3>2. nodes[p].type \in NodeTypes
      BY <1>1, <1>3, <3>1, PagesAreNodes
    <3>3. QED
      BY <1>1, <3>2, StoredType
  <2>2. c.key = key
    BY <1>1 DEF Stored, FitsIn
  <2>3. c.val = op.btc.val
    BY <1>2 DEF Stored, is_internal
  <2>4. op.btc.val # NoValue
    BY <1>1, ConstantsAssumption
  <2>5. QED
    BY <2>1, <2>2, <2>3, <2>4
<1>5. /\ i \in 1 .. Len(nodes[p].cells) + 1
      /\ SlotOf(nodes[p], key, i)
      /\ i <= Len(nodes[p].cells) => nodes[p].cells[i].key # key
  BY <1>1, <1>2, <1>3, PositionFound, SlotFound DEF HoldsKey
<1> HIDE DEF i
<1>6. /\ new.type = nodes[p].type
      /\ new.cells = InsertAt(nodes[p].cells, i, c)
  BY <1>3 DEF insertCell, BTreeNode
<1> HIDE DEF c, new
<1>7. /\ Len(new.cells) = Len(nodes[p].cells) + 1
      /\ new.cells[i] = c
      /\ \A x \in 1 .. Len(nodes[p].cells) :
           new.cells[IF x < i THEN x ELSE x + 1] = nodes[p].cells[x]
  <2>1. nodes[p].cells \in Seq(BTreeCell)
    BY <1>3, CellTypes
  <2> DEFINE cells == InsertAt(nodes[p].cells, i, c)
  <2>2. /\ Len(cells) = Len(nodes[p].cells) + 1
        /\ cells[i] = c
        /\ \A x \in 1 .. Len(nodes[p].cells) :
             cells[IF x < i THEN x ELSE x + 1] = nodes[p].cells[x]
    BY <1>4, <1>5, <2>1, InsertAtCells
  <2>3. new.cells = cells
    BY <1>6
  <2> HIDE DEF cells
  <2>4. QED
    BY <2>2, <2>3
<1>8. nodes'[p] = new /\ \A q \in Pages \ {p} : nodes'[q] = nodes[q]
  BY <1>2, <1>3
<1>9. IsPut(nodes[p], nodes'[p], i, c)
  BY <1>4, <1>5, <1>6, <1>7, <1>8 DEF IsPut
<1>10. PuttingIn(nodes, nodes', n_pages, roots, l, p, i, c)
  BY <1>1, <1>2, <1>3, <1>4, <1>8, <1>9 DEF PuttingIn
<1>11. QED
  BY <1>4, <1>10 DEF i, c

LEMMA InsertInLeafKeepsForest ==
  ASSUME SafeSizes, WritesInv, ForestInv, CallInsertInLeaf
  PROVE  ForestInv'
<1> DEFINE p == op.npage
           key == op.btc.key
           i == find_position(nodes[p], key)
           c == Stored(nodes[p].type, op.btc)
           entry == [tree |-> op.nroot, key |-> key, val |-> op.btc.val]
<1>1. /\ Returned /\ InsertInLeaf /\ op # Idle /\ op' = Idle /\ UNCHANGED <<n_pages, roots>>
      /\ Call(<<Write(p, nodes'[p])>>, {entry})
      /\ acked' = acked \cup {entry}
  BY DEF CallInsertInLeaf, InsertInLeaf, AtLeaf
<1>2. WritesInv'
  BY InsertInLeafKeepsWrites
<1>3. PICK l : Trees(nodes, n_pages, roots, l, acked) /\ Going(nodes, l, op)
  BY DEF ForestInv
<1>4. GoingIs(l)
  BY <1>1, <1>3, GoingFacts
<1>5. PICK T \in SUBSET l.pages : IsTrail(nodes, l, op.nroot, p, key, T)
  BY <1>1, <1>3, GoingFacts
<1>6. /\ PuttingIn(nodes, nodes', n_pages, roots, l, p, i, c)
      /\ c.key = key /\ c.val = op.btc.val
  BY <1>1, <1>2, <1>4, LeafPut DEF WritesInv, NodesInv
<1>7. entry \in EntryRecord /\ entry.tree \in roots /\ entry.tree = op.nroot
  <2>1. op.nroot \in roots /\ op.nroot \in Pages /\ key \in Nat /\ op.btc.val \in Vals
    BY <1>4 DEF GoingIs, Insertion
  <2>2. QED
    BY <2>1 DEF EntryRecord
<1> HIDE DEF i, c
<1>8. Marked(nodes', n_pages, roots, l)
  BY <1>6, PutKeepsMarks
<1>9. ASSUME NEW e \in acked PROVE HasPath(nodes', l, e)
  <2>1. e \in EntryRecord /\ HasPath(nodes, l, e)
    BY <1>3 DEF ForestInv, Trees
  <2>2. QED
    BY <1>6, <2>1, PutKeepsPath
<1>10. HasPath(nodes', l, entry)
  <2>1. IsTrail(nodes, l, op.nroot, p, c.key, T)
    BY <1>5, <1>6
  <2>2. HasPath(nodes', l, [tree |-> op.nroot, key |-> c.key, val |-> c.val])
    BY ONLY <1>6, <2>1, TrailIsPath
  <2>3. QED
    BY <1>6, <2>2
<1> HIDE DEF entry
<1>11. Trees(nodes', n_pages', roots', l, acked')
  BY <1>1, <1>8, <1>9, <1>10 DEF Trees
<1>12. Kept(Flushed, roots', acked' \ {entry})
  <2>1. Kept(Flushed, roots, acked)
    BY <1>1, <1>3, ReturnedKept
  <2>2. acked' \ {entry} \subseteq acked
    BY <1>1
  <2>3. QED
    BY <1>1, <2>1, <2>2, KeptLess
<1>13. Kept(file, roots, acked \ atRisk)' /\ KeptAll(Flushed, todo, roots, acked \ atRisk)'
  BY <1>1, <1>2, <1>11, <1>12, OneWriteKeeps
<1>14. Going(nodes', l, op')
  BY <1>1 DEF Going
<1>15. 1 \in roots' /\ \A e \in acked' : e \in EntryRecord /\ e.tree \in roots'
  BY <1>1, <1>7 DEF ForestInv
<1>16. QED
  BY <1>11, <1>13, <1>14, <1>15 DEF ForestInv

(* A new tree.                                                             *)
LEMMA NewTreeKeepsForest ==
  ASSUME SafeSizes, WritesInv, ForestInv, CallNewTree
  PROVE  ForestInv'
<1>1. PICK t \in LeafTypes : NewTree(t) /\ Call(newNode(n_pages', t), {})
  BY DEF CallNewTree
<1> DEFINE p == n_pages'
           node == initEmptyNode(p, t)
           b == Write(p, node)
<1>2. /\ n_pages \in Pages /\ nodes \in [Pages -> BTreeNode] /\ MaxPages \in Nat
      /\ roots \subseteq 1 .. n_pages /\ n_pages \in Nat
  BY ConstantsAssumption DEF WritesInv, NodesInv, Pages
<1>3. /\ Returned /\ op' = Idle /\ p = n_pages + 1 /\ n_pages < MaxPages
      /\ roots' = roots \cup {p} /\ nodes' = [nodes EXCEPT ![p] = node]
      /\ acked' = acked
  BY <1>1 DEF NewTree, CallNewTree
<1>4. p \in Pages /\ p \in Nat
  BY <1>2, <1>3 DEF Pages
<1>5. WritesInv'
  BY NewTreeKeepsWrites
<1>6. PICK l : Trees(nodes, n_pages, roots, l, acked)
  BY DEF ForestInv
<1>7. t \in NodeTypes /\ ~is_internal(t)
  BY DEF LeafTypes, NodeTypes, is_internal, TABLE_LEAF, TABLE_INTERNAL, INDEX_LEAF,
         INDEX_INTERNAL
<1>8. node \in BTreeNode /\ node.type = t /\ node.cells = << >>
  BY <1>4, <1>7, BlankIsSound
<1> HIDE DEF node
<1>9. nodes'[p] = node /\ \A q \in Pages \ {p} : nodes'[q] = nodes[q]
  BY <1>2, <1>3, <1>4
<1>10. Marked(nodes, n_pages, roots, l) /\ \A q \in l.pages : q \in 1 .. n_pages /\ q \in Pages
  BY <1>6 DEF Trees, Marked, MarksTyped
<1>11. p \notin 1 .. n_pages /\ 1 .. p = (1 .. n_pages) \cup {p}
  BY <1>2, <1>3
<1>12. \A q \in l.pages : nodes'[q] = nodes[q]
  BY <1>9, <1>10, <1>11
<1>13. Rooting(nodes, n_pages, roots, l, nodes', p, roots')
  BY <1>2, <1>3, <1>4, <1>7, <1>8, <1>9, <1>10, <1>11, <1>12 DEF Rooting
<1> HIDE DEF p
<1> DEFINE l2 == NewRootMarks(l, p)
<1>14. /\ Marked(nodes', p, roots', l2)
       /\ l2.pages = l.pages \cup {p} /\ p \notin l.pages
       /\ \A q \in l.pages : l2.own[q] = l.own[q]
  BY <1>13, NewRootMarked
<1> HIDE DEF l2
<1>15. ASSUME NEW e \in acked PROVE HasPath(nodes', l2, e)
  <2>1. PICK X \in SUBSET l.pages : IsPath(nodes, l, e, X)
    BY <1>6 DEF Trees, HasPath
  <2>2. /\ X \subseteq l2.pages /\ \A x \in X : l2.own[x] = l.own[x] /\ nodes'[x] = nodes[x]
    BY <1>12, <1>14
  <2>3. IsPath(nodes', l2, e, X)
    BY <2>1, <2>2, SamePath
  <2>4. QED
    BY <2>2, <2>3 DEF HasPath
<1>16. Trees(nodes', n_pages', roots', l2, acked')
  BY <1>3, <1>14, <1>15 DEF Trees, p
<1>17. Kept(Flushed, roots', acked' \ {})
  <2>1. roots' \cap (1 .. n_pages) = roots \cap (1 .. n_pages)
    BY <1>3, <1>11
  <2>2. Kept(Flushed, roots', acked)
    BY <1>3, <1>6, <2>1, ReturnedKept
  <2>3. acked' \ {} = acked
    BY <1>3
  <2>4. QED
    BY <2>2, <2>3
<1>18. Call(<<b>>, {})
  BY <1>1 DEF newNode, p, node
<1> HIDE DEF b
<1>19. Kept(file, roots, acked \ atRisk)' /\ KeptAll(Flushed, todo, roots, acked \ atRisk)'
  BY <1>5, <1>16, <1>17, <1>18, OneWriteKeeps
<1>20. Going(nodes', l2, op')
  BY <1>3 DEF Going
<1>21. 1 \in roots' /\ \A e \in acked' : e \in EntryRecord /\ e.tree \in roots'
  BY <1>3 DEF ForestInv
<1>22. QED
  BY <1>16, <1>19, <1>20, <1>21 DEF ForestInv

(* An entry that is not under page c has a path that does not pass c.      *)
LEMMA PathAround ==
  ASSUME NEW f, NEW ns, NEW n \in Nat, n <= MaxPages, Holds(f, ns, n),
         NEW rts, NEW l, Marked(ns, n, rts, l), NEW e \in EntryRecord, HasPath(ns, l, e),
         NEW c, NEW r, l.own[c] = r, e \notin EntriesUnder(f, r, c)
  PROVE  \E X \in SUBSET l.pages : IsPath(ns, l, e, X) /\ c \notin X
<1>1. PICK X \in SUBSET l.pages : IsPath(ns, l, e, X)
  BY DEF HasPath
<1>2. f \in Seq(BTreeNode) /\ Len(f) = n /\ \A p \in l.pages : f[p] = ns[p]
  BY DEF Holds, Marked, MarksTyped
<1>3. Reading(f, rts, l)
  <2>1. rts \cap (1 .. n) = rts \cap (1 .. n)
    OBVIOUS
  <2>2. Marked(f, n, rts, l)
    BY <1>2, SameMarks
  <2>3. QED
    BY <1>2, <2>2 DEF Reading
<1>4. IsPath(f, l, e, X)
  BY <1>1, <1>2, SamePath
<1>5. ASSUME c \in X PROVE FALSE
  <2>1. e \in EntriesUnder(f, e.tree, c)
    BY <1>3, <1>4, <1>5, PathLeadsUnder
  <2>2. e.tree = r
    BY <1>1, <1>5 DEF IsPath
  <2>3. QED
    BY <2>1, <2>2
<1>6. QED
  BY <1>1, <1>5

(* A full page that is marked and its parent are what a split needs.       *)
Parting(ns, new, count, nM, rts, l, parent, i, child) ==
    /\ ns \in [Pages -> BTreeNode] /\ new \in [Pages -> BTreeNode]
    /\ count \in Nat /\ nM \in Pages /\ nM = count + 1 /\ rts \subseteq 1 .. count
    /\ Marked(ns, count, rts, l)
    /\ parent \in l.pages /\ i \in Nat /\ Link(ns, parent, i, child) /\ child # 0
    /\ ns[parent].type \in NodeTypes
    /\ GoodNode(child, ns[child], count) /\ Crowded(ns[child])
    /\ new = split(ns, parent, child, i, nM)

LEMMA HalvingDivides ==
  ASSUME SafeSizes, NEW ns, NEW new, NEW count, NEW nM, NEW rts, NEW l,
         NEW parent, NEW i, NEW child,
         Parting(ns, new, count, nM, rts, l, parent, i, child)
  PROVE  /\ Dividing(ns, new, count, nM, rts, l, parent, i, child,
                     Half(Len(ns[child].cells)))
         /\ parent \in 1 .. count /\ child \in 1 .. count /\ child # parent
         /\ ns[child].type \in NodeTypes
         /\ \A q \in Pages \ {parent, child, nM} : new[q] = ns[q]
<1> DEFINE N == ns[child]
           m == Half(Len(N.cells))
<1>1. /\ ns \in [Pages -> BTreeNode] /\ new \in [Pages -> BTreeNode]
      /\ count \in Nat /\ nM \in Pages /\ nM = count + 1 /\ rts \subseteq 1 .. count
      /\ Marked(ns, count, rts, l)
      /\ parent \in l.pages /\ i \in Nat /\ Link(ns, parent, i, child) /\ child # 0
      /\ ns[parent].type \in NodeTypes
      /\ GoodNode(child, N, count) /\ Crowded(N)
      /\ new = split(ns, parent, child, i, nM)
  BY DEF Parting
<1>2. /\ child \in l.pages /\ l.ht[parent] = l.ht[child] + 1
  BY <1>1 DEF Marked, LinksMarked
<1>3. \A p \in l.pages : p \in 1 .. count /\ p \in Pages /\ l.ht[p] \in Nat
  BY <1>1 DEF Marked, MarksTyped
<1>4. parent # child
  BY <1>2, <1>3, <1>1
<1>5. nM # parent /\ nM # child
  BY <1>1, <1>2, <1>3
<1>6. N \in BTreeNode /\ N.type \in NodeTypes /\ Layout(child, N)
  BY <1>1, <1>2, <1>3 DEF GoodNode
<1>7. Len(N.cells) >= 1 /\ (~is_internal(N.type) => Half(Len(N.cells)) + 1 < Len(N.cells))
  BY <1>1, <1>2, <1>3, <1>6, CrowdedHasCells
<1>8. i \in 1 .. Len(ns[parent].cells) + 1
  BY <1>1 DEF Link
<1> HIDE DEF m
<1>9. IsSplit(ns, new, parent, child, i, nM, m)
  BY <1>1, <1>2, <1>3, <1>4, <1>5, <1>7, <1>8, SplitCells DEF m
<1>10. ~is_internal(N.type) => m + 1 < Len(N.cells)
  BY <1>7 DEF m
<1>11. Dividing(ns, new, count, nM, rts, l, parent, i, child, m)
  BY <1>1, <1>9, <1>10 DEF Dividing
<1>12. \A q \in Pages \ {parent, child, nM} : new[q] = ns[q]
  BY <1>9 DEF IsSplit
<1>13. QED
  BY <1>1, <1>2, <1>3, <1>4, <1>6, <1>11, <1>12 DEF m

(* The files that a split passes through: the entries at no risk are in    *)
(* each, and all are in the last.                                          *)
SafeAround(ns, rts, l, A, B, c) ==
    /\ \A e \in A : e \in EntryRecord /\ e.tree \in rts /\ HasPath(ns, l, e)
    /\ B \subseteq A
    /\ \A e \in B : \E X \in SUBSET l.pages : IsPath(ns, l, e, X) /\ c \notin X

HalvedMarks(ns, l, child, nM) ==
    SplitMarks(l, child, nM, ns[child].cells[Half(Len(ns[child].cells)) + 1].key)

LEMMA HalvingKeepsTrees ==
  ASSUME SafeSizes, NEW ns, NEW new, NEW count, NEW nM, NEW rts, NEW l,
         NEW parent, NEW i, NEW child,
         Parting(ns, new, count, nM, rts, l, parent, i, child),
         NEW A, NEW B, SafeAround(ns, rts, l, A, B, child)
  PROVE  /\ Trees(new, nM, rts, HalvedMarks(ns, l, child, nM), A)
         /\ \A k \in 1 .. 4 : Trees(SplitStage(ns, new, child, nM, k), nM, rts, l, B)
<1> DEFINE m == Half(Len(ns[child].cells))
           l2 == HalvedMarks(ns, l, child, nM)
<1>1. Dividing(ns, new, count, nM, rts, l, parent, i, child, m)
  BY HalvingDivides
<1>2. ns[child].type \in NodeTypes
  BY HalvingDivides
<1> HIDE DEF m
<1>3. l2 = SplitMarks(l, child, nM, ns[child].cells[m + 1].key)
  BY DEF HalvedMarks, m
<1>4. Marked(new, nM, rts, l2)
  <2>1. Marked(new, nM, rts, SplitMarks(l, child, nM, ns[child].cells[m + 1].key))
    BY <1>1, SplitKeepsMarks
  <2>2. QED
    BY <1>3, <2>1
<1>5. ASSUME NEW e \in A PROVE HasPath(new, l2, e)
  <2>1. e \in EntryRecord /\ e.tree \in rts /\ HasPath(ns, l, e)
    BY DEF SafeAround
  <2>2. HasPath(new, SplitMarks(l, child, nM, ns[child].cells[m + 1].key), e)
    BY <1>1, <2>1, SplitKeepsPath
  <2>3. QED
    BY <1>3, <2>2
<1>6. Trees(new, nM, rts, l2, A)
  BY <1>4, <1>5 DEF Trees
<1>7. \A k \in 1 .. 4 : Marked(SplitStage(ns, new, child, nM, k), nM, rts, l)
  BY <1>1, <1>2, SplitStagesMarked
<1>8. ASSUME NEW e \in B, NEW k \in 1 .. 4
      PROVE  HasPath(SplitStage(ns, new, child, nM, k), l, e)
  <2>1. PICK X \in SUBSET l.pages : IsPath(ns, l, e, X) /\ child \notin X
    BY DEF SafeAround
  <2>2. \A x \in 0 .. 4 : IsPath(SplitStage(ns, new, child, nM, x), l, e, X)
    BY <1>1, <2>1, SplitStagesKeepPath
  <2>3. QED
    BY <2>2 DEF HasPath
<1>9. \A k \in 1 .. 4 : Trees(SplitStage(ns, new, child, nM, k), nM, rts, l, B)
  BY <1>7, <1>8 DEF Trees
<1>10. QED
  BY <1>6, <1>9

LEMMA HalvingKeepsAll ==
  ASSUME SafeSizes, NEW ns, NEW new, NEW count, NEW nM, NEW rts, NEW l,
         NEW parent, NEW i, NEW child,
         Parting(ns, new, count, nM, rts, l, parent, i, child),
         NEW A, NEW B, SafeAround(ns, rts, l, A, B, child),
         NEW f, Holds(f, ns, count)
  PROVE  KeptAll(f, SplitWrites(ns, parent, child, i, nM), rts, B)
<1> DEFINE w == SplitWrites(ns, parent, child, i, nM)
<1>1. /\ ns \in [Pages -> BTreeNode] /\ new \in [Pages -> BTreeNode]
      /\ count \in Nat /\ nM \in Pages /\ nM = count + 1
      /\ Marked(ns, count, rts, l)
      /\ new = split(ns, parent, child, i, nM)
  BY DEF Parting
<1>2. /\ parent \in 1 .. count /\ child \in 1 .. count /\ child # parent
      /\ ns[child].type \in NodeTypes
      /\ \A q \in Pages \ {parent, child, nM} : new[q] = ns[q]
  BY HalvingDivides
<1>3. SplitViewsHold(f, ns, new, parent, child, i, count, nM)
  BY <1>1, <1>2, SplitViews
<1>4. /\ Len(w) = 5
      /\ \A k \in 0 .. 5 :
           Holds(ViewsOf(f, w)[k], SplitStage(ns, new, child, nM, k),
                 IF k = 0 THEN count ELSE nM)
  BY <1>3 DEF SplitViewsHold
<1> HIDE DEF w
<1>5. /\ Trees(new, nM, rts, HalvedMarks(ns, l, child, nM), A)
      /\ \A k \in 1 .. 4 : Trees(SplitStage(ns, new, child, nM, k), nM, rts, l, B)
  BY HalvingKeepsTrees
<1>6. nM \in Nat /\ nM <= MaxPages /\ count <= MaxPages
  BY <1>1, ConstantsAssumption DEF Pages
<1>7. Kept(ViewsOf(f, w)[0], rts, B)
  <2>1. Holds(ViewsOf(f, w)[0], ns, count)
    BY <1>4 DEF SplitStage
  <2>2. Trees(ns, count, rts, l, B)
    BY <1>1 DEF Trees, SafeAround
  <2>3. QED
    BY <1>1, <1>6, <2>1, <2>2, TreesAreKept
<1>8. ASSUME NEW k \in 1 .. 4 PROVE Kept(ViewsOf(f, w)[k], rts, B)
  <2>1. Holds(ViewsOf(f, w)[k], SplitStage(ns, new, child, nM, k), nM)
    BY <1>4
  <2>2. Trees(SplitStage(ns, new, child, nM, k), nM, rts, l, B)
    BY <1>5
  <2>3. QED
    BY <1>6, <2>1, <2>2, TreesAreKept
<1>9. Kept(ViewsOf(f, w)[5], rts, B)
  <2>1. Holds(ViewsOf(f, w)[5], new, nM)
    BY <1>4 DEF SplitStage
  <2>2. Kept(ViewsOf(f, w)[5], rts, A)
    BY <1>5, <1>6, <2>1, TreesAreKept
  <2>3. QED
    BY <2>2, KeptLess DEF SafeAround
<1>10. ASSUME NEW k \in 0 .. Len(w) PROVE Kept(ViewsOf(f, w)[k], rts, B)
  <2>1. k = 0 \/ k \in 1 .. 4 \/ k = 5
    BY <1>4
  <2>2. QED
    BY <1>7, <1>8, <1>9, <2>1
<1>11. KeptAll(f, w, rts, B)
  BY <1>10 DEF KeptAll
<1>12. QED
  BY <1>11 DEF w

(* An insert that split its child goes on to the half that takes its key.  *)
LEMMA DividedTrail ==
  ASSUME NEW ns, NEW new, NEW count, NEW nM, NEW rts, NEW l,
         NEW parent, NEW i, NEW child, NEW m,
         Dividing(ns, new, count, nM, rts, l, parent, i, child, m),
         NEW k \in Nat, NEW tree \in rts, NEW T, IsTrail(ns, l, tree, parent, k, T),
         child = ChildFor(ns[parent], k), k \in l.keys[child]
  PROVE  LET l2 == SplitMarks(l, child, nM, ns[child].cells[m + 1].key)
             next == ChildFor(new[parent], k)
         IN  /\ new[next].type = ns[child].type
             /\ k \in l2.keys[next]
             /\ \E T2 \in SUBSET l2.pages : IsTrail(new, l2, tree, next, k, T2)
<1> DEFINE K == ns[child].cells[m + 1].key
           l2 == SplitMarks(l, child, nM, K)
           next == ChildFor(new[parent], k)
<1>1. /\ \A p \in l.pages : p \in 1 .. count /\ p \in Pages /\ p # nM
      /\ child \in l.pages /\ child \notin rts /\ parent # child
      /\ l.own[child] = l.own[parent]
      /\ ns[parent] \in BTreeNode /\ is_internal(ns[parent].type)
  BY DividingPages
<1>2. parent \in l.pages /\ parent # nM /\ i \in Nat /\ Link(ns, parent, i, child) /\ child # 0
      /\ Marked(ns, count, rts, l)
      /\ IsSplit(ns, new, parent, child, i, nM, m)
  BY <1>1 DEF Dividing
<1>3. /\ new[nM].type = ns[child].type /\ new[child].type = ns[child].type
      /\ new[parent].type = ns[parent].type
      /\ \A q \in Pages \ {parent, child, nM} : new[q] = ns[q]
  BY <1>2 DEF IsSplit
<1>4. next = IF k <= K THEN nM ELSE child
  <2>1. next = IF parent = parent /\ ChildFor(ns[parent], k) = child /\ k <= K
               THEN nM ELSE ChildFor(ns[OldPage(child, nM, parent)], k)
    BY <1>1, <1>2, <1>3, DividedSearch
  <2>2. OldPage(child, nM, parent) = parent
    BY <1>2 DEF OldPage
  <2>3. QED
    BY <2>1, <2>2
<1>5. /\ l2.pages = l.pages \cup {nM}
      /\ l2.own[nM] = l.own[child]
      /\ \A p \in l.pages : l2.own[p] = l.own[p]
      /\ l2.keys[nM] = {x \in l.keys[child] : x <= K}
      /\ l2.keys[child] = {x \in l.keys[child] : K < x}
  <2> HIDE DEF K
  <2>1. QED
    BY SplitMarksAre
<1>6. K \in Nat
  BY DividingKeys
<1> HIDE DEF K, l2, next
<1>7. k \in l2.keys[next]
  BY <1>4, <1>5, <1>6
<1>8. new[next].type = ns[child].type /\ next \in l2.pages /\ l2.own[next] = l.own[child]
  BY <1>1, <1>3, <1>4, <1>5
<1> DEFINE T2 == (T \ {child}) \cup {next}
<1>9. /\ T \subseteq l.pages /\ tree \in T /\ parent \in T
      /\ \A x \in T : l.own[x] = tree
      /\ \A x \in T \ {parent} : is_internal(ns[x].type) /\ ChildFor(ns[x], k) \in T
  BY DEF IsTrail
<1>10. T2 \subseteq l2.pages /\ tree \in T2 /\ next \in T2
  BY <1>1, <1>5, <1>8, <1>9
<1>11. \A x \in T2 : l2.own[x] = tree
  BY <1>1, <1>5, <1>8, <1>9
<1>12. ASSUME NEW x \in T2 \ {next}
       PROVE  is_internal(new[x].type) /\ ChildFor(new[x], k) \in T2
  <2>1. x \in T /\ x # child /\ x \in l.pages /\ x \in Pages /\ x # nM
    BY <1>1, <1>9
  <2>2. CASE x = parent
    <3>1. ChildFor(new[x], k) = next
      BY <2>2 DEF next
    <3>2. QED
      BY <1>1, <1>3, <2>2, <3>1
  <2>3. CASE x # parent
    <3>1. new[x] = ns[x] /\ is_internal(ns[x].type) /\ ChildFor(ns[x], k) \in T
      BY <1>3, <1>9, <2>1, <2>3
    <3>2. ns[x] \in BTreeNode
      BY <1>2, <2>1 DEF Marked, MarksTyped
    <3>3. PICK j \in Nat : Link(ns, x, j, ChildFor(ns[x], k))
      BY <3>1, <3>2, SearchLeads
    <3>4. ChildFor(ns[x], k) # child
      BY <1>2, <2>1, <2>3, <3>3 DEF Marked, OneMarkedLink
    <3>5. QED
      BY <3>1, <3>4
  <2>4. QED
    BY <2>2, <2>3
<1>13. IsTrail(new, l2, tree, next, k, T2)
  <2> HIDE DEF T2
  <2>1. QED
    BY <1>10, <1>11, <1>12 DEF IsTrail
<1> HIDE DEF T2
<1>14. \E T3 \in SUBSET l2.pages : IsTrail(new, l2, tree, next, k, T3)
  BY <1>10, <1>13
<1>15. new[next].type = ns[child].type
  BY <1>8
<1>16. QED
  BY ONLY <1>7, <1>14, <1>15 DEF l2, next, K

(* insertNonFull that splits the child it goes down to.                    *)
LEMMA SplitKeepsForest ==
  ASSUME SafeSizes, WritesInv, ForestInv, CallSplit
  PROVE  ForestInv'
<1> DEFINE here == op.npage
           key == op.btc.key
           pos == find_position(nodes[here], key)
           child == child_at(nodes[here], pos)
           next == ChildFor(nodes'[here], key)
           nM == n_pages + 1
           w == SplitWrites(nodes, here, child, pos, nM)
           risk == EntriesUnder(Flushed, op.nroot, child)
<1>1. /\ Returned /\ ChildHere /\ SplitAndDescend /\ AtInternal /\ op # Idle
      /\ Call(w, risk) /\ acked' = acked
  BY DEF CallSplit, SplitAndDescend, AtInternal
<1>2. WritesInv'
  BY SplitKeepsWrites
<1>3. PICK l : Trees(nodes, n_pages, roots, l, acked) /\ Going(nodes, l, op)
  BY DEF ForestInv
<1>4. GoingIs(l)
  BY <1>1, <1>3, GoingFacts
<1>5. PICK T \in SUBSET l.pages : IsTrail(nodes, l, op.nroot, here, key, T)
  BY <1>1, <1>3, GoingFacts
<1>6. /\ Visiting(nodes, n_pages, roots, l, here, pos, child, key)
      /\ pos \in Nat
      /\ child = ChildFor(nodes[here], key)
  BY <1>1, <1>4, GoingOn
<1>7. /\ op \in Insertion /\ here \in 1 .. n_pages /\ op.nroot \in roots
      /\ op.btc \in BTreeCell /\ key \in Nat
      /\ n_pages \in Pages /\ n_pages \in Nat /\ nodes \in [Pages -> BTreeNode]
      /\ \A p \in 1 .. n_pages : p \in Pages /\ nodes[p].type \in NodeTypes
      /\ child \in (1 .. n_pages) \ {here}
      /\ is_internal(nodes[here].type)
      /\ roots \subseteq 1 .. n_pages
  BY <1>1, VisitedIsGood DEF AtInternal, WritesInv, NodesInv
<1>8. /\ Full(nodes[child], op.btc) /\ n_pages < MaxPages /\ n_pages' = nM
      /\ nodes' = split(nodes, here, child, pos, nM)
      /\ op' = [op EXCEPT !.npage = next]
      /\ roots' = roots
  BY <1>1 DEF SplitAndDescend
<1>9. nM \in Pages /\ nM \in Nat /\ nM = n_pages + 1 /\ n_pages <= MaxPages
  BY SMTT(30), <1>7, <1>8, ConstantsAssumption DEF Pages
<1>10. Holds(Flushed, nodes, n_pages) /\ SoundNodes(nodes, n_pages)
  BY <1>1, ReturnedFacts
<1>11. GoodNode(child, nodes[child], n_pages) /\ Crowded(nodes[child])
  <2>1. SoundNode(child, nodes[child], n_pages) /\ nodes[child].type # Unallocated
        /\ nodes[child] \in BTreeNode /\ child \in Pages
    BY <1>7, <1>10 DEF SoundNodes, NodeTypes, Unallocated, TABLE_LEAF, TABLE_INTERNAL,
                       INDEX_LEAF, INDEX_INTERNAL
  <2>2. QED
    BY <1>7, <1>8, <2>1, FullIsGood
<1>12. nodes' \in [Pages -> BTreeNode]
  BY <1>2 DEF WritesInv, NodesInv
<1> DEFINE l2 == GrowMarks(l, child, key)
<1>13. /\ Trees(nodes, n_pages, roots, l2, acked)
       /\ key \in l2.keys[child]
       /\ is_index(nodes[child].type) <=> is_index(nodes[here].type)
  <2>1. /\ Trees(nodes, n_pages, roots, l, acked)
        /\ Visiting(nodes, n_pages, roots, l, here, pos, child, key)
        /\ IsTrail(nodes, l, op.nroot, here, key, T)
        /\ child = ChildFor(nodes[here], key) /\ is_internal(nodes[here].type)
    BY <1>3, <1>5, <1>6, <1>7
  <2> HIDE DEF here, key, pos, child
  <2>2. QED
    BY ONLY <2>1, GrownTrees
<1>14. /\ l2.pages = l.pages /\ l2.own = l.own /\ l.own[child] = l.own[here]
  <2>1. Visiting(nodes, n_pages, roots, l, here, pos, child, key)
    BY <1>6
  <2> HIDE DEF here, key, pos, child
  <2>2. QED
    BY ONLY <2>1, GrowKeepsMarks
<1> HIDE DEF l2, pos, child, next, nM
<1>15. IsTrail(nodes, l2, op.nroot, here, key, T)
  BY <1>5, <1>14 DEF IsTrail
<1>16. l2.own[child] = op.nroot
  BY <1>5, <1>14 DEF IsTrail
<1>17. Parting(nodes, nodes', n_pages, nM, roots, l2, here, pos, child)
  <2>1. Marked(nodes, n_pages, roots, l2)
    BY <1>13 DEF Trees
  <2>2. here \in l2.pages /\ Link(nodes, here, pos, child) /\ child # 0
    BY <1>6, <1>14 DEF Visiting
  <2>3. QED
    BY <1>6, <1>7, <1>8, <1>9, <1>11, <1>12, <2>1, <2>2 DEF Parting
<1> HIDE DEF here, key
<1> DEFINE B == acked \ risk
           m == Half(Len(nodes[child].cells))
           l3 == HalvedMarks(nodes, l2, child, nM)
<1>18. SafeAround(nodes, roots, l2, acked, B, child)
  <2>1. \A e \in acked : e \in EntryRecord /\ e.tree \in roots /\ HasPath(nodes, l2, e)
    BY <1>13 DEF ForestInv, Trees
  <2>2. ASSUME NEW e \in B
        PROVE  \E X \in SUBSET l2.pages : IsPath(nodes, l2, e, X) /\ child \notin X
    <3>1. e \in EntryRecord /\ HasPath(nodes, l2, e) /\ Marked(nodes, n_pages, roots, l2)
      BY <1>13, <2>1 DEF Trees
    <3>2. e \notin EntriesUnder(Flushed, op.nroot, child)
      OBVIOUS
    <3>3. QED
      BY <1>7, <1>9, <1>10, <1>16, <3>1, <3>2, PathAround
  <2>3. B \subseteq acked
    OBVIOUS
  <2> HIDE DEF B
  <2>4. QED
    BY <2>1, <2>2, <2>3 DEF SafeAround
<1> HIDE DEF risk, B
<1>19. KeptAll(Flushed, w, roots, B)
  BY <1>10, <1>17, <1>18, HalvingKeepsAll
<1>20. Trees(nodes', nM, roots, l3, acked)
  BY <1>17, <1>18, HalvingKeepsTrees
<1>21. Dividing(nodes, nodes', n_pages, nM, roots, l2, here, pos, child, m)
  BY <1>17, HalvingDivides
<1> HIDE DEF m
<1>22. l3 = SplitMarks(l2, child, nM, nodes[child].cells[m + 1].key)
  BY DEF HalvedMarks, m
<1> HIDE DEF l3
<1>23. /\ nodes'[next].type = nodes[child].type
       /\ key \in l3.keys[next]
       /\ \E T2 \in SUBSET l3.pages : IsTrail(nodes', l3, op.nroot, next, key, T2)
  <2>1. /\ Dividing(nodes, nodes', n_pages, nM, roots, l2, here, pos, child, m)
        /\ key \in Nat /\ op.nroot \in roots
        /\ IsTrail(nodes, l2, op.nroot, here, key, T)
        /\ child = ChildFor(nodes[here], key) /\ key \in l2.keys[child]
    BY <1>6, <1>7, <1>13, <1>15, <1>21 DEF key
  <2>2. LET ll == SplitMarks(l2, child, nM, nodes[child].cells[m + 1].key)
            nn == ChildFor(nodes'[here], key)
        IN  /\ nodes'[nn].type = nodes[child].type
            /\ key \in ll.keys[nn]
            /\ \E T2 \in SUBSET ll.pages : IsTrail(nodes', ll, op.nroot, nn, key, T2)
    BY ONLY <2>1, DividedTrail
  <2>3. QED
    BY <1>22, <2>2 DEF next
<1>24. /\ op' # Idle => /\ op'.npage = next /\ op'.nroot = op.nroot /\ op'.btc = op.btc
                        /\ op'.btc.key = key
  BY <1>7, <1>8 DEF key, Insertion
<1>25. FitsIn(nodes'[next].type, key) /\ op.btc.val \in Vals
  BY <1>4, <1>13, <1>23 DEF GoingIs, FitsIn, here, key
<1>26. Going(nodes', l3, op')
  BY <1>23, <1>24, <1>25 DEF Going
<1>27. Trees(nodes', n_pages', roots', l3, acked')
  BY <1>1, <1>8, <1>20
<1>28. Kept(file, roots, acked \ atRisk)' /\ KeptAll(Flushed, todo, roots, acked \ atRisk)'
  <2>1. Call(w, risk) /\ KeptAll(Flushed, w, roots', acked' \ risk)
    BY <1>1, <1>8, <1>19 DEF B
  <2> HIDE DEF w
  <2>2. Len(w) \in Nat
    BY <1>2, <2>1, CallLeads
  <2>3. QED
    BY <2>1, <2>2, CallKeeps
<1>29. 1 \in roots' /\ \A e \in acked' : e \in EntryRecord /\ e.tree \in roots'
  BY <1>1, <1>8 DEF ForestInv
<1>30. QED
  BY <1>26, <1>27, <1>28, <1>29 DEF ForestInv

(* The files of two lists of writes.                                       *)
LEMMA TwoKeepAll ==
  ASSUME NEW f, NEW a \in Seq(PageWrite), NEW b \in Seq(PageWrite), NEW rts, NEW A,
         KeptAll(f, a, rts, A), KeptAll(ViewsOf(f, a)[Len(a)], b, rts, A)
  PROVE  KeptAll(f, a \o b, rts, A)
<1> DEFINE w == a \o b
           g == ViewsOf(f, a)[Len(a)]
<1>1. /\ w \in Seq(PageWrite) /\ Len(w) = Len(a) + Len(b)
      /\ \A i \in 0 .. Len(a) : ViewsOf(f, w)[i] = ViewsOf(f, a)[i]
      /\ \A i \in 0 .. Len(b) : ViewsOf(f, w)[Len(a) + i] = ViewsOf(g, b)[i]
  BY ViewsOfTwo
<1>2. Len(a) \in Nat /\ Len(b) \in Nat
  OBVIOUS
<1> HIDE DEF w
<1>3. ASSUME NEW i \in 0 .. Len(w) PROVE Kept(ViewsOf(f, w)[i], rts, A)
  <2>1. CASE i \in 0 .. Len(a)
    BY <1>1, <2>1 DEF KeptAll
  <2>2. CASE i \notin 0 .. Len(a)
    <3> DEFINE j == i - Len(a)
    <3>1. j \in 0 .. Len(b) /\ Len(a) + j = i
      BY <1>1, <1>2, <2>2
    <3> HIDE DEF j
    <3>2. ViewsOf(f, w)[i] = ViewsOf(g, b)[j]
      BY <1>1, <3>1
    <3>3. QED
      BY <3>1, <3>2 DEF KeptAll, g
  <2>3. QED
    BY <2>1, <2>2
<1>4. KeptAll(f, w, rts, A)
  BY <1>3 DEF KeptAll
<1>5. QED
  BY <1>4 DEF w

(* The files that the raising of a root passes through.                    *)
LEMMA LiftKeepsTrees ==
  ASSUME SafeSizes, NEW ns, NEW count, NEW nC, NEW rts, NEW l, NEW r,
         Raising(ns, count, nC, rts, l, r),
         NEW A, NEW B, SafeAround(ns, rts, l, A, B, r)
  PROVE  /\ Trees(Lifted(ns, r, nC), nC, rts, LiftMarks(l, r, nC), A)
         /\ SafeAround(Lifted(ns, r, nC), rts, LiftMarks(l, r, nC), A, B, nC)
         /\ \A k \in 1 .. 4 :
              Trees(LiftStage(ns, r, nC, k), nC, rts, LiftStageMarks(l, r, nC, k), B)
<1> DEFINE mid == Lifted(ns, r, nC)
           l2 == LiftMarks(l, r, nC)
<1>1. \A k \in 1 .. 4 : Marked(LiftStage(ns, r, nC, k), nC, rts, LiftStageMarks(l, r, nC, k))
  BY LiftStagesMarked
<1>2. mid = LiftStage(ns, r, nC, 4) /\ l2 = LiftStageMarks(l, r, nC, 4)
  BY DEF Lifted, LiftStageMarks
<1>3. l2.pages = l.pages \cup {nC} /\ nC \notin l.pages
  BY LiftMarksAre, RaisingPages
<1>4. ASSUME NEW e \in A PROVE e \in EntryRecord /\ e.tree \in rts /\ HasPath(mid, l2, e)
  <2>1. e \in EntryRecord /\ e.tree \in rts /\ HasPath(ns, l, e)
    BY DEF SafeAround
  <2>2. QED
    BY <2>1, LiftKeepsPath
<1> HIDE DEF mid, l2
<1>5. ASSUME NEW e \in B
      PROVE  /\ \A k \in 1 .. 4 : HasPath(LiftStage(ns, r, nC, k), LiftStageMarks(l, r, nC, k), e)
             /\ \E X \in SUBSET l2.pages : IsPath(mid, l2, e, X) /\ nC \notin X
  <2>1. PICK X \in SUBSET l.pages : IsPath(ns, l, e, X) /\ r \notin X
    BY DEF SafeAround
  <2>2. \A k \in 0 .. 4 : IsPath(LiftStage(ns, r, nC, k), LiftStageMarks(l, r, nC, k), e, X)
    BY <2>1, LiftStagesKeepPath
  <2>3. ASSUME NEW k \in 1 .. 4
        PROVE  HasPath(LiftStage(ns, r, nC, k), LiftStageMarks(l, r, nC, k), e)
    <3>1. IsPath(LiftStage(ns, r, nC, k), LiftStageMarks(l, r, nC, k), e, X)
      BY <2>2
    <3>2. X \subseteq LiftStageMarks(l, r, nC, k).pages
      BY <3>1 DEF IsPath
    <3>3. QED
      BY <3>1, <3>2 DEF HasPath
  <2>4. IsPath(mid, l2, e, X) /\ X \in SUBSET l2.pages /\ nC \notin X
    BY <1>2, <1>3, <2>2
  <2>5. QED
    BY <2>3, <2>4
<1>6. SafeAround(mid, rts, l2, A, B, nC)
  BY <1>4, <1>5 DEF SafeAround
<1>7. Trees(mid, nC, rts, l2, A)
  <2>1. Marked(mid, nC, rts, l2)
    BY <1>1, <1>2
  <2>2. QED
    BY <1>4, <2>1 DEF Trees
<1>8. \A k \in 1 .. 4 : Trees(LiftStage(ns, r, nC, k), nC, rts, LiftStageMarks(l, r, nC, k), B)
  BY <1>1, <1>5 DEF Trees
<1>9. QED
  BY <1>6, <1>7, <1>8 DEF mid, l2

LEMMA LiftKeepsAll ==
  ASSUME SafeSizes, NEW ns, NEW count, NEW nC, NEW rts, NEW l, NEW r,
         Raising(ns, count, nC, rts, l, r),
         Copied(ns, r, nC) \in BTreeNode, Emptied(ns, r, nC) \in BTreeNode,
         NEW A, NEW B, SafeAround(ns, rts, l, A, B, r),
         NEW f, Holds(f, ns, count)
  PROVE  LET w == LiftWrites(ns, r, nC)
         IN  /\ w \in Seq(PageWrite) /\ KeptAll(f, w, rts, B)
             /\ Holds(ViewsOf(f, w)[Len(w)], Lifted(ns, r, nC), nC)
<1> DEFINE w == LiftWrites(ns, r, nC)
<1>1. /\ ns \in [Pages -> BTreeNode] /\ count \in Nat /\ nC \in Pages /\ nC = count + 1
      /\ rts \subseteq 1 .. count /\ Marked(ns, count, rts, l)
      /\ r \in rts /\ ns[r].type \in NodeTypes
  BY DEF Raising
<1>2. LiftViewsHold(f, ns, r, count, nC)
  BY <1>1, LiftViews
<1>3. /\ w \in Seq(PageWrite) /\ Len(w) = 4
      /\ \A k \in 0 .. 4 :
           Holds(ViewsOf(f, w)[k], LiftStage(ns, r, nC, k), IF k = 0 THEN count ELSE nC)
  BY <1>2 DEF LiftViewsHold
<1> HIDE DEF w
<1>4. \A k \in 1 .. 4 : Trees(LiftStage(ns, r, nC, k), nC, rts, LiftStageMarks(l, r, nC, k), B)
  BY LiftKeepsTrees
<1>5. nC \in Nat /\ nC <= MaxPages /\ count <= MaxPages
  BY <1>1, ConstantsAssumption DEF Pages
<1>6. Kept(ViewsOf(f, w)[0], rts, B)
  <2>1. Holds(ViewsOf(f, w)[0], ns, count)
    BY <1>3 DEF LiftStage
  <2>2. Trees(ns, count, rts, l, B)
    BY <1>1 DEF Trees, SafeAround
  <2>3. QED
    BY <1>1, <1>5, <2>1, <2>2, TreesAreKept
<1>7. ASSUME NEW k \in 1 .. 4 PROVE Kept(ViewsOf(f, w)[k], rts, B)
  <2>1. Holds(ViewsOf(f, w)[k], LiftStage(ns, r, nC, k), nC)
    BY <1>3
  <2>2. Trees(LiftStage(ns, r, nC, k), nC, rts, LiftStageMarks(l, r, nC, k), B)
    BY <1>4
  <2>3. QED
    BY <1>5, <2>1, <2>2, TreesAreKept
<1>8. ASSUME NEW k \in 0 .. Len(w) PROVE Kept(ViewsOf(f, w)[k], rts, B)
  <2>1. k = 0 \/ k \in 1 .. 4
    BY <1>3
  <2>2. QED
    BY <1>6, <1>7, <2>1
<1>9. KeptAll(f, w, rts, B)
  BY <1>8 DEF KeptAll
<1>10. Holds(ViewsOf(f, w)[Len(w)], Lifted(ns, r, nC), nC)
  BY <1>3 DEF Lifted
<1>11. QED
  BY <1>3, <1>9, <1>10 DEF w

(* chidb_Btree_insert on a full root.                                      *)
LEMMA RaisedRootKeepsAll ==
  ASSUME SafeSizes, NEW ns, NEW count, NEW nC, NEW rts, NEW l, NEW r,
         Raising(ns, count, nC, rts, l, r),
         NEW nM \in Pages, nM = count + 2,
         GoodNode(r, ns[r], count), Crowded(ns[r]),
         NEW A, NEW B, SafeAround(ns, rts, l, A, B, r),
         NEW f, Holds(f, ns, count)
  PROVE  LET new == splitRoot(ns, r, nC, nM)
         IN  /\ KeptAll(f, SplitRootWrites(ns, r, nC, nM), rts, B)
             /\ is_index(new[r].type) <=> is_index(ns[r].type)
             /\ \E l3 : Trees(new, nM, rts, l3, A)
<1> DEFINE mid == Lifted(ns, r, nC)
           new == splitRoot(ns, r, nC, nM)
           l2 == LiftMarks(l, r, nC)
           a == LiftWrites(ns, r, nC)
           b == SplitWrites(mid, r, nC, 1, nM)
           g == ViewsOf(f, a)[Len(a)]
           l3 == HalvedMarks(mid, l2, nC, nM)
<1>1. /\ ns \in [Pages -> BTreeNode] /\ count \in Nat /\ nC \in Pages /\ nC = count + 1
      /\ rts \subseteq 1 .. count /\ Marked(ns, count, rts, l)
      /\ r \in rts /\ r \in 1 .. count /\ ns[r].type \in NodeTypes
  BY DEF Raising
<1>2. r \in Pages /\ r # nC /\ nC \in Nat /\ nM = nC + 1 /\ nC # 0 /\ nM # r /\ nM # nC
      /\ rts \subseteq 1 .. nC
  BY <1>1, ConstantsAssumption DEF Pages
<1>3. /\ new \in [Pages -> BTreeNode]
      /\ GoodNode(nC, Copied(ns, r, nC), nC)
      /\ Copied(ns, r, nC) \in BTreeNode /\ Emptied(ns, r, nC) \in BTreeNode
  <2>1. /\ ns \in [Pages -> BTreeNode] /\ count \in Nat /\ nC \in Pages /\ nM \in Pages
        /\ nC = count + 1 /\ nM = count + 2
        /\ r \in 1 .. count /\ GoodNode(r, ns[r], count) /\ Crowded(ns[r])
    BY <1>1
  <2>2. QED
    BY ONLY SafeSizes, <2>1, SplitRootWritesGood, SMTT(30)
<1>4. /\ SplitRootWrites(ns, r, nC, nM) = a \o b
      /\ new = split(mid, r, nC, 1, nM)
  BY <1>1, <1>2, SplitRootIsLiftAndSplit
<1>5. IsLift(ns, mid, r, nC) /\ mid \in [Pages -> BTreeNode]
  BY <1>1, <1>2, LiftedIsLift
<1>6. /\ Trees(mid, nC, rts, l2, A)
      /\ SafeAround(mid, rts, l2, A, B, nC)
  BY LiftKeepsTrees
<1>7. a \in Seq(PageWrite) /\ KeptAll(f, a, rts, B) /\ Holds(g, mid, nC)
  BY <1>3, LiftKeepsAll
<1>8. mid[nC] = Copied(ns, r, nC)
  BY <1>1, <1>2 DEF Lifted, LiftStage
<1>9. r \in l2.pages
  BY RaisingPages, LiftMarksAre
<1>10. Crowded(mid[nC])
  BY <1>5 DEF IsLift, Crowded
<1>11. /\ is_internal(mid[r].type) /\ mid[r].type \in NodeTypes
       /\ is_index(mid[r].type) <=> is_index(ns[r].type)
       /\ Link(mid, r, 1, nC)
  <2>1. /\ mid[r].type = IF is_index(ns[r].type) THEN INDEX_INTERNAL ELSE TABLE_INTERNAL
        /\ mid[r].cells = << >> /\ mid[r].right_page = nC
    BY <1>5 DEF IsLift
  <2>2. /\ is_internal(mid[r].type) /\ mid[r].type \in NodeTypes
        /\ is_index(mid[r].type) <=> is_index(ns[r].type)
    BY <2>1 DEF is_internal, is_index, NodeTypes, INDEX_INTERNAL, TABLE_INTERNAL,
                INDEX_LEAF, TABLE_LEAF
  <2>3. Len(mid[r].cells) = 0
    BY <2>1
  <2>4. Link(mid, r, 1, nC)
    BY <2>1, <2>2, <2>3 DEF Link, child_at
  <2>5. QED
    BY <2>2, <2>4
<1> HIDE DEF mid, new, l2, a, b, g
<1>12. Parting(mid, new, nC, nM, rts, l2, r, 1, nC)
  <2>1. Marked(mid, nC, rts, l2)
    BY <1>6 DEF Trees
  <2>2. 1 \in Nat
    OBVIOUS
  <2>3. QED
    BY <1>2, <1>3, <1>4, <1>5, <1>8, <1>9, <1>10, <1>11, <2>1, <2>2 DEF Parting
<1>13. KeptAll(g, b, rts, B)
  <2>1. KeptAll(g, SplitWrites(mid, r, nC, 1, nM), rts, B)
    BY <1>6, <1>7, <1>12, HalvingKeepsAll
  <2>2. QED
    BY <2>1 DEF b
<1>14. b \in Seq(PageWrite)
  <2>1. /\ r \in 1 .. nC /\ nC \in 1 .. nC /\ nC # r
        /\ \A q \in Pages \ {r, nC, nM} : new[q] = mid[q]
        /\ mid[nC].type \in NodeTypes
    BY <1>12, HalvingDivides
  <2>2. SplitViewsHold(g, mid, new, r, nC, 1, nC, nM)
    BY <1>2, <1>3, <1>4, <1>5, <1>7, <2>1, SplitViews
  <2>3. QED
    BY <2>2 DEF SplitViewsHold, b
<1>15. KeptAll(f, a \o b, rts, B)
  BY <1>7, <1>13, <1>14, TwoKeepAll DEF g
<1>16. Trees(new, nM, rts, l3, A)
  BY <1>6, <1>12, HalvingKeepsTrees
<1> HIDE DEF l3
<1>17. new[r].type = mid[r].type
  <2>1. Dividing(mid, new, nC, nM, rts, l2, r, 1, nC, Half(Len(mid[nC].cells)))
    BY <1>12, HalvingDivides
  <2>2. QED
    BY <2>1 DEF Dividing, IsSplit
<1>18. QED
  BY <1>4, <1>11, <1>15, <1>16, <1>17 DEF new

(* chidb_Btree_insert.                                                     *)
InsertsIn(r, c) ==
    /\ Returned /\ nodes[1].type # Unallocated
    /\ Insert(r, c)
    /\ IF n_pages' = n_pages THEN Call(<<>>, {})
       ELSE Call(SplitRootWrites(nodes, r, n_pages + 1, n_pages + 2),
                 EntriesUnder(Flushed, r, r))
    /\ UNCHANGED acked

LEMMA InsertKeepsForest ==
  ASSUME SafeSizes, WritesInv, WritesInv', ForestInv,
         NEW r \in roots, NEW c \in BTreeCell, FitsIn(nodes[r].type, c.key), c.val \in Vals,
         InsertsIn(r, c)
  PROVE  ForestInv'
<1>1. /\ n_pages \in Pages /\ nodes \in [Pages -> BTreeNode]
      /\ roots \subseteq 1 .. n_pages /\ n_pages \in Nat /\ n_pages <= MaxPages
      /\ r \in 1 .. n_pages /\ r \in Pages
  <2>1. /\ n_pages \in Pages /\ nodes \in [Pages -> BTreeNode] /\ roots \subseteq 1 .. n_pages
    BY DEF WritesInv, NodesInv
  <2>2. r \in 1 .. n_pages
    BY <2>1
  <2>3. QED
    BY ONLY <2>1, <2>2, ConstantsAssumption DEF Pages
<1>2. /\ Returned /\ nodes[1].type # Unallocated /\ Insert(r, c) /\ acked' = acked
      /\ IF n_pages' = n_pages THEN Call(<<>>, {})
         ELSE Call(SplitRootWrites(nodes, r, n_pages + 1, n_pages + 2),
                   EntriesUnder(Flushed, r, r))
  BY DEF InsertsIn
<1>3. /\ op' = [nroot |-> r, npage |-> r, btc |-> c] /\ roots' = roots
      /\ op'.npage = r /\ op'.nroot = r /\ op'.btc = c
  BY <1>2 DEF Insert
<1>4. c.key \in Nat
  BY DEF BTreeCell
<1>5. ASSUME NEW ns, NEW n, NEW l, Marked(ns, n, roots, l), r \in 1 .. n,
             FitsIn(ns[r].type, c.key)
      PROVE  Going(ns, l, op')
  <2>1. r \in l.pages /\ l.own[r] = r /\ l.keys[r] = Nat
    BY <1>5 DEF Marked, RootsMarked
  <2>2. IsTrail(ns, l, r, r, c.key, {r}) /\ {r} \in SUBSET l.pages
    BY <2>1 DEF IsTrail
  <2>3. QED
    BY <1>3, <1>4, <1>5, <2>1, <2>2 DEF Going
<1>6. PICK l : Trees(nodes, n_pages, roots, l, acked)
  BY DEF ForestInv
<1>7. Marked(nodes, n_pages, roots, l)
  BY <1>6 DEF Trees
<1>8. CASE UNCHANGED <<nodes, n_pages>>
  <2>1. Call(<< >>, {})
    BY <1>2, <1>8
  <2>2. Going(nodes, l, op')
    BY <1>1, <1>5, <1>7
  <2>3. QED
    BY <1>2, <1>3, <1>6, <1>8, <2>1, <2>2, QuietKeepsForest
<1>9. CASE /\ Full(nodes[r], c)
           /\ n_pages + 2 <= MaxPages
           /\ n_pages' = n_pages + 2
           /\ nodes' = splitRoot(nodes, r, n_pages + 1, n_pages + 2)
  <2> DEFINE nC == n_pages + 1
             nM == n_pages + 2
             w == SplitRootWrites(nodes, r, nC, nM)
             risk == EntriesUnder(Flushed, r, r)
             B == acked \ risk
  <2>1. /\ nC \in Pages /\ nM \in Pages /\ n_pages' = nM /\ n_pages' # n_pages
        /\ nC = n_pages + 1 /\ nM = n_pages + 2 /\ r \in 1 .. nM
        /\ nodes' = splitRoot(nodes, r, nC, nM)
    <3>1. n_pages + 2 <= MaxPages /\ n_pages' = n_pages + 2
      BY <1>9
    <3>2. /\ nC \in Pages /\ nM \in Pages /\ n_pages' = nM /\ n_pages' # n_pages
          /\ nC = n_pages + 1 /\ nM = n_pages + 2 /\ r \in 1 .. nM
      BY ONLY <1>1, <3>1, ConstantsAssumption DEF Pages
    <3>3. QED
      BY <1>9, <3>2
  <2>2. Holds(Flushed, nodes, n_pages) /\ SoundNodes(nodes, n_pages)
    BY <1>2, ReturnedFacts
  <2>3. nodes[r].type \in NodeTypes
    BY <1>1, <1>2, <2>2, PagesAreNodes
  <2>4. GoodNode(r, nodes[r], n_pages) /\ Crowded(nodes[r])
    <3>1. SoundNode(r, nodes[r], n_pages) /\ nodes[r].type # Unallocated
          /\ nodes[r] \in BTreeNode
      BY <1>1, <2>2, <2>3 DEF SoundNodes, NodeTypes, Unallocated, TABLE_LEAF, TABLE_INTERNAL,
                             INDEX_LEAF, INDEX_INTERNAL
    <3>2. QED
      BY <1>1, <1>9, <3>1, FullIsGood
  <2> HIDE DEF nC, nM
  <2>5. Raising(nodes, n_pages, nC, roots, l, r)
    BY <1>1, <1>7, <2>1, <2>3 DEF Raising
  <2>6. l.own[r] = r
    BY <1>1, <1>7 DEF Marked, RootsMarked
  <2>7. SafeAround(nodes, roots, l, acked, B, r)
    <3>1. \A e \in acked : e \in EntryRecord /\ e.tree \in roots /\ HasPath(nodes, l, e)
      BY <1>6 DEF ForestInv, Trees
    <3>2. ASSUME NEW e \in B
          PROVE  \E X \in SUBSET l.pages : IsPath(nodes, l, e, X) /\ r \notin X
      <4>1. e \in EntryRecord /\ HasPath(nodes, l, e)
        BY <3>1
      <4>2. e \notin EntriesUnder(Flushed, r, r)
        OBVIOUS
      <4>3. QED
        BY <1>1, <1>7, <2>2, <2>6, <4>1, <4>2, PathAround
    <3>3. B \subseteq acked
      OBVIOUS
    <3> HIDE DEF B
    <3>4. QED
      BY <3>1, <3>2, <3>3 DEF SafeAround
  <2> HIDE DEF risk, B
  <2>8. /\ KeptAll(Flushed, w, roots, B)
        /\ is_index(nodes'[r].type) <=> is_index(nodes[r].type)
        /\ \E l3 : Trees(nodes', nM, roots, l3, acked)
    <3>1. LET new == splitRoot(nodes, r, nC, nM)
          IN  /\ KeptAll(Flushed, SplitRootWrites(nodes, r, nC, nM), roots, B)
              /\ is_index(new[r].type) <=> is_index(nodes[r].type)
              /\ \E l3 : Trees(new, nM, roots, l3, acked)
      BY ONLY SafeSizes, <2>1, <2>2, <2>4, <2>5, <2>7, RaisedRootKeepsAll
    <3>2. QED
      BY <2>1, <3>1
  <2>9. PICK l3 : Trees(nodes', nM, roots, l3, acked)
    BY <2>8
  <2>10. Going(nodes', l3, op')
    <3>1. Marked(nodes', nM, roots, l3)
      BY <2>9 DEF Trees
    <3>2. FitsIn(nodes'[r].type, c.key)
      BY <2>8 DEF FitsIn
    <3>3. QED
      BY <1>5, <2>1, <3>1, <3>2
  <2>11. Call(w, risk)
    BY <1>2, <2>1 DEF nC, nM, risk
  <2> HIDE DEF w
  <2>12. Kept(file, roots, acked \ atRisk)' /\ KeptAll(Flushed, todo, roots, acked \ atRisk)'
    <3>1. Len(w) \in Nat
      BY <2>11, CallLeads
    <3>2. KeptAll(Flushed, w, roots', acked' \ risk)
      BY <1>2, <1>3, <2>8 DEF B
    <3>3. QED
      BY <2>11, <3>1, <3>2, CallKeeps
  <2>13. Trees(nodes', n_pages', roots', l3, acked')
    BY <1>2, <1>3, <2>1, <2>9
  <2>14. 1 \in roots' /\ \A e \in acked' : e \in EntryRecord /\ e.tree \in roots'
    BY <1>2, <1>3 DEF ForestInv
  <2>15. QED
    BY <2>10, <2>12, <2>13, <2>14 DEF ForestInv
<1>10. QED
  BY <1>2, <1>8, <1>9 DEF Insert

(* chidb_Btree_open.  A file of one empty page.                            *)
LEMMA FirstPageTrees ==
  ASSUME NEW f, f = << >>, NEW rts, NEW l, Marked(f, 0, rts, l),
         NEW g, g[1] \in BTreeNode, ~is_internal(g[1].type), g[1].cells = << >>
  PROVE  Trees(g, 1, {1}, NewRootMarks(l, 1), {})
<1>1. 1 \in Pages
  BY ConstantsAssumption DEF Pages
<1>2. l.pages = {}
  BY DEF Marked, MarksTyped
<1>3. Rooting(f, 0, rts, l, g, 1, {1})
  <2>1. {1} \cap (1 .. 1) = (rts \cap (1 .. 0)) \cup {1}
    OBVIOUS
  <2>2. \A q \in l.pages : g[q] = f[q]
    BY <1>2
  <2>3. 0 \in Nat /\ 1 = 0 + 1
    OBVIOUS
  <2>4. QED
    BY <1>1, <2>1, <2>2, <2>3 DEF Rooting
<1>4. Marked(g, 1, {1}, NewRootMarks(l, 1))
  BY <1>3, NewRootMarked
<1>5. QED
  BY <1>4 DEF Trees

LEMMA CreationKeeps ==
  ASSUME SafeSizes, NEW f, f = << >>, SoundFile(f), NEW rts, Kept(f, rts, {})
  PROVE  /\ KeptAll(f, CreateWrites(f), {1}, {})
         /\ \E l : Trees(NodesOf(f), 1, {1}, l, {})
<1> DEFINE w == CreateWrites(f)
           g1 == ViewsOf(f, w)[1]
           g2 == ViewsOf(f, w)[2]
           leaf == initEmptyNode(1, TABLE_LEAF)
<1>1. Len(f) = 0 /\ f \in Seq(BTreeNode)
  BY DEF Kept
<1>2. PICK l : Marked(f, 0, rts, l)
  BY <1>1 DEF Kept, Trees
<1>3. w \in Seq(PageWrite)
  BY CreationLeads DEF Leads
<1>4. Len(w) = 2 /\ w[1] = Write(1, Zeros(1)) /\ w[2] = Write(1, leaf)
  <2> DEFINE a == Write(1, Zeros(1))
             b == Write(1, leaf)
  <2>1. w = <<a, b>>
    BY DEF CreateWrites
  <2> HIDE DEF w, a, b
  <2>2. Len(w) = 2 /\ w[1] = a /\ w[2] = b
    BY <2>1
  <2>3. QED
    BY <2>2 DEF a, b
<1>5. /\ Zeros(1).cells = << >> /\ ~is_internal(Zeros(1).type)
      /\ leaf.cells = << >> /\ ~is_internal(leaf.type)
  BY DEF Zeros, initEmptyNode, is_internal, Unallocated, TABLE_LEAF, TABLE_INTERNAL,
         INDEX_INTERNAL
<1> HIDE DEF w, leaf
<1>6. /\ w[1] \in PageWrite /\ w[2] \in PageWrite
      /\ w[1].npage = 1 /\ w[1].node = Zeros(1) /\ w[2].npage = 1 /\ w[2].node = leaf
  <2>1. w[1] \in PageWrite /\ w[2] \in PageWrite
    <3>1. 1 \in 1 .. Len(w) /\ 2 \in 1 .. Len(w)
      BY <1>4
    <3>2. QED
      BY ONLY <1>3, <3>1
  <2>2. \A n : Write(1, n).npage = 1 /\ Write(1, n).node = n
    BY DEF Write
  <2>3. QED
    BY ONLY <1>4, <2>1, <2>2
<1>7. Zeros(1) \in BTreeNode /\ leaf \in BTreeNode
  BY <1>6 DEF PageWrite
<1>8. ViewsOf(f, w)[0] = f /\ g1 = Flush(f, w[1]) /\ g2 = Flush(g1, w[2])
  <2>1. Len(w) \in Nat
    BY <1>4
  <2>2. /\ ViewsOf(f, w)[0] = f
        /\ \A i \in 1 .. Len(w) : ViewsOf(f, w)[i] = Flush(ViewsOf(f, w)[i - 1], w[i])
    BY <2>1, FirstViews
  <2>3. /\ ViewsOf(f, w)[1] = Flush(ViewsOf(f, w)[0], w[1])
        /\ ViewsOf(f, w)[2] = Flush(ViewsOf(f, w)[1], w[2])
    BY <1>4, <2>2
  <2>4. QED
    BY <2>2, <2>3
<1> HIDE DEF g1, g2
<1>9. g1 \in Seq(BTreeNode) /\ Len(g1) = 1 /\ g1[1] = Zeros(1)
  <2>1. w[1].npage <= Len(f) + 1
    BY <1>1, <1>6
  <2>2. /\ g1 \in Seq(BTreeNode) /\ Len(g1) = Grown(f, w[1].npage)
        /\ g1[w[1].npage] = w[1].node
    BY <1>1, <1>6, <1>8, <2>1, FlushedPages
  <2>3. Grown(f, w[1].npage) = 1
    BY <1>1, <1>6 DEF Grown
  <2>4. QED
    BY <1>6, <2>2, <2>3
<1>10. g2 \in Seq(BTreeNode) /\ Len(g2) = 1 /\ g2[1] = leaf
  <2>1. w[2].npage <= Len(g1) + 1
    BY <1>6, <1>9
  <2>2. /\ g2 \in Seq(BTreeNode) /\ Len(g2) = Grown(g1, w[2].npage)
        /\ g2[w[2].npage] = w[2].node
    BY <1>6, <1>8, <1>9, <2>1, FlushedPages
  <2>3. Grown(g1, w[2].npage) = 1
    BY <1>6, <1>9 DEF Grown
  <2>4. QED
    BY <1>6, <2>2, <2>3
<1>11. MaxPages \in Nat /\ MaxPages >= 1
  BY ConstantsAssumption
<1>12. Kept(g1, {1}, {}) /\ Kept(g2, {1}, {})
  <2>1. Trees(g1, 1, {1}, NewRootMarks(l, 1), {})
    BY <1>2, <1>5, <1>7, <1>9, FirstPageTrees
  <2>2. Trees(g2, 1, {1}, NewRootMarks(l, 1), {})
    BY <1>2, <1>5, <1>7, <1>10, FirstPageTrees
  <2>3. QED
    BY <1>9, <1>10, <1>11, <2>1, <2>2 DEF Kept
<1>13. Kept(f, {1}, {})
  <2>1. {1} \cap (1 .. 0) = rts \cap (1 .. 0)
    OBVIOUS
  <2>2. Trees(f, 0, rts, l, {})
    BY <1>2 DEF Trees
  <2>3. Trees(f, 0, {1}, l, {})
    <3>1. 0 \in Nat /\ \A p \in 1 .. 0 : f[p] = f[p]
      OBVIOUS
    <3>2. QED
      BY <2>1, <2>2, <3>1, SameTrees
  <2>4. QED
    BY <1>1, <1>11, <2>3 DEF Kept
<1>14. ASSUME NEW i \in 0 .. Len(w) PROVE Kept(ViewsOf(f, w)[i], {1}, {})
  <2>1. i = 0 \/ i = 1 \/ i = 2
    BY <1>4
  <2>2. QED
    BY <1>8, <1>12, <1>13, <2>1 DEF g1, g2
<1>15. KeptAll(f, w, {1}, {})
  BY <1>14 DEF KeptAll
<1>16. NodesOf(f)[1] = leaf
  BY StoredNodes DEF leaf
<1>17. Trees(NodesOf(f), 1, {1}, NewRootMarks(l, 1), {})
  BY <1>2, <1>5, <1>7, <1>16, FirstPageTrees
<1>18. QED
  BY <1>15, <1>17 DEF w

(* The trees of a file that is opened.                                     *)
OpensWith(f, rts, A) ==
    /\ SoundFile(f) /\ 1 \in rts
    /\ Kept(f, rts, A)
    /\ \A e \in A : e \in EntryRecord /\ e.tree \in rts /\ e.tree \in DOMAIN f

LEMMA OpenedTrees ==
  ASSUME SafeSizes, NEW f, NEW rts, NEW A, OpensWith(f, rts, A),
         NEW rts2, rts2 = {1} \cup (rts \cap DOMAIN f)
  PROVE  /\ Kept(f, rts2, A) /\ KeptAll(f, CreateWrites(f), rts2, A)
         /\ \E l : Trees(NodesOf(f), PagesOf(f), rts2, l, A)
         /\ 1 \in rts2 /\ \A e \in A : e \in EntryRecord /\ e.tree \in rts2
<1>1. /\ SoundFile(f) /\ 1 \in rts /\ Kept(f, rts, A)
      /\ \A e \in A : e \in EntryRecord /\ e.tree \in rts /\ e.tree \in DOMAIN f
  BY DEF OpensWith
<1>2. 1 \in rts2 /\ \A e \in A : e \in EntryRecord /\ e.tree \in rts2
  BY <1>1
<1>3. f \in Seq(BTreeNode) /\ Len(f) \in Nat /\ DOMAIN f = 1 .. Len(f) /\ Len(f) <= MaxPages
  BY <1>1 DEF SoundFile
<1>4. CASE f = << >>
  <2>1. DOMAIN f = {}
    BY <1>4
  <2>2. A = {} /\ rts2 = {1}
    BY <1>1, <2>1
  <2>3. /\ KeptAll(f, CreateWrites(f), {1}, {})
        /\ \E l : Trees(NodesOf(f), 1, {1}, l, {})
    BY <1>1, <1>4, <2>2, CreationKeeps
  <2>4. PagesOf(f) = 1
    BY <1>4 DEF PagesOf
  <2>5. Kept(f, {1}, {})
    <3>1. Leads(f, CreateWrites(f), NodesOf(f), 1)
      BY <1>1, <1>4, CreationLeads
    <3>2. Len(CreateWrites(f)) \in Nat
      BY <3>1 DEF Leads
    <3>3. ViewsOf(f, CreateWrites(f))[0] = f /\ 0 \in 0 .. Len(CreateWrites(f))
      BY <3>2, FirstViews
    <3>4. QED
      BY <2>3, <3>3 DEF KeptAll
  <2>6. QED
    BY <1>2, <2>2, <2>3, <2>4, <2>5
<1>5. CASE f # << >>
  <2>1. Len(f) >= 1
    BY <1>3, <1>5
  <2>2. PagesOf(f) = Len(f) /\ CreateWrites(f) = << >>
    BY <1>5 DEF PagesOf, RealDBSize, CreateWrites
  <2>3. rts2 \cap (1 .. Len(f)) = rts \cap (1 .. Len(f))
    BY <1>1, <1>3, <2>1
  <2>4. PICK l : Trees(f, Len(f), rts, l, A)
    BY <1>1 DEF Kept
  <2>5. Holds(f, NodesOf(f), Len(f))
    BY <1>1, StoredNodes
  <2>6. Trees(NodesOf(f), Len(f), rts2, l, A)
    <3>1. \A p \in 1 .. Len(f) : NodesOf(f)[p] = f[p]
      BY <2>5 DEF Holds
    <3>2. QED
      BY <1>3, <2>3, <2>4, <3>1, SameTrees
  <2>7. Trees(f, Len(f), rts2, l, A)
    <3>1. \A p \in 1 .. Len(f) : f[p] = f[p]
      OBVIOUS
    <3>2. QED
      BY <1>3, <2>3, <2>4, <3>1, SameTrees
  <2>8. Kept(f, rts2, A)
    BY <1>3, <2>7 DEF Kept
  <2>9. KeptAll(f, << >>, rts2, A)
    BY <2>8, NoViews
  <2>10. QED
    BY <1>2, <2>2, <2>6, <2>8, <2>9
<1>6. QED
  BY <1>4, <1>5

LEMMA OpenKeepsForest ==
  ASSUME SafeSizes, NEW f, OpenFile(f), file' = f, buffer' = None, atRisk' = {},
         OpensWith(f, roots, acked')
  PROVE  ForestInv'
<1>1. /\ n_pages' = PagesOf(f) /\ nodes' = NodesOf(f) /\ todo' = CreateWrites(f)
      /\ roots' = {1} \cup (roots \cap DOMAIN f) /\ op' = Idle
  BY DEF OpenFile
<1>2. /\ Kept(f, roots', acked') /\ KeptAll(f, CreateWrites(f), roots', acked')
      /\ \E l : Trees(NodesOf(f), PagesOf(f), roots', l, acked')
      /\ 1 \in roots' /\ \A e \in acked' : e \in EntryRecord /\ e.tree \in roots'
  BY <1>1, OpenedTrees
<1>3. Flushed' = f
  BY NothingToFlush DEF Flushed
<1>4. acked' \ atRisk' = acked'
  OBVIOUS
<1>5. Kept(file, roots, acked \ atRisk)' /\ KeptAll(Flushed, todo, roots, acked \ atRisk)'
  BY <1>1, <1>2, <1>3, <1>4
<1>6. \E l : Trees(nodes', n_pages', roots', l, acked') /\ Going(nodes', l, op')
  BY <1>1, <1>2 DEF Going
<1>7. QED
  BY <1>2, <1>5, <1>6 DEF ForestInv

LEMMA CloseKeepsForest ==
  ASSUME SafeSizes, WritesInv, ForestInv, CloseAndOpen
  PROVE  ForestInv'
<1>1. /\ Returned /\ file' = Flushed /\ buffer' = None /\ OpenFile(Flushed) /\ atRisk' = {}
      /\ acked' = acked
  BY DEF CloseAndOpen
<1>2. SoundFile(Flushed) /\ Holds(Flushed, nodes, n_pages) /\ n_pages \in Nat
  BY <1>1, ReturnedFacts
<1>3. PICK l : Trees(nodes, n_pages, roots, l, acked)
  BY DEF ForestInv
<1>4. Kept(Flushed, roots, acked)
  BY <1>1, <1>3, ReturnedKept
<1>5. roots \subseteq 1 .. n_pages /\ DOMAIN Flushed = 1 .. n_pages
  BY <1>2 DEF WritesInv, NodesInv, Holds
<1>6. OpensWith(Flushed, roots, acked')
  BY <1>1, <1>2, <1>4, <1>5 DEF OpensWith, ForestInv
<1>7. QED
  BY <1>1, <1>6, OpenKeepsForest

LEMMA FoundIsInFile ==
  ASSUME NEW f \in Seq(BTreeNode), NEW e \in EntryRecord, Finds(f, e.tree, e.key) = e.val
  PROVE  e.tree \in DOMAIN f
<1>1. e.tree \in Pages /\ e.key \in Nat /\ e.val # NoValue
  BY EntryTypes
<1>2. PICK find : /\ IsSearch(find, f, e.key)
                  /\ \A r : Finds(f, r, e.key) = find[Len(f)][r]
  BY <1>1, SearchIs
<1>3. e.tree \in 0 .. MaxPages /\ Len(f) \in 0 .. Len(f)
  BY <1>1, ConstantsAssumption DEF Pages
<1>4. e.tree \notin DOMAIN f => find[Len(f)][e.tree] = NoValue
  BY <1>2, <1>3 DEF IsSearch
<1>5. QED
  BY <1>1, <1>2, <1>4

(* A crash leaves the file, and of the entries those that are found in it. *)
LEMMA CrashKeepsForest ==
  ASSUME SafeSizes, WritesInv, ForestInv, CrashAndOpen
  PROVE  ForestInv'
<1>1. /\ file' = file /\ buffer' = None /\ OpenFile(file) /\ atRisk' = {}
      /\ acked' = Found(file, acked)
  BY DEF CrashAndOpen
<1>2. SoundFile(file)
  BY DEF WritesInv, FileInv
<1>3. file \in Seq(BTreeNode) /\ Len(file) <= MaxPages
  BY <1>2 DEF SoundFile
<1>4. PICK l : Trees(file, Len(file), roots, l, acked \ atRisk)
  BY DEF ForestInv, Kept
<1>5. Reading(file, roots, l)
  BY <1>3, <1>4 DEF Reading, Trees
<1>6. ASSUME NEW e \in acked'
      PROVE  /\ e \in EntryRecord /\ e.tree \in roots /\ e.tree \in DOMAIN file
             /\ HasPath(file, l, e)
  <2>1. e \in acked /\ Finds(file, e.tree, e.key) = e.val
    BY <1>1 DEF Found
  <2>2. e \in EntryRecord /\ e.tree \in roots
    BY <2>1 DEF ForestInv
  <2>3. e.tree \in DOMAIN file
    BY <1>3, <2>1, <2>2, FoundIsInFile
  <2>4. HasPath(file, l, e)
    BY <1>5, <2>1, <2>2, <2>3, FoundIsPath
  <2>5. QED
    BY <2>2, <2>3, <2>4
<1>7. Kept(file, roots, acked')
  BY <1>3, <1>4, <1>6 DEF Kept, Trees
<1>8. OpensWith(file, roots, acked')
  BY <1>2, <1>6, <1>7 DEF OpensWith, ForestInv
<1>9. QED
  BY <1>1, <1>8, OpenKeepsForest

LEMMA NothingRead ==
  ASSUME NEW f \in Seq(BTreeNode), NEW r, r \notin DOMAIN f
  PROVE  EntriesUnder(f, r, r) = {}
<1>1. FilePagesUnder(f, r) = {}
  BY NothingUnder
<1>2. QED
  BY <1>1 DEF EntriesUnder
-----------------------------------------------------------------------------
(* The files that a program finds are forests with the root of the schema  *)
(* table.  A file that does not exist is one, and so is each file that     *)
(* this program leaves, by the theorem CrashesLeaveForests.                *)
MarkedStarts ==
    \A start \in StartFiles :
      /\ 1 \in start.roots
      /\ \E l : Marked(start.file, Len(start.file), start.roots, l)

LEMMA NoFileIsMarked ==
  ASSUME \A start \in StartFiles : start.file = << >> /\ start.roots = {1}
  PROVE  MarkedStarts
<1> DEFINE l == [pages |-> {}, own |-> [p \in Pages |-> p], ht |-> [p \in Pages |-> 0],
                 keys |-> [p \in Pages |-> {}]]
           f == << >>
<1>1. Len(f) = 0
  OBVIOUS
<1>2. /\ l.pages = {} /\ l.own \in [Pages -> Pages] /\ l.ht \in [Pages -> Nat]
      /\ l.keys \in [Pages -> SUBSET Nat]
  OBVIOUS
<1>3. \A r : r \notin 1 .. 0
  OBVIOUS
<1> HIDE DEF l, f
<1>4. Marked(f, 0, {1}, l)
  BY <1>2, <1>3 DEF Marked, MarksTyped, RootsMarked, LevelsMarked, LinksMarked,
                    OneMarkedLink, CellsMarked
<1>5. QED
  BY <1>1, <1>4 DEF MarkedStarts, f

(* A program starts with the entries that are in the file.                 *)
LEMMA InitForest ==
  ASSUME SafeSizes, MarkedStarts, FileInit
  PROVE  ForestInv
<1>1. PICK start \in StartFiles :
        /\ file = start.file /\ roots = start.roots
        /\ acked = UNION {EntriesUnder(file, r, r) : r \in roots}
  BY DEF FileInit
<1>2. /\ n_pages = PagesOf(file) /\ nodes = NodesOf(file) /\ todo = CreateWrites(file)
      /\ op = Idle /\ buffer = None /\ atRisk = {}
  BY DEF FileInit
<1>3. SoundFile(file) /\ roots \subseteq 1 .. PagesOf(file)
  BY <1>1, FilesAssumption
<1>4. /\ file \in Seq(BTreeNode) /\ Len(file) <= MaxPages /\ Len(file) \in Nat
      /\ DOMAIN file = 1 .. Len(file)
  BY <1>3 DEF SoundFile
<1>5. 1 \in roots /\ \E m : Marked(file, Len(file), roots, m)
  BY <1>1 DEF MarkedStarts
<1>6. PICK l : Marked(file, Len(file), roots, l)
  BY <1>5
<1>7. Reading(file, roots, l)
  BY <1>4, <1>6 DEF Reading
<1>8. ASSUME NEW e \in acked
      PROVE  /\ e \in EntryRecord /\ e.tree \in roots /\ e.tree \in DOMAIN file
             /\ HasPath(file, l, e)
  <2>1. PICK r \in roots : e \in EntriesUnder(file, r, r)
    BY <1>1
  <2>2. r \in DOMAIN file
    BY <1>4, <2>1, NothingRead
  <2>3. e \in EntryRecord /\ e.tree = r /\ HasPath(file, l, e)
    BY <1>7, <2>1, <2>2, ReadIsFound
  <2>4. QED
    BY <2>1, <2>2, <2>3
<1>9. Kept(file, roots, acked)
  BY <1>4, <1>6, <1>8 DEF Kept, Trees
<1>10. OpensWith(file, roots, acked)
  BY <1>3, <1>5, <1>8, <1>9 DEF OpensWith
<1>11. roots = {1} \cup (roots \cap DOMAIN file)
  <2>1. CASE file = << >>
    <3>1. PagesOf(file) = 1
      BY <2>1 DEF PagesOf
    <3>2. roots \subseteq 1 .. 1 /\ 1 .. 1 = {1}
      BY <1>3, <3>1
    <3>3. roots = {1}
      BY <1>5, <3>2
    <3>4. QED
      BY <3>3
  <2>2. CASE file # << >>
    <3>1. PagesOf(file) = Len(file)
      BY <2>2 DEF PagesOf, RealDBSize
    <3>2. QED
      BY <1>3, <1>4, <1>5, <3>1
  <2>3. QED
    BY <2>1, <2>2
<1>12. /\ Kept(file, roots, acked) /\ KeptAll(file, CreateWrites(file), roots, acked)
       /\ \E m : Trees(NodesOf(file), PagesOf(file), roots, m, acked)
       /\ 1 \in roots /\ \A e \in acked : e \in EntryRecord /\ e.tree \in roots
  BY <1>10, <1>11, OpenedTrees
<1>13. Flushed = file /\ acked \ atRisk = acked
  BY <1>2, NothingToFlush DEF Flushed
<1>14. \E m : Trees(nodes, n_pages, roots, m, acked) /\ Going(nodes, m, op)
  BY <1>2, <1>12 DEF Going
<1>15. QED
  BY <1>2, <1>12, <1>13, <1>14 DEF ForestInv

LEMMA StutterKeepsForest ==
  ASSUME ForestInv, UNCHANGED allVars
  PROVE  ForestInv'
<1>1. UNCHANGED <<nodes, n_pages, roots, op, file, buffer, todo, acked, atRisk>>
  BY DEF allVars
<1>2. Flushed' = Flushed
  BY <1>1 DEF Flushed
<1>3. Kept(file, roots, acked \ atRisk)' /\ KeptAll(Flushed, todo, roots, acked \ atRisk)'
  <2>1. Kept(file, roots, acked \ atRisk) /\ KeptAll(Flushed, todo, roots, acked \ atRisk)
    BY DEF ForestInv
  <2>2. QED
    BY <1>1, <1>2, <2>1
<1>4. (\E l : Trees(nodes, n_pages, roots, l, acked) /\ Going(nodes, l, op))'
  <2>1. PICK l : Trees(nodes, n_pages, roots, l, acked) /\ Going(nodes, l, op)
    BY DEF ForestInv
  <2>2. Trees(nodes', n_pages', roots', l, acked') /\ Going(nodes', l, op')
    BY <1>1, <2>1
  <2>3. QED
    BY <2>2
<1>5. 1 \in roots' /\ \A e \in acked' : e \in EntryRecord /\ e.tree \in roots'
  BY <1>1 DEF ForestInv
<1>6. QED
  BY <1>3, <1>4, <1>5 DEF ForestInv

(* The cells that a call inserts have keys that fit and values.            *)
LEMMA CallInserts ==
  ASSUME KeysFit, CallInsert
  PROVE  \E r \in roots, c \in BTreeCell :
           FitsIn(nodes[r].type, c.key) /\ c.val \in Vals /\ InsertsIn(r, c)
<1>1. PICK r \in roots, c \in BTreeCell :
        FitsIn(nodes[r].type, c.key) /\ c.val \in Vals /\ Insert(r, c)
  <2>1. CASE \E r \in roots, k \in TableKeys, d \in Records : InsertInTable(r, k, d)
    <3>1. PICK r \in roots, k \in TableKeys, d \in Records : InsertInTable(r, k, d)
      BY <2>1
    <3> DEFINE c == [key |-> k, val |-> d, child |-> 0]
    <3>2. Insert(r, c)
      BY <3>1 DEF InsertInTable
    <3>3. c \in BTreeCell /\ c.key = k /\ c.val = d /\ d \in Vals
      BY InsertedCellType DEF Vals
    <3>4. FitsIn(nodes[r].type, k)
      BY InsertedKeyFits
    <3> HIDE DEF c
    <3>5. QED
      BY <3>2, <3>3, <3>4
  <2>2. CASE \E r \in roots, k \in IndexKeys, pk \in KeyPks : InsertInIndex(r, k, pk)
    <3>1. PICK r \in roots, k \in IndexKeys, pk \in KeyPks : InsertInIndex(r, k, pk)
      BY <2>2
    <3> DEFINE c == [key |-> k, val |-> pk, child |-> 0]
    <3>2. Insert(r, c) /\ is_index(nodes[r].type)
      BY <3>1 DEF InsertInIndex
    <3>3. c \in BTreeCell /\ c.key = k /\ c.val = pk /\ pk \in Vals
      BY InsertedCellType DEF Vals
    <3>4. FitsIn(nodes[r].type, k)
      BY <3>2, InsertedKeyFits
    <3> HIDE DEF c
    <3>5. QED
      BY <3>2, <3>3, <3>4
  <2>3. QED
    BY <2>1, <2>2 DEF CallInsert
<1>2. op'.nroot = r
  BY <1>1 DEF Insert
<1>3. /\ Returned /\ nodes[1].type # Unallocated /\ UNCHANGED acked
      /\ LET s == op'.nroot
         IN  IF n_pages' = n_pages THEN Call(<< >>, {})
             ELSE Call(SplitRootWrites(nodes, s, n_pages + 1, n_pages + 2),
                       EntriesUnder(Flushed, s, s))
  BY DEF CallInsert
<1>4. InsertsIn(r, c)
  BY <1>1, <1>2, <1>3 DEF InsertsIn
<1>5. QED
  BY <1>1, <1>4

LEMMA NextKeepsForest ==
  SafeSizes /\ KeysFit /\ WritesInv /\ WritesInv' /\ ForestInv /\ [FileNext]_allVars
    => ForestInv'
<1> SUFFICES ASSUME SafeSizes, KeysFit, WritesInv, WritesInv', ForestInv, [FileNext]_allVars
             PROVE  ForestInv'
  OBVIOUS
<1>1. CASE CallNewTree
  BY <1>1, NewTreeKeepsForest
<1>2. CASE CallInsert
  <2>1. PICK r \in roots, c \in BTreeCell :
          FitsIn(nodes[r].type, c.key) /\ c.val \in Vals /\ InsertsIn(r, c)
    BY <1>2, CallInserts
  <2>2. QED
    BY <2>1, InsertKeepsForest
<1>3. CASE CallDescend
  BY <1>3, DescendKeepsForest
<1>4. CASE CallSplit
  BY <1>4, SplitKeepsForest
<1>5. CASE CallReject \/ RejectPageNumber
  BY <1>5, RejectKeepsForest
<1>6. CASE CallInsertInLeaf
  BY <1>6, InsertInLeafKeepsForest
<1>7. CASE WritePage
  BY <1>7, WritePageKeepsForest
<1>8. CASE CloseAndOpen
  BY <1>8, CloseKeepsForest
<1>9. CASE CrashAndOpen
  BY <1>9, CrashKeepsForest
<1>10. CASE UNCHANGED allVars
  BY <1>10, StutterKeepsForest
<1>11. QED
  BY <1>1, <1>2, <1>3, <1>4, <1>5, <1>6, <1>7, <1>8, <1>9, <1>10 DEF FileNext, Continue

(* In a file with the invariant the entries that are not at risk are       *)
(* found.                                                                  *)
LEMMA KeptIsFound ==
  ASSUME ForestInv, NEW e \in acked, e \notin atRisk
  PROVE  e \in Found(file, acked)
<1>1. e \in EntryRecord /\ e \in acked \ atRisk
  BY DEF ForestInv
<1>2. PICK l : Trees(file, Len(file), roots, l, acked \ atRisk)
  BY DEF ForestInv, Kept
<1>3. Reading(file, roots, l) /\ HasPath(file, l, e)
  BY <1>1, <1>2 DEF ForestInv, Kept, Reading, Trees
<1>4. Finds(file, e.tree, e.key) = e.val
  BY <1>1, <1>3, PathIsFound
<1>5. QED
  BY <1>4 DEF Found
-----------------------------------------------------------------------------
(* The theorems.  They assume SafeSizes, the keys that a table can tell    *)
(* apart (KeysFit) and that the program starts from forests.               *)

(* At every moment, between two page writes and after any number of        *)
(* crashes too, the file holds trees with all entries whose insert         *)
(* returned but those at risk, and so does every file that the writes of   *)
(* the call in progress are yet to make of it (the page writes of          *)
(* chidb_Btree_insert, chidb_Btree_split and chidb_Btree_newNode).         *)
THEOREM CrashesLeaveForests ==
  ASSUME SafeSizes, KeysFit, MarkedStarts
  PROVE  FileSpec => []ForestInv
<1>1. FileInit => ForestInv
  BY InitForest
<1>2. WritesInv /\ WritesInv' /\ ForestInv /\ [FileNext]_allVars => ForestInv'
  BY NextKeepsForest
<1>3. FileSpec => []WritesInv
  BY WritesLeadToNodes
<1>4. QED
  BY <1>1, <1>2, <1>3, PTL DEF FileSpec

(* Whenever the process dies, what cannot be found in the file, of the     *)
(* entries whose insert had returned, is what the call in progress may     *)
(* cost: the entry whose page was still in the stream, or those under the  *)
(* one node that was being split.                                          *)
THEOREM CrashesSpareTheRest ==
  ASSUME SafeSizes, KeysFit, MarkedStarts
  PROVE  FileSpec => []CrashCostsOneSplit
<1>1. ForestInv => CrashCostsOneSplit
  BY KeptIsFound DEF CrashCostsOneSplit
<1>2. QED
  BY <1>1, CrashesLeaveForests, PTL

(* Whenever the process dies, the pages that can be reached form trees: a  *)
(* page is under one root and hangs from one pointer.  The halves of a     *)
(* split are never both reachable with the whole, although the file has    *)
(* all three for a while.                                                  *)
THEOREM CrashesLeaveTrees ==
  ASSUME SafeSizes, KeysFit, MarkedStarts
  PROVE  FileSpec => []ReachablePagesFormTrees
<1>1. ForestInv => ReachablePagesFormTrees
  <2> SUFFICES ASSUME ForestInv, NEW r \in roots, NEW p \in FilePagesUnder(file, r)
               PROVE  /\ \A s \in roots \ {r} : p \notin FilePagesUnder(file, s)
                      /\ Cardinality(FilePointersTo(file, p)) = IF p = r THEN 0 ELSE 1
    BY DEF ReachablePagesFormTrees
  <2>1. PICK l : Trees(file, Len(file), roots, l, acked \ atRisk)
    BY DEF ForestInv, Kept
  <2>2. Reading(file, roots, l)
    BY <2>1 DEF ForestInv, Kept, Reading, Trees
  <2>3. QED
    BY <2>2, ReachedTrees
<1>2. QED
  BY <1>1, CrashesLeaveForests, PTL

(* Whenever the process dies, every entry in a leaf that can be reached is *)
(* the one that the search for its key finds, and no other has the key.    *)
THEOREM CrashesLeaveSearchTrees ==
  ASSUME SafeSizes, KeysFit, MarkedStarts
  PROVE  FileSpec => []ReachableEntriesAreFound
<1>1. ForestInv => ReachableEntriesAreFound
  <2> SUFFICES ASSUME ForestInv, NEW r \in roots, NEW e \in EntriesUnder(file, r, r)
               PROVE  /\ Finds(file, r, e.key) = e.val
                      /\ Cardinality(CellsWith(file, r, e.key)) = 1
    BY DEF ReachableEntriesAreFound
  <2>1. PICK l : Trees(file, Len(file), roots, l, acked \ atRisk)
    BY DEF ForestInv, Kept
  <2>2. Reading(file, roots, l)
    BY <2>1 DEF ForestInv, Kept, Reading, Trees
  <2>3. r \in DOMAIN file
    BY NothingRead DEF ForestInv, Kept
  <2>4. QED
    BY <2>2, <2>3, ReadIsFound
<1>2. QED
  BY <1>1, CrashesLeaveForests, PTL
=============================================================================
