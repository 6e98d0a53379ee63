-------------------------- MODULE BTreeForest_proofs --------------------------
(***************************************************************************)
(* Theorems about the trees of module BTree, for every size of page and    *)
(* record, every set of keys and every number of pages and trees: every    *)
(* page is of one tree, trees are balanced, and an insert stays in its     *)
(* tree.                                                                   *)
(*                                                                         *)
(* The code keeps no record of which tree a page is of, nor of its level.  *)
(* The inductive invariant says that two functions exist that tell: own,   *)
(* the root a page is under, and ht, its height above the leaves.  The     *)
(* proof that a step keeps the invariant says what they become, which is   *)
(* easy, where what a recursive operator such as PagesUnder becomes is     *)
(* not; the last part reads the recursive operators off the two functions. *)
(***************************************************************************)
EXTENDS BTree_proofs

-----------------------------------------------------------------------------
(* Reachability.                                                           *)

(* A set that is left by no edge of E.                                     *)
Closed(E, S) == \A p \in S : E[p] \subseteq S

(* The nodes of D that edges of E lead to from p: those in all closed sets *)
(* that hold p.                                                            *)
Reach(E, D, p) == {q \in D : \A S \in SUBSET D : (p \in S /\ Closed(E, S)) => q \in S}

(* What is reached from p is p and what is reached from its successors.    *)
LEMMA ReachUnfolds ==
  ASSUME NEW D, NEW E \in [D -> SUBSET D], NEW p \in D
  PROVE  Reach(E, D, p) = {p} \cup UNION {Reach(E, D, q) : q \in E[p]}
<1> DEFINE R == {p} \cup UNION {Reach(E, D, q) : q \in E[p]}
<1>1. E[p] \subseteq D
  OBVIOUS
<1>2. R \subseteq Reach(E, D, p)
  <2>1. p \in Reach(E, D, p)
    BY DEF Reach
  <2>2. ASSUME NEW q \in E[p], NEW x \in Reach(E, D, q)
        PROVE  x \in Reach(E, D, p)
    BY <1>1, <2>2 DEF Reach, Closed
  <2>3. QED
    BY <2>1, <2>2
<1>3. R \in SUBSET D
  BY DEF Reach
<1>4. p \in R
  OBVIOUS
<1>5. Closed(E, R)
  <2>1. ASSUME NEW x \in R, NEW y \in E[x]
        PROVE  y \in R
    <3>1. CASE x = p
      <4>1. y \in Reach(E, D, y)
        BY <1>1, <2>1, <3>1 DEF Reach
      <4>2. QED
        BY <2>1, <3>1, <4>1
    <3>2. CASE x # p
      <4>1. PICK q \in E[p] : x \in Reach(E, D, q)
        BY <3>2
      <4>2. y \in Reach(E, D, q)
        <5>1. x \in D /\ y \in D
          BY <4>1 DEF Reach
        <5>2. ASSUME NEW S \in SUBSET D, q \in S, Closed(E, S)
              PROVE  y \in S
          <6>1. x \in S
            BY <4>1, <5>2 DEF Reach
          <6>2. QED
            BY <5>2, <6>1 DEF Closed
        <5>3. QED
          BY <5>1, <5>2 DEF Reach
      <4>3. QED
        BY <4>1, <4>2
    <3>3. QED
      BY <3>1, <3>2
  <2>2. QED
    BY <2>1 DEF Closed
<1> HIDE DEF R
<1>6. Reach(E, D, p) \subseteq R
  BY <1>3, <1>4, <1>5 DEF Reach
<1>7. QED
  BY <1>2, <1>6 DEF R
-----------------------------------------------------------------------------
(* The nodes of a split.                                                   *)

(* The position of the median, kept folded: divisions slow the provers.    *)
Half(n) == n \div 2

(* The cells above position m + 1.                                         *)
LEMMA UpperCells ==
  ASSUME NEW s \in Seq(BTreeCell), NEW m \in Nat, m + 1 <= Len(s)
  PROVE  /\ Len(SubSeq(s, m + 2, Len(s))) = Len(s) - m - 1
         /\ \A j \in 1 .. Len(s) - m - 1 :
              SubSeq(s, m + 2, Len(s))[j] = s[j + m + 1]
<1>1. Len(s) \in Nat
  OBVIOUS
<1>2. Len(SubSeq(s, m + 2, Len(s))) = Len(s) - m - 1
  BY <1>1
<1>3. ASSUME NEW j \in 1 .. Len(s) - m - 1
      PROVE  SubSeq(s, m + 2, Len(s))[j] = s[j + m + 1]
  BY <1>1
<1>4. QED
  BY <1>2, <1>3

(* The cell that a split puts in the parent.                               *)
Separator(median, nM) ==
    [key |-> median.key, val |-> median.val, child |-> nM]

(* What `new` is after a split of page child, to whose left goes page nM:  *)
(* m is the number of cells below the median.                              *)
IsSplit(ns, new, parent, child, i, nM, m) ==
    LET N == ns[child]
        P == ns[parent]
        leaf == ~is_internal(N.type)
    IN  /\ m \in Nat /\ m + 1 \in 1 .. Len(N.cells)
        /\ 2 * m <= Len(N.cells) /\ Len(N.cells) <= 2 * m + 1
        /\ \A q \in Pages \ {parent, child, nM} : new[q] = ns[q]
        /\ new[nM].type = N.type
        /\ Len(new[nM].cells) = IF leaf THEN m + 1 ELSE m
        /\ \A j \in 1 .. Len(new[nM].cells) : new[nM].cells[j] = N.cells[j]
        /\ new[nM].right_page = IF leaf THEN 0 ELSE N.cells[m + 1].child
        /\ new[child].type = N.type
        /\ Len(new[child].cells) = Len(N.cells) - m - 1
        /\ \A j \in 1 .. Len(new[child].cells) :
             new[child].cells[j] = N.cells[j + m + 1]
        /\ new[child].right_page = N.right_page
        /\ new[parent].type = P.type
        /\ Len(new[parent].cells) = Len(P.cells) + 1
        /\ new[parent].cells[i] = Stored(P.type, Separator(N.cells[m + 1], nM))
        /\ \A j \in 1 .. Len(P.cells) :
             new[parent].cells[IF j < i THEN j ELSE j + 1] = P.cells[j]
        /\ new[parent].right_page = P.right_page

(* The three nodes that a split writes, cell by cell.                      *)
LEMMA SplitCells ==
  ASSUME NEW ns \in [Pages -> BTreeNode],
         NEW parent \in Pages, NEW child \in Pages, NEW nM \in Pages,
         parent # child, nM # parent, nM # child,
         ns[parent].type \in NodeTypes,
         NEW i \in 1 .. Len(ns[parent].cells) + 1,
         Len(ns[child].cells) >= 1,
         NEW m, m = Half(Len(ns[child].cells))
  PROVE  IsSplit(ns, split(ns, parent, child, i, nM), parent, child, i, nM, m)
<1> DEFINE N == ns[child]
           t == N.type
           P == ns[parent]
           median == N.cells[m + 1]
           cut == IF is_internal(t) THEN m ELSE m + 1
           lower == SubSeq(N.cells, 1, cut)
           upper == SubSeq(N.cells, m + 2, Len(N.cells))
           right == IF is_internal(t) THEN median.child ELSE 0
           A == FilledNode(nM, t, lower, right)
           B == FilledNode(child, t, upper, N.right_page)
           c == Separator(median, nM)
           C == insertCell(P, i, c)
           new == split(ns, parent, child, i, nM)
<1>1. N \in BTreeNode /\ P \in BTreeNode
  OBVIOUS
<1>2. N.cells \in Seq(BTreeCell) /\ P.cells \in Seq(BTreeCell)
      /\ Len(N.cells) \in Nat /\ Len(P.cells) \in Nat
  BY <1>1 DEF BTreeNode
<1>3. /\ m \in Nat /\ 2 * m <= Len(N.cells) /\ Len(N.cells) <= 2 * m + 1
      /\ m + 1 \in 1 .. Len(N.cells)
  <2> DEFINE n == Len(N.cells)
  <2>1. n \in Nat /\ n >= 1 /\ m = Half(n)
    BY <1>2
  <2> HIDE DEF n
  <2>2. m \in Nat /\ 2 * m <= n /\ n <= 2 * m + 1
    BY <2>1, Halving DEF Half
  <2>3. m + 1 \in 1 .. n
    BY <2>1, <2>2
  <2>4. QED
    BY <2>2, <2>3 DEF n
<1>4. new = [ns EXCEPT ![nM] = A, ![child] = B, ![parent] = C]
  <2> DEFINE d == [median EXCEPT !.child = nM]
  <2>1. new = [ns EXCEPT ![nM] = A, ![child] = B, ![parent] = insertCell(@, i, d)]
    BY DEF split, FilledNode, Half
  <2>2. median \in BTreeCell
    BY <1>2, <1>3
  <2> HIDE DEF median
  <2>3. d = c
    BY <2>2 DEF BTreeCell, Separator
  <2> HIDE DEF A, B, c, d, N
  <2>4. QED
    BY <2>1, <2>3
<1>5. median \in BTreeCell
  BY <1>2, <1>3
<1>6. c \in BTreeCell
  <2>1. nM \in 0 .. MaxPages
    BY ConstantsAssumption DEF Pages
  <2> HIDE DEF median
  <2>2. QED
    BY <1>5, <2>1 DEF BTreeCell, Separator
<1>7. /\ Len(lower) = cut
      /\ \A j \in 1 .. cut : lower[j] = N.cells[j]
      /\ Len(upper) = Len(N.cells) - m - 1
      /\ \A j \in 1 .. Len(N.cells) - m - 1 : upper[j] = N.cells[j + m + 1]
  <2> DEFINE s == N.cells
  <2>1. s \in Seq(BTreeCell) /\ cut \in 0 .. Len(s) /\ m + 2 \in 1 .. Len(s) + 1
    BY <1>2, <1>3, SMTT(30)
  <2> HIDE DEF cut, s
  <2>2. /\ Len(SubSeq(s, 1, cut)) = cut
        /\ \A j \in 1 .. cut : SubSeq(s, 1, cut)[j] = s[j]
    BY <2>1, SMTT(30)
  <2>3. /\ Len(SubSeq(s, m + 2, Len(s))) = Len(s) - m - 1
        /\ \A j \in 1 .. Len(s) - m - 1 :
             SubSeq(s, m + 2, Len(s))[j] = s[j + m + 1]
    <3>1. m \in Nat /\ m + 1 <= Len(s)
      BY <1>3 DEF s
    <3>2. QED
      BY <2>1, <3>1, UpperCells
  <2>4. QED
    BY <2>2, <2>3 DEF s
<1>8. /\ A.type = t /\ A.cells = lower /\ A.right_page = right
      /\ B.type = t /\ B.cells = upper /\ B.right_page = N.right_page
  <2> HIDE DEF t, lower, upper, right, N
  <2>1. QED
    BY DEF FilledNode, InsertCells, initEmptyNode
<1>9. /\ C.type = P.type /\ C.right_page = P.right_page
      /\ C.cells = InsertAt(P.cells, i, Stored(P.type, c))
  <2> HIDE DEF P, c
  <2>1. QED
    BY <1>1 DEF insertCell, BTreeNode
<1>10. /\ Len(C.cells) = Len(P.cells) + 1
       /\ C.cells[i] = Stored(P.type, c)
       /\ \A j \in 1 .. Len(P.cells) :
            C.cells[IF j < i THEN j ELSE j + 1] = P.cells[j]
  <2>1. Stored(P.type, c) \in BTreeCell
    BY <1>6, StoredType
  <2> DEFINE s == Stored(P.type, c)
             cells == P.cells
  <2> HIDE DEF s, cells, C
  <2>2. s \in BTreeCell /\ cells \in Seq(BTreeCell) /\ i \in 1 .. Len(cells) + 1
        /\ C.cells = InsertAt(cells, i, s)
    BY <1>2, <1>9, <2>1 DEF s, cells
  <2>3. /\ Len(C.cells) = Len(cells) + 1
        /\ C.cells[i] = s
        /\ \A j \in 1 .. Len(cells) :
             C.cells[IF j < i THEN j ELSE j + 1] = cells[j]
    <3> DEFINE d == InsertAt(cells, i, s)
    <3>1. /\ Len(d) = Len(cells) + 1
          /\ d[i] = s
          /\ \A j \in 1 .. Len(cells) : d[IF j < i THEN j ELSE j + 1] = cells[j]
      BY <2>2, InsertAtCells
    <3> HIDE DEF d
    <3>2. C.cells = d
      BY <2>2 DEF d
    <3>3. QED
      BY <3>1, <3>2
  <2>4. QED
    BY <2>3 DEF s, cells
<1> HIDE DEF A, B, C, c, lower, upper, new
<1>11. /\ new[child] = B /\ new[nM] = A /\ new[parent] = C
       /\ \A q \in Pages \ {parent, child, nM} : new[q] = ns[q]
  BY <1>4
<1>12. QED
  BY <1>3, <1>7, <1>8, <1>9, <1>10, <1>11 DEF new, c, IsSplit

(* The pointers.                                                           *)
Link(ns, p, i, q) ==
    /\ is_internal(ns[p].type)
    /\ i \in 1 .. Len(ns[p].cells) + 1
    /\ q = child_at(ns[p], i)

(* The page and the slot at which a split found what it leaves in slot j of *)
(* page p.                                                                 *)
OldPage(child, nM, p) == IF p = nM THEN child ELSE p
OldSlot(parent, child, i, m, p, j) ==
    IF p = child THEN j + m + 1
    ELSE IF p = parent /\ j > i THEN j - 1 ELSE j

(* A split adds one link, from the parent to the new page, and loses none. *)
LEMMA SplitLinks ==
  ASSUME NEW ns \in [Pages -> BTreeNode],
         NEW parent \in Pages, NEW child \in Pages, NEW nM \in Pages,
         parent # child, nM # parent, nM # child,
         ns[parent].type \in NodeTypes, is_internal(ns[parent].type),
         NEW i \in 1 .. Len(ns[parent].cells) + 1,
         NEW new, NEW m, IsSplit(ns, new, parent, child, i, nM, m)
  PROVE      /\ \A p \in Pages : new[p].type = ns[OldPage(child, nM, p)].type
             /\ Link(new, parent, i, nM)
             /\ m \in Nat
             /\ \A j \in Nat : \A q : Link(new, nM, j, q) => j <= m + 1
             /\ \A p \in Pages, j \in Nat : \A q :
                  Link(new, p, j, q) /\ ~(p = parent /\ j = i) =>
                    /\ Link(ns, OldPage(child, nM, p),
                                OldSlot(parent, child, i, m, p, j), q)
                    /\ OldSlot(parent, child, i, m, p, j) \in Nat
             /\ \A p \in Pages \ {nM}, j \in Nat : \A q :
                  Link(ns, p, j, q) =>
                    \E p2 \in {p, nM}, j2 \in Nat : Link(new, p2, j2, q)
<1> DEFINE N == ns[child]
           P == ns[parent]
<1>1. /\ m \in Nat /\ m + 1 \in 1 .. Len(N.cells)
      /\ \A q \in Pages \ {parent, child, nM} : new[q] = ns[q]
      /\ new[nM].type = N.type
      /\ is_internal(N.type) => Len(new[nM].cells) = m
      /\ \A j \in 1 .. Len(new[nM].cells) : new[nM].cells[j] = N.cells[j]
      /\ is_internal(N.type) => new[nM].right_page = N.cells[m + 1].child
      /\ new[child].type = N.type
      /\ Len(new[child].cells) = Len(N.cells) - m - 1
      /\ \A j \in 1 .. Len(new[child].cells) :
           new[child].cells[j] = N.cells[j + m + 1]
      /\ new[child].right_page = N.right_page
      /\ new[parent].type = P.type
      /\ Len(new[parent].cells) = Len(P.cells) + 1
      /\ new[parent].cells[i] = Stored(P.type, Separator(N.cells[m + 1], nM))
      /\ \A j \in 1 .. Len(P.cells) :
           new[parent].cells[IF j < i THEN j ELSE j + 1] = P.cells[j]
      /\ new[parent].right_page = P.right_page
  BY DEF IsSplit
<1>2. /\ Len(N.cells) \in Nat /\ Len(P.cells) \in Nat
      /\ N.cells \in Seq(BTreeCell) /\ i \in Nat /\ 1 <= i
      /\ i <= Len(P.cells) + 1
  <2>1. N \in BTreeNode /\ P \in BTreeNode
    OBVIOUS
  <2>2. N.cells \in Seq(BTreeCell) /\ P.cells \in Seq(BTreeCell)
    BY <2>1 DEF BTreeNode
  <2>3. QED
    BY <2>2
<1>3. new[parent].cells[i].child = nM
  BY <1>1 DEF Stored, Separator
<1> HIDE DEF N, P
<1>0. /\ m \in Nat /\ m + 1 <= Len(N.cells)
      /\ Len(new[child].cells) = Len(N.cells) - m - 1
      /\ Len(new[parent].cells) = Len(P.cells) + 1
      /\ Len(new[child].cells) \in Nat
  BY <1>1, <1>2
<1>4. \A p \in Pages : new[p].type = ns[OldPage(child, nM, p)].type
  BY <1>1 DEF OldPage, N, P
<1>5. Link(new, parent, i, nM)
  <2>1. i \in 1 .. Len(new[parent].cells) + 1 /\ i # Len(new[parent].cells) + 1
    BY <1>1, <1>2
  <2>2. QED
    BY <1>1, <1>3, <2>1 DEF Link, child_at, P
<1>6. ASSUME NEW j \in Nat, is_internal(N.type), j <= m + 1, j >= 1
      PROVE  /\ j \in 1 .. Len(N.cells) + 1 /\ j \in 1 .. Len(new[nM].cells) + 1
             /\ child_at(new[nM], j) = child_at(N, j)
  <2>1. j \in 1 .. Len(N.cells) /\ j # Len(N.cells) + 1
    BY <1>1, <1>2, <1>6, SMTT(30)
  <2>2. CASE j = m + 1
    BY <1>1, <1>6, <2>1, <2>2 DEF child_at
  <2>3. CASE j <= m
    <3>1. j \in 1 .. Len(new[nM].cells) /\ j # Len(new[nM].cells) + 1
      BY <1>1, <1>6, <2>3
    <3>2. new[nM].cells[j] = N.cells[j]
      BY <1>1, <3>1
    <3>3. QED
      BY <2>1, <3>1, <3>2 DEF child_at
  <2>4. QED
    BY <1>1, <1>6, <2>2, <2>3
<1>7. ASSUME NEW j \in Nat, j >= 1, j <= Len(new[child].cells) + 1
      PROVE  /\ j + m + 1 \in 1 .. Len(N.cells) + 1 /\ j + m + 1 \in Nat
             /\ child_at(new[child], j) = child_at(N, j + m + 1)
  <2>1. j + m + 1 \in 1 .. Len(N.cells) + 1 /\ j + m + 1 \in Nat
    BY <1>0, <1>2, <1>7
  <2>2. CASE j = Len(new[child].cells) + 1
    <3>1. j + m + 1 = Len(N.cells) + 1
      BY <1>0, <1>2, <2>2
    <3>2. QED
      BY <1>1, <2>1, <2>2, <3>1 DEF child_at
  <2>3. CASE j # Len(new[child].cells) + 1
    <3>1. j \in 1 .. Len(new[child].cells) /\ j + m + 1 # Len(N.cells) + 1
      BY <1>0, <1>2, <1>7, <2>3
    <3>2. QED
      BY <1>1, <2>1, <2>3, <3>1 DEF child_at
  <2>4. QED
    BY <2>2, <2>3
<1>8. ASSUME NEW j \in Nat, j >= 1, j < i
      PROVE  /\ j \in 1 .. Len(P.cells) + 1
             /\ j \in 1 .. Len(new[parent].cells) + 1
             /\ child_at(new[parent], j) = child_at(P, j)
  <2>1. j \in 1 .. Len(P.cells) /\ j # Len(P.cells) + 1
        /\ j # Len(new[parent].cells) + 1 /\ j \in 1 .. Len(new[parent].cells) + 1
    BY <1>1, <1>2, <1>8
  <2>2. new[parent].cells[j] = P.cells[j]
    BY <1>1, <1>8, <2>1
  <2>3. QED
    BY <2>1, <2>2 DEF child_at
<1>9. ASSUME NEW j \in Nat, j > i, j <= Len(P.cells) + 2
      PROVE  /\ j - 1 \in 1 .. Len(P.cells) + 1 /\ j - 1 \in Nat
             /\ j \in 1 .. Len(new[parent].cells) + 1
             /\ child_at(new[parent], j) = child_at(P, j - 1)
  <2>1. j - 1 \in 1 .. Len(P.cells) + 1 /\ j - 1 \in Nat
        /\ j \in 1 .. Len(new[parent].cells) + 1
    BY <1>1, <1>2, <1>9
  <2>2. CASE j = Len(P.cells) + 2
    <3>1. j - 1 = Len(P.cells) + 1 /\ j = Len(new[parent].cells) + 1
      BY <1>1, <1>2, <2>2
    <3>2. QED
      BY <1>1, <2>1, <3>1 DEF child_at
  <2>3. CASE j # Len(P.cells) + 2
    <3>1. j - 1 \in 1 .. Len(P.cells) /\ j - 1 # Len(P.cells) + 1
          /\ j # Len(new[parent].cells) + 1 /\ ~(j - 1 < i) /\ j - 1 + 1 = j
      BY <1>0, <1>2, <1>9, <2>3
    <3>2. new[parent].cells[j] = P.cells[j - 1]
      BY <1>1, <3>1
    <3>3. QED
      BY <2>1, <3>1, <3>2 DEF child_at
  <2>4. QED
    BY <2>2, <2>3
<1>10. ASSUME NEW p \in Pages, NEW j \in Nat, NEW q, Link(new, p, j, q),
              ~(p = parent /\ j = i)
       PROVE  /\ Link(ns, OldPage(child, nM, p),
                          OldSlot(parent, child, i, m, p, j), q)
              /\ OldSlot(parent, child, i, m, p, j) \in Nat
              /\ p = nM => j <= m + 1
  <2>1. /\ is_internal(new[p].type) /\ j \in 1 .. Len(new[p].cells) + 1
        /\ q = child_at(new[p], j)
    BY <1>10 DEF Link
  <2>2. CASE p = nM
    <3>1. is_internal(N.type) /\ j >= 1 /\ j <= m + 1
      BY <1>1, <2>1, <2>2
    <3>2. /\ j \in 1 .. Len(N.cells) + 1
          /\ child_at(new[nM], j) = child_at(N, j)
      BY <1>6, <3>1
    <3>3. OldPage(child, nM, p) = child /\ OldSlot(parent, child, i, m, p, j) = j
      BY <2>2 DEF OldPage, OldSlot
    <3>4. QED
      BY <2>1, <2>2, <3>1, <3>2, <3>3 DEF Link, N
  <2>3. CASE p = child
    <3>1. is_internal(N.type) /\ j >= 1 /\ j <= Len(new[child].cells) + 1
      BY <1>1, <1>2, <2>1, <2>3
    <3>2. /\ j + m + 1 \in 1 .. Len(N.cells) + 1 /\ j + m + 1 \in Nat
          /\ child_at(new[child], j) = child_at(N, j + m + 1)
      BY <1>7, <3>1
    <3>3. OldPage(child, nM, p) = child
          /\ OldSlot(parent, child, i, m, p, j) = j + m + 1
      BY <2>3 DEF OldPage, OldSlot
    <3>4. QED
      BY <2>1, <2>3, <3>1, <3>2, <3>3 DEF Link, N
  <2>4. CASE p = parent /\ j < i
    <3>1. /\ j \in 1 .. Len(P.cells) + 1 /\ child_at(new[parent], j) = child_at(P, j)
      BY <1>8, <2>1, <2>4
    <3>2. OldPage(child, nM, p) = parent /\ OldSlot(parent, child, i, m, p, j) = j
      BY <1>2, <2>4 DEF OldPage, OldSlot
    <3>3. QED
      BY <2>1, <2>4, <3>1, <3>2 DEF Link, P
  <2>5. CASE p = parent /\ j > i
    <3>1. j <= Len(P.cells) + 2
      BY <1>1, <1>2, <2>1, <2>5
    <3>2. /\ j - 1 \in 1 .. Len(P.cells) + 1 /\ j - 1 \in Nat
          /\ child_at(new[parent], j) = child_at(P, j - 1)
      BY <1>9, <2>5, <3>1
    <3>3. OldPage(child, nM, p) = parent
          /\ OldSlot(parent, child, i, m, p, j) = j - 1
      BY <2>5 DEF OldPage, OldSlot
    <3>4. QED
      BY <2>1, <2>5, <3>2, <3>3 DEF Link, P
  <2>6. CASE p \notin {parent, child, nM}
    <3>1. OldPage(child, nM, p) = p /\ OldSlot(parent, child, i, m, p, j) = j
          /\ new[p] = ns[p]
      BY <1>1, <2>6 DEF OldPage, OldSlot
    <3>2. QED
      BY <1>10, <2>6, <3>1 DEF Link
  <2>7. QED
    BY <1>2, <1>10, <2>2, <2>3, <2>4, <2>5, <2>6
<1>11. ASSUME NEW p \in Pages \ {nM}, NEW j \in Nat, NEW q, Link(ns, p, j, q)
       PROVE  \E p2 \in {p, nM}, j2 \in Nat : Link(new, p2, j2, q)
  <2>1. /\ is_internal(ns[p].type) /\ j \in 1 .. Len(ns[p].cells) + 1
        /\ q = child_at(ns[p], j)
    BY <1>11 DEF Link
  <2>2. CASE p = child /\ j <= m + 1
    <3>1. /\ j \in 1 .. Len(new[nM].cells) + 1
          /\ child_at(new[nM], j) = child_at(N, j)
      BY <1>6, <2>1, <2>2 DEF N
    <3>2. Link(new, nM, j, q)
      BY <1>1, <2>1, <2>2, <3>1 DEF Link, N
    <3>3. QED
      BY <3>2
  <2>3. CASE p = child /\ j > m + 1
    <3>1. j - m - 1 \in Nat /\ j - m - 1 >= 1
          /\ j - m - 1 <= Len(new[child].cells) + 1
          /\ (j - m - 1) + m + 1 = j
      BY <1>0, <1>2, <2>1, <2>3 DEF N
    <3>2. child_at(new[child], j - m - 1) = child_at(N, j)
      BY <1>7, <3>1
    <3>3. Link(new, child, j - m - 1, q)
      <4>1. j - m - 1 \in 1 .. Len(new[child].cells) + 1
        BY <1>1, <1>2, <3>1
      <4>2. QED
        BY <1>1, <2>1, <2>3, <3>2, <4>1 DEF Link, N
    <3>4. QED
      BY <2>3, <3>1, <3>3
  <2>4. CASE p = parent /\ j < i
    <3>1. /\ j \in 1 .. Len(new[parent].cells) + 1
          /\ child_at(new[parent], j) = child_at(P, j)
      BY <1>8, <2>1, <2>4
    <3>2. Link(new, parent, j, q)
      BY <1>1, <2>1, <2>4, <3>1 DEF Link, P
    <3>3. QED
      BY <2>4, <3>2
  <2>5. CASE p = parent /\ j >= i
    <3>1. j + 1 \in Nat /\ j + 1 > i /\ j + 1 <= Len(P.cells) + 2
          /\ (j + 1) - 1 = j
      BY <1>2, <2>1, <2>5 DEF P
    <3>2. /\ j + 1 \in 1 .. Len(new[parent].cells) + 1
          /\ child_at(new[parent], j + 1) = child_at(P, j)
      BY <1>9, <3>1
    <3>3. Link(new, parent, j + 1, q)
      BY <1>1, <2>1, <2>5, <3>2 DEF Link, P
    <3>4. QED
      BY <2>5, <3>1, <3>3
  <2>6. CASE p \notin {parent, child, nM}
    <3>1. new[p] = ns[p]
      BY <1>1, <2>6
    <3>2. Link(new, p, j, q)
      BY <1>11, <3>1 DEF Link
    <3>3. QED
      BY <3>2
  <2>7. QED
    BY <1>0, <1>2, <2>1, <2>2, <2>3, <2>4, <2>5, <2>6
<1>12. \A j \in Nat : \A q : Link(new, nM, j, q) => j <= m + 1
  BY <1>10
<1>13. QED
  BY <1>1, <1>4, <1>5, <1>10, <1>11, <1>12
-----------------------------------------------------------------------------
(* The shape of the forest.                                                *)

(* The parts of the shape of a forest of the trees rts in the first pages: *)
(* the types of owner and height;                                          *)
Typed(own, ht) == own \in [Pages -> Pages] /\ ht \in [Pages -> Nat]

(* a root is a page in use and of its own tree;                            *)
Rooted(count, rts, own) == rts \subseteq 1 .. count /\ \A r \in rts : own[r] = r

(* a page is a node of a tree, no higher than its root, and a leaf if its  *)
(* height is 0;                                                            *)
Levels(ns, count, rts, own, ht) ==
    \A p \in 1 .. count :
      /\ ns[p].type \in NodeTypes
      /\ own[p] \in rts
      /\ ht[p] <= ht[own[p]]
      /\ is_internal(ns[p].type) <=> ht[p] > 0

(* a link leads to a page of the same tree and kind, one level down;       *)
Descends(ns, count, rts, own, ht) ==
    \A p \in 1 .. count, i \in Nat : \A q : Link(ns, p, i, q) =>
      /\ q \in (1 .. count) \ rts
      /\ own[q] = own[p]
      /\ ht[p] = ht[q] + 1
      /\ is_index(ns[q].type) <=> is_index(ns[p].type)

(* no two links lead to one page;                                          *)
OneLink(ns, count) ==
    \A p1, p2 \in 1 .. count, i1, i2 \in Nat : \A q :
      Link(ns, p1, i1, q) /\ Link(ns, p2, i2, q) => p1 = p2 /\ i1 = i2

(* and one leads to each page that is not a root.                          *)
Hangs(ns, count, rts) ==
    \A q \in (1 .. count) \ rts :
      \E p \in 1 .. count, i \in Nat : Link(ns, p, i, q)

(* The shape of the forest.                                                *)
Shape(ns, count, rts, own, ht) ==
    /\ Typed(own, ht)
    /\ Rooted(count, rts, own)
    /\ Levels(ns, count, rts, own, ht)
    /\ Descends(ns, count, rts, own, ht)
    /\ OneLink(ns, count)
    /\ Hangs(ns, count, rts)

(* A split of a page that is not a root keeps the shape.                   *)
LEMMA SplitKeepsShape ==
  ASSUME NEW ns \in [Pages -> BTreeNode],
         NEW count \in Nat, NEW nM \in Pages, nM = count + 1,
         NEW rts, NEW own, NEW ht, Shape(ns, count, rts, own, ht),
         NEW parent \in 1 .. count, NEW i \in Nat, NEW child,
         Link(ns, parent, i, child),
         NEW new, NEW m, IsSplit(ns, new, parent, child, i, nM, m)
  PROVE  Shape(new, nM, rts, [own EXCEPT ![nM] = own[child]],
                             [ht EXCEPT ![nM] = ht[child]])
<1> DEFINE own2 == [own EXCEPT ![nM] = own[child]]
           ht2 == [ht EXCEPT ![nM] = ht[child]]
           old(p) == OldPage(child, nM, p)
           slot(p, j) == OldSlot(parent, child, i, m, p, j)
<1>1. /\ 1 .. nM = (1 .. count) \cup {nM} /\ 1 .. nM \subseteq Pages
      /\ nM \notin 1 .. count
  BY ConstantsAssumption DEF Pages
<1>2. /\ own \in [Pages -> Pages] /\ ht \in [Pages -> Nat]
      /\ rts \subseteq 1 .. count
  BY DEF Shape, Typed, Rooted
<1>3. /\ child \in (1 .. count) \ rts /\ own[child] = own[parent]
      /\ ht[parent] = ht[child] + 1
      /\ child \in Pages /\ parent \in Pages
      /\ parent # child
  <2>1. child \in (1 .. count) \ rts /\ own[child] = own[parent]
        /\ ht[parent] = ht[child] + 1
    BY DEF Shape, Descends
  <2>2. child \in Pages /\ parent \in Pages
    BY <1>1, <2>1
  <2>3. ht[child] \in Nat
    BY <1>2, <2>2
  <2>4. QED
    BY <2>1, <2>2, <2>3
<1>4. nM # parent /\ nM # child /\ nM \notin rts
  BY <1>1, <1>2, <1>3
<1>5. /\ \A p \in Pages : new[p].type = ns[old(p)].type
      /\ Link(new, parent, i, nM)
      /\ m \in Nat
      /\ \A j \in Nat : \A q : Link(new, nM, j, q) => j <= m + 1
      /\ \A p \in Pages, j \in Nat : \A q :
           Link(new, p, j, q) /\ ~(p = parent /\ j = i) =>
             Link(ns, old(p), slot(p, j), q) /\ slot(p, j) \in Nat
      /\ \A p \in Pages \ {nM}, j \in Nat : \A q :
           Link(ns, p, j, q) =>
             \E p2 \in {p, nM}, j2 \in Nat : Link(new, p2, j2, q)
  <2>1. /\ is_internal(ns[parent].type)
        /\ i \in 1 .. Len(ns[parent].cells) + 1
    BY DEF Link
  <2>2. ns[parent].type \in NodeTypes
    BY DEF Shape, Levels
  <2>3. QED
    BY <1>3, <1>4, <2>1, <2>2, SplitLinks, SMTT(30)
<1>6. /\ \A p \in 1 .. nM : old(p) \in 1 .. count
      /\ old(nM) = child
      /\ \A p \in 1 .. count : old(p) = p
  BY <1>1, <1>3, <1>4 DEF OldPage
<1>7. /\ own2 \in [Pages -> Pages] /\ ht2 \in [Pages -> Nat]
      /\ \A p \in 1 .. nM : own2[p] = own[old(p)] /\ ht2[p] = ht[old(p)]
  BY <1>1, <1>2, <1>3, <1>6
<1> HIDE DEF own2, ht2, old
<1>8. Typed(own2, ht2)
  BY <1>7 DEF Typed
<1>9. Rooted(nM, rts, own2)
  BY <1>1, <1>2, <1>6, <1>7 DEF Shape, Rooted
<1>10. Levels(new, nM, rts, own2, ht2)
  <2>1. ASSUME NEW p \in 1 .. nM
        PROVE  /\ new[p].type \in NodeTypes
               /\ own2[p] \in rts
               /\ ht2[p] <= ht2[own2[p]]
               /\ is_internal(new[p].type) <=> ht2[p] > 0
    <3>1. /\ ns[old(p)].type \in NodeTypes /\ own[old(p)] \in rts
          /\ ht[old(p)] <= ht[own[old(p)]]
          /\ is_internal(ns[old(p)].type) <=> ht[old(p)] > 0
      BY <1>6 DEF Shape, Levels
    <3>2. own2[p] = own[old(p)] /\ ht2[p] = ht[old(p)]
          /\ new[p].type = ns[old(p)].type
      BY <1>1, <1>5, <1>7
    <3>3. ht2[own2[p]] = ht[own[old(p)]]
      <4>1. \A r \in rts : r \in 1 .. nM /\ old(r) = r
        BY <1>1, <1>2, <1>6
      <4>2. \A r \in rts : ht2[r] = ht[r]
        BY <1>7, <4>1
      <4>3. QED
        BY <3>1, <3>2, <4>2
    <3>4. QED
      BY <3>1, <3>2, <3>3
  <2>2. QED
    BY <2>1 DEF Levels
<1>11. ASSUME NEW p \in 1 .. nM, NEW j \in Nat, NEW q, Link(new, p, j, q)
       PROVE  \/ p = parent /\ j = i /\ q = nM
              \/ /\ ~(p = parent /\ j = i)
                 /\ q \in (1 .. count) \ rts
                 /\ own[q] = own[old(p)]
                 /\ ht[old(p)] = ht[q] + 1
                 /\ is_index(ns[q].type) <=> is_index(ns[old(p)].type)
  <2>1. CASE p = parent /\ j = i
    BY <1>5, <1>11, <2>1 DEF Link
  <2>2. CASE ~(p = parent /\ j = i)
    <3>1. Link(ns, old(p), slot(p, j), q) /\ slot(p, j) \in Nat
      BY <1>1, <1>5, <1>11, <2>2
    <3>2. QED
      BY <1>6, <2>2, <3>1 DEF Shape, Descends
  <2>3. QED
    BY <2>1, <2>2
<1>12. Descends(new, nM, rts, own2, ht2)
  <2>1. ASSUME NEW p \in 1 .. nM, NEW j \in Nat, NEW q, Link(new, p, j, q)
        PROVE  /\ q \in (1 .. nM) \ rts
               /\ own2[q] = own2[p]
               /\ ht2[p] = ht2[q] + 1
               /\ is_index(new[q].type) <=> is_index(new[p].type)
    <3>1. /\ own2[p] = own[old(p)] /\ ht2[p] = ht[old(p)]
          /\ new[p].type = ns[old(p)].type
      BY <1>1, <1>5, <1>7
    <3>2. CASE p = parent /\ j = i /\ q = nM
      <4>1. is_index(ns[child].type) <=> is_index(ns[parent].type)
        BY DEF Shape, Descends
      <4>2. own2[q] = own[child] /\ ht2[q] = ht[child]
            /\ new[q].type = ns[child].type /\ old(p) = parent
        BY <1>1, <1>5, <1>6, <1>7, <3>2
      <4>3. q \in (1 .. nM) \ rts
        BY <1>1, <1>4, <3>2
      <4>4. QED
        BY <1>3, <3>1, <4>1, <4>2, <4>3
    <3>3. CASE /\ q \in (1 .. count) \ rts
               /\ own[q] = own[old(p)]
               /\ ht[old(p)] = ht[q] + 1
               /\ is_index(ns[q].type) <=> is_index(ns[old(p)].type)
      <4>1. q \in 1 .. nM /\ old(q) = q /\ own2[q] = own[q] /\ ht2[q] = ht[q]
            /\ new[q].type = ns[q].type
        BY <1>1, <1>5, <1>6, <1>7, <3>3
      <4>2. QED
        BY <3>1, <3>3, <4>1
    <3>4. QED
      BY <1>11, <2>1, <3>2, <3>3
  <2>2. QED
    BY <2>1 DEF Descends
<1>13. OneLink(new, nM)
  <2>1. ASSUME NEW p1 \in 1 .. nM, NEW p2 \in 1 .. nM,
               NEW i1 \in Nat, NEW i2 \in Nat, NEW q,
               Link(new, p1, i1, q), Link(new, p2, i2, q)
        PROVE  p1 = p2 /\ i1 = i2
    <3>1. CASE q = nM
      BY <1>1, <1>11, <2>1, <3>1
    <3>2. CASE q # nM
      <4>1. ~(p1 = parent /\ i1 = i) /\ ~(p2 = parent /\ i2 = i)
        BY <1>11, <2>1, <3>2
      <4>2. /\ Link(ns, old(p1), slot(p1, i1), q) /\ slot(p1, i1) \in Nat
            /\ Link(ns, old(p2), slot(p2, i2), q) /\ slot(p2, i2) \in Nat
        BY <1>1, <1>5, <2>1, <4>1
      <4>3. old(p1) = old(p2) /\ slot(p1, i1) = slot(p2, i2)
        BY <1>6, <4>2 DEF Shape, OneLink
      <4>4. (p1 = nM => i1 <= m + 1) /\ (p2 = nM => i2 <= m + 1)
        BY <1>5, <2>1
      <4>5. i1 >= 1 /\ i2 >= 1
        BY <2>1 DEF Link
      <4>6. QED
        BY <1>3, <1>4, <1>5, <4>1, <4>3, <4>4, <4>5 DEF old, OldPage, OldSlot
    <3>3. QED
      BY <3>1, <3>2
  <2>2. QED
    BY <2>1 DEF OneLink
<1>14. Hangs(new, nM, rts)
  <2>1. ASSUME NEW q \in (1 .. nM) \ rts
        PROVE  \E p \in 1 .. nM, j \in Nat : Link(new, p, j, q)
    <3>1. CASE q = nM
      BY <1>1, <1>5, <3>1
    <3>2. CASE q # nM
      <4>1. PICK p \in 1 .. count, j \in Nat : Link(ns, p, j, q)
        BY <1>1, <3>2 DEF Shape, Hangs
      <4>2. p \in Pages \ {nM} /\ {p, nM} \subseteq 1 .. nM
        BY <1>1
      <4>3. QED
        BY <1>5, <4>1, <4>2
    <3>3. QED
      BY <3>1, <3>2
  <2>2. QED
    BY <2>1 DEF Hangs
<1>15. QED
  BY <1>8, <1>9, <1>10, <1>12, <1>13, <1>14 DEF Shape, own2, ht2

(* The root's content moved to a new page below it.                        *)
IsLift(ns, new, r, nC) ==
    /\ \A q \in Pages \ {r, nC} : new[q] = ns[q]
    /\ new[nC].type = ns[r].type
    /\ new[nC].cells = ns[r].cells
    /\ new[nC].right_page = ns[r].right_page
    /\ new[r].type = IF is_index(ns[r].type) THEN INDEX_INTERNAL ELSE TABLE_INTERNAL
    /\ new[r].cells = << >>
    /\ new[r].right_page = nC

(* Page nC has the links that the root had, and the root one to nC.        *)
LiftedLinks(ns, new, r, nC) ==
    /\ Link(new, r, 1, nC)
    /\ is_internal(new[r].type)
    /\ is_index(new[r].type) <=> is_index(ns[r].type)
    /\ \A j \in Nat : \A q : Link(new, r, j, q) => j = 1 /\ q = nC
    /\ \A j \in Nat : \A q : Link(new, nC, j, q) <=> Link(ns, r, j, q)
    /\ \A p \in Pages \ {r, nC}, j \in Nat : \A q :
         Link(new, p, j, q) <=> Link(ns, p, j, q)

LEMMA LiftLinks ==
  ASSUME NEW ns, NEW new, NEW r \in Pages, NEW nC \in Pages, r # nC,
         IsLift(ns, new, r, nC)
  PROVE  LiftedLinks(ns, new, r, nC)
<1>1. Len(new[r].cells) = 0
  BY DEF IsLift
<1>2. is_internal(new[r].type)
  BY DEF IsLift, is_internal
<1>3. child_at(new[r], 1) = nC
  BY <1>1 DEF IsLift, child_at
<1>4. Link(new, r, 1, nC)
  BY <1>1, <1>2, <1>3 DEF Link
<1>5. ASSUME NEW j \in Nat, NEW q, Link(new, r, j, q)
      PROVE  j = 1 /\ q = nC
  BY <1>1, <1>3, <1>5 DEF Link
<1>6. \A j \in Nat : \A q : Link(new, nC, j, q) <=> Link(ns, r, j, q)
  BY DEF IsLift, Link, child_at
<1>7. \A p \in Pages \ {r, nC}, j \in Nat : \A q :
        Link(new, p, j, q) <=> Link(ns, p, j, q)
  BY DEF IsLift, Link
<1>8. is_index(new[r].type) <=> is_index(ns[r].type)
  <2>1. CASE is_index(ns[r].type)
    <3>1. new[r].type = INDEX_INTERNAL
      BY <2>1 DEF IsLift
    <3>2. QED
      BY <2>1, <3>1 DEF is_index
  <2>2. CASE ~is_index(ns[r].type)
    <3>1. new[r].type = TABLE_INTERNAL
      BY <2>2 DEF IsLift
    <3>2. QED
      BY <2>2, <3>1 DEF is_index, TABLE_INTERNAL, INDEX_INTERNAL, INDEX_LEAF
  <2>3. QED
    BY <2>1, <2>2
<1>9. QED
  BY <1>2, <1>4, <1>5, <1>6, <1>7, <1>8 DEF LiftedLinks

(* Moving the content of a root down a level keeps the shape.              *)
LEMMA LiftKeepsShape ==
  ASSUME NEW ns \in [Pages -> BTreeNode],
         NEW count \in Nat, NEW nC \in Pages, nC = count + 1,
         NEW rts, NEW own, NEW ht, Shape(ns, count, rts, own, ht),
         NEW r \in rts, NEW new, IsLift(ns, new, r, nC)
  PROVE  Shape(new, nC, rts, [own EXCEPT ![nC] = r],
                             [ht EXCEPT ![nC] = ht[r], ![r] = ht[r] + 1])
<1> DEFINE own2 == [own EXCEPT ![nC] = r]
           ht2 == [ht EXCEPT ![nC] = ht[r], ![r] = ht[r] + 1]
<1>1. /\ 1 .. nC = (1 .. count) \cup {nC} /\ 1 .. nC \subseteq Pages
      /\ nC \notin 1 .. count
  BY ConstantsAssumption DEF Pages
<1>2. /\ own \in [Pages -> Pages] /\ ht \in [Pages -> Nat]
      /\ rts \subseteq 1 .. count /\ own[r] = r
      /\ r \in Pages /\ r \in 1 .. count /\ r # nC /\ nC \notin rts
  BY <1>1 DEF Shape, Typed, Rooted
<1>3. /\ Link(new, r, 1, nC)
      /\ is_internal(new[r].type)
      /\ is_index(new[r].type) <=> is_index(ns[r].type)
      /\ \A j \in Nat : \A q : Link(new, r, j, q) => j = 1 /\ q = nC
      /\ \A j \in Nat : \A q : Link(new, nC, j, q) <=> Link(ns, r, j, q)
      /\ \A p \in Pages \ {r, nC}, j \in Nat : \A q :
           Link(new, p, j, q) <=> Link(ns, p, j, q)
  <2>1. LiftedLinks(ns, new, r, nC)
    BY <1>2, LiftLinks
  <2>2. QED
    BY <2>1 DEF LiftedLinks
<1>4. /\ own2 \in [Pages -> Pages] /\ ht2 \in [Pages -> Nat]
      /\ own2[nC] = r /\ own2[r] = r
      /\ ht2[nC] = ht[r] /\ ht2[r] = ht[r] + 1 /\ ht[r] \in Nat
      /\ \A p \in Pages \ {r, nC} : own2[p] = own[p] /\ ht2[p] = ht[p]
  BY <1>1, <1>2
<1> HIDE DEF own2, ht2
<1>5. Typed(own2, ht2)
  BY <1>4 DEF Typed
<1>6. Rooted(nC, rts, own2)
  <2>1. ASSUME NEW x \in rts
        PROVE  own2[x] = x
    <3>1. x \in Pages /\ x # nC /\ own[x] = x
      BY <1>1, <1>2 DEF Shape, Rooted
    <3>2. QED
      BY <1>4, <3>1
  <2>2. QED
    BY <1>1, <1>2, <2>1 DEF Rooted
<1>7. /\ \A x \in rts : x \in Pages /\ ht2[x] \in Nat /\ ht[x] \in Nat
      /\ \A x \in rts : ht[x] <= ht2[x]
  <2>1. \A x \in rts : x \in Pages /\ x # nC
    BY <1>1, <1>2
  <2>2. QED
    BY <1>2, <1>4, <2>1
<1>8. \A p \in Pages \ {r, nC} : new[p] = ns[p]
  BY DEF IsLift
<1>9. new[nC].type = ns[r].type
  BY DEF IsLift
<1>10. Levels(new, nC, rts, own2, ht2)
  <2>1. ASSUME NEW p \in 1 .. nC
        PROVE  /\ new[p].type \in NodeTypes
               /\ own2[p] \in rts
               /\ ht2[p] <= ht2[own2[p]]
               /\ is_internal(new[p].type) <=> ht2[p] > 0
    <3>1. CASE p = r
      <4>1. new[r].type \in NodeTypes
        BY DEF IsLift, NodeTypes
      <4>2. QED
        BY <1>3, <1>4, <3>1, <4>1
    <3>2. CASE p = nC
      <4>1. ns[r].type \in NodeTypes /\ (is_internal(ns[r].type) <=> ht[r] > 0)
        BY <1>2 DEF Shape, Levels
      <4>2. QED
        BY <1>4, <1>9, <3>2, <4>1
    <3>3. CASE p # r /\ p # nC
      <4>1. p \in 1 .. count /\ p \in Pages
        BY <1>1, <3>3
      <4>2. /\ ns[p].type \in NodeTypes /\ own[p] \in rts
            /\ ht[p] <= ht[own[p]]
            /\ is_internal(ns[p].type) <=> ht[p] > 0
        BY <4>1 DEF Shape, Levels
      <4>3. own2[p] = own[p] /\ ht2[p] = ht[p] /\ new[p] = ns[p] /\ ht[p] \in Nat
        BY <1>2, <1>4, <1>8, <3>3, <4>1
      <4>4. ht[own[p]] <= ht2[own[p]] /\ ht2[own[p]] \in Nat /\ ht[own[p]] \in Nat
        BY <1>7, <4>2
      <4>5. QED
        BY <4>2, <4>3, <4>4
    <3>4. QED
      BY <3>1, <3>2, <3>3
  <2>2. QED
    BY <2>1 DEF Levels
<1>11. Descends(new, nC, rts, own2, ht2)
  <2>1. ASSUME NEW p \in 1 .. nC, NEW j \in Nat, NEW q, Link(new, p, j, q)
        PROVE  /\ q \in (1 .. nC) \ rts
               /\ own2[q] = own2[p]
               /\ ht2[p] = ht2[q] + 1
               /\ is_index(new[q].type) <=> is_index(new[p].type)
    <3>1. CASE p = r
      <4>1. j = 1 /\ q = nC
        BY <1>3, <2>1, <3>1
      <4>2. QED
        BY <1>1, <1>2, <1>3, <1>4, <1>9, <3>1, <4>1
    <3>2. CASE p # r
      <4> DEFINE o == IF p = nC THEN r ELSE p
      <4>1. /\ o \in 1 .. count /\ own2[p] = own[o] /\ ht2[p] = ht[o]
            /\ new[p].type = ns[o].type
        BY <1>1, <1>2, <1>4, <1>8, <1>9, <3>2
      <4>2. Link(ns, o, j, q)
        BY <1>1, <1>3, <2>1, <3>2
      <4> HIDE DEF o
      <4>3. /\ q \in (1 .. count) \ rts /\ own[q] = own[o] /\ ht[o] = ht[q] + 1
            /\ is_index(ns[q].type) <=> is_index(ns[o].type)
        BY <4>1, <4>2 DEF Shape, Descends
      <4>4. q \in Pages \ {r, nC} /\ q \in (1 .. nC) \ rts
        BY <1>1, <4>3
      <4>5. own2[q] = own[q] /\ ht2[q] = ht[q] /\ new[q] = ns[q]
        BY <1>4, <1>8, <4>4
      <4>6. QED
        BY <4>1, <4>3, <4>4, <4>5
    <3>3. QED
      BY <3>1, <3>2
  <2>2. QED
    BY <2>1 DEF Descends
<1>12. OneLink(new, nC)
  <2>1. ASSUME NEW p1 \in 1 .. nC, NEW p2 \in 1 .. nC,
               NEW i1 \in Nat, NEW i2 \in Nat, NEW q,
               Link(new, p1, i1, q), Link(new, p2, i2, q)
        PROVE  p1 = p2 /\ i1 = i2
    <3> DEFINE o(p) == IF p = nC THEN r ELSE p
    <3>1. \A p \in 1 .. nC, j \in Nat : p # r /\ Link(new, p, j, q) =>
            o(p) \in 1 .. count /\ Link(ns, o(p), j, q) /\ q \in 1 .. count
      <4>1. ASSUME NEW p \in 1 .. nC, NEW j \in Nat, p # r, Link(new, p, j, q)
            PROVE  o(p) \in 1 .. count /\ Link(ns, o(p), j, q)
        BY <1>1, <1>2, <1>3, <4>1
      <4>2. QED
        BY <4>1 DEF Shape, Descends
    <3>2. CASE q = nC
      <4>1. p1 = r /\ p2 = r
        BY <1>1, <2>1, <3>1, <3>2
      <4>2. QED
        BY <1>3, <2>1, <4>1
    <3>3. CASE q # nC
      <4>1. p1 # r /\ p2 # r
        BY <1>3, <2>1, <3>3
      <4>2. o(p1) = o(p2) /\ i1 = i2
        BY <2>1, <3>1, <4>1 DEF Shape, OneLink
      <4>3. QED
        BY <4>1, <4>2
    <3>4. QED
      BY <3>2, <3>3
  <2>2. QED
    BY <2>1 DEF OneLink
<1>13. Hangs(new, nC, rts)
  <2>1. ASSUME NEW q \in (1 .. nC) \ rts
        PROVE  \E p \in 1 .. nC, j \in Nat : Link(new, p, j, q)
    <3>1. CASE q = nC
      BY <1>1, <1>2, <1>3, <3>1
    <3>2. CASE q # nC
      <4>1. PICK p \in 1 .. count, j \in Nat : Link(ns, p, j, q)
        BY <1>1, <3>2 DEF Shape, Hangs
      <4>2. CASE p = r
        BY <1>1, <1>3, <4>1, <4>2
      <4>3. CASE p # r
        BY <1>1, <1>3, <4>1, <4>3
      <4>4. QED
        BY <4>2, <4>3
    <3>3. QED
      BY <3>1, <3>2
  <2>2. QED
    BY <2>1 DEF Hangs
<1>14. QED
  BY <1>5, <1>6, <1>10, <1>11, <1>12, <1>13 DEF Shape, own2, ht2

(* A root that is split is lifted first.                                   *)
LEMMA FilledNodeType ==
  ASSUME NEW p \in Pages, NEW t \in NodeTypes, NEW cells \in Seq(BTreeCell),
         NEW right \in 0 .. MaxPages
  PROVE  LET new == FilledNode(p, t, cells, right)
         IN  /\ new \in BTreeNode
             /\ new.type = t /\ new.cells = cells /\ new.right_page = right
<1> DEFINE free == Word16(Word16(node_header_base(p) + node_header_size(t))
                            + 2 * Len(cells))
           off == Word16(Word16(PageSize) - CellBytes(t, cells))
           e == initEmptyNode(p, t)
<1>1. \A k \in Int : Word16(k) \in Nat
  BY DEF Word16
<1>2. /\ node_header_base(p) + node_header_size(t) \in Int
      /\ PageSize \in Int /\ CellBytes(t, cells) \in Int /\ Len(cells) \in Int
  BY HeaderSizes, CellBytesBounds
<1>3. free \in Nat /\ off \in Nat
  <2>1. /\ Word16(node_header_base(p) + node_header_size(t)) \in Nat
        /\ Word16(PageSize) \in Nat
    BY <1>1, <1>2
  <2>2. /\ Word16(node_header_base(p) + node_header_size(t)) + 2 * Len(cells) \in Int
        /\ Word16(PageSize) - CellBytes(t, cells) \in Int
    BY <1>2, <2>1
  <2>3. QED
    BY <1>1, <2>2
<1>4. /\ e.type = t
      /\ e = [type |-> t,
              free_offset |-> Word16(node_header_base(p) + node_header_size(t)),
              cells_offset |-> Word16(PageSize), cells |-> << >>,
              right_page |-> 0]
  BY DEF initEmptyNode
<1>5. FilledNode(p, t, cells, right)
        = [type |-> t, free_offset |-> free, cells_offset |-> off,
           cells |-> cells, right_page |-> right]
  <2> HIDE DEF e
  <2>1. /\ Word16(e.free_offset + 2 * Len(cells)) = free
        /\ Word16(e.cells_offset - CellBytes(t, cells)) = off
    BY <1>4
  <2> HIDE DEF free, off, e
  <2>2. InsertCells(e, cells)
          = [e EXCEPT !.cells = cells, !.cells_offset = off,
                      !.free_offset = free]
    BY <1>4, <2>1 DEF InsertCells
  <2>3. InsertCells(e, cells)
          = [type |-> t, free_offset |-> free, cells_offset |-> off,
             cells |-> cells, right_page |-> 0]
    <3> DEFINE x == Word16(node_header_base(p) + node_header_size(t))
               y == Word16(PageSize)
    <3>1. e = [type |-> t, free_offset |-> x, cells_offset |-> y,
               cells |-> << >>, right_page |-> 0]
      BY <1>4
    <3> HIDE DEF x, y
    <3>2. QED
      BY <2>2, <3>1
  <2>4. QED
    BY <2>3 DEF FilledNode, e
<1> HIDE DEF free, off
<1>6. QED
  BY <1>3, <1>5 DEF BTreeNode

(* A split of the root is a lift of its content, then a split of the page  *)
(* it was lifted to.                                                       *)
LEMMA SplitRootPages ==
  ASSUME NEW ns \in [Pages -> BTreeNode],
         NEW r \in Pages, NEW nC \in Pages, NEW nM \in Pages,
         r # nC, nM # r, nM # nC,
         ns[r].type \in NodeTypes, Len(ns[r].cells) >= 1
  PROVE  \E mid \in [Pages -> BTreeNode] : \E m :
           /\ IsLift(ns, mid, r, nC)
           /\ IsSplit(mid, splitRoot(ns, r, nC, nM), r, nC, 1, nM, m)
<1> DEFINE root == ns[r]
           tt == IF is_index(root.type) THEN INDEX_INTERNAL ELSE TABLE_INTERNAL
           C == FilledNode(nC, root.type, root.cells, root.right_page)
           top == [initEmptyNode(r, tt) EXCEPT !.right_page = nC]
           mid == [ns EXCEPT ![nC] = C, ![r] = top]
           m == Half(Len(mid[nC].cells))
<1>1. splitRoot(ns, r, nC, nM) = split(mid, r, nC, 1, nM)
  BY DEF splitRoot, FilledNode
<1>2. /\ root \in BTreeNode /\ root.cells \in Seq(BTreeCell)
      /\ root.right_page \in 0 .. MaxPages
  BY DEF BTreeNode
<1>3. tt \in NodeTypes
  BY DEF NodeTypes
<1>4. /\ C \in BTreeNode /\ C.type = root.type /\ C.cells = root.cells
      /\ C.right_page = root.right_page
  BY <1>2, FilledNodeType
<1>5. /\ top \in BTreeNode /\ top.type = tt /\ top.cells = << >>
      /\ top.right_page = nC
  <2> DEFINE free == Word16(node_header_base(r) + node_header_size(tt))
             off == Word16(PageSize)
  <2>1. free \in Nat /\ off \in Nat
    <3>1. \A k \in Int : Word16(k) \in Nat
      BY DEF Word16
    <3>2. /\ node_header_base(r) + node_header_size(tt) \in Int
          /\ PageSize \in Int
      BY HeaderSizes
    <3>3. QED
      BY <3>1, <3>2
  <2>2. << >> \in Seq(BTreeCell) /\ nC \in 0 .. MaxPages
    BY ConstantsAssumption DEF Pages
  <2>3. top = [type |-> tt, free_offset |-> free, cells_offset |-> off,
               cells |-> << >>, right_page |-> nC]
    BY DEF initEmptyNode
  <2> HIDE DEF free, off, tt, top
  <2>4. QED
    BY <1>3, <2>1, <2>2, <2>3 DEF BTreeNode
<1> HIDE DEF C, top
<1>6. /\ mid \in [Pages -> BTreeNode] /\ mid[nC] = C /\ mid[r] = top
      /\ \A p \in Pages \ {nC, r} : mid[p] = ns[p]
  BY <1>4, <1>5
<1> HIDE DEF mid
<1>7. IsLift(ns, mid, r, nC)
  BY <1>4, <1>5, <1>6 DEF IsLift
<1>8. IsSplit(mid, split(mid, r, nC, 1, nM), r, nC, 1, nM, m)
  <2>1. mid[r].type \in NodeTypes /\ 1 \in 1 .. Len(mid[r].cells) + 1
    <3>1. Len(mid[r].cells) = 0
      BY <1>5, <1>6
    <3>2. QED
      BY <1>3, <1>5, <1>6, <3>1
  <2>2. Len(mid[nC].cells) >= 1
    BY <1>4, <1>6
  <2>3. QED
    BY <1>6, <2>1, <2>2, SplitCells
<1>9. QED
  BY <1>1, <1>6, <1>7, <1>8

(* A node without room has cells.                                          *)
LEMMA CrowdedHasCells ==
  ASSUME SafeSizes, NEW p \in Pages, NEW N \in BTreeNode, N.type \in NodeTypes,
         Layout(p, N), Crowded(N)
  PROVE  /\ Len(N.cells) >= 1
         /\ ~is_internal(N.type) => Half(Len(N.cells)) + 1 < Len(N.cells)
<1> DEFINE n == Len(N.cells)
           m == Half(n)
           cut == IF is_internal(N.type) THEN m ELSE m + 1
<1>1. N.cells \in Seq(BTreeCell) /\ n \in Nat
  BY DEF BTreeNode
<1>2. m \in Nat /\ 2 * m <= n /\ n <= 2 * m + 1
  BY <1>1, Halving DEF Half
<1>3. cut \in Nat
  BY <1>2
<1> HIDE DEF m
<1>4. /\ m + 1 \in 1 .. n
      /\ BytesFor(N.type, SubSeq(N.cells, 1, cut)) + MaxCellSize(N.type) + 2
           <= BytesFor(N.type, N.cells)
  BY <1>2, <1>3, HalvesFit
<1>5. CASE is_internal(N.type)
  BY <1>1, <1>2, <1>4, <1>5
<1>6. CASE ~is_internal(N.type)
  <2>1. SUFFICES ASSUME m + 1 = n PROVE FALSE
    BY <1>1, <1>2, <1>4 DEF m
  <2>2. SubSeq(N.cells, 1, cut) = N.cells
    <3>1. cut = n
      BY <1>6, <2>1
    <3> HIDE DEF n, cut
    <3>2. SubSeq(N.cells, 1, n) = N.cells
      BY <1>1 DEF n
    <3>3. QED
      BY <3>1, <3>2
  <2>3. BytesFor(N.type, N.cells) \in Nat /\ MaxCellSize(N.type) \in Nat
    BY SlackIsWhatIsLeft, SizeTypes
  <2>4. BytesFor(N.type, SubSeq(N.cells, 1, cut)) = BytesFor(N.type, N.cells)
    BY <2>2
  <2>5. QED
    BY <1>4, <2>3, <2>4
<1>7. QED
  BY <1>5, <1>6

(* The child for a key is linked.                                          *)
LEMMA ChildLinked ==
  ASSUME NEW ns, NEW p, ns[p] \in BTreeNode, is_internal(ns[p].type),
         NEW key \in Nat
  PROVE  /\ find_position(ns[p], key) \in Nat
         /\ Link(ns, p, find_position(ns[p], key), ChildFor(ns[p], key))
         /\ ChildFor(ns[p], key) = child_at(ns[p], find_position(ns[p], key))
<1>1. find_position(ns[p], key) \in 1 .. Len(ns[p].cells) + 1
  BY PositionFound
<1>2. Len(ns[p].cells) \in Nat
  BY DEF BTreeNode
<1>3. QED
  BY <1>1, <1>2 DEF Link, ChildFor
-----------------------------------------------------------------------------
(* The forest is a forest in every state.                                  *)

(* The pages in use have the shape of a forest, and an insert visits a page *)
(* of the tree it was called for.                                          *)
TreesHold(own, ht) ==
    /\ Shape(nodes, n_pages, roots, own, ht)
    /\ op # Idle => own[op.npage] = op.nroot

(* The inductive invariant on the trees.                                   *)
TreeInv == \E own, ht : TreesHold(own, ht)

(* A new file is one leaf.                                                 *)
LEMMA InitTrees ==
  SafeSizes /\ Init => TreeInv
<1> SUFFICES ASSUME SafeSizes, Init PROVE TreeInv
  OBVIOUS
<1> DEFINE own == [p \in Pages |-> p]
           ht == [p \in Pages |-> 0]
<1>1. /\ n_pages = 1 /\ roots = {1} /\ 1 .. 1 = {1} /\ 1 \in Pages /\ op = Idle
  BY ConstantsAssumption DEF Init, Pages
<1>2. nodes[1].type = TABLE_LEAF
  BY <1>1 DEF Init, initEmptyNode
<1>3. ~is_internal(nodes[1].type) /\ nodes[1].type \in NodeTypes
  BY <1>2 DEF is_internal, NodeTypes, TABLE_LEAF, TABLE_INTERNAL, INDEX_INTERNAL
<1>4. Typed(own, ht)
  BY DEF Typed
<1>5. /\ Rooted(1, {1}, own)
      /\ Levels(nodes, 1, {1}, own, ht)
  BY <1>1, <1>3 DEF Rooted, Levels
<1>6. /\ Descends(nodes, 1, {1}, own, ht)
      /\ OneLink(nodes, 1)
      /\ Hangs(nodes, 1, {1})
  BY <1>1, <1>3 DEF Descends, OneLink, Hangs, Link
<1> HIDE DEF own, ht
<1>7. TreesHold(own, ht)
  BY <1>1, <1>4, <1>5, <1>6 DEF TreesHold, Shape
<1>8. QED
  BY <1>7 DEF TreeInv

(* What PageInv says of the pages that a split of the root, and one of the *)
(* child for a key, start from.                                            *)
LEMMA PagesOfInsert ==
  ASSUME SafeSizes, PageInv, NEW r \in roots, NEW c \in BTreeCell,
         Full(nodes[r], c), n_pages + 2 <= MaxPages
  PROVE  /\ nodes \in [Pages -> BTreeNode] /\ n_pages \in Nat
         /\ r \in Pages /\ n_pages + 1 \in Pages /\ n_pages + 2 \in Pages
         /\ r # n_pages + 1 /\ r # n_pages + 2
         /\ \E mid \in [Pages -> BTreeNode] : \E m :
              /\ IsLift(nodes, mid, r, n_pages + 1)
              /\ IsSplit(mid, splitRoot(nodes, r, n_pages + 1, n_pages + 2),
                         r, n_pages + 1, 1, n_pages + 2, m)
         /\ ~is_internal(nodes[r].type) =>
              Half(Len(nodes[r].cells)) + 1 < Len(nodes[r].cells)
<1>1. /\ n_pages \in Pages /\ nodes \in [Pages -> BTreeNode]
      /\ roots \subseteq 1 .. n_pages /\ MaxPages \in Nat
  BY ConstantsAssumption DEF PageInv, TypeOK
<1>2. /\ n_pages \in Nat /\ r \in 1 .. n_pages /\ r \in Pages
      /\ n_pages + 1 \in Pages /\ n_pages + 2 \in Pages
      /\ r # n_pages + 1 /\ r # n_pages + 2 /\ n_pages + 1 # n_pages + 2
  BY <1>1 DEF Pages
<1>3. nodes[r].type \in NodeTypes /\ Layout(r, nodes[r]) /\ nodes[r] \in BTreeNode
  BY <1>1, <1>2, GoodPages DEF PageInv, GoodNode
<1>4. Crowded(nodes[r])
  BY <1>2, <1>3, FullIsCrowded
<1>5. /\ Len(nodes[r].cells) >= 1
      /\ ~is_internal(nodes[r].type) =>
           Half(Len(nodes[r].cells)) + 1 < Len(nodes[r].cells)
  BY <1>2, <1>3, <1>4, CrowdedHasCells
<1>6. \E mid \in [Pages -> BTreeNode] : \E m :
        /\ IsLift(nodes, mid, r, n_pages + 1)
        /\ IsSplit(mid, splitRoot(nodes, r, n_pages + 1, n_pages + 2),
                   r, n_pages + 1, 1, n_pages + 2, m)
  BY <1>1, <1>2, <1>3, <1>5, SplitRootPages
<1>7. QED
  BY <1>1, <1>2, <1>5, <1>6

(* What PageInv says of the page an insert visits and of the child it goes *)
(* to.                                                                     *)
LEMMA PagesOfDescent ==
  ASSUME PageInv, AtInternal
  PROVE  LET here == op.npage
             pos == find_position(nodes[here], op.btc.key)
             child == ChildFor(nodes[here], op.btc.key)
         IN  /\ nodes \in [Pages -> BTreeNode] /\ n_pages \in Nat
             /\ op \in Insertion /\ op # Idle /\ op.btc.key \in Nat
             /\ op.btc \in BTreeCell
             /\ here \in 1 .. n_pages /\ here \in Pages
             /\ nodes[here] \in BTreeNode /\ nodes[here].type \in NodeTypes
             /\ is_internal(nodes[here].type)
             /\ pos \in Nat /\ Link(nodes, here, pos, child)
             /\ child = child_at(nodes[here], pos)
             /\ child \in (1 .. n_pages) \ {here} /\ child \in Pages
<1> DEFINE here == op.npage
           key == op.btc.key
           child == ChildFor(nodes[here], key)
<1>1. /\ op \in Insertion /\ nodes \in [Pages -> BTreeNode] /\ n_pages \in Pages
      /\ here \in Pages /\ here \in 1 .. n_pages /\ op # Idle
      /\ key \in Nat /\ op.btc \in BTreeCell
      /\ is_internal(nodes[here].type)
  BY InsertionType DEF PageInv, AtInternal, TypeOK, WellLinked, Allocated
<1>2. nodes[here] \in BTreeNode /\ GoodNode(here, nodes[here], n_pages)
  BY <1>1, GoodPages DEF PageInv
<1>3. child \in (1 .. n_pages) \ {here}
  BY <1>1, <1>2, ChildForGood
<1>4. n_pages \in Nat /\ child \in Pages
  BY <1>1, <1>3, ConstantsAssumption DEF Pages
<1>5. /\ find_position(nodes[here], key) \in Nat
      /\ Link(nodes, here, find_position(nodes[here], key), child)
      /\ child = child_at(nodes[here], find_position(nodes[here], key))
  BY <1>1, <1>2, ChildLinked
<1>6. nodes[here].type \in NodeTypes
  BY <1>2 DEF GoodNode
<1>7. QED
  BY <1>1, <1>2, <1>3, <1>4, <1>5, <1>6

(* The same for a step that splits the child.                              *)
LEMMA PagesOfSplit ==
  ASSUME SafeSizes, PageInv, SplitAndDescend
  PROVE  LET here == op.npage
             pos == find_position(nodes[here], op.btc.key)
             child == ChildFor(nodes[here], op.btc.key)
         IN  /\ n_pages + 1 \in Pages /\ here # n_pages + 1 /\ child # n_pages + 1
             /\ n_pages' = n_pages + 1
             /\ \E m : IsSplit(nodes, nodes', here, child, pos, n_pages + 1, m)
             /\ ~is_internal(nodes[child].type) =>
                  Half(Len(nodes[child].cells)) + 1 < Len(nodes[child].cells)
             /\ nodes' \in [Pages -> BTreeNode]
             /\ nodes'[here] \in BTreeNode
             /\ op' = [op EXCEPT !.npage = ChildFor(nodes'[here], op.btc.key)]
             /\ roots' = roots
<1> DEFINE here == op.npage
           key == op.btc.key
           pos == find_position(nodes[here], key)
           child == child_at(nodes[here], pos)
<1>1. AtInternal
  BY DEF SplitAndDescend
<1>2. /\ nodes \in [Pages -> BTreeNode] /\ n_pages \in Nat
      /\ op.btc \in BTreeCell
      /\ here \in 1 .. n_pages /\ here \in Pages
      /\ nodes[here] \in BTreeNode /\ nodes[here].type \in NodeTypes
      /\ is_internal(nodes[here].type)
      /\ pos \in Nat /\ Link(nodes, here, pos, child)
      /\ child = ChildFor(nodes[here], key)
      /\ child \in (1 .. n_pages) \ {here} /\ child \in Pages
  BY <1>1, PagesOfDescent
<1>3. /\ n_pages < MaxPages /\ Full(nodes[child], op.btc)
      /\ n_pages' = n_pages + 1
      /\ nodes' = split(nodes, here, child, pos, n_pages + 1)
      /\ op' = [op EXCEPT !.npage = ChildFor(nodes'[here], key)]
      /\ roots' = roots
  BY DEF SplitAndDescend
<1>4. n_pages + 1 \in Pages /\ here # n_pages + 1 /\ child # n_pages + 1
  BY <1>2, <1>3, ConstantsAssumption DEF Pages
<1>5. /\ nodes[child] \in BTreeNode /\ nodes[child].type \in NodeTypes
      /\ Layout(child, nodes[child])
  BY <1>2, GoodPages DEF PageInv, GoodNode
<1>6. /\ Len(nodes[child].cells) >= 1
      /\ ~is_internal(nodes[child].type) =>
           Half(Len(nodes[child].cells)) + 1 < Len(nodes[child].cells)
  BY <1>2, <1>3, <1>5, FullIsCrowded, CrowdedHasCells
<1>7. pos \in 1 .. Len(nodes[here].cells) + 1
  BY <1>2 DEF Link
<1>8. \E m : IsSplit(nodes, nodes', here, child, pos, n_pages + 1, m)
  <2> HIDE DEF pos, child
  <2>1. QED
    BY <1>2, <1>3, <1>4, <1>6, <1>7, SplitCells
<1>9. nodes' \in [Pages -> BTreeNode]
  BY SplitAndDescendKeepsPageInv DEF PageInv, TypeOK
<1>10. nodes'[here] \in BTreeNode
  BY <1>2, <1>9
<1> HIDE DEF pos, child
<1>11. QED
  BY <1>2, <1>3, <1>4, <1>6, <1>8, <1>9, <1>10 DEF pos
-----------------------------------------------------------------------------
(* To establish TreeInv in the next state, any owner and height will do.   *)
LEMMA TreesNext ==
  ASSUME NEW own, NEW ht, Shape(nodes', n_pages', roots', own, ht),
         op' # Idle => own[op'.npage] = op'.nroot
  PROVE  TreeInv'
BY DEF TreeInv, TreesHold

(* The step that looks at the root, and splits it if it is full.           *)
LEMMA InsertKeepsTrees ==
  ASSUME SafeSizes, PageInv, TreeInv, NEW r \in roots, NEW c \in BTreeCell,
         Insert(r, c)
  PROVE  TreeInv'
<1>1. PICK own, ht : TreesHold(own, ht)
  BY DEF TreeInv
<1>2. /\ op'.npage = r /\ op'.nroot = r /\ roots' = roots
  BY DEF Insert
<1>3. own[r] = r /\ own \in [Pages -> Pages]
  BY <1>1 DEF TreesHold, Shape, Rooted, Typed
<1>4. CASE ~Full(nodes[r], c) /\ UNCHANGED <<nodes, n_pages>>
  BY <1>1, <1>2, <1>3, <1>4 DEF TreeInv, TreesHold
<1>5. CASE /\ Full(nodes[r], c)
           /\ n_pages + 2 <= MaxPages
           /\ n_pages' = n_pages + 2
           /\ nodes' = splitRoot(nodes, r, n_pages + 1, n_pages + 2)
  <2> DEFINE nC == n_pages + 1
             nM == n_pages + 2
             own1 == [own EXCEPT ![nC] = r]
             ht1 == [ht EXCEPT ![nC] = ht[r], ![r] = ht[r] + 1]
             own2 == [own1 EXCEPT ![nM] = own1[nC]]
             ht2 == [ht1 EXCEPT ![nM] = ht1[nC]]
  <2>1. /\ nodes \in [Pages -> BTreeNode] /\ n_pages \in Nat
        /\ r \in Pages /\ nC \in Pages /\ nM \in Pages /\ r # nC /\ r # nM
        /\ \E mid \in [Pages -> BTreeNode] : \E m :
             /\ IsLift(nodes, mid, r, nC)
             /\ IsSplit(mid, nodes', r, nC, 1, nM, m)
    BY <1>5, PagesOfInsert
  <2>2. PICK mid, m :
             /\ mid \in [Pages -> BTreeNode]
             /\ IsLift(nodes, mid, r, nC)
             /\ IsSplit(mid, nodes', r, nC, 1, nM, m)
    BY <2>1
  <2>3. nM = nC + 1 /\ nC = n_pages + 1 /\ nC \in Nat
    BY <2>1
  <2> HIDE DEF nC, nM
  <2>4. Shape(mid, nC, roots, own1, ht1)
    BY <1>1, <2>1, <2>2, <2>3, LiftKeepsShape DEF TreesHold
  <2>5. Link(mid, r, 1, nC) /\ r \in 1 .. nC
    <3>1. r \in 1 .. n_pages
      BY <1>1 DEF TreesHold, Shape, Rooted
    <3>2. QED
      <4>1. LiftedLinks(nodes, mid, r, nC)
        BY <2>1, <2>2, <2>3, <3>1, LiftLinks
      <4>2. Link(mid, r, 1, nC)
        BY ONLY <4>1 DEF LiftedLinks
      <4>3. QED
        <5>1. r \in 1 .. n_pages + 1
          BY <2>1, <3>1
        <5>2. QED
          BY <2>3, <4>2, <5>1
  <2> HIDE DEF own1, ht1
  <2>6. Shape(nodes', nM, roots, own2, ht2)
    BY <2>1, <2>2, <2>3, <2>4, <2>5, SplitKeepsShape
  <2>7. own2[r] = r
    BY <1>3, <2>1 DEF own1
  <2> HIDE DEF own2, ht2
  <2>8. Shape(nodes', n_pages', roots', own2, ht2)
    BY <1>2, <1>5, <2>6 DEF nM
  <2>9. QED
    BY <1>2, <2>7, <2>8, TreesNext
<1>6. QED
  BY <1>4, <1>5 DEF Insert

(* A step down to a child with room.                                       *)
LEMMA DescendKeepsTrees ==
  ASSUME SafeSizes, PageInv, TreeInv, Descend
  PROVE  TreeInv'
<1>1. PICK own, ht : TreesHold(own, ht)
  BY DEF TreeInv
<1> DEFINE here == op.npage
           pos == find_position(nodes[here], op.btc.key)
           child == ChildFor(nodes[here], op.btc.key)
<1>2. /\ op \in Insertion /\ op # Idle /\ here \in 1 .. n_pages
      /\ pos \in Nat /\ Link(nodes, here, pos, child) /\ child \in Pages
  <2>1. AtInternal
    BY DEF Descend
  <2>2. QED
    BY <2>1, PagesOfDescent
<1>3. op' = [op EXCEPT !.npage = child] /\ UNCHANGED <<nodes, n_pages, roots>>
  BY DEF Descend
<1> HIDE DEF pos, child
<1>4. op'.npage = child /\ op'.nroot = op.nroot
  BY <1>2, <1>3, InsertionType
<1>5. own[child] = own[here] /\ own[here] = op.nroot
  BY <1>1, <1>2 DEF TreesHold, Shape, Descends
<1>6. TreesHold(own, ht)'
  BY <1>1, <1>3, <1>4, <1>5 DEF TreesHold
<1>7. QED
  BY <1>6 DEF TreeInv

(* A step down that splits the child first.                                *)
LEMMA SplitAndDescendKeepsTrees ==
  ASSUME SafeSizes, PageInv, TreeInv, SplitAndDescend
  PROVE  TreeInv'
<1>1. PICK own, ht : TreesHold(own, ht)
  BY DEF TreeInv
<1> DEFINE here == op.npage
           pos == find_position(nodes[here], op.btc.key)
           child == ChildFor(nodes[here], op.btc.key)
           nM == n_pages + 1
           next == ChildFor(nodes'[here], op.btc.key)
           own2 == [own EXCEPT ![nM] = own[child]]
           ht2 == [ht EXCEPT ![nM] = ht[child]]
<1>2. /\ nodes \in [Pages -> BTreeNode] /\ n_pages \in Nat
      /\ op \in Insertion /\ op # Idle /\ op.btc.key \in Nat
      /\ here \in 1 .. n_pages
      /\ pos \in Nat /\ Link(nodes, here, pos, child)
  <2>1. AtInternal
    BY DEF SplitAndDescend
  <2>2. QED
    BY <2>1, PagesOfDescent
<1>3. /\ nM \in Pages /\ here # nM
      /\ n_pages' = nM
      /\ \E m : IsSplit(nodes, nodes', here, child, pos, nM, m)
      /\ nodes'[here] \in BTreeNode
      /\ op' = [op EXCEPT !.npage = next]
      /\ roots' = roots
  BY PagesOfSplit
<1>4. PICK m : IsSplit(nodes, nodes', here, child, pos, nM, m)
  BY <1>3
<1>5. nM = n_pages + 1
  OBVIOUS
<1> HIDE DEF nM, pos, child
<1>6. Shape(nodes', nM, roots, own2, ht2)
  BY <1>1, <1>2, <1>3, <1>4, <1>5, SplitKeepsShape DEF TreesHold
<1>7. own2[here] = op.nroot
  <2>1. own[here] = op.nroot /\ own \in [Pages -> Pages]
    BY <1>1, <1>2 DEF TreesHold, Shape, Typed
  <2>2. here \in Pages
    BY <1>2, InsertionType
  <2>3. QED
    BY <1>3, <2>1, <2>2
<1> HIDE DEF own2, ht2
<1>8. Link(nodes', here, find_position(nodes'[here], op.btc.key), next)
      /\ find_position(nodes'[here], op.btc.key) \in Nat
  <2>1. is_internal(nodes'[here].type)
    BY <1>2, <1>4 DEF IsSplit, Link
  <2>2. QED
    BY <1>2, <1>3, <2>1, ChildLinked
<1>9. own2[next] = op.nroot /\ next \in 1 .. nM
  <2>1. here \in 1 .. nM
    BY <1>2, <1>5
  <2>2. QED
    BY <1>6, <1>7, <1>8, <2>1 DEF Shape, Descends
<1>10. next \in Pages
  BY <1>3, <1>9, ConstantsAssumption DEF Pages
<1> HIDE DEF next
<1>11. op'.npage = next /\ op'.nroot = op.nroot
  BY <1>2, <1>3, <1>10, InsertionType
<1>12. Shape(nodes', n_pages', roots', own2, ht2)
  BY <1>3, <1>6
<1>13. QED
  BY <1>9, <1>11, <1>12, TreesNext
(* A new tree is a leaf under itself.                                      *)
LEMMA NewTreeKeepsTrees ==
  ASSUME SafeSizes, PageInv, TreeInv, NEW t \in LeafTypes, NewTree(t)
  PROVE  TreeInv'
<1>1. PICK own, ht : TreesHold(own, ht)
  BY DEF TreeInv
<1> DEFINE p == n_pages + 1
           own2 == [own EXCEPT ![p] = p]
           ht2 == [ht EXCEPT ![p] = 0]
<1>2. /\ op = Idle /\ op' = Idle
      /\ n_pages' = p /\ roots' = roots \cup {p}
      /\ nodes' = [nodes EXCEPT ![p] = initEmptyNode(p, t)]
  BY DEF NewTree
<1>3. /\ nodes \in [Pages -> BTreeNode] /\ n_pages \in Nat
      /\ roots \subseteq 1 .. n_pages /\ p \in Pages
      /\ 1 .. p = (1 .. n_pages) \cup {p} /\ p \notin 1 .. n_pages
      /\ 1 .. n_pages \subseteq Pages
  BY ConstantsAssumption DEF NewTree, PageInv, TypeOK, Pages
<1>4. /\ nodes'[p].type = t
      /\ t \in NodeTypes /\ ~is_internal(t)
  BY <1>2, <1>3 DEF initEmptyNode, LeafTypes, NodeTypes, is_internal,
     TABLE_LEAF, TABLE_INTERNAL, INDEX_LEAF, INDEX_INTERNAL
<1>5. \A q \in 1 .. n_pages : nodes'[q] = nodes[q]
  BY <1>2, <1>3
<1>6. /\ Typed(own, ht) /\ Rooted(n_pages, roots, own)
      /\ Levels(nodes, n_pages, roots, own, ht)
      /\ Descends(nodes, n_pages, roots, own, ht)
      /\ OneLink(nodes, n_pages)
      /\ Hangs(nodes, n_pages, roots)
  BY <1>1 DEF TreesHold, Shape
<1>7. \A q \in 1 .. n_pages, j \in Nat : \A c :
        Link(nodes', q, j, c) <=> Link(nodes, q, j, c)
  BY <1>5 DEF Link
<1>8. \A j \in Nat : \A c : ~Link(nodes', p, j, c)
  BY <1>4 DEF Link
<1> HIDE DEF p
<1>9. /\ Typed(own2, ht2)
      /\ own2[p] = p /\ ht2[p] = 0
      /\ \A q \in 1 .. n_pages : own2[q] = own[q] /\ ht2[q] = ht[q]
  BY <1>3, <1>6 DEF Typed
<1> HIDE DEF own2, ht2
<1>10. Rooted(p, roots \cup {p}, own2)
  BY <1>3, <1>6, <1>9 DEF Rooted
<1>11. Levels(nodes', p, roots \cup {p}, own2, ht2)
  <2>1. SUFFICES ASSUME NEW q \in 1 .. p
                 PROVE  /\ nodes'[q].type \in NodeTypes
                        /\ own2[q] \in roots \cup {p}
                        /\ ht2[q] <= ht2[own2[q]]
                        /\ is_internal(nodes'[q].type) <=> ht2[q] > 0
    BY DEF Levels
  <2>2. CASE q = p
    BY <1>4, <1>9, <2>2
  <2>3. CASE q \in 1 .. n_pages
    <3>1. /\ nodes[q].type \in NodeTypes
          /\ own[q] \in roots
          /\ ht[q] <= ht[own[q]]
          /\ is_internal(nodes[q].type) <=> ht[q] > 0
      BY <1>6, <2>3 DEF Levels
    <3>2. own[q] \in 1 .. n_pages
      BY <1>3, <3>1
    <3>3. QED
      BY <1>5, <1>9, <2>3, <3>1, <3>2
  <2>4. QED
    BY <1>3, <2>2, <2>3
<1>12. Descends(nodes', p, roots \cup {p}, own2, ht2)
  <2>1. SUFFICES ASSUME NEW q \in 1 .. p, NEW j \in Nat, NEW c,
                        Link(nodes', q, j, c)
                 PROVE  /\ c \in (1 .. p) \ (roots \cup {p})
                        /\ own2[c] = own2[q]
                        /\ ht2[q] = ht2[c] + 1
                        /\ is_index(nodes'[c].type) <=> is_index(nodes'[q].type)
    BY DEF Descends
  <2>2. q \in 1 .. n_pages /\ Link(nodes, q, j, c)
    BY <1>3, <1>7, <1>8, <2>1
  <2>3. /\ c \in (1 .. n_pages) \ roots
        /\ own[c] = own[q]
        /\ ht[q] = ht[c] + 1
        /\ is_index(nodes[c].type) <=> is_index(nodes[q].type)
    BY <1>6, <2>2 DEF Descends
  <2>4. QED
    BY <1>3, <1>5, <1>9, <2>2, <2>3
<1>13. OneLink(nodes', p)
  BY <1>3, <1>6, <1>7, <1>8 DEF OneLink
<1>14. Hangs(nodes', p, roots \cup {p})
  BY <1>3, <1>6, <1>7 DEF Hangs
<1>15. Shape(nodes', n_pages', roots', own2, ht2)
  BY <1>2, <1>9, <1>10, <1>11, <1>12, <1>13, <1>14 DEF Shape
<1>16. QED
  BY <1>2, <1>15, TreesNext

(* Nodes that keep their types, and internal nodes that do not change, keep *)
(* the links between them.                                                 *)
LEMMA SameLinksKeepShape ==
  ASSUME NEW count, NEW rts, NEW own, NEW ht, NEW ns, NEW new,
         rts \subseteq 1 .. count,
         Shape(ns, count, rts, own, ht),
         \A p \in 1 .. count :
           new[p].type = ns[p].type /\ (is_internal(ns[p].type) => new[p] = ns[p])
  PROVE  Shape(new, count, rts, own, ht)
<1>1. \A p \in 1 .. count, i \in Nat : \A q : Link(new, p, i, q) <=> Link(ns, p, i, q)
  BY DEF Link
<1>2. /\ Typed(own, ht) /\ Rooted(count, rts, own)
      /\ Levels(ns, count, rts, own, ht)
      /\ Descends(ns, count, rts, own, ht)
      /\ OneLink(ns, count)
      /\ Hangs(ns, count, rts)
  BY DEF Shape
<1>3. Levels(new, count, rts, own, ht)
  BY <1>2 DEF Levels
<1>4. Descends(new, count, rts, own, ht)
  BY <1>1, <1>2 DEF Descends
<1>5. OneLink(new, count)
  BY <1>1, <1>2 DEF OneLink
<1>6. Hangs(new, count, rts)
  BY <1>1, <1>2 DEF Hangs
<1>7. QED
  BY <1>2, <1>3, <1>4, <1>5, <1>6 DEF Shape

(* An insert ends at a leaf, whose place in its tree it does not change.   *)
LEMMA AtLeafKeepsTrees ==
  ASSUME SafeSizes, PageInv, TreeInv, RejectDuplicate \/ InsertInLeaf
  PROVE  TreeInv'
<1>1. PICK own, ht : TreesHold(own, ht)
  BY DEF TreeInv
<1>2. op' = Idle /\ n_pages' = n_pages /\ roots' = roots
  BY DEF RejectDuplicate, InsertInLeaf
<1>3. Shape(nodes, n_pages, roots, own, ht) /\ roots \subseteq 1 .. n_pages
  BY <1>1 DEF TreesHold, Shape, Rooted
<1>4. \A p \in 1 .. n_pages :
        /\ nodes'[p].type = nodes[p].type
        /\ is_internal(nodes[p].type) => nodes'[p] = nodes[p]
  <2>1. CASE RejectDuplicate
    BY <2>1 DEF RejectDuplicate
  <2>2. CASE InsertInLeaf
    <3>1. /\ nodes \in [Pages -> BTreeNode] /\ 1 .. n_pages \subseteq Pages
          /\ op.npage \in Pages /\ ~is_internal(nodes[op.npage].type)
      BY <2>2, ConstantsAssumption, InsertionType
         DEF InsertInLeaf, AtLeaf, PageInv, TypeOK, Pages
    <3>2. nodes[op.npage] \in BTreeNode
      BY <3>1
    <3> DEFINE new == insertCell(nodes[op.npage],
                                 find_position(nodes[op.npage], op.btc.key), op.btc)
    <3>3. nodes' = [nodes EXCEPT ![op.npage] = new]
      BY <2>2, <3>1 DEF InsertInLeaf
    <3>4. new.type = nodes[op.npage].type
      BY <3>2 DEF insertCell, BTreeNode
    <3> HIDE DEF new
    <3>5. QED
      BY <3>1, <3>3, <3>4
  <2>3. QED
    BY <2>1, <2>2
<1>5. Shape(nodes', n_pages', roots', own, ht)
  BY <1>2, <1>3, <1>4, SameLinksKeepShape
<1>6. QED
  BY <1>2, <1>5, TreesNext

(* Every step keeps the trees.                                             *)
LEMMA NextKeepsTrees ==
  SafeSizes /\ PageInv /\ TreeInv /\ [Next]_vars => TreeInv'
<1> SUFFICES ASSUME SafeSizes, PageInv, TreeInv, [Next]_vars
             PROVE  TreeInv'
  OBVIOUS
<1>1. CASE \E t \in LeafTypes : NewTree(t)
  BY <1>1, NewTreeKeepsTrees
<1>2. CASE \E r \in roots, k \in TableKeys, d \in Records : InsertInTable(r, k, d)
  BY <1>2, InsertKeepsTrees, InsertedCellType DEF InsertInTable
<1>3. CASE \E r \in roots, k \in IndexKeys, pk \in KeyPks : InsertInIndex(r, k, pk)
  BY <1>3, InsertKeepsTrees, InsertedCellType DEF InsertInIndex
<1>4. CASE Descend
  BY <1>4, DescendKeepsTrees
<1>5. CASE SplitAndDescend
  BY <1>5, SplitAndDescendKeepsTrees
<1>6. CASE RejectDuplicate \/ InsertInLeaf
  BY <1>6, AtLeafKeepsTrees
<1>7. CASE UNCHANGED vars
  BY <1>7 DEF TreeInv, TreesHold, vars
<1>8. QED
  BY <1>1, <1>2, <1>3, <1>4, <1>5, <1>6, <1>7 DEF Next, InsertNonFull

(* The pages of the file form trees, one under each root, whose leaves are *)
(* all at the level of the root's height, in every state.                  *)
THEOREM TreesStayWell ==
  ASSUME SafeSizes
  PROVE  Spec => [](PageInv /\ TreeInv)
<1>1. Init => PageInv /\ TreeInv
  BY InitPageInv, InitTrees
<1>2. PageInv /\ TreeInv /\ [Next]_vars => (PageInv /\ TreeInv)'
  BY NextKeepsPageInv, NextKeepsTrees
<1>3. QED
  BY <1>1, <1>2, PTL DEF Spec
-----------------------------------------------------------------------------
(* What the invariant says of the operators that read the file.            *)

(* Of the elements of a set that have a rank, one has the least.           *)
LEMMA LeastRank ==
  ASSUME NEW S, S # {}, NEW rank, \A x \in S : rank[x] \in Nat
  PROVE  \E x \in S : \A y \in S : rank[x] <= rank[y]
<1> DEFINE Ranks == {rank[x] : x \in S}
<1>1. Ranks \subseteq Nat /\ Ranks # {}
  OBVIOUS
<1>2. Min(Ranks) \in Ranks /\ \A j \in Ranks : Min(Ranks) <= j
  BY <1>1, MinExists
<1>3. PICK x \in S : rank[x] = Min(Ranks)
  BY <1>2
<1>4. QED
  BY <1>2, <1>3

(* The children of a page are those it has a link to.                      *)
LEMMA ChildrenAreLinked ==
  ASSUME NEW ns, NEW p, ns[p] \in BTreeNode
  PROVE  \A q : q \in Children(ns[p]) <=> \E i \in Nat : Link(ns, p, i, q)
<1>1. Len(ns[p].cells) \in Nat
  BY DEF BTreeNode
<1>2. ASSUME NEW q, q \in Children(ns[p])
      PROVE  \E i \in Nat : Link(ns, p, i, q)
  <2>1. is_internal(ns[p].type)
    BY <1>2 DEF Children
  <2>2. CASE q = ns[p].right_page
    BY <1>1, <2>1, <2>2 DEF Link, child_at
  <2>3. CASE \E i \in 1 .. Len(ns[p].cells) : q = ns[p].cells[i].child
    <3>1. PICK i \in 1 .. Len(ns[p].cells) : q = ns[p].cells[i].child
      BY <2>3
    <3>2. i \in Nat /\ i # Len(ns[p].cells) + 1 /\ i \in 1 .. Len(ns[p].cells) + 1
      BY <1>1
    <3>3. QED
      BY <2>1, <3>1, <3>2 DEF Link, child_at
  <2>4. QED
    BY <1>2, <2>1, <2>2, <2>3 DEF Children
<1>3. ASSUME NEW q, NEW i \in Nat, Link(ns, p, i, q)
      PROVE  q \in Children(ns[p])
  <2>1. /\ is_internal(ns[p].type)
        /\ i \in 1 .. Len(ns[p].cells) + 1
        /\ q = child_at(ns[p], i)
    BY <1>3 DEF Link
  <2>2. CASE i = Len(ns[p].cells) + 1
    BY <2>1, <2>2 DEF Children, child_at
  <2>3. CASE i # Len(ns[p].cells) + 1
    <3>1. i \in 1 .. Len(ns[p].cells)
      BY <1>1, <2>1, <2>3
    <3>2. q = ns[p].cells[i].child
      BY <2>1, <2>3 DEF child_at
    <3>3. QED
      BY <2>1, <3>1, <3>2 DEF Children
  <2>4. QED
    BY <2>2, <2>3
<1>4. QED
  BY <1>2, <1>3

(* PagesUnder is what its definition says: a function as it asks for       *)
(* exists, whatever the pages point to.                                    *)
LEMMA PagesUnderUnfolds ==
  ASSUME \A p \in Allocated : Children(nodes[p]) \subseteq Allocated
  PROVE  \A p \in Allocated :
           PagesUnder(p) = {p} \cup UNION {PagesUnder(q) : q \in Children(nodes[p])}
<1> DEFINE E == [p \in Allocated |-> Children(nodes[p])]
           v == [p \in Allocated |-> Reach(E, Allocated, p)]
           u == CHOOSE u : u = [p \in Allocated |->
                                  {p} \cup UNION {u[q] : q \in Children(nodes[p])}]
<1>1. E \in [Allocated -> SUBSET Allocated]
  OBVIOUS
<1>2. \A p \in Allocated :
        Reach(E, Allocated, p) = {p} \cup UNION {Reach(E, Allocated, q) : q \in E[p]}
  BY <1>1, ReachUnfolds
<1>3. v = [p \in Allocated |-> {p} \cup UNION {v[q] : q \in Children(nodes[p])}]
  <2>1. ASSUME NEW p \in Allocated
        PROVE  v[p] = {p} \cup UNION {v[q] : q \in Children(nodes[p])}
    <3>1. v[p] = {p} \cup UNION {Reach(E, Allocated, q) : q \in E[p]}
      BY <1>2
    <3>2. E[p] = Children(nodes[p]) /\ Children(nodes[p]) \subseteq Allocated
      OBVIOUS
    <3> HIDE DEF E
    <3>3. {Reach(E, Allocated, q) : q \in E[p]} = {v[q] : q \in Children(nodes[p])}
      BY <3>2
    <3>4. QED
      BY <3>1, <3>3
  <2>2. QED
    BY <2>1
<1> HIDE DEF v
<1>4. u = [p \in Allocated |-> {p} \cup UNION {u[q] : q \in Children(nodes[p])}]
  BY <1>3
<1>5. \A x : PagesUnder(x) = u[x]
  BY DEF PagesUnder
<1> HIDE DEF u
<1>6. QED
  BY <1>4, <1>5, ZenonT(40)

(* The hypotheses of the lemmas that follow, spelled out.                  *)
LEMMA ShapeParts ==
  ASSUME PageInv, NEW own, NEW ht, Shape(nodes, n_pages, roots, own, ht)
  PROVE  /\ own \in [Pages -> Pages] /\ ht \in [Pages -> Nat]
         /\ Allocated = 1 .. n_pages /\ Allocated \subseteq Pages
         /\ roots \subseteq Allocated
         /\ \A r \in roots : own[r] = r
         /\ \A p \in Allocated :
              /\ nodes[p] \in BTreeNode
              /\ nodes[p].type \in NodeTypes
              /\ own[p] \in roots
              /\ ht[p] \in Nat
              /\ ht[p] <= ht[own[p]]
              /\ is_internal(nodes[p].type) <=> ht[p] > 0
              /\ Children(nodes[p]) \subseteq Allocated \ roots
              /\ \A q \in Children(nodes[p]) :
                   own[q] = own[p] /\ ht[p] = ht[q] + 1
         /\ \A q \in Allocated \ roots : \E p \in Allocated : q \in Children(nodes[p])
<1>1. /\ nodes \in [Pages -> BTreeNode] /\ n_pages \in Pages
      /\ roots \subseteq 1 .. n_pages
  BY DEF PageInv, TypeOK
<1>2. Allocated = 1 .. n_pages /\ Allocated \subseteq Pages
  BY <1>1, ConstantsAssumption DEF Allocated, Pages
<1>3. /\ Typed(own, ht) /\ Rooted(n_pages, roots, own)
      /\ Levels(nodes, n_pages, roots, own, ht)
      /\ Descends(nodes, n_pages, roots, own, ht)
      /\ Hangs(nodes, n_pages, roots)
  BY DEF Shape
<1>4. own \in [Pages -> Pages] /\ ht \in [Pages -> Nat]
  BY <1>3 DEF Typed
<1>5. \A r \in roots : own[r] = r
  BY <1>3 DEF Rooted
<1>6. ASSUME NEW p \in Allocated
      PROVE  /\ nodes[p] \in BTreeNode
             /\ nodes[p].type \in NodeTypes
             /\ own[p] \in roots
             /\ ht[p] \in Nat
             /\ ht[p] <= ht[own[p]]
             /\ is_internal(nodes[p].type) <=> ht[p] > 0
             /\ \A q : q \in Children(nodes[p]) <=> \E i \in Nat : Link(nodes, p, i, q)
  <2>1. nodes[p] \in BTreeNode /\ p \in 1 .. n_pages /\ ht[p] \in Nat
    BY <1>1, <1>2, <1>4
  <2>2. QED
    BY <1>3, <2>1, ChildrenAreLinked DEF Levels
<1>7. ASSUME NEW p \in Allocated, NEW q \in Children(nodes[p])
      PROVE  q \in Allocated \ roots /\ own[q] = own[p] /\ ht[p] = ht[q] + 1
  <2>1. PICK i \in Nat : Link(nodes, p, i, q)
    BY <1>6
  <2>2. QED
    BY <1>2, <1>3, <2>1 DEF Descends
<1>8. ASSUME NEW q \in Allocated \ roots
      PROVE  \E p \in Allocated : q \in Children(nodes[p])
  <2>1. PICK p \in Allocated, i \in Nat : Link(nodes, p, i, q)
    BY <1>2, <1>3 DEF Hangs
  <2>2. QED
    BY <1>6, <2>1
<1>9. QED
  BY <1>1, <1>2, <1>4, <1>5, <1>6, <1>7, <1>8

(* The pages under a page are of its tree.                                 *)
LEMMA UnderIsOwned ==
  ASSUME PageInv, NEW own, NEW ht, Shape(nodes, n_pages, roots, own, ht),
         NEW p \in Allocated, NEW x \in PagesUnder(p)
  PROVE  x \in Allocated /\ own[x] = own[p]
<1> DEFINE Good(q) == \A y \in PagesUnder(q) : y \in Allocated /\ own[y] = own[q]
           Bad == {q \in Allocated : ~Good(q)}
<1>1. SUFFICES ASSUME Bad # {} PROVE FALSE
  OBVIOUS
<1>2. /\ \A q \in Allocated : ht[q] \in Nat
      /\ \A q \in Allocated : Children(nodes[q]) \subseteq Allocated
      /\ \A q \in Allocated : \A c \in Children(nodes[q]) :
           own[c] = own[q] /\ ht[q] = ht[c] + 1
  BY ShapeParts
<1>3. PICK q \in Bad : \A c \in Bad : ht[q] <= ht[c]
  <2>1. \A c \in Bad : ht[c] \in Nat
    BY <1>2
  <2> HIDE DEF Bad
  <2>2. QED
    BY <1>1, <2>1, LeastRank
<1>4. ASSUME NEW c \in Children(nodes[q])
      PROVE  Good(c) /\ own[c] = own[q]
  <2>1. c \in Allocated /\ own[c] = own[q] /\ ht[q] = ht[c] + 1
        /\ ht[c] \in Nat /\ ht[q] \in Nat
    BY <1>2
  <2>2. c \notin Bad
    BY <1>3, <2>1
  <2>3. QED
    BY <2>1, <2>2
<1>5. PagesUnder(q) = {q} \cup UNION {PagesUnder(c) : c \in Children(nodes[q])}
  BY <1>2, PagesUnderUnfolds
<1>6. Good(q)
  BY <1>4, <1>5
<1>7. QED
  BY <1>6

(* Every page is under the root of its tree.                               *)
LEMMA OwnedIsUnder ==
  ASSUME PageInv, NEW own, NEW ht, Shape(nodes, n_pages, roots, own, ht),
         NEW x \in Allocated
  PROVE  x \in PagesUnder(own[x])
<1> DEFINE Above == {p \in Allocated : x \in PagesUnder(p)}
           depth == [p \in Above |-> ht[own[x]] - ht[p]]
<1>1. /\ \A q \in Allocated :
           /\ ht[q] \in Nat /\ ht[own[q]] \in Nat /\ ht[q] <= ht[own[q]]
      /\ \A q \in Allocated : Children(nodes[q]) \subseteq Allocated
      /\ \A q \in Allocated : \A c \in Children(nodes[q]) : ht[q] = ht[c] + 1
      /\ \A q \in Allocated \ roots : \E p \in Allocated : q \in Children(nodes[p])
      /\ \A r \in roots : own[r] = r
  <2>1. \A q \in Allocated : own[q] \in Allocated
    BY ShapeParts
  <2>2. QED
    BY <2>1, ShapeParts
<1>2. \A p \in Allocated :
        PagesUnder(p) = {p} \cup UNION {PagesUnder(c) : c \in Children(nodes[p])}
  BY <1>1, PagesUnderUnfolds
<1>3. x \in Above
  BY <1>2
<1>4. ASSUME NEW p \in Above
      PROVE  own[p] = own[x] /\ depth[p] \in Nat /\ depth[p] = ht[own[x]] - ht[p]
  <2>1. own[p] = own[x]
    BY UnderIsOwned
  <2>2. ht[p] \in Nat /\ ht[own[x]] \in Nat /\ ht[p] <= ht[own[x]]
    BY <1>1, <2>1
  <2>3. QED
    BY <2>1, <2>2
<1> HIDE DEF depth
<1>5. PICK p \in Above : \A q \in Above : depth[p] <= depth[q]
  <2>1. Above # {} /\ \A q \in Above : depth[q] \in Nat
    BY <1>3, <1>4
  <2> HIDE DEF Above
  <2>2. QED
    BY <2>1, LeastRank
<1>6. ASSUME p \notin roots
      PROVE  FALSE
  <2>1. PICK q \in Allocated : p \in Children(nodes[q])
    BY <1>1, <1>6
  <2>2. q \in Above /\ ht[q] = ht[p] + 1
    BY <1>1, <1>2, <2>1
  <2>3. /\ depth[p] <= depth[q]
        /\ depth[p] = ht[own[x]] - ht[p] /\ depth[q] = ht[own[x]] - ht[q]
    BY <1>4, <1>5, <2>2
  <2>4. ht[p] \in Nat /\ ht[own[x]] \in Nat
    BY <1>1
  <2>5. QED
    BY <2>2, <2>3, <2>4
<1>7. p = own[x]
  BY <1>1, <1>4, <1>6
<1>8. QED
  BY <1>7
(* The pages of a tree are those it owns.                                  *)
LEMMA PagesUnderRoot ==
  ASSUME PageInv, NEW own, NEW ht, Shape(nodes, n_pages, roots, own, ht),
         NEW r \in roots
  PROVE  PagesUnder(r) = {p \in Allocated : own[p] = r}
<1>1. r \in Allocated /\ own[r] = r
  BY ShapeParts
<1>2. \A p \in PagesUnder(r) : p \in Allocated /\ own[p] = r
  BY <1>1, UnderIsOwned
<1>3. \A p \in Allocated : p \in PagesUnder(own[p])
  BY OwnedIsUnder
<1>4. QED
  BY <1>2, <1>3

(* The leaves below a page are all as far below it as it is high.          *)
LEMMA DepthIsHeight ==
  ASSUME PageInv, NEW own, NEW ht, Shape(nodes, n_pages, roots, own, ht)
  PROVE  \A p \in Allocated : LeafDepths(p) = {ht[p]}
<1> DEFINE v == [p \in Allocated |-> {ht[p]}]
           u == CHOOSE u : u = [p \in Allocated |->
                  IF is_internal(nodes[p].type)
                  THEN {d + 1 : d \in UNION {u[q] : q \in Children(nodes[p])}}
                  ELSE {0}]
<1>1. \A p \in Allocated :
        /\ ht[p] \in Nat
        /\ is_internal(nodes[p].type) <=> ht[p] > 0
        /\ is_internal(nodes[p].type) => Children(nodes[p]) # {}
        /\ \A q \in Children(nodes[p]) : q \in Allocated /\ ht[p] = ht[q] + 1
  <2>1. \A p \in Allocated : is_internal(nodes[p].type) =>
          nodes[p].right_page \in Children(nodes[p])
    BY DEF Children
  <2>2. QED
    BY <2>1, ShapeParts
<1>2. ASSUME NEW f, NEW p \in Allocated, is_internal(nodes[p].type),
             \A q \in Children(nodes[p]) : f[q] = {ht[q]}
      PROVE  {d + 1 : d \in UNION {f[q] : q \in Children(nodes[p])}} = {ht[p]}
  <2> DEFINE below == UNION {f[q] : q \in Children(nodes[p])}
  <2>1. \A d \in below : d + 1 = ht[p]
    <3>1. SUFFICES ASSUME NEW q \in Children(nodes[p]), NEW d \in f[q]
                   PROVE  d + 1 = ht[p]
      OBVIOUS
    <3>2. d = ht[q] /\ ht[p] = ht[q] + 1
      BY <1>1, <1>2
    <3>3. QED
      BY <3>2
  <2>2. below # {}
    <3>1. PICK q : q \in Children(nodes[p])
      BY <1>1, <1>2
    <3>2. ht[q] \in f[q]
      BY <1>2, <3>1
    <3>3. QED
      BY <3>1, <3>2
  <2> HIDE DEF below
  <2>3. {d + 1 : d \in below} = {ht[p]}
    BY <2>1, <2>2
  <2>4. QED
    BY <2>3 DEF below
<1>3. v = [p \in Allocated |->
             IF is_internal(nodes[p].type)
             THEN {d + 1 : d \in UNION {v[q] : q \in Children(nodes[p])}}
             ELSE {0}]
  <2>1. ASSUME NEW p \in Allocated
        PROVE  v[p] = IF is_internal(nodes[p].type)
                      THEN {d + 1 : d \in UNION {v[q] : q \in Children(nodes[p])}}
                      ELSE {0}
    <3>1. CASE is_internal(nodes[p].type)
      <4>1. \A q \in Children(nodes[p]) : v[q] = {ht[q]}
        BY <1>1
      <4>2. v[p] = {ht[p]}
        OBVIOUS
      <4> HIDE DEF v
      <4>3. {d + 1 : d \in UNION {v[q] : q \in Children(nodes[p])}} = {ht[p]}
        BY <1>2, <3>1, <4>1, SMTT(30)
      <4>4. QED
        BY <3>1, <4>2, <4>3
    <3>2. CASE ~is_internal(nodes[p].type)
      <4>1. ht[p] = 0
        BY <1>1, <3>2
      <4>2. QED
        BY <3>2, <4>1
    <3>3. QED
      BY <3>1, <3>2
  <2>2. QED
    BY <2>1
<1> HIDE DEF v
<1>4. u = [p \in Allocated |->
             IF is_internal(nodes[p].type)
             THEN {d + 1 : d \in UNION {u[q] : q \in Children(nodes[p])}}
             ELSE {0}]
  BY <1>3
<1>5. \A x : LeafDepths(x) = u[x]
  BY DEF LeafDepths
<1> HIDE DEF u
<1> DEFINE Bad == {q \in Allocated : u[q] # {ht[q]}}
<1>6. SUFFICES ASSUME Bad # {} PROVE FALSE
  BY <1>5
<1>7. PICK p \in Bad : \A q \in Bad : ht[p] <= ht[q]
  <2>1. \A q \in Bad : ht[q] \in Nat
    BY <1>1
  <2> HIDE DEF Bad
  <2>2. QED
    BY <1>6, <2>1, LeastRank
<1>8. \A q \in Children(nodes[p]) : u[q] = {ht[q]}
  <2>1. SUFFICES ASSUME NEW q \in Children(nodes[p]) PROVE q \notin Bad /\ q \in Allocated
    OBVIOUS
  <2>2. q \in Allocated /\ ht[p] = ht[q] + 1 /\ ht[q] \in Nat /\ ht[p] \in Nat
    BY <1>1
  <2>3. QED
    BY <1>7, <2>2
<1>9. u[p] = {ht[p]}
  <2>1. CASE is_internal(nodes[p].type)
    <3>1. u[p] = {d + 1 : d \in UNION {u[q] : q \in Children(nodes[p])}}
      BY <1>4, <2>1
    <3>2. {d + 1 : d \in UNION {u[q] : q \in Children(nodes[p])}} = {ht[p]}
      BY <1>2, <1>8, <2>1
    <3>3. QED
      BY <3>1, <3>2
  <2>2. CASE ~is_internal(nodes[p].type)
    <3>1. u[p] = {0}
      BY <1>4, <2>2
    <3>2. ht[p] = 0
      BY <1>1, <2>2
    <3>3. QED
      BY <3>1, <3>2
  <2>3. QED
    BY <2>1, <2>2
<1>10. QED
  BY <1>9

(* A set of one element.                                                   *)
LEMMA SingletonCardinality ==
  ASSUME NEW S, NEW x, S = {x}
  PROVE  Cardinality(S) = 1
BY FS_Singleton

(* The owner of a page is its one root, and the link to it its one pointer. *)
LEMMA PagesAreOwnedOnce ==
  PageInv /\ TreeInv => EveryPageInOneTree
<1> SUFFICES ASSUME PageInv, TreeInv, NEW p \in Allocated
             PROVE  /\ Cardinality({r \in roots : p \in PagesUnder(r)}) = 1
                    /\ Cardinality({w \in Pointers : child_at(nodes[w[1]], w[2]) = p})
                         = IF p \in roots THEN 0 ELSE 1
  BY DEF EveryPageInOneTree
<1>1. PICK own, ht : Shape(nodes, n_pages, roots, own, ht)
  BY DEF TreeInv, TreesHold
<1>2. Cardinality({r \in roots : p \in PagesUnder(r)}) = 1
  <2>1. own[p] \in roots
    BY <1>1, ShapeParts
  <2>2. {r \in roots : p \in PagesUnder(r)} = {own[p]}
    BY <1>1, <2>1, PagesUnderRoot
  <2>3. QED
    BY <2>2, SingletonCardinality
<1> DEFINE W == {w \in Pointers : child_at(nodes[w[1]], w[2]) = p}
<1>3. \A q \in Allocated : Len(nodes[q].cells) \in Nat
  <2>1. \A q \in Allocated : nodes[q] \in BTreeNode
    BY <1>1, ShapeParts
  <2>2. QED
    BY <2>1 DEF BTreeNode
<1>4. \A w : w \in W <=> \E q \in 1 .. n_pages, i \in Nat :
                            w = <<q, i>> /\ Link(nodes, q, i, p)
  <2>1. ASSUME NEW w \in W
        PROVE  \E q \in 1 .. n_pages, i \in Nat : w = <<q, i>> /\ Link(nodes, q, i, p)
    <3>1. PICK q \in Allocated :
            /\ is_internal(nodes[q].type)
            /\ \E i \in 1 .. Len(nodes[q].cells) + 1 : w = <<q, i>>
      BY DEF Pointers
    <3>4. PICK i \in 1 .. Len(nodes[q].cells) + 1 : w = <<q, i>>
      BY <3>1
    <3>2. i \in Nat /\ q \in 1 .. n_pages /\ child_at(nodes[q], i) = p
      BY <1>3, <3>1, <3>4 DEF Allocated
    <3>3. QED
      BY <3>1, <3>4, <3>2 DEF Link
  <2>2. ASSUME NEW q \in 1 .. n_pages, NEW i \in Nat, Link(nodes, q, i, p)
        PROVE  <<q, i>> \in W
    <3>1. is_internal(nodes[q].type) /\ i \in 1 .. Len(nodes[q].cells) + 1
          /\ child_at(nodes[q], i) = p
      BY <2>2 DEF Link
    <3>2. <<q, i>> \in Pointers
      BY <3>1 DEF Pointers, Allocated
    <3>3. QED
      BY <3>1, <3>2
  <2>3. QED
    BY <2>1, <2>2
<1> HIDE DEF W
<1>5. /\ Descends(nodes, n_pages, roots, own, ht)
      /\ OneLink(nodes, n_pages)
      /\ Hangs(nodes, n_pages, roots)
  BY <1>1 DEF Shape
<1>6. Cardinality(W) = IF p \in roots THEN 0 ELSE 1
  <2>1. CASE p \in roots
    <3>1. W = {}
      BY <1>4, <1>5, <2>1 DEF Descends
    <3>2. QED
      BY <2>1, <3>1, FS_EmptySet
  <2>2. CASE p \notin roots
    <3>1. PICK q \in 1 .. n_pages, i \in Nat : Link(nodes, q, i, p)
      BY <1>5, <2>2 DEF Hangs, Allocated
    <3>2. W = {<<q, i>>}
      BY <1>4, <1>5, <3>1 DEF OneLink
    <3>3. QED
      BY <2>2, <3>2, SingletonCardinality
  <2>3. QED
    BY <2>1, <2>2
<1>7. QED
  BY <1>2, <1>6 DEF W

(* All leaves are as far below a root as it is high.                       *)
LEMMA TreesAreBalanced ==
  PageInv /\ TreeInv => Balanced
<1> SUFFICES ASSUME PageInv, TreeInv, NEW r \in roots
             PROVE  Cardinality(LeafDepths(r)) = 1
  BY DEF Balanced
<1>1. PICK own, ht : Shape(nodes, n_pages, roots, own, ht)
  BY DEF TreeInv, TreesHold
<1>2. r \in Allocated
  BY <1>1, ShapeParts
<1>3. LeafDepths(r) = {ht[r]}
  BY <1>1, <1>2, DepthIsHeight
<1>4. QED
  BY <1>3, SingletonCardinality

(* The step half of OtherTreesUntouched.                                   *)
LEMMA StepStaysInItsTree ==
  ASSUME SafeSizes, PageInv, TreeInv, [Next]_vars,
         op # Idle, NEW r \in roots, op.nroot # r, NEW p \in PagesUnder(r)
  PROVE  nodes'[p] = nodes[p]
<1>1. PICK own, ht : TreesHold(own, ht)
  BY DEF TreeInv
<1>2. Shape(nodes, n_pages, roots, own, ht) /\ own[op.npage] = op.nroot
  BY <1>1 DEF TreesHold
<1>3. p \in Allocated /\ own[p] = r
  BY <1>2, PagesUnderRoot
<1>4. /\ nodes \in [Pages -> BTreeNode] /\ p \in Pages /\ p \in 1 .. n_pages
      /\ n_pages \in Nat
  <2>1. nodes \in [Pages -> BTreeNode] /\ n_pages \in Pages
    BY DEF PageInv, TypeOK
  <2>2. p \in Pages /\ Allocated = 1 .. n_pages
    BY <1>2, <1>3, ShapeParts
  <2>3. QED
    BY <1>3, <2>1, <2>2, ConstantsAssumption DEF Pages
<1>5. CASE UNCHANGED vars \/ Descend \/ RejectDuplicate
  BY <1>5 DEF vars, Descend, RejectDuplicate
<1>6. CASE SplitAndDescend
  <2> DEFINE here == op.npage
             pos == find_position(nodes[here], op.btc.key)
             child == ChildFor(nodes[here], op.btc.key)
  <2>1. AtInternal
    BY <1>6 DEF SplitAndDescend
  <2>2. here \in 1 .. n_pages /\ pos \in Nat /\ Link(nodes, here, pos, child)
    BY <2>1, PagesOfDescent
  <2>3. \E m : IsSplit(nodes, nodes', here, child, pos, n_pages + 1, m)
    BY <1>6, PagesOfSplit
  <2> HIDE DEF pos, child
  <2>4. own[child] = op.nroot
    BY <1>2, <2>2 DEF Shape, Descends
  <2>5. p \in Pages \ {here, child, n_pages + 1}
    BY <1>2, <1>3, <1>4, <2>4
  <2>6. QED
    BY <2>3, <2>5 DEF IsSplit
<1>7. CASE InsertInLeaf
  <2>1. p # op.npage
    BY <1>2, <1>3
  <2>2. QED
    BY <1>4, <1>7, <2>1 DEF InsertInLeaf
<1>8. CASE \/ \E t \in LeafTypes : NewTree(t)
           \/ \E q \in roots, k \in TableKeys, d \in Records : InsertInTable(q, k, d)
           \/ \E q \in roots, k \in IndexKeys, pk \in KeyPks : InsertInIndex(q, k, pk)
  BY <1>8 DEF NewTree, InsertInTable, InsertInIndex, Insert
<1>9. QED
  BY <1>5, <1>6, <1>7, <1>8 DEF Next, InsertNonFull
-----------------------------------------------------------------------------
(* The theorems on the trees, all under SafeSizes.                         *)

(* Every page in use is of exactly one tree, and one pointer leads to it,  *)
(* or none if it is a root: no split loses a page, links one twice or      *)
(* takes one of another tree.                                              *)
THEOREM PagesFormTrees ==
  ASSUME SafeSizes
  PROVE  Spec => []EveryPageInOneTree
<1>1. PageInv /\ TreeInv => EveryPageInOneTree
  BY PagesAreOwnedOnce
<1>2. QED
  BY <1>1, TreesStayWell, PTL

(* The leaves of a tree are all at the same depth.                         *)
THEOREM TreesStayBalanced ==
  ASSUME SafeSizes
  PROVE  Spec => []Balanced
<1>1. PageInv /\ TreeInv => Balanced
  BY TreesAreBalanced
<1>2. QED
  BY <1>1, TreesStayWell, PTL

(* An insert writes no page of another tree.                               *)
THEOREM InsertsStayInTheirTree ==
  ASSUME SafeSizes
  PROVE  Spec => OtherTreesUntouched
<1>1. PageInv /\ TreeInv /\ [Next]_vars =>
        [\A r \in roots : (op # Idle /\ op.nroot # r) =>
           \A p \in PagesUnder(r) : nodes'[p] = nodes[p]]_vars
  BY StepStaysInItsTree
<1>2. QED
  BY <1>1, TreesStayWell, PTL DEF Spec, OtherTreesUntouched
=============================================================================
