------------------------- MODULE BTreeKeys_proofs ---------------------------
(***************************************************************************)
(* Where the keys and the entries of the trees of module BTree lie, for    *)
(* every value of the constants.  A search of a tree goes down by          *)
(* comparing the key with the separators of each page, and takes every     *)
(* separator to be the largest key on its left.  That is true of trees     *)
(* built by splits and insertions if each page has a range of keys of its  *)
(* own, which no other page of its level and tree shares.  These ranges    *)
(* are nowhere in the code: the invariant, KeysInv, says that a function   *)
(* `cov` of ranges and a function `con` of contents exist beside the       *)
(* owners and the heights of module BTreeForest_proofs, and the proof of   *)
(* each step builds those of its next state from those it starts with.     *)
(* The separators and the searches are read off the invariant at the end.  *)
(***************************************************************************)
EXTENDS BTreeForest_proofs

-----------------------------------------------------------------------------
(* Where a key belongs in a node.                                          *)

(* Slot i, of those before, between and after `len` separators a, takes k: *)
(* the separators before it are smaller, the one at it is not.             *)
SlotIn(a, len, k, i) ==
    /\ i \in 1 .. len + 1
    /\ \A j \in 1 .. len : j < i => a[j] < k
    /\ i <= len => k <= a[i]

(* The separators a go up.                                                 *)
Ascends(a, len) == \A j, l \in 1 .. len : j < l => a[j] < a[l]

(* A key belongs in one slot.                                              *)
LEMMA OneSlot ==
  ASSUME NEW len \in Nat, NEW a \in [1 .. len -> Nat], NEW k \in Nat, NEW i, NEW j,
         SlotIn(a, len, k, i), SlotIn(a, len, k, j)
  PROVE  i = j
BY DEF SlotIn

(* Separators b are a and one more, K at position i, which is smaller than *)
(* the one after it: K divides the slot it is put in.                      *)
LEMMA SlotsAfterInsert ==
  ASSUME NEW len \in Nat, NEW a \in [1 .. len -> Nat], NEW b \in [1 .. len + 1 -> Nat],
         NEW i \in 1 .. len + 1, NEW K \in Nat, NEW k \in Nat, NEW j \in Nat,
         \A l \in 1 .. len : l < i => b[l] = a[l],
         \A l \in 1 .. len : l >= i => b[l + 1] = a[l],
         b[i] = K,
         i <= len => K < a[i]
  PROVE  /\ j < i => (SlotIn(b, len + 1, k, j) <=> SlotIn(a, len, k, j))
         /\ SlotIn(b, len + 1, k, i) <=> SlotIn(a, len, k, i) /\ k <= K
         /\ SlotIn(b, len + 1, k, i + 1) <=> SlotIn(a, len, k, i) /\ K < k
         /\ j > i + 1 => (SlotIn(b, len + 1, k, j) <=> SlotIn(a, len, k, j - 1))
<1> USE DEF SlotIn
<1>1. ASSUME j < i, SlotIn(b, len + 1, k, j) PROVE SlotIn(a, len, k, j)
  BY <1>1
<1>2. ASSUME j < i, SlotIn(a, len, k, j) PROVE SlotIn(b, len + 1, k, j)
  BY <1>2
<1>3. ASSUME SlotIn(b, len + 1, k, i) PROVE SlotIn(a, len, k, i) /\ k <= K
  BY <1>3
<1>4. ASSUME SlotIn(a, len, k, i), k <= K PROVE SlotIn(b, len + 1, k, i)
  BY <1>4
<1>5. ASSUME SlotIn(b, len + 1, k, i + 1) PROVE SlotIn(a, len, k, i) /\ K < k
  BY <1>5
<1>6. ASSUME SlotIn(a, len, k, i), K < k PROVE SlotIn(b, len + 1, k, i + 1)
  BY <1>6, SMTT(30)
<1>7. ASSUME j > i + 1, SlotIn(b, len + 1, k, j) PROVE SlotIn(a, len, k, j - 1)
  BY <1>7, SMTT(30)
<1>8. ASSUME j > i + 1, SlotIn(a, len, k, j - 1) PROVE SlotIn(b, len + 1, k, j)
  <2>1. i <= len /\ a[i] < k /\ K < k
    BY <1>8
  <2>2. ASSUME NEW l \in 1 .. len + 1, l < j PROVE b[l] < k
    <3>1. CASE l < i
      BY <1>8, <2>2, <3>1
    <3>2. CASE l = i
      BY <2>1, <3>2
    <3>3. CASE i < l
      <4>1. l - 1 \in 1 .. len /\ l - 1 >= i /\ (l - 1) + 1 = l /\ l - 1 < j - 1
        BY <2>2, <3>3
      <4>2. b[l] = a[l - 1]
        BY <4>1
      <4>3. QED
        BY <1>8, <4>1, <4>2
    <3>4. QED
      BY <3>1, <3>2, <3>3
  <2>3. j <= len + 1 => k <= b[j]
    <3>1. SUFFICES ASSUME j <= len + 1 PROVE k <= b[j]
      OBVIOUS
    <3>2. j - 1 \in 1 .. len /\ j - 1 >= i /\ (j - 1) + 1 = j
      BY <1>8, <3>1
    <3>3. b[j] = a[j - 1]
      BY <3>2
    <3>4. QED
      BY <1>8, <3>2, <3>3
  <2>4. j \in 1 .. len + 2
    BY <1>8
  <2>5. QED
    BY <2>2, <2>3, <2>4
<1>9. QED
  BY <1>1, <1>2, <1>3, <1>4, <1>5, <1>6, <1>7, <1>8

(* Separators a in two halves around separator m + 1, K.                   *)
Halves(len, a, m, K, low, up) ==
    /\ len \in Nat /\ a \in [1 .. len -> Nat] /\ Ascends(a, len)
    /\ m \in Nat /\ m + 1 <= len /\ K = a[m + 1]
    /\ low \in [1 .. m -> Nat] /\ \A l \in 1 .. m : low[l] = a[l]
    /\ up \in [1 .. len - m - 1 -> Nat]
    /\ \A l \in 1 .. len - m - 1 : up[l] = a[l + m + 1]

(* The separators below the median K = a[m + 1] of ascending ones, and     *)
(* those above it, keep the slots of the keys that are not above it and of *)
(* those that are.                                                         *)
LEMMA SlotsOfHalves ==
  ASSUME NEW len, NEW a, NEW m, NEW K, NEW low, NEW up, Halves(len, a, m, K, low, up),
         NEW k \in Nat, NEW j \in Nat
  PROVE  /\ SlotIn(a, len, k, j) => (k <= K <=> j <= m + 1)
         /\ k <= K => (SlotIn(low, m, k, j) <=> SlotIn(a, len, k, j))
         /\ K < k => (SlotIn(up, len - m - 1, k, j)
                        <=> j > 0 /\ SlotIn(a, len, k, j + m + 1))
<1>0. /\ len \in Nat /\ a \in [1 .. len -> Nat] /\ Ascends(a, len)
      /\ m \in Nat /\ m + 1 <= len /\ K = a[m + 1]
      /\ low \in [1 .. m -> Nat] /\ \A l \in 1 .. m : low[l] = a[l]
      /\ up \in [1 .. len - m - 1 -> Nat]
      /\ \A l \in 1 .. len - m - 1 : up[l] = a[l + m + 1]
  BY DEF Halves
<1>1. /\ K \in Nat /\ m + 1 \in 1 .. len
      /\ \A l \in 1 .. len : /\ l < m + 1 => a[l] < K
                             /\ m + 1 < l => K < a[l]
  BY <1>0 DEF Ascends
<1>2. ASSUME SlotIn(a, len, k, j)
      PROVE  k <= K <=> j <= m + 1
  <2>1. /\ j \in 1 .. len + 1
        /\ \A l \in 1 .. len : l < j => a[l] < k
        /\ j <= len => k <= a[j]
    BY <1>0, <1>2 DEF SlotIn
  <2>2. ASSUME j <= m + 1 PROVE k <= K
    <3>1. j \in 1 .. len /\ k <= a[j] /\ a[j] \in Nat
      BY <1>0, <2>1, <2>2
    <3>2. a[j] <= K
      <4>1. CASE j < m + 1
        BY <1>0, <1>1, <3>1, <4>1
      <4>2. CASE j = m + 1
        BY <1>0, <1>1, <4>2
      <4>3. QED
        BY <1>0, <2>2, <4>1, <4>2
    <3>3. QED
      BY <1>0, <1>1, <3>1, <3>2
  <2>3. ASSUME m + 1 < j PROVE K < k
    BY <1>0, <1>1, <2>1, <2>3
  <2>4. QED
    BY <1>0, <1>1, <2>1, <2>2, <2>3
<1>3. ASSUME k <= K, SlotIn(low, m, k, j) PROVE SlotIn(a, len, k, j)
  <2>1. /\ j \in 1 .. m + 1
        /\ \A l \in 1 .. m : l < j => low[l] < k
        /\ j <= m => k <= low[j]
    BY <1>3 DEF SlotIn
  <2>2. /\ j \in 1 .. len + 1
        /\ \A l \in 1 .. len : l < j => l \in 1 .. m
    BY <1>0, <2>1
  <2>3. j <= len => k <= a[j]
    <3>1. CASE j <= m
      BY <1>0, <2>1, <3>1
    <3>2. CASE ~(j <= m)
      BY <1>0, <1>3, <2>1, <3>2
    <3>3. QED
      BY <3>1, <3>2
  <2>4. QED
    BY <1>0, <2>1, <2>2, <2>3 DEF SlotIn
<1>4. ASSUME k <= K, SlotIn(a, len, k, j) PROVE SlotIn(low, m, k, j)
  BY <1>0, <1>1, <1>2, <1>4 DEF SlotIn
<1>5. ASSUME K < k, SlotIn(up, len - m - 1, k, j)
      PROVE  j > 0 /\ SlotIn(a, len, k, j + m + 1)
  <2>1. /\ j \in 1 .. len - m
        /\ \A l \in 1 .. len - m - 1 : l < j => up[l] < k
        /\ j <= len - m - 1 => k <= up[j]
    BY <1>0, <1>5 DEF SlotIn
  <2>2. ASSUME NEW l \in 1 .. len, l < j + m + 1 PROVE a[l] < k
    <3>1. CASE l <= m + 1
      <4>1. a[l] \in Nat /\ a[l] <= K
        <5>1. CASE l < m + 1
          BY <1>0, <1>1, <5>1
        <5>2. CASE l = m + 1
          BY <1>0, <1>1, <5>2
        <5>3. QED
          BY <1>0, <3>1, <5>1, <5>2
      <4>2. QED
        BY <1>0, <1>1, <1>5, <4>1
    <3>2. CASE m + 1 < l
      <4>1. l - m - 1 \in 1 .. len - m - 1 /\ l - m - 1 < j
            /\ (l - m - 1) + m + 1 = l
        BY <1>0, <2>1, <2>2, <3>2
      <4>2. QED
        BY <1>0, <2>1, <4>1
    <3>3. QED
      BY <1>0, <3>1, <3>2
  <2>3. j + m + 1 <= len => k <= a[j + m + 1]
    BY <1>0, <2>1
  <2>4. QED
    BY <1>0, <2>1, <2>2, <2>3 DEF SlotIn
<1>6. ASSUME K < k, j > 0, SlotIn(a, len, k, j + m + 1)
      PROVE  SlotIn(up, len - m - 1, k, j)
  <2>1. /\ j + m + 1 \in 1 .. len + 1
        /\ \A l \in 1 .. len : l < j + m + 1 => a[l] < k
        /\ j + m + 1 <= len => k <= a[j + m + 1]
    BY <1>0, <1>6 DEF SlotIn
  <2>2. ASSUME NEW l \in 1 .. len - m - 1, l < j PROVE up[l] < k
    <3>1. l + m + 1 \in 1 .. len /\ l + m + 1 < j + m + 1
      BY <1>0, <2>2
    <3>2. QED
      BY <1>0, <2>1, <3>1
  <2>3. j <= len - m - 1 => k <= up[j]
    BY <1>0, <1>6, <2>1
  <2>4. QED
    BY <1>0, <1>6, <2>1, <2>2, <2>3 DEF SlotIn
<1>7. QED
  BY <1>0, <1>2, <1>3, <1>4, <1>5, <1>6

(* The separators of a node are the keys of its cells.                     *)
KeysOf(n) == [j \in 1 .. Len(n.cells) |-> n.cells[j].key]
SlotOf(n, k, i) == SlotIn(KeysOf(n), Len(n.cells), k, i)
Ascending(n) == Ascends(KeysOf(n), Len(n.cells))

(* What the cells of a node and their keys are.                            *)
LEMMA CellTypes ==
  ASSUME NEW n \in BTreeNode
  PROVE  /\ n.cells \in Seq(BTreeCell) /\ Len(n.cells) \in Nat
         /\ \A j \in 1 .. Len(n.cells) : n.cells[j] \in BTreeCell /\ n.cells[j].key \in Nat
         /\ KeysOf(n) \in [1 .. Len(n.cells) -> Nat]
<1>1. n.cells \in Seq(BTreeCell) /\ Len(n.cells) \in Nat
  BY DEF BTreeNode
<1>2. \A j \in 1 .. Len(n.cells) : n.cells[j] \in BTreeCell
  BY <1>1
<1>3. \A c \in BTreeCell : c.key \in Nat
  BY DEF BTreeCell
<1>4. QED
  BY <1>1, <1>2, <1>3 DEF KeysOf

(* find_position returns the slot that takes the key.                      *)
LEMMA SlotFound ==
  ASSUME NEW n \in BTreeNode, NEW k \in Nat
  PROVE  \A i : SlotOf(n, k, i) <=> i = find_position(n, k)
<1> DEFINE f == find_position(n, k)
<1>1. /\ f \in 1 .. Len(n.cells) + 1
      /\ \A j \in 1 .. Len(n.cells) : j < f => n.cells[j].key < k
      /\ f <= Len(n.cells) => n.cells[f].key >= k
  BY PositionFound
<1>2. Len(n.cells) \in Nat /\ KeysOf(n) \in [1 .. Len(n.cells) -> Nat]
  BY CellTypes
<1> HIDE DEF f
<1>3. /\ \A j \in 1 .. Len(n.cells) : j < f => KeysOf(n)[j] < k
      /\ f <= Len(n.cells) => k <= KeysOf(n)[f]
  <2>1. \A j \in 1 .. Len(n.cells) : KeysOf(n)[j] = n.cells[j].key
    BY DEF KeysOf
  <2>2. f <= Len(n.cells) => f \in 1 .. Len(n.cells)
    BY <1>1, <1>2
  <2>3. QED
    BY <1>1, <1>2, <2>1, <2>2
<1>4. SlotOf(n, k, f)
  BY <1>1, <1>3 DEF SlotOf, SlotIn
<1>5. \A i : SlotOf(n, k, i) => i = f
  BY <1>2, <1>4, OneSlot DEF SlotOf
<1>6. QED
  BY <1>4, <1>5 DEF f

(* In which slots of the three nodes a split leaves a key: K is the median. *)
DividesSlots(ns, new, parent, child, i, nM, m, K) ==
    \A k \in Nat, j \in Nat :
      /\ SlotOf(ns[child], k, j) => (k <= K <=> j <= m + 1)
      /\ is_internal(ns[child].type) /\ k <= K =>
           (SlotOf(new[nM], k, j) <=> SlotOf(ns[child], k, j))
      /\ K < k => (SlotOf(new[child], k, j)
                     <=> j > 0 /\ SlotOf(ns[child], k, j + m + 1))
      /\ j < i => (SlotOf(new[parent], k, j) <=> SlotOf(ns[parent], k, j))
      /\ SlotOf(new[parent], k, i) <=> SlotOf(ns[parent], k, i) /\ k <= K
      /\ SlotOf(new[parent], k, i + 1) <=> SlotOf(ns[parent], k, i) /\ K < k
      /\ j > i + 1 => (SlotOf(new[parent], k, j) <=> SlotOf(ns[parent], k, j - 1))

(* A split divides the slots at the key of its median.                     *)
LEMMA SplitSlots ==
  ASSUME NEW ns \in [Pages -> BTreeNode], NEW new \in [Pages -> BTreeNode],
         NEW parent \in Pages, NEW child \in Pages, NEW nM \in Pages,
         NEW i \in 1 .. Len(ns[parent].cells) + 1, NEW m,
         IsSplit(ns, new, parent, child, i, nM, m),
         Ascending(ns[child]),
         new[parent].cells[i].key = ns[child].cells[m + 1].key,
         i <= Len(ns[parent].cells) =>
           ns[child].cells[m + 1].key < ns[parent].cells[i].key
  PROVE  DividesSlots(ns, new, parent, child, i, nM, m, ns[child].cells[m + 1].key)
<1> DEFINE K == ns[child].cells[m + 1].key
<1> SUFFICES ASSUME NEW k \in Nat, NEW j \in Nat
             PROVE  /\ SlotOf(ns[child], k, j) => (k <= K <=> j <= m + 1)
                    /\ is_internal(ns[child].type) /\ k <= K =>
                         (SlotOf(new[nM], k, j) <=> SlotOf(ns[child], k, j))
                    /\ K < k => (SlotOf(new[child], k, j)
                                   <=> j > 0 /\ SlotOf(ns[child], k, j + m + 1))
                    /\ j < i => (SlotOf(new[parent], k, j) <=> SlotOf(ns[parent], k, j))
                    /\ SlotOf(new[parent], k, i) <=> SlotOf(ns[parent], k, i) /\ k <= K
                    /\ SlotOf(new[parent], k, i + 1) <=> SlotOf(ns[parent], k, i) /\ K < k
                    /\ j > i + 1 =>
                         (SlotOf(new[parent], k, j) <=> SlotOf(ns[parent], k, j - 1))
  BY DEF DividesSlots
<1>0. /\ K = ns[child].cells[m + 1].key
      /\ new[parent].cells[i].key = K
      /\ i <= Len(ns[parent].cells) => K < ns[parent].cells[i].key
  OBVIOUS
<1> HIDE DEF K
<1> DEFINE N == ns[child]
           P == ns[parent]
           A == new[nM]
           B == new[child]
           C == new[parent]
           len == Len(N.cells)
           plen == Len(P.cells)
           low == [l \in 1 .. m |-> KeysOf(N)[l]]
<1>1. /\ m \in Nat /\ m + 1 \in 1 .. Len(N.cells)
      /\ is_internal(N.type) => Len(A.cells) = m
      /\ \A l \in 1 .. Len(A.cells) : A.cells[l] = N.cells[l]
      /\ Len(B.cells) = Len(N.cells) - m - 1
      /\ \A l \in 1 .. Len(B.cells) : B.cells[l] = N.cells[l + m + 1]
      /\ Len(C.cells) = Len(P.cells) + 1
      /\ \A l \in 1 .. Len(P.cells) :
           C.cells[IF l < i THEN l ELSE l + 1] = P.cells[l]
  BY DEF IsSplit
<1>2. /\ len \in Nat /\ KeysOf(N) \in [1 .. len -> Nat]
      /\ plen \in Nat /\ KeysOf(P) \in [1 .. plen -> Nat]
      /\ KeysOf(B) \in [1 .. len - m - 1 -> Nat]
      /\ KeysOf(C) \in [1 .. plen + 1 -> Nat]
  BY <1>1, CellTypes
<1>3. /\ i \in 1 .. plen + 1 /\ i \in Nat
      /\ K = KeysOf(N)[m + 1] /\ K \in Nat
      /\ KeysOf(C)[i] = K
      /\ i <= plen => K < KeysOf(P)[i]
  <2>1. i \in 1 .. plen + 1 /\ i \in Nat /\ i \in 1 .. Len(C.cells)
    BY <1>1, <1>2
  <2>2. K = KeysOf(N)[m + 1] /\ K \in Nat
    BY <1>0, <1>1, <1>2 DEF KeysOf
  <2>3. KeysOf(C)[i] = K
    BY <1>0, <2>1 DEF KeysOf
  <2>4. i <= plen => i \in 1 .. plen
    BY <1>2, <2>1
  <2>5. i <= plen => K < KeysOf(P)[i]
    BY <1>0, <2>4 DEF KeysOf
  <2>6. QED
    BY <2>1, <2>2, <2>3, <2>5
<1>4. /\ \A l \in 1 .. plen : l < i => KeysOf(C)[l] = KeysOf(P)[l]
      /\ \A l \in 1 .. plen : l >= i => KeysOf(C)[l + 1] = KeysOf(P)[l]
  <2>1. ASSUME NEW l \in 1 .. plen, l < i PROVE KeysOf(C)[l] = KeysOf(P)[l]
    <3>1. l \in 1 .. Len(C.cells)
      BY <1>1, <1>2
    <3>2. C.cells[l] = P.cells[l]
      BY <1>1, <2>1
    <3>3. QED
      BY <3>1, <3>2 DEF KeysOf
  <2>2. ASSUME NEW l \in 1 .. plen, l >= i PROVE KeysOf(C)[l + 1] = KeysOf(P)[l]
    <3>1. l + 1 \in 1 .. Len(C.cells) /\ ~(l < i)
      <4>1. l + 1 \in 1 .. Len(C.cells)
        BY <1>1, <1>2
      <4>2. ~(l < i)
        BY <1>2, <1>3, <2>2
      <4>3. QED
        BY <4>1, <4>2
    <3>2. C.cells[l + 1] = P.cells[l]
      BY <1>1, <3>1
    <3>3. QED
      BY <3>1, <3>2 DEF KeysOf
  <2>3. QED
    BY <2>1, <2>2
<1>5. \A l \in 1 .. len - m - 1 : KeysOf(B)[l] = KeysOf(N)[l + m + 1]
  <2>1. SUFFICES ASSUME NEW l \in 1 .. len - m - 1
                 PROVE  KeysOf(B)[l] = KeysOf(N)[l + m + 1]
    OBVIOUS
  <2>2. l \in 1 .. Len(B.cells) /\ l + m + 1 \in 1 .. len
    BY <1>1, <1>2, SMTT(30)
  <2>3. QED
    BY <1>1, <2>2 DEF KeysOf
<1>6. /\ low \in [1 .. m -> Nat] /\ \A l \in 1 .. m : low[l] = KeysOf(N)[l]
      /\ is_internal(N.type) => KeysOf(A) = low /\ Len(A.cells) = m
  <2>1. \A l \in 1 .. m : l \in 1 .. len
    BY <1>1, <1>2
  <2>2. low \in [1 .. m -> Nat]
    BY <1>2, <2>1
  <2>3. ASSUME is_internal(N.type) PROVE KeysOf(A) = low
    <3>1. Len(A.cells) = m /\ \A l \in 1 .. m : A.cells[l] = N.cells[l]
      BY <1>1, <2>3
    <3>2. \A l \in 1 .. m : KeysOf(N)[l] = N.cells[l].key
      BY <2>1 DEF KeysOf
    <3>3. QED
      BY <3>1, <3>2 DEF KeysOf
  <2>4. QED
    BY <1>1, <2>2, <2>3
<1>7. Ascends(KeysOf(N), len) /\ m + 1 <= len /\ m \in Nat
  BY <1>1, <1>2 DEF Ascending
<1> HIDE DEF low, len, plen, N, P, A, B, C
<1>8. /\ SlotIn(KeysOf(N), len, k, j) => (k <= K <=> j <= m + 1)
      /\ k <= K => (SlotIn(low, m, k, j) <=> SlotIn(KeysOf(N), len, k, j))
      /\ K < k => (SlotIn(KeysOf(B), len - m - 1, k, j)
                     <=> j > 0 /\ SlotIn(KeysOf(N), len, k, j + m + 1))
  <2> DEFINE a == KeysOf(N)
             up == KeysOf(B)
  <2>1. /\ a \in [1 .. len -> Nat] /\ Ascends(a, len) /\ len \in Nat
        /\ K = a[m + 1] /\ up \in [1 .. len - m - 1 -> Nat]
        /\ \A l \in 1 .. len - m - 1 : up[l] = a[l + m + 1]
    BY <1>2, <1>3, <1>5, <1>7
  <2>2. \A l \in 1 .. m : low[l] = a[l]
    BY <1>6
  <2> HIDE DEF a, up
  <2>3. /\ SlotIn(a, len, k, j) => (k <= K <=> j <= m + 1)
        /\ k <= K => (SlotIn(low, m, k, j) <=> SlotIn(a, len, k, j))
        /\ K < k => (SlotIn(up, len - m - 1, k, j)
                       <=> j > 0 /\ SlotIn(a, len, k, j + m + 1))
    <3>1. Halves(len, a, m, K, low, up)
      BY <1>6, <1>7, <2>1, <2>2 DEF Halves
    <3>2. QED
      BY <3>1, SlotsOfHalves
  <2>4. QED
    BY <2>3 DEF a, up
<1>9. /\ j < i => (SlotIn(KeysOf(C), plen + 1, k, j) <=> SlotIn(KeysOf(P), plen, k, j))
      /\ SlotIn(KeysOf(C), plen + 1, k, i) <=> SlotIn(KeysOf(P), plen, k, i) /\ k <= K
      /\ SlotIn(KeysOf(C), plen + 1, k, i + 1) <=> SlotIn(KeysOf(P), plen, k, i) /\ K < k
      /\ j > i + 1 => (SlotIn(KeysOf(C), plen + 1, k, j)
                         <=> SlotIn(KeysOf(P), plen, k, j - 1))
  BY <1>2, <1>3, <1>4, SlotsAfterInsert, ZenonT(40)
<1>10. QED
  BY <1>1, <1>6, <1>8, <1>9 DEF SlotOf, N, P, A, B, C, len, plen
-----------------------------------------------------------------------------
(* Search order: cov[p] are the keys a search for which comes through page *)
(* p, con[p] the leaf cells under it.                                      *)

(* A key is written to a node of type t so that it is read back.           *)
FitsIn(t, k) == is_index(t) \/ varint32(k) = k

(* A root covers all keys, a child those of its parent's that its slot     *)
(* takes;                                                                  *)
Covers(ns, count, rts, cov) ==
    /\ cov \in [Pages -> SUBSET Nat]
    /\ \A r \in rts : cov[r] = Nat
    /\ \A p \in 1 .. count, i \in Nat : \A q : Link(ns, p, i, q) =>
         cov[q] = {k \in cov[p] : SlotOf(ns[p], k, i)}

(* so that pages of one level of one tree have no key in common.           *)
Apart(count, own, ht, cov) ==
    \A p, q \in 1 .. count :
      \A k \in cov[p] : (k \in cov[q] /\ own[p] = own[q] /\ ht[p] = ht[q]) => p = q

(* Cells go up and are read back as they were written.                     *)
Sorted(ns, count) ==
    \A p \in 1 .. count :
      /\ Ascending(ns[p])
      /\ \A i \in 1 .. Len(ns[p].cells) : FitsIn(ns[p].type, ns[p].cells[i].key)

(* What is under an internal node is under its children; a cell is where   *)
(* its key is covered, and only a root may be empty.                       *)
Under(ns, con, p, c) ==
    IF is_internal(ns[p].type)
    THEN \E i, q : i \in Nat /\ Link(ns, p, i, q) /\ c \in con[q]
    ELSE \E i \in 1 .. Len(ns[p].cells) : c = ns[p].cells[i]

(* What con says a page contains is what is under it.                      *)
ContainsEntries(ns, count, rts, cov, con) ==
    /\ con \in [Pages -> SUBSET BTreeCell]
    /\ \A p \in 1 .. count :
         /\ \A c : c \in con[p] <=> Under(ns, con, p, c)
         /\ \A c \in con[p] : c.key \in cov[p]
         /\ p \notin rts => con[p] # {}

(* A separator repeats an entry of the subtree on its left.                *)
Repeats(n, sep, c) == c.key = sep.key /\ (is_index(n.type) => c.val = sep.val)

(* Every separator of every page repeats such an entry.                    *)
Witnessed(ns, count, con) ==
    \A p \in 1 .. count : is_internal(ns[p].type) =>
      \A i \in 1 .. Len(ns[p].cells) :
        \E c \in con[ns[p].cells[i].child] : Repeats(ns[p], ns[p].cells[i], c)

(* The order of the keys and of the entries in the trees.                  *)
Ordered(ns, count, rts, own, ht, cov, con) ==
    /\ Covers(ns, count, rts, cov)
    /\ Apart(count, own, ht, cov)
    /\ Sorted(ns, count)
    /\ ContainsEntries(ns, count, rts, cov, con)
    /\ Witnessed(ns, count, con)

(* A split of child, to which slot i of parent leads, whose median goes to *)
(* slot i of the parent.                                                   *)
Splitting(ns, new, count, nM, rts, own, ht, cov, con, parent, i, child, m) ==
    /\ ns \in [Pages -> BTreeNode] /\ new \in [Pages -> BTreeNode]
    /\ count \in Nat /\ nM \in Pages /\ nM = count + 1 /\ rts \subseteq 1 .. count
    /\ Shape(ns, count, rts, own, ht)
    /\ Ordered(ns, count, rts, own, ht, cov, con)
    /\ parent \in 1 .. count /\ i \in Nat /\ Link(ns, parent, i, child)
    /\ IsSplit(ns, new, parent, child, i, nM, m)
    /\ ~is_internal(ns[child].type) => m + 1 < Len(ns[child].cells)

(* The median of a child that is split: an entry under the child repeats   *)
(* it, another is larger, and so it is smaller than the separator that the *)
(* child hangs from.                                                       *)
LEMMA MedianDivides ==
  ASSUME NEW ns, NEW new, NEW count, NEW nM, NEW rts, NEW own, NEW ht, NEW cov, NEW con,
         NEW parent, NEW i, NEW child, NEW m,
         Splitting(ns, new, count, nM, rts, own, ht, cov, con, parent, i, child, m)
  PROVE  LET K == ns[child].cells[m + 1].key
         IN  /\ child \in 1 .. count
             /\ K \in Nat /\ K \in cov[child]
             /\ \E c \in con[child] : Repeats(ns[child], ns[child].cells[m + 1], c)
             /\ \E c \in con[child] : K < c.key
             /\ i <= Len(ns[parent].cells) => K < ns[parent].cells[i].key
<1> DEFINE K == ns[child].cells[m + 1].key
           N == ns[child]
           P == ns[parent]
           right == N.right_page
<1>0. /\ ns \in [Pages -> BTreeNode] /\ new \in [Pages -> BTreeNode]
      /\ 1 .. count \subseteq Pages
      /\ Shape(ns, count, rts, own, ht)
      /\ Ordered(ns, count, rts, own, ht, cov, con)
      /\ parent \in 1 .. count /\ i \in Nat /\ Link(ns, parent, i, child)
      /\ m \in Nat /\ m + 1 \in 1 .. Len(N.cells)
      /\ ~is_internal(N.type) => m + 1 < Len(N.cells)
  <2>1. 1 .. count \subseteq Pages
    BY ConstantsAssumption DEF Splitting, Pages
  <2>2. QED
    BY <2>1 DEF Splitting, IsSplit
<1>1. /\ Covers(ns, count, rts, cov) /\ Sorted(ns, count)
      /\ ContainsEntries(ns, count, rts, cov, con) /\ Witnessed(ns, count, con)
  BY <1>0 DEF Ordered
<1>2. /\ child \in 1 .. count /\ child \notin rts
      /\ cov[child] = {k \in cov[parent] : SlotOf(P, k, i)}
  BY <1>0, <1>1 DEF Shape, Descends, Covers
<1>3. /\ N \in BTreeNode /\ P \in BTreeNode
      /\ Len(N.cells) \in Nat /\ Len(P.cells) \in Nat
      /\ \A j \in 1 .. Len(N.cells) : N.cells[j].key \in Nat
      /\ \A j \in 1 .. Len(P.cells) : P.cells[j].key \in Nat
  <2>1. N \in BTreeNode /\ P \in BTreeNode
    BY <1>0, <1>2
  <2>2. QED
    BY <2>1, CellTypes
<1>4. /\ \A c : c \in con[child] <=> Under(ns, con, child, c)
      /\ \A c \in con[child] : c.key \in cov[child] /\ c.key \in Nat
      /\ cov[child] \subseteq Nat
  <2>1. cov[child] \subseteq Nat
    BY <1>0, <1>1, <1>2 DEF Covers
  <2>2. QED
    BY <1>1, <1>2, <2>1 DEF ContainsEntries
<1>5. \A j, l \in 1 .. Len(N.cells) : j < l => N.cells[j].key < N.cells[l].key
  <2>1. Ascending(N)
    BY <1>1, <1>2 DEF Sorted
  <2>2. QED
    BY <2>1 DEF Ascending, Ascends, KeysOf
<1>6. \E c \in con[child] : Repeats(N, N.cells[m + 1], c)
  <2>1. CASE is_internal(N.type)
    <3>1. m + 1 # Len(N.cells) + 1 /\ m + 1 \in 1 .. Len(N.cells) + 1
      BY <1>0, <1>3
    <3>2. Link(ns, child, m + 1, N.cells[m + 1].child)
      BY <2>1, <3>1 DEF Link, child_at
    <3>3. PICK c \in con[N.cells[m + 1].child] : Repeats(N, N.cells[m + 1], c)
      BY <1>0, <1>1, <1>2, <2>1 DEF Witnessed
    <3>4. c \in con[child]
      BY <1>0, <1>4, <2>1, <3>2, <3>3 DEF Under
    <3>5. QED
      BY <3>3, <3>4
  <2>2. CASE ~is_internal(N.type)
    <3>1. N.cells[m + 1] \in con[child]
      BY <1>0, <1>4, <2>2 DEF Under
    <3>2. QED
      BY <3>1 DEF Repeats
  <2>3. QED
    BY <2>1, <2>2
<1>7. \E c \in con[child] : K < c.key
  <2>1. CASE is_internal(N.type)
    <3>1. Link(ns, child, Len(N.cells) + 1, right)
      <4>1. Len(N.cells) + 1 \in 1 .. Len(N.cells) + 1
        BY <1>3
      <4>2. child_at(N, Len(N.cells) + 1) = right
        BY DEF child_at
      <4>3. QED
        BY <2>1, <4>1, <4>2 DEF Link
    <3>2. right \in 1 .. count /\ right \notin rts
      BY <1>0, <1>2, <1>3, <3>1 DEF Shape, Descends
    <3>3. PICK c \in con[right] : c.key \in cov[right]
      BY <1>1, <3>2 DEF ContainsEntries
    <3>4. c \in con[child]
      BY <1>3, <1>4, <2>1, <3>1 DEF Under
    <3>5. SlotOf(N, c.key, Len(N.cells) + 1)
      BY <1>1, <1>2, <1>3, <3>1, <3>3 DEF Covers
    <3>6. m + 1 < Len(N.cells) + 1 /\ m + 1 \in 1 .. Len(N.cells)
      BY <1>0, <1>3
    <3>7. K < c.key
      BY <3>5, <3>6 DEF SlotOf, SlotIn, KeysOf
    <3>8. QED
      BY <3>4, <3>7
  <2>2. CASE ~is_internal(N.type)
    <3>1. m + 2 \in 1 .. Len(N.cells) /\ m + 1 < m + 2 /\ m + 1 \in 1 .. Len(N.cells)
      BY <1>0, <1>3, <2>2
    <3>2. N.cells[m + 2] \in con[child]
      BY <1>4, <2>2, <3>1 DEF Under
    <3>3. K < N.cells[m + 2].key
      BY <1>5, <3>1
    <3>4. QED
      BY <3>2, <3>3
  <2>3. QED
    BY <2>1, <2>2
<1>8. K \in Nat /\ K \in cov[child]
  BY <1>4, <1>6 DEF Repeats
<1>9. ASSUME i <= Len(P.cells)
      PROVE  K < P.cells[i].key
  <2>1. PICK c \in con[child] : K < c.key
    BY <1>7
  <2>2. SlotOf(P, c.key, i) /\ c.key \in Nat
    BY <1>2, <1>4
  <2>3. i \in 1 .. Len(P.cells)
    BY <1>0, <1>3, <1>9, <2>2 DEF SlotOf, SlotIn
  <2>4. c.key <= P.cells[i].key
    BY <1>9, <2>2, <2>3 DEF SlotOf, SlotIn, KeysOf
  <2>5. P.cells[i].key \in Nat
    BY <1>3, <2>3
  <2>6. QED
    BY <1>8, <2>1, <2>2, <2>4, <2>5
<1>10. QED
  BY <1>2, <1>6, <1>7, <1>8, <1>9

(* What the new page and the child cover, and contain.                     *)
SplitKeys(ks, child, nM, K) ==
    [ks EXCEPT ![nM] = {k \in ks[child] : k <= K}, ![child] = {k \in ks[child] : K < k}]

SplitEntries(con, child, nM, K) ==
    [con EXCEPT ![nM] = {c \in con[child] : c.key <= K},
                ![child] = {c \in con[child] : K < c.key}]

(* What a split does to the three pages, in the terms the proofs that      *)
(* follow use.                                                             *)
LEMMA SplitFacts ==
  ASSUME NEW ns, NEW new, NEW count, NEW nM, NEW rts, NEW own, NEW ht, NEW cov, NEW con,
         NEW parent, NEW i, NEW child, NEW m,
         Splitting(ns, new, count, nM, rts, own, ht, cov, con, parent, i, child, m)
  PROVE  LET N == ns[child]
             P == ns[parent]
             K == N.cells[m + 1].key
         IN  /\ 1 .. nM \subseteq Pages /\ 1 .. nM = (1 .. count) \cup {nM}
             /\ child \in 1 .. count /\ child \notin rts
             /\ parent # child /\ parent # nM /\ child # nM
             /\ N \in BTreeNode /\ P \in BTreeNode /\ P.type \in NodeTypes
             /\ Len(N.cells) \in Nat /\ Len(P.cells) \in Nat
             /\ is_internal(P.type) /\ i \in 1 .. Len(P.cells) + 1
             /\ child = child_at(P, i)
             /\ is_index(N.type) <=> is_index(P.type)
             /\ m \in Nat /\ m + 1 \in 1 .. Len(N.cells)
             /\ K \in Nat /\ K \in cov[child]
             /\ FitsIn(P.type, K)
             /\ \E c \in con[child] : Repeats(N, N.cells[m + 1], c)
             /\ \E c \in con[child] : K < c.key
             /\ i <= Len(P.cells) => K < P.cells[i].key
             /\ new[parent].cells[i].key = K
             /\ new[parent].cells[i].child = nM
             /\ is_index(P.type) => new[parent].cells[i].val = N.cells[m + 1].val
             /\ DividesSlots(ns, new, parent, child, i, nM, m, K)
<1> DEFINE N == ns[child]
           P == ns[parent]
           K == N.cells[m + 1].key
<1>1. /\ ns \in [Pages -> BTreeNode] /\ new \in [Pages -> BTreeNode]
      /\ count \in Nat /\ nM \in Pages /\ nM = count + 1 /\ rts \subseteq 1 .. count
      /\ Shape(ns, count, rts, own, ht)
      /\ Ordered(ns, count, rts, own, ht, cov, con)
      /\ parent \in 1 .. count /\ i \in Nat /\ Link(ns, parent, i, child)
      /\ IsSplit(ns, new, parent, child, i, nM, m)
      /\ ~is_internal(ns[child].type) => m + 1 < Len(ns[child].cells)
  BY DEF Splitting
<1>2. 1 .. nM \subseteq Pages /\ 1 .. nM = (1 .. count) \cup {nM} /\ 1 .. count \subseteq Pages
      /\ nM \notin 1 .. count
  BY <1>1, ConstantsAssumption DEF Pages
<1>3. /\ Descends(ns, count, rts, own, ht) /\ Levels(ns, count, rts, own, ht)
      /\ Typed(own, ht)
  BY <1>1 DEF Shape
<1>4. /\ child \in 1 .. count /\ child \notin rts
      /\ is_index(N.type) <=> is_index(P.type)
      /\ ht[parent] = ht[child] + 1
  BY <1>1, <1>3 DEF Descends
<1>5. /\ P.type \in NodeTypes
      /\ is_internal(P.type) /\ i \in 1 .. Len(P.cells) + 1 /\ child = child_at(P, i)
  BY <1>1, <1>3 DEF Levels, Link
<1>6. parent # child
  <2>1. child \in Pages
    BY <1>2, <1>4
  <2>2. ht[child] \in Nat
    BY <1>3, <2>1 DEF Typed
  <2>3. QED
    BY <1>4, <2>2
<1>7. /\ parent \in Pages /\ child \in Pages /\ parent # nM /\ child # nM
      /\ N \in BTreeNode /\ P \in BTreeNode
  BY <1>1, <1>2, <1>4
<1>8. Len(N.cells) \in Nat /\ Len(P.cells) \in Nat
  BY <1>7, CellTypes
<1>9. /\ m \in Nat /\ m + 1 \in 1 .. Len(N.cells)
      /\ new[parent].cells[i] = Stored(P.type, Separator(N.cells[m + 1], nM))
  BY <1>1 DEF IsSplit
<1>10. /\ K \in Nat /\ K \in cov[child]
       /\ \E c \in con[child] : Repeats(N, N.cells[m + 1], c)
       /\ \E c \in con[child] : K < c.key
       /\ i <= Len(P.cells) => K < P.cells[i].key
  BY MedianDivides
<1>11. Ascending(N) /\ FitsIn(N.type, K)
  BY <1>1, <1>4, <1>9 DEF Ordered, Sorted
<1>12. FitsIn(P.type, K)
  BY <1>4, <1>11 DEF FitsIn
<1>13. /\ new[parent].cells[i].key = K
       /\ new[parent].cells[i].child = nM
       /\ is_index(P.type) => new[parent].cells[i].val = N.cells[m + 1].val
  <2>1. P.type = TABLE_INTERNAL => ~is_index(P.type)
    BY DEF is_index, TABLE_INTERNAL, INDEX_INTERNAL, INDEX_LEAF
  <2> HIDE DEF N, P
  <2>2. QED
    BY <1>5, <1>9, <1>12, <2>1 DEF Stored, Separator, FitsIn
<1> HIDE DEF K
<1>14. DividesSlots(ns, new, parent, child, i, nM, m, K)
  BY <1>1, <1>5, <1>7, <1>10, <1>11, <1>13, SplitSlots DEF K
<1>15. QED
  BY <1>2, <1>4, <1>1, <1>5, <1>6, <1>7, <1>8, <1>9, <1>10, <1>12, <1>13, <1>14 DEF K

(* A split keeps the search order: the new page covers the keys up to the  *)
(* median, the page that was split those above it.                         *)
LEMMA SplitKeepsCovers ==
  ASSUME NEW ns, NEW new, NEW count, NEW nM, NEW rts, NEW own, NEW ht, NEW cov, NEW con,
         NEW parent, NEW i, NEW child, NEW m,
         Splitting(ns, new, count, nM, rts, own, ht, cov, con, parent, i, child, m)
  PROVE  Covers(new, nM, rts, SplitKeys(cov, child, nM, ns[child].cells[m + 1].key))
<1> DEFINE K == ns[child].cells[m + 1].key
           N == ns[child]
           P == ns[parent]
           cov2 == SplitKeys(cov, child, nM, K)
<1>0. /\ ns \in [Pages -> BTreeNode] /\ new \in [Pages -> BTreeNode]
      /\ count \in Nat /\ nM \in Pages /\ nM = count + 1 /\ rts \subseteq 1 .. count
      /\ Shape(ns, count, rts, own, ht)
      /\ Ordered(ns, count, rts, own, ht, cov, con)
      /\ parent \in 1 .. count /\ i \in Nat /\ Link(ns, parent, i, child)
      /\ IsSplit(ns, new, parent, child, i, nM, m)
  BY DEF Splitting
<1>1. Covers(ns, count, rts, cov)
  BY <1>0 DEF Ordered
<1>2. /\ 1 .. nM \subseteq Pages /\ 1 .. nM = (1 .. count) \cup {nM}
      /\ child \in 1 .. count /\ child \notin rts /\ child \in Pages
      /\ is_internal(P.type) /\ i \in 1 .. Len(P.cells) + 1
      /\ parent \in Pages /\ parent # nM /\ child # nM /\ P.type \in NodeTypes
      /\ parent # child /\ child = child_at(P, i)
  BY <1>0, SplitFacts, SMTT(30)
<1>3. m \in Nat /\ m + 1 \in 1 .. Len(N.cells)
  BY SplitFacts
<1>4. /\ K \in Nat
      /\ cov[child] = {k \in cov[parent] : SlotOf(P, k, i)}
  BY <1>0, <1>1, SplitFacts DEF Covers
<1>6. DividesSlots(ns, new, parent, child, i, nM, m, K)
  BY SplitFacts
<1>7. /\ Link(new, parent, i, nM)
      /\ \A j \in Nat : \A q : Link(new, nM, j, q) => j <= m + 1
      /\ \A p \in Pages, j \in Nat : \A q :
           Link(new, p, j, q) /\ ~(p = parent /\ j = i) =>
             /\ Link(ns, OldPage(child, nM, p), OldSlot(parent, child, i, m, p, j), q)
             /\ OldSlot(parent, child, i, m, p, j) \in Nat
      /\ \A q \in Pages \ {parent, child, nM} : new[q] = ns[q]
  <2>1. \A q \in Pages \ {parent, child, nM} : new[q] = ns[q]
    BY <1>0 DEF IsSplit
  <2>2. i \in 1 .. Len(ns[parent].cells) + 1 /\ is_internal(ns[parent].type)
        /\ ns[parent].type \in NodeTypes
    BY <1>2
  <2>3. QED
    BY <1>0, <1>2, <2>1, <2>2, SplitLinks, SMTT(30)
<1>8. /\ cov \in [Pages -> SUBSET Nat]
      /\ \A r \in rts : cov[r] = Nat
      /\ \A p \in 1 .. count, j \in Nat : \A q : Link(ns, p, j, q) =>
           cov[q] = {k \in cov[p] : SlotOf(ns[p], k, j)}
  BY <1>1 DEF Covers
<1>9. /\ cov2 \in [Pages -> SUBSET Nat]
      /\ cov2[nM] = {k \in cov[child] : k <= K}
      /\ cov2[child] = {k \in cov[child] : K < k}
      /\ \A q \in Pages \ {nM, child} : cov2[q] = cov[q]
  <2>1. cov[child] \subseteq Nat
    BY <1>2, <1>8
  <2>2. QED
    BY <1>0, <1>2, <1>8, <2>1 DEF SplitKeys
<1>10. \A p \in 1 .. count, j \in Nat : \A q : Link(ns, p, j, q) =>
         /\ q \in 1 .. count
         /\ q = child => p = parent /\ j = i
  BY <1>0 DEF Shape, Descends, OneLink
<1> HIDE DEF cov2, K
<1>14. \A k \in Nat, j \in Nat :
         /\ SlotOf(N, k, j) => (k <= K <=> j <= m + 1)
         /\ is_internal(N.type) /\ k <= K => (SlotOf(new[nM], k, j) <=> SlotOf(N, k, j))
         /\ K < k => (SlotOf(new[child], k, j) <=> j > 0 /\ SlotOf(N, k, j + m + 1))
         /\ j < i => (SlotOf(new[parent], k, j) <=> SlotOf(P, k, j))
         /\ SlotOf(new[parent], k, i) <=> SlotOf(P, k, i) /\ k <= K
         /\ SlotOf(new[parent], k, i + 1) <=> SlotOf(P, k, i) /\ K < k
         /\ j > i + 1 => (SlotOf(new[parent], k, j) <=> SlotOf(P, k, j - 1))
  BY <1>6 DEF DividesSlots
<1> HIDE DEF N, P
<1>11. ASSUME NEW p \in 1 .. nM, NEW j \in Nat, NEW q, Link(new, p, j, q)
       PROVE  cov2[q] = {k \in cov2[p] : SlotOf(new[p], k, j)}
  <2>1. p \in Pages
    BY <1>2
  <2>2. CASE p = parent /\ j = i
    <3>1. q = nM
      BY <1>7, <1>11, <2>2 DEF Link
    <3>2. cov2[p] = cov[parent] /\ cov[parent] \subseteq Nat
      BY <1>2, <1>8, <1>9, <2>2
    <3>3. QED
      BY <1>4, <1>14, <1>9, <2>2, <3>1, <3>2
  <2> DEFINE was == OldPage(child, nM, p)
             oj == OldSlot(parent, child, i, m, p, j)
  <2>3. ASSUME ~(p = parent /\ j = i)
        PROVE  /\ oj \in Nat /\ was \in 1 .. count
               /\ Link(ns, was, oj, q)
               /\ q \in 1 .. count /\ q \in Pages /\ q # nM
               /\ q = child => was = parent /\ oj = i
               /\ cov[q] = {k \in cov[was] : SlotOf(ns[was], k, oj)}
    <3>1. Link(ns, was, oj, q) /\ oj \in Nat
      BY <1>7, <1>11, <2>1, <2>3
    <3>2. was \in 1 .. count
      BY <1>2, <1>11 DEF OldPage
    <3>3. q \in 1 .. count /\ (q = child => was = parent /\ oj = i)
      BY <1>10, <3>1, <3>2
    <3>4. q \in Pages /\ q # nM
      BY <1>0, <1>2, <3>3
    <3>5. cov[q] = {k \in cov[was] : SlotOf(ns[was], k, oj)}
      BY <1>8, <3>1, <3>2
    <3>6. QED
      BY <3>1, <3>2, <3>3, <3>4, <3>5
  <2>4. CASE p = nM
    <3>1. was = child /\ oj = j
      BY <1>2, <2>4 DEF OldPage, OldSlot
    <3>2. /\ Link(ns, child, j, q) /\ q \in Pages /\ q # nM /\ q # child
          /\ cov[q] = {k \in cov[child] : SlotOf(N, k, j)}
      BY <1>2, <2>3, <2>4, <3>1 DEF N
    <3>3. j <= m + 1 /\ is_internal(N.type)
      BY <1>7, <1>11, <2>4, <3>2 DEF Link, N
    <3>4. cov2[q] = cov[q] /\ cov[child] \subseteq Nat
      BY <1>2, <1>8, <1>9, <3>2
    <3>5. ASSUME NEW k \in cov[child]
          PROVE  SlotOf(N, k, j) <=> k <= K /\ SlotOf(new[nM], k, j)
      <4>1. k \in Nat
        BY <3>4
      <4>2. QED
        BY <1>14, <3>3, <4>1
    <3>6. QED
      BY <1>9, <2>4, <3>2, <3>4, <3>5
  <2>5. CASE p = child
    <3>1. was = child /\ oj = j + m + 1
      BY <1>2, <2>5 DEF OldPage, OldSlot
    <3>2. /\ q \in Pages /\ q # nM /\ q # child
          /\ cov[q] = {k \in cov[child] : SlotOf(N, k, j + m + 1)}
      BY <1>2, <2>3, <2>5, <3>1 DEF N
    <3>3. j > 0 /\ j + m + 1 \in Nat /\ ~(j + m + 1 <= m + 1)
      BY <1>3, <1>11 DEF Link
    <3>4. cov2[q] = cov[q] /\ cov[child] \subseteq Nat
      BY <1>2, <1>8, <1>9, <3>2
    <3>5. ASSUME NEW k \in cov[child]
          PROVE  SlotOf(N, k, j + m + 1) <=> K < k /\ SlotOf(new[child], k, j)
      <4>1. k \in Nat
        BY <3>4
      <4>2. SlotOf(N, k, j + m + 1) => K < k
        BY <1>4, <1>14, <3>3, <4>1
      <4>3. QED
        BY <1>14, <3>3, <4>1, <4>2
    <3>6. QED
      BY <1>9, <2>5, <3>2, <3>4, <3>5
  <2>6. CASE p = parent /\ j # i
    <3>1. was = parent /\ oj = IF j > i THEN j - 1 ELSE j
      BY <1>2, <2>6 DEF OldPage, OldSlot
    <3>2. cov2[p] = cov[parent] /\ cov[parent] \subseteq Nat
      BY <1>2, <1>8, <1>9, <2>6
    <3>3. CASE j = i + 1
      <4>1. oj = i
        BY <1>0, <3>1, <3>3
      <4>2. q = child
        <5>1. Link(ns, parent, i, q)
          BY <2>3, <2>6, <3>1, <4>1
        <5>2. QED
          BY <1>2, <5>1 DEF Link, P
      <4>3. QED
        BY <1>4, <1>14, <1>9, <2>6, <3>2, <3>3, <4>2
    <3>4. CASE j # i + 1
      <4>1. oj # i
        BY <2>6, <3>1, <3>4
      <4>2. /\ q \in Pages /\ q # nM /\ q # child
            /\ cov[q] = {k \in cov[parent] : SlotOf(P, k, oj)}
        BY <2>3, <2>6, <3>1, <4>1 DEF P
      <4>3. cov2[q] = cov[q]
        BY <1>9, <4>2
      <4>4. ASSUME NEW k \in cov[parent]
            PROVE  SlotOf(P, k, oj) <=> SlotOf(new[parent], k, j)
        <5>1. k \in Nat
          BY <3>2
        <5>2. CASE j < i
          <6>1. oj = j
            BY <1>0, <3>1, <5>2
          <6>2. QED
            BY <1>14, <5>1, <5>2, <6>1
        <5>3. CASE j > i + 1
          <6>1. oj = j - 1
            BY <1>0, <3>1, <5>3
          <6>2. QED
            BY <1>14, <5>1, <5>3, <6>1
        <5>4. QED
          BY <1>0, <2>6, <3>4, <5>2, <5>3
      <4>5. QED
        BY <2>6, <3>2, <4>2, <4>3, <4>4
    <3>5. QED
      BY <3>3, <3>4
  <2>7. CASE p \notin {parent, child, nM}
    <3>1. was = p /\ oj = j /\ new[p] = ns[p]
      BY <1>7, <2>1, <2>7 DEF OldPage, OldSlot
    <3>2. /\ q \in Pages /\ q # nM /\ q # child
          /\ cov[q] = {k \in cov[p] : SlotOf(ns[p], k, j)}
      BY <2>3, <2>7, <3>1
    <3>3. cov2[q] = cov[q] /\ cov2[p] = cov[p]
      BY <1>9, <2>1, <2>7, <3>2
    <3>4. QED
      BY <3>1, <3>2, <3>3
  <2>8. QED
    BY <2>2, <2>4, <2>5, <2>6, <2>7
<1>12. \A r \in rts : cov2[r] = Nat
  <2>1. SUFFICES ASSUME NEW r \in rts PROVE cov2[r] = Nat
    OBVIOUS
  <2>2. r \in Pages \ {nM, child}
    BY <1>0, <1>2
  <2>3. QED
    BY <1>8, <1>9, <2>2
<1>13. QED
  BY <1>9, <1>11, <1>12 DEF Covers, cov2, K

(* The two halves have no key in common.                                   *)
LEMMA SplitKeepsApart ==
  ASSUME NEW ns, NEW new, NEW count, NEW nM, NEW rts, NEW own, NEW ht, NEW cov, NEW con,
         NEW parent, NEW i, NEW child, NEW m,
         Splitting(ns, new, count, nM, rts, own, ht, cov, con, parent, i, child, m)
  PROVE  Apart(nM, [own EXCEPT ![nM] = own[child]], [ht EXCEPT ![nM] = ht[child]],
               SplitKeys(cov, child, nM, ns[child].cells[m + 1].key))
<1> DEFINE K == ns[child].cells[m + 1].key
           own2 == [own EXCEPT ![nM] = own[child]]
           ht2 == [ht EXCEPT ![nM] = ht[child]]
           cov2 == SplitKeys(cov, child, nM, K)
<1>1. /\ Typed(own, ht) /\ Covers(ns, count, rts, cov) /\ Apart(count, own, ht, cov)
      /\ nM \in Pages /\ nM \notin 1 .. count
  BY DEF Splitting, Shape, Ordered
<1>2. /\ 1 .. nM \subseteq Pages /\ 1 .. nM = (1 .. count) \cup {nM}
      /\ child \in 1 .. count /\ child # nM /\ K \in Nat /\ child \in Pages
  BY SplitFacts
<1> HIDE DEF K
<1>3. /\ \A p \in 1 .. nM : /\ own2[p] = own[OldPage(child, nM, p)]
                            /\ ht2[p] = ht[OldPage(child, nM, p)]
                            /\ OldPage(child, nM, p) \in 1 .. count
                            /\ cov2[p] \subseteq cov[OldPage(child, nM, p)]
      /\ \A k \in cov2[nM] : k <= K
      /\ \A k \in cov2[child] : K < k
      /\ cov[child] \subseteq Nat
  <2>1. /\ own \in [Pages -> Pages] /\ ht \in [Pages -> Nat] /\ cov \in [Pages -> SUBSET Nat]
    BY <1>1 DEF Typed, Covers
  <2>2. /\ cov2[nM] = {k \in cov[child] : k <= K}
        /\ cov2[child] = {k \in cov[child] : K < k}
        /\ \A p \in Pages \ {nM, child} : cov2[p] = cov[p]
    BY <1>1, <1>2, <2>1 DEF SplitKeys
  <2> HIDE DEF cov2
  <2>3. cov[child] \subseteq Nat
    BY <1>2, <2>1
  <2>4. \A p \in 1 .. nM : OldPage(child, nM, p) \in 1 .. count
    BY <1>2 DEF OldPage
  <2>5. \A p \in 1 .. nM : cov2[p] \subseteq cov[OldPage(child, nM, p)]
    BY <1>2, <2>2 DEF OldPage
  <2>6. \A p \in 1 .. nM : /\ own2[p] = own[OldPage(child, nM, p)]
                           /\ ht2[p] = ht[OldPage(child, nM, p)]
    BY <1>1, <1>2, <2>1 DEF OldPage
  <2>7. QED
    BY <2>2, <2>3, <2>4, <2>5, <2>6
<1> HIDE DEF own2, ht2, cov2
<1>4. ASSUME NEW p \in 1 .. nM, NEW q \in 1 .. nM, NEW k \in cov2[p], k \in cov2[q],
             own2[p] = own2[q], ht2[p] = ht2[q]
      PROVE  p = q
  <2>1. OldPage(child, nM, p) = OldPage(child, nM, q)
    BY <1>1, <1>3, <1>4 DEF Apart
  <2>2. k \in cov2[nM] /\ k \in cov2[child] => FALSE
    <3>1. SUFFICES ASSUME k \in cov2[nM], k \in cov2[child] PROVE FALSE
      OBVIOUS
    <3>2. k <= K /\ K < k /\ k \in Nat
      <4>1. OldPage(child, nM, child) = child
        BY DEF OldPage
      <4>2. QED
        BY <1>2, <1>3, <3>1, <4>1
    <3>3. QED
      BY <1>2, <3>2
  <2>3. QED
    BY <1>4, <2>1, <2>2 DEF OldPage
<1>5. QED
  BY <1>4 DEF Apart, own2, ht2, cov2, K

(* Ascending keys and one more in its place, and a part of them.           *)
LEMMA AscendsAfterInsert ==
  ASSUME NEW len \in Nat, NEW a \in [1 .. len -> Nat], NEW b \in [1 .. len + 1 -> Nat],
         NEW i \in 1 .. len + 1, Ascends(a, len),
         \A l \in 1 .. len : l < i => b[l] = a[l] /\ a[l] < b[i],
         \A l \in 1 .. len : l >= i => b[l + 1] = a[l] /\ b[i] < a[l]
  PROVE  Ascends(b, len + 1)
<1>1. SUFFICES ASSUME NEW x \in 1 .. len + 1, NEW y \in 1 .. len + 1, x < y
               PROVE  b[x] < b[y]
  BY DEF Ascends
<1>2. \A z \in 1 .. len + 1 : z > i =>
        z - 1 \in 1 .. len /\ z - 1 >= i /\ b[z] = a[z - 1] /\ b[i] < a[z - 1]
  <2>1. SUFFICES ASSUME NEW z \in 1 .. len + 1, z > i
                 PROVE  z - 1 \in 1 .. len /\ z - 1 >= i /\ b[z] = a[z - 1] /\ b[i] < a[z - 1]
    OBVIOUS
  <2>2. z - 1 \in 1 .. len /\ z - 1 >= i /\ (z - 1) + 1 = z
    BY <2>1
  <2>3. QED
    BY <2>2
<1>3. CASE y < i
  BY <1>1, <1>3 DEF Ascends
<1>4. CASE y = i
  BY <1>1, <1>4
<1>5. CASE y > i /\ x < i
  <2>1. b[x] = a[x] /\ a[x] < b[i] /\ x \in 1 .. len
    BY <1>5
  <2>2. b[y] = a[y - 1] /\ b[i] < a[y - 1] /\ y - 1 \in 1 .. len
    BY <1>2, <1>5
  <2>3. a[x] \in Nat /\ a[y - 1] \in Nat /\ b[i] \in Nat
    BY <2>1, <2>2
  <2>4. QED
    BY <2>1, <2>2, <2>3
<1>6. CASE y > i /\ x = i
  BY <1>2, <1>6
<1>7. CASE y > i /\ x > i
  <2>1. x - 1 < y - 1 /\ x - 1 \in 1 .. len /\ y - 1 \in 1 .. len
        /\ b[x] = a[x - 1] /\ b[y] = a[y - 1]
    BY <1>1, <1>2, <1>7
  <2>2. QED
    BY <2>1 DEF Ascends
<1>8. QED
  BY <1>1, <1>3, <1>4, <1>5, <1>6, <1>7

(* Some consecutive separators of those that go up go up.                  *)
LEMMA AscendsInPart ==
  ASSUME NEW len \in Nat, NEW a \in [1 .. len -> Nat], Ascends(a, len),
         NEW n \in Nat, NEW d \in Nat, n + d <= len,
         NEW b, \A l \in 1 .. n : b[l] = a[l + d]
  PROVE  Ascends(b, n)
<1>1. SUFFICES ASSUME NEW x \in 1 .. n, NEW y \in 1 .. n, x < y
               PROVE  b[x] < b[y]
  BY DEF Ascends
<1>2. x + d \in 1 .. len /\ y + d \in 1 .. len /\ x + d < y + d
  BY <1>1
<1>3. QED
  BY <1>2 DEF Ascends

(* The cells of the three pages of a split go up, as those of all pages    *)
(* do.                                                                     *)
LEMMA SplitKeepsSorted ==
  ASSUME NEW ns, NEW new, NEW count, NEW nM, NEW rts, NEW own, NEW ht, NEW cov, NEW con,
         NEW parent, NEW i, NEW child, NEW m,
         Splitting(ns, new, count, nM, rts, own, ht, cov, con, parent, i, child, m)
  PROVE  Sorted(new, nM)
<1> DEFINE N == ns[child]
           P == ns[parent]
           A == new[nM]
           B == new[child]
           C == new[parent]
           K == N.cells[m + 1].key
           len == Len(N.cells)
           plen == Len(P.cells)
<1>1. /\ Sorted(ns, count) /\ Covers(ns, count, rts, cov) /\ Link(ns, parent, i, child)
      /\ parent \in 1 .. count /\ i \in Nat
      /\ new \in [Pages -> BTreeNode] /\ nM \in Pages
  BY DEF Splitting, Ordered
<1>2. /\ 1 .. nM \subseteq Pages /\ 1 .. nM = (1 .. count) \cup {nM}
      /\ child \in 1 .. count /\ parent # child /\ parent # nM /\ child # nM
      /\ N \in BTreeNode /\ P \in BTreeNode
      /\ len \in Nat /\ plen \in Nat /\ i \in 1 .. plen + 1
      /\ m \in Nat /\ m + 1 \in 1 .. len
      /\ K \in Nat /\ K \in cov[child] /\ FitsIn(P.type, K)
      /\ i <= plen => K < P.cells[i].key
      /\ C.cells[i].key = K
  BY SplitFacts
<1>3. /\ A.type = N.type /\ B.type = N.type /\ C.type = P.type
      /\ Len(A.cells) = m \/ Len(A.cells) = m + 1
      /\ \A l \in 1 .. Len(A.cells) : A.cells[l] = N.cells[l]
      /\ Len(B.cells) = len - m - 1
      /\ \A l \in 1 .. Len(B.cells) : B.cells[l] = N.cells[l + m + 1]
      /\ Len(C.cells) = plen + 1
      /\ \A l \in 1 .. plen : C.cells[IF l < i THEN l ELSE l + 1] = P.cells[l]
      /\ \A q \in Pages \ {parent, child, nM} : new[q] = ns[q]
  BY DEF Splitting, IsSplit
<1>4. /\ A \in BTreeNode /\ B \in BTreeNode /\ C \in BTreeNode
  BY <1>1, <1>2
<1>5. /\ KeysOf(N) \in [1 .. len -> Nat] /\ KeysOf(P) \in [1 .. plen -> Nat]
      /\ KeysOf(C) \in [1 .. plen + 1 -> Nat]
  BY <1>2, <1>3, <1>4, CellTypes
<1>6. /\ Ascends(KeysOf(N), len) /\ Ascends(KeysOf(P), plen)
      /\ \A l \in 1 .. len : FitsIn(N.type, N.cells[l].key)
      /\ \A l \in 1 .. plen : FitsIn(P.type, P.cells[l].key)
  BY <1>1, <1>2 DEF Sorted, Ascending
<1>7. /\ \A l \in 1 .. plen : l < i => P.cells[l].key < K
      /\ \A l \in 1 .. plen : l >= i => K < P.cells[l].key
  <2>1. SlotOf(P, K, i)
    BY <1>1, <1>2 DEF Covers
  <2>2. ASSUME NEW l \in 1 .. plen, l < i PROVE P.cells[l].key < K
    BY <2>1, <2>2 DEF SlotOf, SlotIn, KeysOf
  <2>3. ASSUME NEW l \in 1 .. plen, l >= i PROVE K < P.cells[l].key
    <3>1. i \in 1 .. plen /\ K < P.cells[i].key
      BY <1>1, <1>2, <2>3
    <3>2. l = i \/ P.cells[i].key < P.cells[l].key
      <4>1. l = i \/ i < l
        BY <1>1, <2>3
      <4>2. i < l => P.cells[i].key < P.cells[l].key
        BY <1>6, <3>1 DEF Ascends, KeysOf
      <4>3. QED
        BY <4>1, <4>2
    <3>3. P.cells[i].key \in Nat /\ P.cells[l].key \in Nat /\ K \in Nat
      BY <1>2, <3>1, CellTypes
    <3> HIDE DEF K, P
    <3>4. QED
      BY <3>1, <3>2, <3>3
  <2>4. QED
    BY <2>2, <2>3
<1>8. /\ \A l \in 1 .. plen : l < i => C.cells[l] = P.cells[l]
      /\ \A l \in 1 .. plen : l >= i => C.cells[l + 1] = P.cells[l]
  <2>1. ASSUME NEW l \in 1 .. plen, l >= i PROVE C.cells[l + 1] = P.cells[l]
    <3>1. ~(l < i)
      BY <1>1, <2>1
    <3>2. QED
      BY <1>3, <3>1
  <2>2. QED
    BY <1>3, <2>1
<1> HIDE DEF K, N, P, A, B, C, len, plen
<1>9. Ascending(A) /\ \A l \in 1 .. Len(A.cells) : FitsIn(A.type, A.cells[l].key)
  <2>1. /\ Len(A.cells) \in Nat /\ Len(A.cells) <= len
        /\ \A l \in 1 .. Len(A.cells) : l \in 1 .. len
    BY <1>2, <1>3
  <2>2. \A l \in 1 .. Len(A.cells) : KeysOf(A)[l] = KeysOf(N)[l]
    BY <1>3, <2>1 DEF KeysOf, len
  <2>3. Ascends(KeysOf(A), Len(A.cells))
    BY <1>6, <2>1, <2>2 DEF Ascends
  <2>4. QED
    BY <1>3, <1>6, <2>1, <2>3 DEF Ascending
<1>10. Ascending(B) /\ \A l \in 1 .. Len(B.cells) : FitsIn(B.type, B.cells[l].key)
  <2>1. /\ Len(B.cells) \in Nat /\ m + 1 \in Nat /\ Len(B.cells) + (m + 1) <= len
        /\ \A l \in 1 .. Len(B.cells) : l + m + 1 \in 1 .. len /\ l + m + 1 = l + (m + 1)
    BY <1>2, <1>3
  <2>2. \A l \in 1 .. Len(B.cells) : KeysOf(B)[l] = KeysOf(N)[l + (m + 1)]
    BY <1>3, <2>1 DEF KeysOf, len
  <2>3. Ascends(KeysOf(B), Len(B.cells))
    <3> DEFINE a == KeysOf(N)
               b == KeysOf(B)
               n == Len(B.cells)
               d == m + 1
    <3>1. /\ len \in Nat /\ a \in [1 .. len -> Nat] /\ Ascends(a, len)
          /\ n \in Nat /\ d \in Nat /\ n + d <= len
          /\ \A l \in 1 .. n : b[l] = a[l + d]
      BY <1>2, <1>5, <1>6, <2>1, <2>2
    <3> HIDE DEF a, b, n, d
    <3>2. Ascends(b, n)
      BY <3>1, AscendsInPart, ZenonT(30)
    <3>3. QED
      BY <3>2 DEF b, n
  <2>4. QED
    BY <1>3, <1>6, <2>1, <2>3 DEF Ascending
<1>11. Ascending(C)
  <2>1. i \in 1 .. plen + 1 /\ KeysOf(C)[i] = K
    BY <1>2, <1>3 DEF KeysOf
  <2>2. ASSUME NEW l \in 1 .. plen, l < i
        PROVE  KeysOf(C)[l] = KeysOf(P)[l] /\ KeysOf(P)[l] < K
    <3>1. l \in 1 .. Len(C.cells)
      BY <1>2, <1>3
    <3>2. QED
      BY <1>7, <1>8, <2>2, <3>1 DEF KeysOf, plen
  <2>3. ASSUME NEW l \in 1 .. plen, l >= i
        PROVE  KeysOf(C)[l + 1] = KeysOf(P)[l] /\ K < KeysOf(P)[l]
    <3>1. l + 1 \in 1 .. Len(C.cells)
      BY <1>2, <1>3
    <3>2. QED
      BY <1>7, <1>8, <2>3, <3>1 DEF KeysOf, plen
  <2>4. Ascends(KeysOf(C), plen + 1)
    BY <1>2, <1>5, <1>6, <2>1, <2>2, <2>3, AscendsAfterInsert
  <2>5. QED
    BY <1>3, <2>4 DEF Ascending
<1>12. ASSUME NEW l \in 1 .. Len(C.cells)
       PROVE  FitsIn(C.type, C.cells[l].key)
  <2>1. CASE l < i
    <3>1. l \in 1 .. plen
      BY <1>2, <1>3, <2>1
    <3>2. QED
      BY <1>3, <1>6, <1>8, <2>1, <3>1
  <2>2. CASE l = i
    BY <1>2, <1>3, <2>2
  <2>3. CASE i < l
    <3>1. l - 1 \in 1 .. plen /\ l - 1 >= i /\ (l - 1) + 1 = l
      BY <1>1, <1>2, <1>3, <2>3
    <3>2. C.cells[l] = P.cells[l - 1]
      BY <1>8, <3>1
    <3>3. QED
      BY <1>3, <1>6, <3>1, <3>2
  <2>4. QED
    BY <1>1, <2>1, <2>2, <2>3
<1>13. ASSUME NEW p \in 1 .. nM, p \notin {parent, child, nM}
       PROVE  /\ Ascending(new[p])
              /\ \A l \in 1 .. Len(new[p].cells) : FitsIn(new[p].type, new[p].cells[l].key)
  <2>1. new[p] = ns[p] /\ p \in 1 .. count
    BY <1>2, <1>3, <1>13
  <2>2. QED
    BY <1>1, <2>1 DEF Sorted
<1>14. QED
  BY <1>9, <1>10, <1>11, <1>12, <1>13 DEF Sorted, A, B, C

(* The old slot of a link that is not to the new page, and the new slot of *)
(* an old link.                                                            *)
LEMMA SplitKeepsLinks ==
  ASSUME NEW ns, NEW new, NEW count, NEW nM, NEW rts, NEW own, NEW ht, NEW cov, NEW con,
         NEW parent, NEW i, NEW child, NEW m,
         Splitting(ns, new, count, nM, rts, own, ht, cov, con, parent, i, child, m)
  PROVE  /\ Link(new, parent, i, nM)
         /\ \A j \in Nat : \A q : Link(new, nM, j, q) => j <= m + 1
         /\ \A p \in 1 .. nM, j \in Nat : \A q : Link(new, p, j, q) =>
              \/ q = nM /\ p = parent /\ j = i
              \/ /\ q \in 1 .. count
                 /\ OldSlot(parent, child, i, m, p, j) \in Nat
                 /\ Link(ns, OldPage(child, nM, p), OldSlot(parent, child, i, m, p, j), q)
         /\ \A p \in 1 .. count, j \in Nat : \A q : Link(ns, p, j, q) =>
              /\ q \in 1 .. count
              /\ \E p2 \in {p, nM}, j2 \in Nat :
                   /\ Link(new, p2, j2, q)
                   /\ p = OldPage(child, nM, p2)
                   /\ j = OldSlot(parent, child, i, m, p2, j2)
         /\ \A p \in 1 .. count, j \in Nat : Link(ns, p, j, child) => p = parent /\ j = i
<1>1. /\ ns \in [Pages -> BTreeNode]
      /\ nM \in Pages /\ nM = count + 1 /\ count \in Nat
      /\ Shape(ns, count, rts, own, ht)
      /\ parent \in 1 .. count /\ i \in Nat /\ Link(ns, parent, i, child)
      /\ IsSplit(ns, new, parent, child, i, nM, m)
  BY DEF Splitting
<1>2. /\ 1 .. nM \subseteq Pages /\ 1 .. nM = (1 .. count) \cup {nM}
      /\ child \in 1 .. count /\ parent # child /\ parent # nM /\ child # nM
      /\ ns[parent].type \in NodeTypes /\ is_internal(ns[parent].type)
      /\ i \in 1 .. Len(ns[parent].cells) + 1
      /\ parent \in Pages /\ child \in Pages
      /\ nM \notin 1 .. count
  <2>1. /\ 1 .. nM \subseteq Pages /\ 1 .. nM = (1 .. count) \cup {nM}
        /\ child \in 1 .. count /\ parent # child /\ parent # nM /\ child # nM
        /\ ns[parent].type \in NodeTypes /\ is_internal(ns[parent].type)
        /\ i \in 1 .. Len(ns[parent].cells) + 1
    BY SplitFacts
  <2>2. QED
    BY <1>1, <2>1
<1>3. /\ Link(new, parent, i, nM)
      /\ \A j \in Nat : \A q : Link(new, nM, j, q) => j <= m + 1
      /\ \A p \in Pages, j \in Nat : \A q :
           Link(new, p, j, q) /\ ~(p = parent /\ j = i) =>
             /\ Link(ns, OldPage(child, nM, p), OldSlot(parent, child, i, m, p, j), q)
             /\ OldSlot(parent, child, i, m, p, j) \in Nat
      /\ \A p \in Pages \ {nM}, j \in Nat : \A q :
           Link(ns, p, j, q) => \E p2 \in {p, nM}, j2 \in Nat : Link(new, p2, j2, q)
  BY <1>1, <1>2, SplitLinks, SMTT(30)
<1>4. /\ \A p \in 1 .. count, j \in Nat : \A q : Link(ns, p, j, q) => q \in 1 .. count
      /\ \A p1, p2 \in 1 .. count, i1, i2 \in Nat : \A q :
           Link(ns, p1, i1, q) /\ Link(ns, p2, i2, q) => p1 = p2 /\ i1 = i2
  BY <1>1 DEF Shape, Descends, OneLink
<1>5. \A p \in 1 .. nM : OldPage(child, nM, p) \in 1 .. count
  BY <1>2 DEF OldPage
<1>6. ASSUME NEW p \in 1 .. nM, NEW j \in Nat, NEW q, Link(new, p, j, q)
      PROVE  \/ q = nM /\ p = parent /\ j = i
             \/ /\ q \in 1 .. count
                /\ OldSlot(parent, child, i, m, p, j) \in Nat
                /\ Link(ns, OldPage(child, nM, p), OldSlot(parent, child, i, m, p, j), q)
  <2>1. CASE p = parent /\ j = i
    BY <1>3, <1>6, <2>1 DEF Link
  <2>2. CASE ~(p = parent /\ j = i)
    <3>1. p \in Pages
      BY <1>2
    <3>2. /\ OldSlot(parent, child, i, m, p, j) \in Nat
          /\ Link(ns, OldPage(child, nM, p), OldSlot(parent, child, i, m, p, j), q)
      BY <1>3, <1>6, <2>2, <3>1
    <3>3. OldPage(child, nM, p) \in 1 .. count
      BY <1>5
    <3>4. QED
      BY <1>4, <3>2, <3>3
  <2>3. QED
    BY <2>1, <2>2
<1>7. ASSUME NEW p \in 1 .. count, NEW j \in Nat, NEW q, Link(ns, p, j, q)
      PROVE  /\ q \in 1 .. count
             /\ \E p2 \in {p, nM}, j2 \in Nat :
                  /\ Link(new, p2, j2, q)
                  /\ p = OldPage(child, nM, p2)
                  /\ j = OldSlot(parent, child, i, m, p2, j2)
  <2>1. q \in 1 .. count /\ p \in Pages \ {nM} /\ p \in 1 .. nM
    BY <1>2, <1>4, <1>7
  <2>2. PICK p2 \in {p, nM}, j2 \in Nat : Link(new, p2, j2, q)
    BY <1>3, <1>7, <2>1
  <2>3. p2 \in 1 .. nM /\ q # nM
    BY <1>2, <2>1
  <2>4. /\ OldSlot(parent, child, i, m, p2, j2) \in Nat
        /\ Link(ns, OldPage(child, nM, p2), OldSlot(parent, child, i, m, p2, j2), q)
    BY <1>6, <2>2, <2>3
  <2>5. OldPage(child, nM, p2) \in 1 .. count
    BY <1>5, <2>3
  <2>6. p = OldPage(child, nM, p2) /\ j = OldSlot(parent, child, i, m, p2, j2)
    BY <1>4, <1>7, <2>4, <2>5
  <2>7. QED
    BY <2>1, <2>2, <2>6
<1>8. \A p \in 1 .. count, j \in Nat : Link(ns, p, j, child) => p = parent /\ j = i
  BY <1>1, <1>4
<1>9. QED
  BY <1>3, <1>6, <1>7, <1>8

(* After a split the pages contain what is under them.                     *)
LEMMA SplitKeepsContents ==
  ASSUME NEW ns, NEW new, NEW count, NEW nM, NEW rts, NEW own, NEW ht, NEW cov, NEW con,
         NEW parent, NEW i, NEW child, NEW m,
         Splitting(ns, new, count, nM, rts, own, ht, cov, con, parent, i, child, m)
  PROVE  LET K == ns[child].cells[m + 1].key
         IN  ContainsEntries(new, nM, rts, SplitKeys(cov, child, nM, K),
                                    SplitEntries(con, child, nM, K))
<1> DEFINE N == ns[child]
           K == N.cells[m + 1].key
           cov2 == SplitKeys(cov, child, nM, K)
           con2 == SplitEntries(con, child, nM, K)
<1>1. /\ Covers(ns, count, rts, cov) /\ ContainsEntries(ns, count, rts, cov, con)
      /\ Sorted(ns, count)
      /\ parent \in 1 .. count /\ nM \in Pages /\ i \in Nat /\ rts \subseteq 1 .. count
      /\ nM = count + 1 /\ count \in Nat
  BY DEF Splitting, Ordered
<1>2. /\ 1 .. nM \subseteq Pages /\ 1 .. nM = (1 .. count) \cup {nM}
      /\ child \in 1 .. count /\ child \notin rts
      /\ parent # child /\ parent # nM /\ child # nM
      /\ Len(N.cells) \in Nat /\ N \in BTreeNode
      /\ is_internal(ns[parent].type)
      /\ m \in Nat /\ m + 1 \in 1 .. Len(N.cells) /\ K \in Nat
      /\ \E c \in con[child] : Repeats(N, N.cells[m + 1], c)
      /\ \E c \in con[child] : K < c.key
      /\ DividesSlots(ns, new, parent, child, i, nM, m, K)
  BY SplitFacts
<1>3. child \in Pages /\ parent \in Pages /\ nM \notin 1 .. count
  BY <1>1, <1>2
<1>4. /\ new[nM].type = N.type /\ new[child].type = N.type
      /\ new[parent].type = ns[parent].type
      /\ ~is_internal(N.type) => Len(new[nM].cells) = m + 1
      /\ \A l \in 1 .. Len(new[nM].cells) : new[nM].cells[l] = N.cells[l]
      /\ Len(new[child].cells) = Len(N.cells) - m - 1
      /\ \A l \in 1 .. Len(new[child].cells) : new[child].cells[l] = N.cells[l + m + 1]
      /\ \A q \in Pages \ {parent, child, nM} : new[q] = ns[q]
  BY DEF Splitting, IsSplit
<1>5. /\ cov \in [Pages -> SUBSET Nat] /\ con \in [Pages -> SUBSET BTreeCell]
      /\ \A p \in 1 .. count :
           /\ \A c : c \in con[p] <=> Under(ns, con, p, c)
           /\ \A c \in con[p] : c.key \in cov[p]
           /\ p \notin rts => con[p] # {}
  BY <1>1 DEF Covers, ContainsEntries
<1>6. /\ con2 \in [Pages -> SUBSET BTreeCell]
      /\ \A c : c \in con2[nM] <=> c \in con[child] /\ c.key <= K
      /\ \A c : c \in con2[child] <=> c \in con[child] /\ K < c.key
      /\ \A p \in Pages \ {nM, child} : con2[p] = con[p]
  BY <1>1, <1>2, <1>3, <1>5 DEF SplitEntries
<1>7. /\ \A k : k \in cov2[nM] <=> k \in cov[child] /\ k <= K
      /\ \A k : k \in cov2[child] <=> k \in cov[child] /\ K < k
      /\ \A p \in Pages \ {nM, child} : cov2[p] = cov[p]
  BY <1>1, <1>2, <1>3, <1>5 DEF SplitKeys
<1>8. /\ Link(new, parent, i, nM)
      /\ \A j \in Nat : \A q : Link(new, nM, j, q) => j <= m + 1
      /\ \A p \in 1 .. nM, j \in Nat : \A q : Link(new, p, j, q) =>
           \/ q = nM /\ p = parent /\ j = i
           \/ /\ q \in 1 .. count
              /\ OldSlot(parent, child, i, m, p, j) \in Nat
              /\ Link(ns, OldPage(child, nM, p), OldSlot(parent, child, i, m, p, j), q)
      /\ \A p \in 1 .. count, j \in Nat : \A q : Link(ns, p, j, q) =>
           /\ q \in 1 .. count
           /\ \E p2 \in {p, nM}, j2 \in Nat :
                /\ Link(new, p2, j2, q)
                /\ p = OldPage(child, nM, p2)
                /\ j = OldSlot(parent, child, i, m, p2, j2)
      /\ \A p \in 1 .. count, j \in Nat : Link(ns, p, j, child) => p = parent /\ j = i
  BY SplitKeepsLinks
<1>9. \A c \in con[child] : c.key \in cov[child] /\ c.key \in Nat
  BY <1>2, <1>3, <1>5
<1>10. \A j \in Nat : \A q : Link(ns, child, j, q) =>
         /\ q \in 1 .. count /\ q # child /\ q # nM /\ con2[q] = con[q]
         /\ \A c \in con[q] : c.key \in Nat /\ (c.key <= K <=> j <= m + 1)
  <2>1. SUFFICES ASSUME NEW j \in Nat, NEW q, Link(ns, child, j, q)
                 PROVE  /\ q \in 1 .. count /\ q # child /\ q # nM /\ con2[q] = con[q]
                        /\ \A c \in con[q] : c.key \in Nat /\ (c.key <= K <=> j <= m + 1)
    OBVIOUS
  <2>2. q \in 1 .. count /\ q # child /\ q # nM /\ q \in Pages
    <3>1. q \in 1 .. count
      BY <1>2, <1>8, <2>1
    <3>2. q # child
      BY <1>2, <1>8, <2>1
    <3>3. QED
      BY <1>2, <1>3, <3>1, <3>2
  <2>3. con2[q] = con[q]
    BY <1>6, <2>2
  <2>4. ASSUME NEW c \in con[q] PROVE c.key \in Nat /\ (c.key <= K <=> j <= m + 1)
    <3>1. c.key \in cov[q]
      BY <1>5, <2>2
    <3>2. c.key \in Nat
      BY <1>5, <2>2, <3>1
    <3>3. SlotOf(N, c.key, j)
      BY <1>1, <1>2, <2>1, <3>1 DEF Covers
    <3>4. QED
      BY <1>2, <3>2, <3>3 DEF DividesSlots
  <2>5. QED
    BY <2>2, <2>3, <2>4
<1>16. ~is_internal(N.type) =>
         /\ \A l \in 1 .. Len(N.cells) : /\ N.cells[l].key \in Nat
                                         /\ N.cells[l].key <= K <=> l <= m + 1
         /\ \A c : c \in con[child] <=> \E l \in 1 .. Len(N.cells) : c = N.cells[l]
  <2>1. SUFFICES ASSUME ~is_internal(N.type)
                 PROVE  /\ \A l \in 1 .. Len(N.cells) : /\ N.cells[l].key \in Nat
                                                        /\ N.cells[l].key <= K <=> l <= m + 1
                        /\ \A c : c \in con[child] <=> \E l \in 1 .. Len(N.cells) : c = N.cells[l]
    OBVIOUS
  <2>2. \A j, l \in 1 .. Len(N.cells) : j < l => N.cells[j].key < N.cells[l].key
    BY <1>1, <1>2 DEF Sorted, Ascending, Ascends, KeysOf, N
  <2>3. \A l \in 1 .. Len(N.cells) : N.cells[l].key \in Nat
    BY <1>2, CellTypes
  <2>4. ASSUME NEW l \in 1 .. Len(N.cells)
        PROVE  N.cells[l].key <= K <=> l <= m + 1
    <3>1. K = N.cells[m + 1].key
      BY DEF K, N
    <3> HIDE DEF K, N
    <3>2. /\ l < m + 1 => N.cells[l].key < K
          /\ m + 1 < l => K < N.cells[l].key
          /\ l = m + 1 => N.cells[l].key = K
      BY <1>2, <2>2, <3>1
    <3>3. N.cells[l].key \in Nat /\ K \in Nat /\ l \in Nat /\ m + 1 \in Nat
      BY <1>2, <2>3
    <3>4. QED
      BY <3>2, <3>3
  <2>5. \A c : c \in con[child] <=> \E l \in 1 .. Len(N.cells) : c = N.cells[l]
    BY <1>2, <1>5, <2>1 DEF Under, N
  <2>6. QED
    BY <2>3, <2>4, <2>5
<1>17. \A q \in 1 .. count : con2[q] \subseteq con[q]
  <2>1. /\ \A c : c \in con2[child] <=> c \in con[child] /\ K < c.key
        /\ \A p \in Pages \ {nM, child} : con2[p] = con[p]
    BY <1>6
  <2>2. \A q \in 1 .. count : q \in Pages /\ q # nM
    BY <1>2, <1>3
  <2> HIDE DEF con2, K
  <2>3. QED
    BY ONLY <2>1, <2>2
<1> HIDE DEF K, N, cov2, con2
<1>11. \A c : c \in con2[nM] <=> Under(new, con2, nM, c)
  <2>1. CASE is_internal(N.type)
    <3>1. ASSUME NEW c \in con2[nM] PROVE Under(new, con2, nM, c)
      <4>1. c \in con[child] /\ c.key <= K
        BY <1>6
      <4>2. PICK j, q : j \in Nat /\ Link(ns, child, j, q) /\ c \in con[q]
        BY <1>2, <1>5, <2>1, <4>1 DEF Under, N
      <4>3. PICK p2 \in {child, nM}, j2 \in Nat :
              /\ Link(new, p2, j2, q)
              /\ j = OldSlot(parent, child, i, m, p2, j2)
        BY <1>2, <1>8, <4>2
      <4>4. p2 # child
        <5>1. SUFFICES ASSUME p2 = child PROVE FALSE
          OBVIOUS
        <5>2. j = j2 + m + 1 /\ j2 >= 1
          BY <4>3, <5>1 DEF OldSlot, Link
        <5>3. j <= m + 1
          BY <1>10, <4>1, <4>2
        <5>4. QED
          BY <1>2, <5>2, <5>3
      <4>5. c \in con2[q]
        BY <1>10, <4>2
      <4>6. QED
        BY <1>4, <2>1, <4>3, <4>4, <4>5 DEF Under
    <3>2. ASSUME NEW c, Under(new, con2, nM, c) PROVE c \in con2[nM]
      <4>1. PICK j, q : j \in Nat /\ Link(new, nM, j, q) /\ c \in con2[q]
        BY <1>4, <2>1, <3>2 DEF Under
      <4>2. nM \in 1 .. nM /\ OldPage(child, nM, nM) = child
            /\ OldSlot(parent, child, i, m, nM, j) = j
        BY <1>2 DEF OldPage, OldSlot
      <4>3. Link(ns, child, j, q) /\ j <= m + 1
        BY <1>2, <1>8, <4>1, <4>2
      <4>4. c \in con[q] /\ c.key <= K
        BY <1>10, <4>1, <4>3
      <4>5. c \in con[child]
        <5>1. Under(ns, con, child, c)
          BY <2>1, <4>1, <4>3, <4>4 DEF Under, N
        <5>2. QED
          BY <1>2, <1>5, <5>1
      <4>6. QED
        BY <1>6, <4>4, <4>5
    <3>3. QED
      BY <3>1, <3>2
  <2>2. CASE ~is_internal(N.type)
    <3>1. \A c : c \in con2[nM] <=> \E l \in 1 .. m + 1 : c = N.cells[l]
      <4>1. \A l : l \in 1 .. m + 1 <=> l \in 1 .. Len(N.cells) /\ l <= m + 1
        BY <1>2
      <4>2. QED
        BY <1>6, <1>16, <2>2, <4>1
    <3>2. \A c : Under(new, con2, nM, c) <=> \E l \in 1 .. m + 1 : c = N.cells[l]
      BY <1>4, <2>2 DEF Under
    <3>3. QED
      BY <3>1, <3>2
  <2>3. QED
    BY <2>1, <2>2
<1>12. \A c : c \in con2[child] <=> Under(new, con2, child, c)
  <2>1. CASE is_internal(N.type)
    <3>1. ASSUME NEW c \in con2[child] PROVE Under(new, con2, child, c)
      <4>1. c \in con[child] /\ K < c.key
        BY <1>6
      <4>2. PICK j, q : j \in Nat /\ Link(ns, child, j, q) /\ c \in con[q]
        BY <1>2, <1>5, <2>1, <4>1 DEF Under, N
      <4>3. PICK p2 \in {child, nM}, j2 \in Nat :
              /\ Link(new, p2, j2, q)
              /\ j = OldSlot(parent, child, i, m, p2, j2)
        BY <1>2, <1>8, <4>2
      <4>4. p2 # nM
        <5>1. SUFFICES ASSUME p2 = nM PROVE FALSE
          OBVIOUS
        <5>2. j = j2 /\ j2 <= m + 1
          BY <1>2, <1>8, <4>3, <5>1 DEF OldSlot
        <5>3. c.key \in Nat /\ c.key <= K
          BY <1>10, <4>2, <5>2
        <5>4. QED
          BY <1>2, <4>1, <5>3
      <4>5. c \in con2[q]
        BY <1>10, <4>2
      <4>6. QED
        BY <1>4, <2>1, <4>3, <4>4, <4>5 DEF Under
    <3>2. ASSUME NEW c, Under(new, con2, child, c) PROVE c \in con2[child]
      <4>1. PICK j, q : j \in Nat /\ Link(new, child, j, q) /\ c \in con2[q]
        BY <1>4, <2>1, <3>2 DEF Under
      <4>2. child \in 1 .. nM /\ OldPage(child, nM, child) = child
            /\ OldSlot(parent, child, i, m, child, j) = j + m + 1
        BY <1>2 DEF OldPage, OldSlot
      <4>3. /\ Link(ns, child, j + m + 1, q) /\ j + m + 1 \in Nat
            /\ ~(j + m + 1 <= m + 1)
        <5>1. j + m + 1 \in Nat /\ ~(j + m + 1 <= m + 1)
          BY <1>2, <4>1 DEF Link
        <5>2. ~(child = parent /\ j = i)
          BY <1>2
        <5>3. QED
          BY <1>8, <4>1, <4>2, <5>1, <5>2
      <4>4. c \in con[q] /\ K < c.key
        BY <1>2, <1>10, <4>1, <4>3
      <4>5. c \in con[child]
        BY <1>2, <1>5, <2>1, <4>3, <4>4 DEF Under, N
      <4>6. QED
        BY <1>6, <4>4, <4>5
    <3>3. QED
      BY <3>1, <3>2
  <2>2. CASE ~is_internal(N.type)
    <3>1. \A c : c \in con2[child] <=> \E l \in 1 .. Len(N.cells) - m - 1 : c = N.cells[l + m + 1]
      <4>1. ASSUME NEW l \in 1 .. Len(N.cells) - m - 1
            PROVE  l + m + 1 \in 1 .. Len(N.cells) /\ K < N.cells[l + m + 1].key
        <5>1. l + m + 1 \in 1 .. Len(N.cells) /\ ~(l + m + 1 <= m + 1)
          BY <1>2
        <5>2. QED
          BY <1>2, <1>16, <2>2, <5>1, SMTT(30)
      <4>2. ASSUME NEW l \in 1 .. Len(N.cells), K < N.cells[l].key
            PROVE  \E l2 \in 1 .. Len(N.cells) - m - 1 : l = l2 + m + 1
        <5>1. ~(l <= m + 1)
          BY <1>2, <1>16, <2>2, <4>2
        <5>2. l - m - 1 \in 1 .. Len(N.cells) - m - 1 /\ l = (l - m - 1) + m + 1
          BY <1>2, <5>1
        <5>3. QED
          BY <5>2
      <4>3. QED
        BY <1>6, <1>16, <2>2, <4>1, <4>2
    <3>2. \A c : Under(new, con2, child, c)
                   <=> \E l \in 1 .. Len(N.cells) - m - 1 : c = N.cells[l + m + 1]
      BY <1>4, <2>2 DEF Under
    <3>3. QED
      BY <3>1, <3>2
  <2>3. QED
    BY <2>1, <2>2
<1>13. \A c : c \in con2[parent] <=> Under(new, con2, parent, c)
  <2>1. con2[parent] = con[parent] /\ is_internal(new[parent].type)
    BY <1>2, <1>3, <1>4, <1>6
  <2>2. /\ parent \in 1 .. nM /\ OldPage(child, nM, parent) = parent
        /\ OldPage(child, nM, nM) = child
    BY <1>1, <1>2 DEF OldPage
  <2>3. ASSUME NEW j \in Nat, NEW q, Link(ns, parent, j, q)
        PROVE  q \in 1 .. count /\ \E j2 \in Nat : Link(new, parent, j2, q)
    <3>1. PICK p2 \in {parent, nM}, j2 \in Nat :
            Link(new, p2, j2, q) /\ parent = OldPage(child, nM, p2)
      BY <1>1, <1>8, <2>3
    <3>2. p2 = parent
      BY <1>2, <2>2, <3>1
    <3>3. QED
      BY <1>1, <1>8, <2>3, <3>1, <3>2
  <2>4. ASSUME NEW c \in con2[parent] PROVE Under(new, con2, parent, c)
    <3>1. PICK j, q : j \in Nat /\ Link(ns, parent, j, q) /\ c \in con[q]
      BY <1>1, <1>2, <1>5, <2>1, <2>4 DEF Under
    <3>2. CASE c \in con2[q]
      BY <2>1, <2>3, <3>1, <3>2 DEF Under
    <3>3. CASE q # child
      BY <1>2, <1>3, <1>6, <2>3, <3>1, <3>2, <3>3
    <3>4. CASE q = child /\ c \notin con2[q]
      <4>1. c \in con2[nM]
        BY <1>2, <1>6, <1>9, <3>1, <3>4
      <4>2. QED
        BY <1>1, <1>8, <2>1, <4>1 DEF Under
    <3>5. QED
      BY <3>2, <3>3, <3>4
  <2>5. ASSUME NEW c, Under(new, con2, parent, c) PROVE c \in con2[parent]
    <3>1. PICK j, q : j \in Nat /\ Link(new, parent, j, q) /\ c \in con2[q]
      BY <2>1, <2>5 DEF Under
    <3>2. CASE q = nM
      <4>1. c \in con[child] /\ Link(ns, parent, i, child)
        BY <1>6, <3>1, <3>2 DEF Splitting
      <4>2. QED
        BY <1>1, <1>2, <1>5, <2>1, <4>1 DEF Under
    <3>3. CASE q # nM
      <4>1. PICK j2 \in Nat : Link(ns, parent, j2, q) /\ q \in 1 .. count
        <5>1. /\ q \in 1 .. count /\ OldSlot(parent, child, i, m, parent, j) \in Nat
              /\ Link(ns, OldPage(child, nM, parent),
                      OldSlot(parent, child, i, m, parent, j), q)
          BY <1>8, <2>2, <3>1, <3>3
        <5>2. QED
          BY <2>2, <5>1
      <4>2. c \in con[q]
        BY <1>17, <3>1, <4>1
      <4>3. QED
        BY <1>1, <1>2, <1>5, <2>1, <4>1, <4>2 DEF Under
    <3>4. QED
      BY <3>2, <3>3
  <2>6. QED
    BY <2>4, <2>5
<1>14. ASSUME NEW p \in 1 .. nM, p \notin {parent, child, nM}
       PROVE  \A c : c \in con2[p] <=> Under(new, con2, p, c)
  <2>1. p \in 1 .. count /\ new[p] = ns[p] /\ con2[p] = con[p]
    BY <1>2, <1>4, <1>6, <1>14
  <2>2. \A j \in Nat : \A q : Link(new, p, j, q) <=> Link(ns, p, j, q)
    BY <2>1 DEF Link
  <2>3. \A j \in Nat : \A q : Link(ns, p, j, q) => con2[q] = con[q]
    <3>1. SUFFICES ASSUME NEW j \in Nat, NEW q, Link(ns, p, j, q)
                   PROVE  con2[q] = con[q]
      OBVIOUS
    <3>2. q \in 1 .. count /\ q # child
      BY <1>8, <1>14, <2>1, <3>1
    <3>3. QED
      BY <1>2, <1>3, <1>6, <3>2
  <2>4. QED
    BY <1>5, <2>1, <2>2, <2>3, SMTT(30) DEF Under
<1>15. ASSUME NEW p \in 1 .. nM
       PROVE  /\ \A c \in con2[p] : c.key \in cov2[p]
              /\ p \notin rts => con2[p] # {}
  <2>1. CASE p = nM
    <3>1. PICK c \in con[child] : Repeats(N, N.cells[m + 1], c)
      BY <1>2
    <3>2. c \in con2[nM]
      BY <1>2, <1>6, <3>1 DEF Repeats, K, N
    <3>3. QED
      BY <1>6, <1>7, <1>9, <2>1, <3>2
  <2>2. CASE p = child
    BY <1>2, <1>6, <1>7, <1>9, <2>2
  <2>3. CASE p \notin {child, nM}
    <3>1. p \in 1 .. count /\ con2[p] = con[p] /\ cov2[p] = cov[p]
      BY <1>2, <1>6, <1>7, <2>3
    <3>2. QED
      BY <1>5, <3>1
  <2>4. QED
    BY <2>1, <2>2, <2>3
<1>18. QED
  BY <1>6, <1>11, <1>12, <1>13, <1>14, <1>15 DEF ContainsEntries, cov2, con2, K, N

(* After a split the separators, the new one too, repeat entries on their  *)
(* left.                                                                   *)
LEMMA SplitKeepsWitnesses ==
  ASSUME NEW ns, NEW new, NEW count, NEW nM, NEW rts, NEW own, NEW ht, NEW cov, NEW con,
         NEW parent, NEW i, NEW child, NEW m,
         Splitting(ns, new, count, nM, rts, own, ht, cov, con, parent, i, child, m)
  PROVE  Witnessed(new, nM, SplitEntries(con, child, nM, ns[child].cells[m + 1].key))
<1> DEFINE N == ns[child]
           P == ns[parent]
           K == N.cells[m + 1].key
           con2 == SplitEntries(con, child, nM, K)
<1>1. /\ ContainsEntries(ns, count, rts, cov, con) /\ Witnessed(ns, count, con)
      /\ parent \in 1 .. count /\ nM \in Pages /\ i \in Nat
      /\ nM = count + 1 /\ count \in Nat
  BY DEF Splitting, Ordered
<1>2. /\ 1 .. nM \subseteq Pages /\ 1 .. nM = (1 .. count) \cup {nM}
      /\ child \in 1 .. count
      /\ parent # child /\ parent # nM /\ child # nM
      /\ Len(N.cells) \in Nat /\ Len(P.cells) \in Nat
      /\ is_internal(P.type) /\ i \in 1 .. Len(P.cells) + 1
      /\ is_index(N.type) <=> is_index(P.type)
      /\ m \in Nat /\ m + 1 \in 1 .. Len(N.cells) /\ K \in Nat
      /\ \E c \in con[child] : Repeats(N, N.cells[m + 1], c)
      /\ i <= Len(P.cells) => K < P.cells[i].key
      /\ new[parent].cells[i].key = K
      /\ new[parent].cells[i].child = nM
      /\ is_index(P.type) => new[parent].cells[i].val = N.cells[m + 1].val
  BY SplitFacts
<1>3. child \in Pages /\ parent \in Pages /\ nM \notin 1 .. count
  BY <1>1, <1>2
<1>4. /\ new[nM].type = N.type /\ new[child].type = N.type
      /\ new[parent].type = P.type
      /\ is_internal(N.type) => Len(new[nM].cells) = m
      /\ \A l \in 1 .. Len(new[nM].cells) : new[nM].cells[l] = N.cells[l]
      /\ Len(new[child].cells) = Len(N.cells) - m - 1
      /\ \A l \in 1 .. Len(new[child].cells) : new[child].cells[l] = N.cells[l + m + 1]
      /\ Len(new[parent].cells) = Len(P.cells) + 1
      /\ \A l \in 1 .. Len(P.cells) :
           new[parent].cells[IF l < i THEN l ELSE l + 1] = P.cells[l]
      /\ \A q \in Pages \ {parent, child, nM} : new[q] = ns[q]
  BY DEF Splitting, IsSplit
<1>5. con \in [Pages -> SUBSET BTreeCell]
  BY <1>1 DEF ContainsEntries
<1>6. /\ \A c : c \in con2[nM] <=> c \in con[child] /\ c.key <= K
      /\ \A c : c \in con2[child] <=> c \in con[child] /\ K < c.key
      /\ \A p \in Pages \ {nM, child} : con2[p] = con[p]
  BY <1>1, <1>2, <1>3, <1>5 DEF SplitEntries
<1>7. /\ \A p \in 1 .. count, j \in Nat : \A q : Link(ns, p, j, q) => q \in 1 .. count
      /\ \A p \in 1 .. count, j \in Nat : Link(ns, p, j, child) => p = parent /\ j = i
  BY SplitKeepsLinks
<1> HIDE DEF con2, K, N, P
<1>8. ASSUME NEW p \in 1 .. nM, is_internal(new[p].type),
             NEW l \in 1 .. Len(new[p].cells), ~(p = parent /\ l = i)
      PROVE  LET was == OldPage(child, nM, p)
                 ol == OldSlot(parent, child, i, m, p, l)
             IN  /\ was \in 1 .. count /\ new[p].type = ns[was].type
                 /\ ol \in 1 .. Len(ns[was].cells) /\ new[p].cells[l] = ns[was].cells[ol]
                 /\ was = parent /\ ol = i => p = parent /\ i <= Len(P.cells)
  <2>1. CASE p = nM
    <3>1. OldPage(child, nM, p) = child /\ OldSlot(parent, child, i, m, p, l) = l
      BY <1>2, <2>1 DEF OldPage, OldSlot
    <3>2. l \in 1 .. Len(N.cells) /\ new[p].cells[l] = N.cells[l]
      BY <1>2, <1>4, <1>8, <2>1, SMTT(30)
    <3>3. QED
      BY <1>2, <1>4, <2>1, <3>1, <3>2 DEF N
  <2>2. CASE p = child
    <3>1. OldPage(child, nM, p) = child /\ OldSlot(parent, child, i, m, p, l) = l + m + 1
      BY <1>2, <2>2 DEF OldPage, OldSlot
    <3>2. l \in 1 .. Len(N.cells) - m - 1 /\ new[p].cells[l] = N.cells[l + m + 1]
      BY <1>4, <1>8, <2>2
    <3>4. l + m + 1 \in 1 .. Len(N.cells)
      BY <1>2, <3>2
    <3>3. QED
      BY <1>2, <1>4, <2>2, <3>1, <3>2, <3>4 DEF N
  <2>3. CASE p = parent
    <3>1. /\ OldPage(child, nM, p) = parent
          /\ OldSlot(parent, child, i, m, p, l) = IF l > i THEN l - 1 ELSE l
      BY <1>2, <2>3 DEF OldPage, OldSlot
    <3>2. CASE l < i
      <4>1. l \in 1 .. Len(P.cells) /\ ~(l > i)
        BY <1>2, <1>4, <1>8, <2>3, <3>2, SMTT(30)
      <4>2. new[p].cells[l] = P.cells[l]
        BY <1>4, <2>3, <3>2, <4>1
      <4>3. QED
        BY <1>1, <1>4, <2>3, <3>1, <3>2, <4>1, <4>2 DEF P
    <3>3. CASE l > i
      <4>1. l - 1 \in 1 .. Len(P.cells) /\ ~(l - 1 < i) /\ (l - 1) + 1 = l
        <5>1. l \in 1 .. Len(P.cells) + 1 /\ i \in Nat /\ Len(P.cells) \in Nat /\ i >= 1
          BY <1>2, <1>4, <2>3
        <5>2. QED
          BY ONLY <5>1, <3>3
      <4>2. new[p].cells[l] = P.cells[l - 1]
        BY <1>4, <2>3, <4>1
      <4>3. l - 1 = i => i <= Len(P.cells)
        BY <1>2, <4>1
      <4>4. QED
        BY <1>1, <1>4, <2>3, <3>1, <3>3, <4>1, <4>2, <4>3 DEF P
    <3>4. QED
      BY <1>1, <1>8, <2>3, <3>2, <3>3
  <2>4. CASE p \notin {parent, child, nM}
    <3>1. OldPage(child, nM, p) = p /\ OldSlot(parent, child, i, m, p, l) = l
      BY <2>4 DEF OldPage, OldSlot
    <3>2. p \in 1 .. count /\ new[p] = ns[p]
      BY <1>2, <1>4, <2>4
    <3>3. QED
      BY <2>4, <3>1, <3>2
  <2>5. QED
    BY <2>1, <2>2, <2>3, <2>4
<1>9. ASSUME NEW p \in 1 .. nM, is_internal(new[p].type),
             NEW l \in 1 .. Len(new[p].cells)
      PROVE  \E c \in con2[new[p].cells[l].child] : Repeats(new[p], new[p].cells[l], c)
  <2>1. CASE p = parent /\ l = i
    <3>1. PICK c \in con[child] : Repeats(N, N.cells[m + 1], c)
      BY <1>2
    <3>2. c.key = K /\ (is_index(P.type) => c.val = N.cells[m + 1].val)
      BY <1>2, <3>1 DEF Repeats, K, N
    <3>3. c \in con2[nM]
      BY <1>2, <1>6, <3>2
    <3>4. Repeats(new[parent], new[parent].cells[i], c)
      BY <1>2, <1>4, <3>2 DEF Repeats
    <3>5. QED
      BY <1>2, <2>1, <3>3, <3>4
  <2>2. CASE ~(p = parent /\ l = i)
    <3> DEFINE was == OldPage(child, nM, p)
               ol == OldSlot(parent, child, i, m, p, l)
               sep == new[p].cells[l]
    <3>1. /\ was \in 1 .. count /\ new[p].type = ns[was].type
          /\ ol \in 1 .. Len(ns[was].cells) /\ sep = ns[was].cells[ol]
          /\ was = parent /\ ol = i => p = parent /\ i <= Len(P.cells)
      BY <1>8, <1>9, <2>2
    <3> HIDE DEF was, ol
    <3>2. PICK c \in con[sep.child] : Repeats(ns[was], sep, c)
      BY <1>1, <1>9, <3>1 DEF Witnessed
    <3>3. Repeats(new[p], sep, c)
      BY <3>1, <3>2 DEF Repeats
    <3>4. Link(ns, was, ol, sep.child) /\ ol \in Nat
      <4>1. was \in Pages
        BY <1>2, <3>1
      <4>2. ns[was] \in BTreeNode
        BY <4>1 DEF Splitting
      <4>3. Len(ns[was].cells) \in Nat
        BY <4>2, CellTypes
      <4>4. ol \in 1 .. Len(ns[was].cells) + 1 /\ ol # Len(ns[was].cells) + 1 /\ ol \in Nat
        BY <3>1, <4>3
      <4>5. QED
        BY <1>9, <3>1, <4>4 DEF Link, child_at
    <3>5. sep.child \in 1 .. count
      BY <1>7, <3>1, <3>4
    <3>6. CASE sep.child # child
      <4>1. con2[sep.child] = con[sep.child]
        BY <1>2, <1>3, <1>6, <3>5, <3>6
      <4>2. QED
        BY <3>2, <3>3, <4>1
    <3>7. CASE sep.child = child
      <4>1. was = parent /\ ol = i
        BY <1>7, <3>1, <3>4, <3>7
      <4>2. K < P.cells[i].key /\ sep = P.cells[i]
        BY <1>2, <3>1, <4>1 DEF P
      <4>3. c \in con2[child]
        BY <1>6, <3>2, <3>7, <4>2 DEF Repeats
      <4>4. QED
        BY <3>3, <3>7, <4>3
    <3>8. QED
      BY <3>6, <3>7
  <2>3. QED
    BY <2>1, <2>2
<1>10. QED
  BY <1>9 DEF Witnessed, con2, K, N

(* A split keeps the search order.                                         *)
LEMMA SplitKeepsOrder ==
  ASSUME NEW ns, NEW new, NEW count, NEW nM, NEW rts, NEW own, NEW ht, NEW cov, NEW con,
         NEW parent, NEW i, NEW child, NEW m,
         Splitting(ns, new, count, nM, rts, own, ht, cov, con, parent, i, child, m)
  PROVE  LET K == ns[child].cells[m + 1].key
         IN  Ordered(new, nM, rts,
                     [own EXCEPT ![nM] = own[child]], [ht EXCEPT ![nM] = ht[child]],
                     SplitKeys(cov, child, nM, K), SplitEntries(con, child, nM, K))
BY SplitKeepsCovers, SplitKeepsApart, SplitKeepsSorted, SplitKeepsContents,
   SplitKeepsWitnesses DEF Ordered

(* The root's content moved to a new page, which covers all keys.          *)
Lifting(ns, new, count, nC, rts, own, ht, cov, con, r) ==
    /\ ns \in [Pages -> BTreeNode]
    /\ count \in Nat /\ nC \in Pages /\ nC = count + 1
    /\ Shape(ns, count, rts, own, ht)
    /\ Ordered(ns, count, rts, own, ht, cov, con)
    /\ r \in rts /\ IsLift(ns, new, r, nC)
    /\ Len(ns[r].cells) > 0

LiftKeys(cov, nC) == [cov EXCEPT ![nC] = Nat]
LiftEntries(con, r, nC) == [con EXCEPT ![nC] = con[r]]

(* The order survives the raising of a root by a level.                    *)
LEMMA LiftKeepsOrder ==
  ASSUME NEW ns, NEW new, NEW count, NEW nC, NEW rts, NEW own, NEW ht, NEW cov, NEW con,
         NEW r, Lifting(ns, new, count, nC, rts, own, ht, cov, con, r)
  PROVE  Ordered(new, nC, rts, [own EXCEPT ![nC] = r],
                 [ht EXCEPT ![nC] = ht[r], ![r] = ht[r] + 1],
                 LiftKeys(cov, nC), LiftEntries(con, r, nC))
<1> DEFINE own2 == [own EXCEPT ![nC] = r]
           ht2 == [ht EXCEPT ![nC] = ht[r], ![r] = ht[r] + 1]
           cov2 == LiftKeys(cov, nC)
           con2 == LiftEntries(con, r, nC)
           old(p) == IF p = nC THEN r ELSE p
<1>1. /\ ns \in [Pages -> BTreeNode] /\ nC \in Pages
      /\ nC = count + 1 /\ count \in Nat /\ r \in rts
      /\ Typed(own, ht) /\ Rooted(count, rts, own) /\ Levels(ns, count, rts, own, ht)
      /\ Descends(ns, count, rts, own, ht)
      /\ Covers(ns, count, rts, cov) /\ Apart(count, own, ht, cov) /\ Sorted(ns, count)
      /\ ContainsEntries(ns, count, rts, cov, con) /\ Witnessed(ns, count, con)
      /\ IsLift(ns, new, r, nC) /\ Len(ns[r].cells) > 0
  BY DEF Lifting, Shape, Ordered
<1>2. /\ 1 .. nC = (1 .. count) \cup {nC} /\ 1 .. nC \subseteq Pages /\ nC \notin 1 .. count
      /\ rts \subseteq 1 .. count /\ r \in 1 .. count /\ r # nC /\ r \in Pages
      /\ own[r] = r /\ nC \notin rts
  BY <1>1, ConstantsAssumption DEF Pages, Rooted
<1>3. /\ own \in [Pages -> Pages] /\ ht \in [Pages -> Nat]
      /\ cov \in [Pages -> SUBSET Nat] /\ con \in [Pages -> SUBSET BTreeCell]
      /\ cov[r] = Nat
  BY <1>1 DEF Typed, Covers, ContainsEntries
<1>4. /\ own2[nC] = r /\ own2[r] = r
      /\ ht2[nC] = ht[r] /\ ht2[r] = ht[r] + 1 /\ ht[r] \in Nat
      /\ \A p \in Pages \ {r, nC} : own2[p] = own[p] /\ ht2[p] = ht[p]
      /\ cov2 \in [Pages -> SUBSET Nat] /\ con2 \in [Pages -> SUBSET BTreeCell]
      /\ cov2[nC] = Nat /\ con2[nC] = con[r]
      /\ \A p \in Pages \ {nC} : cov2[p] = cov[p] /\ con2[p] = con[p]
  BY <1>2, <1>3 DEF LiftKeys, LiftEntries
<1>5. /\ Link(new, r, 1, nC)
      /\ is_internal(new[r].type)
      /\ \A j \in Nat : \A q : Link(new, r, j, q) => j = 1 /\ q = nC
      /\ \A j \in Nat : \A q : Link(new, nC, j, q) <=> Link(ns, r, j, q)
      /\ \A p \in Pages \ {r, nC}, j \in Nat : \A q :
           Link(new, p, j, q) <=> Link(ns, p, j, q)
  <2>1. r \in Pages /\ nC \in Pages /\ r # nC /\ IsLift(ns, new, r, nC)
    BY <1>1, <1>2
  <2>2. LiftedLinks(ns, new, r, nC)
    BY <2>1, LiftLinks
  <2>3. QED
    BY <2>2 DEF LiftedLinks
<1> HIDE DEF own2, ht2, cov2, con2
<1>6. ASSUME NEW p \in 1 .. nC, p # r
      PROVE  /\ old(p) \in 1 .. count /\ old(p) \in Pages
             /\ new[p].cells = ns[old(p)].cells /\ new[p].type = ns[old(p)].type
             /\ \A j \in Nat : \A q : Link(new, p, j, q) <=> Link(ns, old(p), j, q)
             /\ cov2[p] = cov[old(p)] /\ con2[p] = con[old(p)]
  <2>1. CASE p = nC
    BY <1>1, <1>2, <1>3, <1>4, <1>5, <2>1 DEF IsLift
  <2>2. CASE p # nC
    <3>1. p \in Pages \ {r, nC} /\ p \in 1 .. count
      BY <1>2, <1>6, <2>2
    <3>2. new[p] = ns[p]
      BY <1>1, <3>1 DEF IsLift
    <3>3. QED
      BY <1>4, <1>5, <2>2, <3>1, <3>2
  <2>3. QED
    BY <2>1, <2>2
<1>7. ASSUME NEW p \in 1 .. count, NEW j \in Nat, NEW q, Link(ns, p, j, q)
      PROVE  /\ q \in 1 .. count /\ q \notin rts
             /\ cov2[q] = cov[q] /\ con2[q] = con[q]
             /\ cov[q] = {k \in cov[p] : SlotOf(ns[p], k, j)}
  <2>1. q \in 1 .. count /\ q \notin rts
    BY <1>1, <1>7 DEF Descends
  <2>2. q \in Pages \ {nC}
    BY <1>2, <2>1
  <2>3. cov[q] = {k \in cov[p] : SlotOf(ns[p], k, j)}
    BY <1>1, <1>7 DEF Covers
  <2>4. QED
    BY <1>4, <2>1, <2>2, <2>3
<1>8. Len(new[r].cells) = 0
  BY <1>1 DEF IsLift
<1> HIDE DEF old
<1>9. Covers(new, nC, rts, cov2)
  <2>1. ASSUME NEW p \in 1 .. nC, NEW j \in Nat, NEW q, Link(new, p, j, q)
        PROVE  cov2[q] = {k \in cov2[p] : SlotOf(new[p], k, j)}
    <3>1. CASE p = r
      <4>1. j = 1 /\ q = nC
        BY <1>5, <2>1, <3>1
      <4>2. \A k \in Nat : SlotOf(new[r], k, 1)
        BY <1>8 DEF SlotOf, SlotIn
      <4>3. cov2[r] = Nat
        BY <1>2, <1>3, <1>4
      <4>4. QED
        BY <1>4, <3>1, <4>1, <4>2, <4>3
    <3>2. CASE p # r
      <4>1. Link(ns, old(p), j, q) /\ old(p) \in 1 .. count
        BY <1>6, <2>1, <3>2
      <4>2. cov2[q] = {k \in cov[old(p)] : SlotOf(ns[old(p)], k, j)}
        BY <1>7, <4>1
      <4>3. \A k : SlotOf(new[p], k, j) <=> SlotOf(ns[old(p)], k, j)
        BY <1>6, <3>2 DEF SlotOf, KeysOf
      <4>4. QED
        BY <1>6, <3>2, <4>2, <4>3
    <3>3. QED
      BY <3>1, <3>2
  <2>2. \A x \in rts : cov2[x] = Nat
    <3>1. \A x \in rts : x \in Pages \ {nC}
      BY <1>2
    <3>2. QED
      BY <1>1, <1>4, <3>1 DEF Covers
  <2>3. QED
    BY <1>4, <2>1, <2>2 DEF Covers
<1>10. Apart(nC, own2, ht2, cov2)
  <2>1. ASSUME NEW q \in 1 .. nC, q # r, own2[q] = r
        PROVE  ht2[q] = ht[old(q)] /\ own[old(q)] = r /\ ht[old(q)] <= ht[r]
               /\ ht[old(q)] \in Nat
    <3>1. old(q) \in 1 .. count /\ old(q) \in Pages
      BY <1>6, <2>1
    <3>2. ht2[q] = ht[old(q)] /\ own[old(q)] = r
      BY <1>2, <1>4, <2>1 DEF old
    <3>3. QED
      BY <1>1, <1>3, <3>1, <3>2 DEF Levels
  <2>2. ASSUME NEW p \in 1 .. nC, NEW q \in 1 .. nC, NEW k \in cov2[p], k \in cov2[q],
               own2[p] = own2[q], ht2[p] = ht2[q]
        PROVE  p = q
    <3>1. CASE p = r \/ q = r
      <4>1. SUFFICES ASSUME p # q PROVE FALSE
        OBVIOUS
      <4>2. CASE p = r
        <5>1. ht2[q] <= ht[r] /\ ht2[q] = ht[r] + 1 /\ ht[r] \in Nat
          BY <1>4, <2>1, <2>2, <4>1, <4>2
        <5>2. QED
          BY <5>1
      <4>3. CASE q = r
        <5>1. ht2[p] <= ht[r] /\ ht2[p] = ht[r] + 1 /\ ht[r] \in Nat
          BY <1>4, <2>1, <2>2, <4>1, <4>3
        <5>2. QED
          BY <5>1
      <4>4. QED
        BY <3>1, <4>2, <4>3
    <3>2. CASE p # r /\ q # r
      <4>1. /\ old(p) \in 1 .. count /\ old(q) \in 1 .. count
            /\ k \in cov[old(p)] /\ k \in cov[old(q)]
        BY <1>6, <2>2, <3>2
      <4>2. \A x \in 1 .. nC : x # r => own2[x] = own[old(x)] /\ ht2[x] = ht[old(x)]
        <5>1. \A x \in 1 .. nC : x # r /\ x # nC => x \in Pages \ {r, nC}
          BY <1>2
        <5>2. QED
          BY <1>2, <1>4, <5>1 DEF old
      <4>3. old(p) = old(q)
        BY <1>1, <2>2, <3>2, <4>1, <4>2 DEF Apart
      <4>4. QED
        BY <3>2, <4>3 DEF old
    <3>3. QED
      BY <3>1, <3>2
  <2>3. QED
    BY <2>2 DEF Apart
<1>11. Sorted(new, nC)
  <2>1. Ascending(new[r])
    BY <1>8 DEF Ascending, Ascends
  <2>2. ASSUME NEW p \in 1 .. nC, p # r
        PROVE  /\ Ascending(new[p])
               /\ \A j \in 1 .. Len(new[p].cells) : FitsIn(new[p].type, new[p].cells[j].key)
    <3>1. /\ Ascending(ns[old(p)])
          /\ \A j \in 1 .. Len(ns[old(p)].cells) :
               FitsIn(ns[old(p)].type, ns[old(p)].cells[j].key)
      BY <1>1, <1>6, <2>2 DEF Sorted
    <3>2. QED
      BY <1>6, <2>2, <3>1 DEF Ascending, KeysOf
  <2>3. QED
    BY <1>8, <2>1, <2>2 DEF Sorted
<1>12. con[r] # {}
  <2>1. \A c : c \in con[r] <=> Under(ns, con, r, c)
    BY <1>1, <1>2 DEF ContainsEntries
  <2>2. Len(ns[r].cells) \in Nat
    BY <1>1, <1>2, CellTypes
  <2>3. CASE is_internal(ns[r].type)
    <3>1. Link(ns, r, Len(ns[r].cells) + 1, ns[r].right_page)
      <4>1. Len(ns[r].cells) + 1 \in 1 .. Len(ns[r].cells) + 1
        BY <2>2
      <4>2. child_at(ns[r], Len(ns[r].cells) + 1) = ns[r].right_page
        BY DEF child_at
      <4>3. QED
        BY <2>3, <4>1, <4>2 DEF Link
    <3>2. con[ns[r].right_page] # {}
      <4>1. Len(ns[r].cells) + 1 \in Nat
        BY <2>2
      <4>3. ns[r].right_page \in 1 .. count /\ ns[r].right_page \notin rts
        BY <1>2, <1>7, <3>1, <4>1
      <4>2. QED
        BY <1>1, <4>3 DEF ContainsEntries
    <3>3. Len(ns[r].cells) + 1 \in Nat
      BY <2>2
    <3>4. PICK c : c \in con[ns[r].right_page]
      BY <3>2
    <3>5. Under(ns, con, r, c)
      BY <2>3, <3>1, <3>3, <3>4 DEF Under
    <3>6. QED
      BY <2>1, <3>5
  <2>4. CASE ~is_internal(ns[r].type)
    <3>1. 1 \in 1 .. Len(ns[r].cells)
      BY <1>1, <2>2
    <3>2. QED
      BY <2>1, <2>4, <3>1 DEF Under
  <2>5. QED
    BY <2>3, <2>4
<1>13. ContainsEntries(new, nC, rts, cov2, con2)
  <2>1. ASSUME NEW c PROVE c \in con2[r] <=> Under(new, con2, r, c)
    BY <1>2, <1>4, <1>5 DEF Under
  <2>2. ASSUME NEW p \in 1 .. nC, p # r, NEW c
        PROVE  c \in con2[p] <=> Under(new, con2, p, c)
    <3>1. c \in con2[p] <=> Under(ns, con, old(p), c)
      BY <1>1, <1>6, <2>2 DEF ContainsEntries
    <3>2. Under(ns, con, old(p), c) <=> Under(new, con2, p, c)
      <4>1. \A j \in Nat : \A q : Link(ns, old(p), j, q) => con2[q] = con[q]
        BY <1>6, <1>7, <2>2
      <4>2. QED
        BY <1>6, <2>2, <4>1 DEF Under
    <3>3. QED
      BY <3>1, <3>2
  <2>3. ASSUME NEW p \in 1 .. nC
        PROVE  /\ \A c \in con2[p] : c.key \in cov2[p]
               /\ p \notin rts => con2[p] # {}
    <3>1. CASE p = nC
      <4>1. \A c \in con[r] : c.key \in Nat
        BY <1>1, <1>2, <1>3 DEF ContainsEntries
      <4>2. QED
        BY <1>4, <1>12, <3>1, <4>1
    <3>2. CASE p # nC
      <4>1. p \in 1 .. count /\ p \in Pages \ {nC}
        BY <1>2, <3>2
      <4>2. QED
        BY <1>1, <1>4, <4>1 DEF ContainsEntries
    <3>3. QED
      BY <3>1, <3>2
  <2>4. QED
    BY <1>4, <2>1, <2>2, <2>3 DEF ContainsEntries
<1>14. Witnessed(new, nC, con2)
  <2>1. ASSUME NEW p \in 1 .. nC, is_internal(new[p].type),
               NEW j \in 1 .. Len(new[p].cells)
        PROVE  \E c \in con2[new[p].cells[j].child] : Repeats(new[p], new[p].cells[j], c)
    <3>1. p # r
      BY <1>8, <2>1
    <3> DEFINE sep == ns[old(p)].cells[j]
    <3>2. /\ old(p) \in 1 .. count /\ old(p) \in Pages
          /\ is_internal(ns[old(p)].type) /\ new[p].type = ns[old(p)].type
          /\ j \in 1 .. Len(ns[old(p)].cells) /\ new[p].cells[j] = sep
      BY <1>6, <2>1, <3>1
    <3>3. PICK c \in con[sep.child] : Repeats(ns[old(p)], sep, c)
      BY <1>1, <3>2 DEF Witnessed
    <3>4. Link(ns, old(p), j, sep.child) /\ j \in Nat
      <4>1. Len(ns[old(p)].cells) \in Nat
        BY <1>1, <3>2, CellTypes
      <4>2. j \in 1 .. Len(ns[old(p)].cells) + 1 /\ j # Len(ns[old(p)].cells) + 1 /\ j \in Nat
        BY <3>2, <4>1
      <4>3. QED
        BY <3>2, <4>2 DEF Link, child_at
    <3>5. con2[sep.child] = con[sep.child]
      BY <1>7, <3>2, <3>4
    <3>6. QED
      BY <3>2, <3>3, <3>5 DEF Repeats
  <2>2. QED
    BY <2>1 DEF Witnessed
<1>15. QED
  BY <1>9, <1>10, <1>11, <1>13, <1>14 DEF Ordered, own2, ht2, cov2, con2

(* A cell c put in a leaf p, in the slot of its key, which no cell of the  *)
(* leaf has.                                                               *)
IsPut(n, new, i, c) ==
    /\ i \in 1 .. Len(n.cells) + 1 /\ SlotOf(n, c.key, i)
    /\ i <= Len(n.cells) => n.cells[i].key # c.key
    /\ new.type = n.type
    /\ Len(new.cells) = Len(n.cells) + 1
    /\ new.cells[i] = c
    /\ \A l \in 1 .. Len(n.cells) :
         new.cells[IF l < i THEN l ELSE l + 1] = n.cells[l]

(* The step that puts c in leaf p, in an ordered forest.                   *)
Putting(ns, new, count, rts, own, ht, cov, con, p, i, c) ==
    /\ ns \in [Pages -> BTreeNode] /\ new \in [Pages -> BTreeNode]
    /\ count \in Nat /\ 1 .. count \subseteq Pages
    /\ Shape(ns, count, rts, own, ht)
    /\ Ordered(ns, count, rts, own, ht, cov, con)
    /\ p \in 1 .. count /\ ~is_internal(ns[p].type)
    /\ c \in BTreeCell /\ c.key \in cov[p] /\ FitsIn(ns[p].type, c.key)
    /\ IsPut(ns[p], new[p], i, c)
    /\ \A q \in Pages \ {p} : new[q] = ns[q]

(* The cell is under the pages of the tree that cover its key.             *)
PutEntries(own, cov, con, p, c) ==
    [q \in Pages |-> IF own[q] = own[p] /\ c.key \in cov[q]
                     THEN con[q] \cup {c} ELSE con[q]]

(* A leaf with a cell put where its key belongs is sorted; it has one      *)
(* cell more.                                                              *)
LEMMA PutKeepsSorted ==
  ASSUME NEW n \in BTreeNode, NEW new \in BTreeNode, NEW i, NEW c \in BTreeCell,
         IsPut(n, new, i, c), Ascending(n), FitsIn(n.type, c.key),
         \A j \in 1 .. Len(n.cells) : FitsIn(n.type, n.cells[j].key)
  PROVE  /\ Ascending(new)
         /\ \A j \in 1 .. Len(new.cells) : FitsIn(new.type, new.cells[j].key)
         /\ \A x : (\E j \in 1 .. Len(new.cells) : x = new.cells[j])
                     <=> x = c \/ \E j \in 1 .. Len(n.cells) : x = n.cells[j]
<1> DEFINE len == Len(n.cells)
           K == c.key
<1>1. /\ i \in 1 .. len + 1 /\ SlotOf(n, K, i)
      /\ i <= len => n.cells[i].key # K
      /\ new.type = n.type
      /\ Len(new.cells) = len + 1
      /\ new.cells[i] = c
      /\ \A l \in 1 .. len : new.cells[IF l < i THEN l ELSE l + 1] = n.cells[l]
  BY DEF IsPut
<1>2. /\ len \in Nat /\ i \in Nat /\ K \in Nat
      /\ KeysOf(n) \in [1 .. len -> Nat]
      /\ KeysOf(new) \in [1 .. len + 1 -> Nat]
  <2>1. c.key \in Nat
    BY DEF BTreeCell
  <2>2. /\ len \in Nat /\ KeysOf(n) \in [1 .. len -> Nat]
        /\ KeysOf(new) \in [1 .. Len(new.cells) -> Nat]
    BY CellTypes
  <2>3. QED
    BY <1>1, <2>1, <2>2
<1>3. /\ \A l \in 1 .. len : KeysOf(n)[l] = n.cells[l].key
      /\ \A l \in 1 .. len + 1 : KeysOf(new)[l] = new.cells[l].key
  BY <1>1 DEF KeysOf
<1>4. /\ \A l \in 1 .. len : l < i => KeysOf(n)[l] < K
      /\ \A l \in 1 .. len : l >= i => K < KeysOf(n)[l]
  <2>1. /\ \A l \in 1 .. len : l < i => KeysOf(n)[l] < K
        /\ i <= len => K <= KeysOf(n)[i]
    BY <1>1 DEF SlotOf, SlotIn
  <2>2. \A j, l \in 1 .. len : j < l => KeysOf(n)[j] < KeysOf(n)[l]
    BY DEF Ascending, Ascends
  <2> HIDE DEF len, K
  <2>3. i <= len => K < KeysOf(n)[i] /\ i \in 1 .. len
    <3>1. SUFFICES ASSUME i <= len PROVE K < KeysOf(n)[i] /\ i \in 1 .. len
      OBVIOUS
    <3>2. i \in 1 .. len
      BY <1>1, <1>2, <3>1
    <3>3. KeysOf(n)[i] # K
      BY <1>1, <1>3, <3>2
    <3>4. QED
      BY <1>2, <2>1, <3>1, <3>2, <3>3
  <2>4. ASSUME NEW l \in 1 .. len, l >= i PROVE K < KeysOf(n)[l]
    BY <1>2, <2>2, <2>3, <2>4
  <2>5. QED
    BY <2>1, <2>4
<1>5. /\ \A l \in 1 .. len : l < i => new.cells[l] = n.cells[l] /\ l \in 1 .. len + 1
      /\ \A l \in 1 .. len : l >= i => new.cells[l + 1] = n.cells[l] /\ l + 1 \in 1 .. len + 1
  <2>1. ASSUME NEW l \in 1 .. len, l >= i PROVE new.cells[l + 1] = n.cells[l]
    <3>1. ~(l < i)
      BY <1>2, <2>1
    <3>2. QED
      BY <1>1, <3>1
  <2>2. \A l \in 1 .. len : l \in 1 .. len + 1 /\ l + 1 \in 1 .. len + 1
    BY <1>2
  <2>3. QED
    BY <1>1, <2>1, <2>2
<1>6. \A z \in 1 .. len + 1 : z > i => z - 1 \in 1 .. len /\ z - 1 >= i /\ (z - 1) + 1 = z
  BY <1>1, <1>2
<1>7. \A z \in 1 .. len + 1 : z < i => z \in 1 .. len
  BY <1>1, <1>2
<1>8. \A z \in 1 .. len + 1 : \/ z = i /\ new.cells[z] = c
                              \/ \E l \in 1 .. len : new.cells[z] = n.cells[l]
  <2>1. SUFFICES ASSUME NEW z \in 1 .. len + 1, z # i
                 PROVE  \E l \in 1 .. len : new.cells[z] = n.cells[l]
    BY <1>1
  <2>2. CASE z < i
    BY <1>5, <1>7, <2>2
  <2>3. CASE z > i
    BY <1>5, <1>6, <2>3
  <2>4. QED
    BY <1>2, <2>1, <2>2, <2>3
<1>9. Ascending(new)
  <2>1. i \in 1 .. len + 1 /\ KeysOf(new)[i] = K
    BY <1>1, <1>3
  <2>2. ASSUME NEW l \in 1 .. len, l < i
        PROVE  KeysOf(new)[l] = KeysOf(n)[l] /\ KeysOf(n)[l] < KeysOf(new)[i]
    BY <1>3, <1>4, <1>5, <2>1, <2>2
  <2>3. ASSUME NEW l \in 1 .. len, l >= i
        PROVE  KeysOf(new)[l + 1] = KeysOf(n)[l] /\ KeysOf(new)[i] < KeysOf(n)[l]
    BY <1>3, <1>4, <1>5, <2>1, <2>3
  <2>4. Ascends(KeysOf(n), len)
    BY DEF Ascending
  <2> HIDE DEF len, K
  <2>5. Ascends(KeysOf(new), len + 1)
    BY <1>2, <2>1, <2>2, <2>3, <2>4, AscendsAfterInsert
  <2>6. QED
    BY <1>1, <2>5 DEF Ascending
<1>10. \A j \in 1 .. len + 1 : FitsIn(new.type, new.cells[j].key)
  BY <1>1, <1>8
<1>11. \A x : (\E j \in 1 .. len + 1 : x = new.cells[j])
                <=> x = c \/ \E j \in 1 .. len : x = n.cells[j]
  <2>1. \A j \in 1 .. len : \E z \in 1 .. len + 1 : new.cells[z] = n.cells[j]
    <3>1. SUFFICES ASSUME NEW j \in 1 .. len
                   PROVE  \E z \in 1 .. len + 1 : new.cells[z] = n.cells[j]
      OBVIOUS
    <3>2. CASE j < i
      BY <1>5, <3>2
    <3>3. CASE j >= i
      BY <1>5, <3>3
    <3>4. QED
      BY <1>2, <3>2, <3>3
  <2>2. i \in 1 .. len + 1 /\ new.cells[i] = c
    BY <1>1
  <2> HIDE DEF len
  <2>3. QED
    BY <1>8, <2>1, <2>2
<1>12. QED
  BY <1>1, <1>9, <1>10, <1>11

(* The order survives the cell that is put in a leaf.                      *)
LEMMA PutKeepsOrder ==
  ASSUME NEW ns, NEW new, NEW count, NEW rts, NEW own, NEW ht, NEW cov, NEW con,
         NEW p, NEW i, NEW c,
         Putting(ns, new, count, rts, own, ht, cov, con, p, i, c)
  PROVE  Ordered(new, count, rts, own, ht, cov, PutEntries(own, cov, con, p, c))
<1> DEFINE con2 == PutEntries(own, cov, con, p, c)
<1>1. /\ ns \in [Pages -> BTreeNode] /\ new \in [Pages -> BTreeNode]
      /\ 1 .. count \subseteq Pages
      /\ Levels(ns, count, rts, own, ht) /\ Descends(ns, count, rts, own, ht)
      /\ Typed(own, ht)
      /\ Covers(ns, count, rts, cov) /\ Apart(count, own, ht, cov) /\ Sorted(ns, count)
      /\ ContainsEntries(ns, count, rts, cov, con) /\ Witnessed(ns, count, con)
      /\ p \in 1 .. count /\ p \in Pages /\ ~is_internal(ns[p].type)
      /\ c \in BTreeCell /\ c.key \in cov[p] /\ FitsIn(ns[p].type, c.key)
      /\ c.key \in Nat
      /\ IsPut(ns[p], new[p], i, c)
      /\ \A q \in Pages \ {p} : new[q] = ns[q]
  BY DEF Putting, Shape, Ordered, BTreeCell
<1>2. /\ ns[p] \in BTreeNode /\ new[p] \in BTreeNode
      /\ Ascending(ns[p])
      /\ \A j \in 1 .. Len(ns[p].cells) : FitsIn(ns[p].type, ns[p].cells[j].key)
  BY <1>1 DEF Sorted
<1>3. /\ Ascending(new[p])
      /\ \A j \in 1 .. Len(new[p].cells) : FitsIn(new[p].type, new[p].cells[j].key)
      /\ \A x : (\E j \in 1 .. Len(new[p].cells) : x = new[p].cells[j])
                  <=> x = c \/ \E j \in 1 .. Len(ns[p].cells) : x = ns[p].cells[j]
  BY <1>1, <1>2, PutKeepsSorted
<1>4. /\ con2 \in [Pages -> SUBSET BTreeCell]
      /\ \A q \in Pages : \A x : x \in con2[q] <=>
           x \in con[q] \/ (x = c /\ own[q] = own[p] /\ c.key \in cov[q])
  <2>1. con \in [Pages -> SUBSET BTreeCell]
    BY <1>1 DEF ContainsEntries
  <2>2. QED
    BY <1>1, <2>1 DEF PutEntries
<1> HIDE DEF con2
<1>5. new[p].type = ns[p].type /\ \A q \in 1 .. count : is_internal(new[q].type) => q # p
  BY <1>1 DEF IsPut
<1>6. \A q \in 1 .. count, j \in Nat : \A y : Link(new, q, j, y) <=> Link(ns, q, j, y) /\ new[q] = ns[q]
  <2>1. SUFFICES ASSUME NEW q \in 1 .. count, NEW j \in Nat, NEW y
                 PROVE  Link(new, q, j, y) <=> Link(ns, q, j, y) /\ new[q] = ns[q]
    OBVIOUS
  <2>2. CASE q = p
    BY <1>1, <1>5, <2>2 DEF Link
  <2>3. CASE q # p
    <3>1. new[q] = ns[q]
      BY <1>1, <2>3
    <3>2. QED
      BY <3>1 DEF Link
  <2>4. QED
    BY <2>2, <2>3
<1>7. Covers(new, count, rts, cov)
  BY <1>1, <1>6 DEF Covers
<1>8. Sorted(new, count)
  <2>1. ASSUME NEW q \in 1 .. count
        PROVE  /\ Ascending(new[q])
               /\ \A j \in 1 .. Len(new[q].cells) : FitsIn(new[q].type, new[q].cells[j].key)
    <3>1. CASE q = p
      BY <1>3, <3>1
    <3>2. CASE q # p
      <4>1. new[q] = ns[q]
        BY <1>1, <3>2
      <4>2. QED
        BY <1>1, <4>1 DEF Sorted
    <3>3. QED
      BY <3>1, <3>2
  <2>2. QED
    BY <2>1 DEF Sorted
<1>9. ASSUME NEW q \in 1 .. count, NEW x
      PROVE  x \in con2[q] <=> Under(new, con2, q, x)
  <2>1. q \in Pages /\ (x \in con[q] <=> Under(ns, con, q, x))
    BY <1>1 DEF ContainsEntries
  <2>2. CASE q = p
    <3>1. x \in con2[p] <=> x \in con[p] \/ x = c
      BY <1>1, <1>4
    <3>2. x \in con[p] <=> \E j \in 1 .. Len(ns[p].cells) : x = ns[p].cells[j]
      BY <1>1, <2>1, <2>2 DEF Under
    <3>3. QED
      BY <1>1, <1>3, <1>5, <2>2, <3>1, <3>2 DEF Under
  <2>3. CASE q # p /\ ~is_internal(ns[q].type)
    <3>1. ~(own[q] = own[p] /\ c.key \in cov[q])
      <4>1. SUFFICES ASSUME own[q] = own[p], c.key \in cov[q] PROVE FALSE
        OBVIOUS
      <4>2. ht[q] = 0 /\ ht[p] = 0
        <5>1. ht[q] \in Nat /\ ht[p] \in Nat
          BY <1>1, <2>1 DEF Typed
        <5>2. ~(ht[q] > 0) /\ ~(ht[p] > 0)
          BY <1>1, <2>3 DEF Levels
        <5>3. QED
          BY <5>1, <5>2
      <4>3. QED
        BY <1>1, <2>3, <4>1, <4>2 DEF Apart
    <3>2. new[q] = ns[q] /\ (x \in con2[q] <=> x \in con[q])
      BY <1>1, <1>4, <2>1, <2>3, <3>1
    <3>3. QED
      BY <2>1, <2>3, <3>2 DEF Under
  <2>4. CASE q # p /\ is_internal(ns[q].type)
    <3>1. /\ new[q] = ns[q] /\ ns[q] \in BTreeNode
          /\ \A j \in Nat : \A y : Link(new, q, j, y) <=> Link(ns, q, j, y)
      BY <1>1, <1>6, <2>1, <2>4
    <3>2. \A j \in Nat : \A y : Link(ns, q, j, y) =>
            /\ y \in Pages /\ own[y] = own[q]
            /\ cov[y] = {k \in cov[q] : SlotOf(ns[q], k, j)}
      BY <1>1 DEF Covers, Descends
    <3>3. ASSUME x \in con2[q]
          PROVE  Under(new, con2, q, x)
      <4>1. CASE x \in con[q]
        <5>1. PICK j, y : j \in Nat /\ Link(ns, q, j, y) /\ x \in con[y]
          BY <2>1, <2>4, <4>1 DEF Under
        <5>2. x \in con2[y]
          BY <1>4, <3>2, <5>1
        <5>3. QED
          BY <2>4, <3>1, <5>1, <5>2 DEF Under
      <4>2. CASE x = c /\ own[q] = own[p] /\ c.key \in cov[q]
        <5> DEFINE j == find_position(ns[q], c.key)
                   y == ChildFor(ns[q], c.key)
        <5>1. j \in Nat /\ Link(ns, q, j, y)
          BY <1>1, <2>4, <3>1, ChildLinked
        <5>2. SlotOf(ns[q], c.key, j)
          BY <1>1, <3>1, SlotFound
        <5> HIDE DEF j, y
        <5>3. y \in Pages /\ own[y] = own[p] /\ c.key \in cov[y]
          BY <3>2, <4>2, <5>1, <5>2
        <5>4. x \in con2[y]
          BY <1>4, <4>2, <5>3
        <5>5. QED
          BY <2>4, <3>1, <5>1, <5>4 DEF Under
      <4>3. QED
        BY <1>4, <2>1, <3>3, <4>1, <4>2
    <3>4. ASSUME Under(new, con2, q, x)
          PROVE  x \in con2[q]
      <4>1. PICK j, y : j \in Nat /\ Link(ns, q, j, y) /\ x \in con2[y]
        BY <2>4, <3>1, <3>4 DEF Under
      <4>2. y \in Pages /\ own[y] = own[q] /\ cov[y] \subseteq cov[q]
        BY <3>2, <4>1
      <4>3. CASE x \in con[y]
        <5>1. x \in con[q]
          BY <2>1, <2>4, <4>1, <4>3 DEF Under
        <5>2. QED
          BY <1>4, <2>1, <5>1
      <4>4. CASE x = c /\ own[y] = own[p] /\ c.key \in cov[y]
        BY <1>4, <2>1, <4>2, <4>4
      <4>5. QED
        BY <1>4, <4>1, <4>2, <4>3, <4>4
    <3>5. QED
      BY <3>3, <3>4
  <2>5. QED
    BY <2>2, <2>3, <2>4
<1>10. ContainsEntries(new, count, rts, cov, con2)
  <2>1. ASSUME NEW q \in 1 .. count
        PROVE  /\ \A x \in con2[q] : x.key \in cov[q]
               /\ q \notin rts => con2[q] # {}
    <3>1. q \in Pages
      BY <1>1
    <3>2. /\ \A x \in con[q] : x.key \in cov[q]
          /\ q \notin rts => con[q] # {}
      BY <1>1 DEF ContainsEntries
    <3>3. QED
      BY <1>4, <3>1, <3>2
  <2>2. QED
    BY <1>4, <1>9, <2>1 DEF ContainsEntries
<1>11. Witnessed(new, count, con2)
  <2>1. ASSUME NEW q \in 1 .. count, is_internal(new[q].type),
               NEW j \in 1 .. Len(new[q].cells)
        PROVE  \E x \in con2[new[q].cells[j].child] : Repeats(new[q], new[q].cells[j], x)
    <3>1. new[q] = ns[q] /\ q \in Pages /\ ns[q] \in BTreeNode
      BY <1>1, <1>5, <2>1
    <3>2. PICK x \in con[ns[q].cells[j].child] : Repeats(ns[q], ns[q].cells[j], x)
      BY <1>1, <2>1, <3>1 DEF Witnessed
    <3>3. ns[q].cells[j].child \in Pages
      <4>1. Len(ns[q].cells) \in Nat
        BY <3>1, CellTypes
      <4>2. j \in 1 .. Len(ns[q].cells) + 1 /\ j # Len(ns[q].cells) + 1 /\ j \in Nat
        BY <2>1, <3>1, <4>1
      <4>3. Link(ns, q, j, ns[q].cells[j].child)
        BY <2>1, <3>1, <4>2 DEF Link, child_at
      <4>4. QED
        BY <1>1, <4>2, <4>3 DEF Descends
    <3>4. QED
      BY <1>4, <3>1, <3>2, <3>3
  <2>2. QED
    BY <2>1 DEF Witnessed
<1>12. QED
  BY <1>1, <1>7, <1>8, <1>10, <1>11 DEF Ordered, con2

(* A page more, an empty leaf: a new tree.                                 *)
Growing(ns, new, count, rts, own, ht, cov, con, p) ==
    /\ count \in Nat /\ 1 .. count \subseteq Pages /\ p \in Pages /\ p = count + 1
    /\ rts \subseteq 1 .. count /\ ns \in [Pages -> BTreeNode]
    /\ Shape(ns, count, rts, own, ht)
    /\ Ordered(ns, count, rts, own, ht, cov, con)
    /\ Len(new[p].cells) = 0 /\ ~is_internal(new[p].type)
    /\ \A q \in 1 .. count : new[q] = ns[q]

(* A page more, an empty leaf and a root of its own, leaves the forest     *)
(* one,                                                                    *)
LEMMA GrowKeepsShape ==
  ASSUME NEW ns, NEW new, NEW count, NEW rts, NEW own, NEW ht, NEW cov, NEW con, NEW p,
         Growing(ns, new, count, rts, own, ht, cov, con, p),
         new[p].type \in NodeTypes
  PROVE  Shape(new, p, rts \cup {p}, [own EXCEPT ![p] = p], [ht EXCEPT ![p] = 0])
<1> DEFINE own2 == [own EXCEPT ![p] = p]
           ht2 == [ht EXCEPT ![p] = 0]
<1>1. /\ count \in Nat /\ 1 .. count \subseteq Pages /\ p \in Pages /\ p = count + 1
      /\ rts \subseteq 1 .. count
      /\ Typed(own, ht) /\ Rooted(count, rts, own)
      /\ Levels(ns, count, rts, own, ht) /\ Descends(ns, count, rts, own, ht)
      /\ OneLink(ns, count) /\ Hangs(ns, count, rts)
      /\ ~is_internal(new[p].type)
      /\ \A q \in 1 .. count : new[q] = ns[q]
  BY DEF Growing, Shape
<1>2. 1 .. p = (1 .. count) \cup {p} /\ p \notin 1 .. count
  BY <1>1
<1>3. /\ Typed(own2, ht2)
      /\ own2[p] = p /\ ht2[p] = 0
      /\ \A q \in 1 .. count : own2[q] = own[q] /\ ht2[q] = ht[q]
  BY <1>1, <1>2 DEF Typed
<1> HIDE DEF own2, ht2
<1>4. /\ \A q \in 1 .. count, j \in Nat : \A c : Link(new, q, j, c) <=> Link(ns, q, j, c)
      /\ \A j \in Nat : \A c : ~Link(new, p, j, c)
  BY <1>1 DEF Link
<1>5. Rooted(p, rts \cup {p}, own2)
  BY <1>1, <1>2, <1>3 DEF Rooted
<1>6. Levels(new, p, rts \cup {p}, own2, ht2)
  <2>1. SUFFICES ASSUME NEW q \in 1 .. p
                 PROVE  /\ new[q].type \in NodeTypes
                        /\ own2[q] \in rts \cup {p}
                        /\ ht2[q] <= ht2[own2[q]]
                        /\ is_internal(new[q].type) <=> ht2[q] > 0
    BY DEF Levels
  <2>2. CASE q = p
    BY <1>1, <1>3, <2>2
  <2>3. CASE q \in 1 .. count
    <3>1. /\ ns[q].type \in NodeTypes /\ own[q] \in rts
          /\ ht[q] <= ht[own[q]]
          /\ is_internal(ns[q].type) <=> ht[q] > 0
      BY <1>1, <2>3 DEF Levels
    <3>2. own[q] \in 1 .. count
      BY <1>1, <3>1
    <3>3. QED
      BY <1>1, <1>3, <2>3, <3>1, <3>2
  <2>4. QED
    BY <1>2, <2>2, <2>3
<1>7. Descends(new, p, rts \cup {p}, own2, ht2)
  <2>1. SUFFICES ASSUME NEW q \in 1 .. p, NEW j \in Nat, NEW c, Link(new, q, j, c)
                 PROVE  /\ c \in (1 .. p) \ (rts \cup {p})
                        /\ own2[c] = own2[q]
                        /\ ht2[q] = ht2[c] + 1
                        /\ is_index(new[c].type) <=> is_index(new[q].type)
    BY DEF Descends
  <2>2. q \in 1 .. count /\ Link(ns, q, j, c)
    BY <1>2, <1>4, <2>1
  <2>3. /\ c \in (1 .. count) \ rts /\ own[c] = own[q] /\ ht[q] = ht[c] + 1
        /\ is_index(ns[c].type) <=> is_index(ns[q].type)
    BY <1>1, <2>2 DEF Descends
  <2>4. QED
    BY <1>1, <1>2, <1>3, <2>2, <2>3
<1>8. OneLink(new, p)
  BY <1>1, <1>2, <1>4 DEF OneLink
<1>9. Hangs(new, p, rts \cup {p})
  BY <1>1, <1>2, <1>4 DEF Hangs
<1>10. QED
  BY <1>3, <1>5, <1>6, <1>7, <1>8, <1>9 DEF Shape, own2, ht2

(* and the order as it was.                                                *)
LEMMA GrowKeepsOrder ==
  ASSUME NEW ns, NEW new, NEW count, NEW rts, NEW own, NEW ht, NEW cov, NEW con, NEW p,
         Growing(ns, new, count, rts, own, ht, cov, con, p)
  PROVE  Ordered(new, p, rts \cup {p}, [own EXCEPT ![p] = p], [ht EXCEPT ![p] = 0],
                 [cov EXCEPT ![p] = Nat], [con EXCEPT ![p] = {}])
<1> DEFINE own2 == [own EXCEPT ![p] = p]
           ht2 == [ht EXCEPT ![p] = 0]
           cov2 == [cov EXCEPT ![p] = Nat]
           con2 == [con EXCEPT ![p] = {}]
<1>1. /\ count \in Nat /\ 1 .. count \subseteq Pages /\ p \in Pages /\ p = count + 1
      /\ rts \subseteq 1 .. count
      /\ Typed(own, ht) /\ Levels(ns, count, rts, own, ht)
      /\ Descends(ns, count, rts, own, ht)
      /\ Covers(ns, count, rts, cov) /\ Apart(count, own, ht, cov) /\ Sorted(ns, count)
      /\ ContainsEntries(ns, count, rts, cov, con) /\ Witnessed(ns, count, con)
      /\ Len(new[p].cells) = 0 /\ ~is_internal(new[p].type)
      /\ \A q \in 1 .. count : new[q] = ns[q]
  BY DEF Growing, Shape, Ordered
<1>2. 1 .. p = (1 .. count) \cup {p} /\ p \notin 1 .. count
  BY <1>1
<1>3. /\ cov2 \in [Pages -> SUBSET Nat] /\ con2 \in [Pages -> SUBSET BTreeCell]
      /\ own2[p] = p /\ cov2[p] = Nat /\ con2[p] = {}
      /\ \A q \in 1 .. count : /\ own2[q] = own[q] /\ ht2[q] = ht[q]
                               /\ cov2[q] = cov[q] /\ con2[q] = con[q]
      /\ \A q \in 1 .. count : own[q] \in 1 .. count
  <2>1. /\ own \in [Pages -> Pages] /\ ht \in [Pages -> Nat]
        /\ cov \in [Pages -> SUBSET Nat] /\ con \in [Pages -> SUBSET BTreeCell]
    BY <1>1 DEF Typed, Covers, ContainsEntries
  <2>2. \A q \in 1 .. count : q \in Pages /\ q # p
    BY <1>1, <1>2
  <2>3. \A q \in 1 .. count : own[q] \in 1 .. count
    BY <1>1 DEF Levels
  <2>4. QED
    BY <1>1, <2>1, <2>2, <2>3
<1> HIDE DEF own2, ht2, cov2, con2
<1>4. /\ \A j \in Nat : \A q : ~Link(new, p, j, q)
      /\ \A q \in 1 .. count, j \in Nat : \A y : Link(new, q, j, y) <=> Link(ns, q, j, y)
      /\ \A q \in 1 .. count, j \in Nat : \A y : Link(ns, q, j, y) => y \in 1 .. count
  BY <1>1 DEF Link, Descends
<1>5. Covers(new, p, rts \cup {p}, cov2)
  <2>1. \A r \in rts : cov2[r] = Nat
    BY <1>1, <1>3 DEF Covers
  <2>2. ASSUME NEW q \in 1 .. p, NEW j \in Nat, NEW y, Link(new, q, j, y)
        PROVE  cov2[y] = {k \in cov2[q] : SlotOf(new[q], k, j)}
    <3>1. q \in 1 .. count /\ Link(ns, q, j, y) /\ y \in 1 .. count
      BY <1>2, <1>4, <2>2
    <3>2. cov[y] = {k \in cov[q] : SlotOf(ns[q], k, j)}
      BY <1>1, <3>1 DEF Covers
    <3>3. QED
      BY <1>1, <1>3, <3>1, <3>2
  <2>3. QED
    BY <1>3, <2>1, <2>2 DEF Covers
<1>6. Apart(p, own2, ht2, cov2)
  <2>1. ASSUME NEW x \in 1 .. p, NEW y \in 1 .. p, NEW k \in cov2[x], k \in cov2[y],
               own2[x] = own2[y], ht2[x] = ht2[y]
        PROVE  x = y
    <3>1. CASE x = p \/ y = p
      BY <1>2, <1>3, <2>1, <3>1
    <3>2. CASE x \in 1 .. count /\ y \in 1 .. count
      BY <1>1, <1>3, <2>1, <3>2 DEF Apart
    <3>3. QED
      BY <1>2, <3>1, <3>2
  <2>2. QED
    BY <2>1 DEF Apart
<1>7. Sorted(new, p)
  <2>1. Ascending(new[p])
    BY <1>1 DEF Ascending, Ascends
  <2>2. QED
    BY <1>1, <1>2, <2>1 DEF Sorted
<1>8. ContainsEntries(new, p, rts \cup {p}, cov2, con2)
  <2>1. ASSUME NEW x PROVE x \in con2[p] <=> Under(new, con2, p, x)
    BY <1>1, <1>3 DEF Under
  <2>2. ASSUME NEW q \in 1 .. count, NEW x
        PROVE  x \in con2[q] <=> Under(new, con2, q, x)
    <3>1. x \in con2[q] <=> Under(ns, con, q, x)
      BY <1>1, <1>3 DEF ContainsEntries
    <3>2. \A j \in Nat : \A y : Link(ns, q, j, y) => con2[y] = con[y]
      BY <1>3, <1>4
    <3>3. new[q] = ns[q] /\ \A j \in Nat : \A y : Link(new, q, j, y) <=> Link(ns, q, j, y)
      BY <1>1, <1>4
    <3>4. QED
      BY <3>1, <3>2, <3>3 DEF Under
  <2>3. ASSUME NEW q \in 1 .. count
        PROVE  /\ \A x \in con2[q] : x.key \in cov2[q]
               /\ q \notin rts => con2[q] # {}
    BY <1>1, <1>3 DEF ContainsEntries
  <2>4. QED
    BY <1>2, <1>3, <2>1, <2>2, <2>3 DEF ContainsEntries
<1>9. Witnessed(new, p, con2)
  <2>1. ASSUME NEW q \in 1 .. p, is_internal(new[q].type),
               NEW j \in 1 .. Len(new[q].cells)
        PROVE  \E x \in con2[new[q].cells[j].child] : Repeats(new[q], new[q].cells[j], x)
    <3>1. q \in 1 .. count /\ new[q] = ns[q]
      BY <1>1, <1>2, <2>1
    <3>2. PICK x \in con[ns[q].cells[j].child] : Repeats(ns[q], ns[q].cells[j], x)
      BY <1>1, <2>1, <3>1 DEF Witnessed
    <3>3. con2[ns[q].cells[j].child] = con[ns[q].cells[j].child]
      <4>1. ns[q] \in BTreeNode
        BY <1>1, <3>1 DEF Growing
      <4>2. Len(ns[q].cells) \in Nat
        BY <4>1, CellTypes
      <4>3. j \in 1 .. Len(ns[q].cells) + 1 /\ j # Len(ns[q].cells) + 1 /\ j \in Nat
        BY <2>1, <3>1, <4>2
      <4>4. Link(ns, q, j, ns[q].cells[j].child)
        BY <2>1, <3>1, <4>3 DEF Link, child_at
      <4>5. QED
        BY <1>3, <1>4, <3>1, <4>3, <4>4
    <3>4. QED
      BY <3>1, <3>2, <3>3
  <2>2. QED
    BY <2>1 DEF Witnessed
<1>10. QED
  BY <1>5, <1>6, <1>7, <1>8, <1>9 DEF Ordered, own2, ht2, cov2, con2
-----------------------------------------------------------------------------
(* Every tree is a search tree in every state.                             *)

(* The keys of the tables are written so that they are read back.          *)
KeysFit == \A k \in TableKeys : varint32(k) = k

(* The pages are in search order, and the page an insert visits is one     *)
(* that a search for its key visits.                                       *)
KeysHold(own, ht, cov, con) ==
    /\ TreesHold(own, ht)
    /\ Ordered(nodes, n_pages, roots, own, ht, cov, con)
    /\ op # Idle => /\ op.btc.key \in cov[op.npage]
                    /\ FitsIn(nodes[op.npage].type, op.btc.key)

(* The entries of the tree with root r are f[r].                           *)
Stores(f) ==
    \E own, ht, cov, con :
      KeysHold(own, ht, cov, con) /\ \A r \in roots : con[r] = f[r]

(* The inductive invariant on the keys.                                    *)
KeysInv == \E f \in [Pages -> SUBSET BTreeCell] : Stores(f)

(* To establish it in the next state, any witnesses will do.               *)
LEMMA StoresNext ==
  ASSUME NEW f, NEW own, NEW ht, NEW cov, NEW con,
         Shape(nodes', n_pages', roots', own, ht),
         Ordered(nodes', n_pages', roots', own, ht, cov, con),
         op' # Idle => /\ own[op'.npage] = op'.nroot
                       /\ op'.btc.key \in cov[op'.npage]
                       /\ FitsIn(nodes'[op'.npage].type, op'.btc.key),
         \A r \in roots' : con[r] = f[r]
  PROVE  Stores(f)'
BY DEF Stores, KeysHold, TreesHold

(* A new file is an empty tree.                                            *)
LEMMA InitKeys ==
  ASSUME Init
  PROVE  Stores([p \in Pages |-> {}])
<1> DEFINE own == [p \in Pages |-> p]
           ht == [p \in Pages |-> 0]
           cov == [p \in Pages |-> Nat]
           con == [p \in Pages |-> {}]
<1>1. /\ n_pages = 1 /\ roots = {1} /\ 1 .. 1 = {1} /\ 1 \in Pages /\ op = Idle
  BY ConstantsAssumption DEF Init, Pages
<1>2. nodes[1].type = TABLE_LEAF /\ Len(nodes[1].cells) = 0
  BY <1>1 DEF Init, initEmptyNode
<1>3. ~is_internal(nodes[1].type) /\ nodes[1].type \in NodeTypes
  BY <1>2 DEF is_internal, NodeTypes, TABLE_LEAF, TABLE_INTERNAL, INDEX_INTERNAL
<1>4. /\ Typed(own, ht)
      /\ Rooted(1, {1}, own)
      /\ Levels(nodes, 1, {1}, own, ht)
  BY <1>1, <1>3 DEF Typed, Rooted, Levels
<1>5. \A j \in Nat : \A q : ~Link(nodes, 1, j, q)
  BY <1>3 DEF Link
<1>6. /\ Descends(nodes, 1, {1}, own, ht)
      /\ OneLink(nodes, 1)
      /\ Hangs(nodes, 1, {1})
      /\ Covers(nodes, 1, {1}, cov)
      /\ Apart(1, own, ht, cov)
      /\ Witnessed(nodes, 1, con)
  BY <1>1, <1>3, <1>5 DEF Descends, OneLink, Hangs, Covers, Apart, Witnessed
<1>7. Ascending(nodes[1])
  BY <1>2 DEF Ascending, Ascends
<1>8. Sorted(nodes, 1)
  BY <1>1, <1>2, <1>7 DEF Sorted
<1>9. ContainsEntries(nodes, 1, {1}, cov, con)
  BY <1>1, <1>2, <1>3 DEF ContainsEntries, Under
<1> HIDE DEF own, ht, cov
<1>10. KeysHold(own, ht, cov, con)
  BY <1>1, <1>4, <1>6, <1>8, <1>9 DEF KeysHold, TreesHold, Shape, Ordered
<1>11. QED
  BY <1>10 DEF Stores

(* A median that is not beyond the middle is not the last cell.            *)
LEMMA BelowHalf ==
  ASSUME NEW L \in Nat, NEW m \in Nat, 2 * m <= L, Half(L) + 1 < L
  PROVE  m + 1 < L
<1>1. L \div 2 \in Nat /\ L <= 2 * (L \div 2) + 1
  BY Halving
<1>2. Half(L) = L \div 2
  BY DEF Half
<1>3. QED
  BY <1>1, <1>2

(* Splits of the two kinds as the code makes them: the root's,             *)
LEMMA SplitOfRoot ==
  ASSUME SafeSizes, PageInv, NEW r \in roots, NEW c \in BTreeCell, Insert(r, c),
         Full(nodes[r], c), n_pages + 2 <= MaxPages,
         nodes' = splitRoot(nodes, r, n_pages + 1, n_pages + 2),
         NEW own, NEW ht, NEW cov, NEW con,
         Shape(nodes, n_pages, roots, own, ht),
         Ordered(nodes, n_pages, roots, own, ht, cov, con)
  PROVE  LET nC == n_pages + 1
             nM == n_pages + 2
         IN  \E mid, m :
               /\ is_index(mid[r].type) <=> is_index(nodes[r].type)
               /\ Splitting(mid, nodes', nC, nM, roots,
                            [own EXCEPT ![nC] = r],
                            [ht EXCEPT ![nC] = ht[r], ![r] = ht[r] + 1],
                            LiftKeys(cov, nC), LiftEntries(con, r, nC), r, 1, nC, m)
<1> DEFINE nC == n_pages + 1
           nM == n_pages + 2
           own1 == [own EXCEPT ![nC] = r]
           ht1 == [ht EXCEPT ![nC] = ht[r], ![r] = ht[r] + 1]
           cov1 == LiftKeys(cov, nC)
           con1 == LiftEntries(con, r, nC)
<1>1. /\ nodes \in [Pages -> BTreeNode] /\ n_pages \in Nat
      /\ r \in Pages /\ nC \in Pages /\ nM \in Pages /\ r # nC /\ r # nM
      /\ \E mid \in [Pages -> BTreeNode] : \E m :
           /\ IsLift(nodes, mid, r, nC)
           /\ IsSplit(mid, nodes', r, nC, 1, nM, m)
      /\ ~is_internal(nodes[r].type) =>
           Half(Len(nodes[r].cells)) + 1 < Len(nodes[r].cells)
  BY PagesOfInsert
<1>2. PICK mid, m :
           /\ mid \in [Pages -> BTreeNode]
           /\ IsLift(nodes, mid, r, nC)
           /\ IsSplit(mid, nodes', r, nC, 1, nM, m)
  BY <1>1
<1>3. nM = nC + 1 /\ nC = n_pages + 1 /\ nC \in Nat
  BY <1>1
<1>4. nodes' \in [Pages -> BTreeNode]
  BY InsertKeepsPageInv DEF PageInv, TypeOK
<1>5. roots \subseteq 1 .. nC /\ r \in 1 .. nC
  <2>1. roots \subseteq 1 .. n_pages
    BY DEF Shape, Rooted
  <2>2. QED
    BY <1>1, <2>1
<1> HIDE DEF nC, nM
<1>6. /\ m \in Nat /\ m + 1 \in 1 .. Len(nodes[r].cells)
      /\ 2 * m <= Len(nodes[r].cells)
      /\ mid[nC].type = nodes[r].type /\ mid[nC].cells = nodes[r].cells
  BY <1>2 DEF IsLift, IsSplit
<1>7. Len(nodes[r].cells) \in Nat
  BY <1>1, CellTypes
<1>8. Len(nodes[r].cells) > 0
  BY <1>6, <1>7
<1>9. ~is_internal(mid[nC].type) => m + 1 < Len(mid[nC].cells)
  <2>1. Half(Len(nodes[r].cells)) + 1 < Len(nodes[r].cells)
          => m + 1 < Len(nodes[r].cells)
    BY <1>6, <1>7, BelowHalf
  <2>2. QED
    BY <1>1, <1>6, <2>1
<1>10. Lifting(nodes, mid, n_pages, nC, roots, own, ht, cov, con, r)
  BY <1>1, <1>2, <1>3, <1>8 DEF Lifting
<1>11. Shape(mid, nC, roots, own1, ht1)
  BY <1>1, <1>2, <1>3, LiftKeepsShape
<1>12. Ordered(mid, nC, roots, own1, ht1, cov1, con1)
  BY <1>10, LiftKeepsOrder
<1>13. Link(mid, r, 1, nC) /\ (is_index(mid[r].type) <=> is_index(nodes[r].type))
  <2>1. LiftedLinks(nodes, mid, r, nC)
    BY <1>1, <1>2, LiftLinks
  <2>2. QED
    BY <1>1, <1>2, <2>1 DEF LiftedLinks
<1> HIDE DEF own1, ht1, cov1, con1
<1>14. Splitting(mid, nodes', nC, nM, roots, own1, ht1, cov1, con1, r, 1, nC, m)
  BY <1>1, <1>2, <1>3, <1>4, <1>5, <1>9, <1>11, <1>12, <1>13 DEF Splitting
<1>15. QED
  BY <1>13, <1>14 DEF nC, nM, own1, ht1, cov1, con1

(* and a child's.                                                          *)
LEMMA SplitOfChild ==
  ASSUME SafeSizes, PageInv, SplitAndDescend,
         NEW own, NEW ht, NEW cov, NEW con,
         Shape(nodes, n_pages, roots, own, ht),
         Ordered(nodes, n_pages, roots, own, ht, cov, con)
  PROVE  LET here == op.npage
             pos == find_position(nodes[here], op.btc.key)
             child == ChildFor(nodes[here], op.btc.key)
         IN  \E m : Splitting(nodes, nodes', n_pages, n_pages + 1, roots,
                              own, ht, cov, con, here, pos, child, m)
<1> DEFINE here == op.npage
           pos == find_position(nodes[here], op.btc.key)
           child == ChildFor(nodes[here], op.btc.key)
           nM == n_pages + 1
<1>1. AtInternal
  BY DEF SplitAndDescend
<1>2. /\ nodes \in [Pages -> BTreeNode] /\ n_pages \in Nat
      /\ here \in 1 .. n_pages
      /\ pos \in Nat /\ Link(nodes, here, pos, child)
      /\ child \in Pages
  BY <1>1, PagesOfDescent
<1>3. /\ nM \in Pages
      /\ \E m : IsSplit(nodes, nodes', here, child, pos, nM, m)
      /\ ~is_internal(nodes[child].type) =>
           Half(Len(nodes[child].cells)) + 1 < Len(nodes[child].cells)
      /\ nodes' \in [Pages -> BTreeNode]
  BY PagesOfSplit
<1>4. PICK m : IsSplit(nodes, nodes', here, child, pos, nM, m)
  BY <1>3
<1>5. nM = n_pages + 1 /\ roots \subseteq 1 .. n_pages
  BY DEF Shape, Rooted
<1> HIDE DEF nM, pos, child
<1>6. m \in Nat /\ 2 * m <= Len(nodes[child].cells) /\ Len(nodes[child].cells) \in Nat
  BY <1>2, <1>4, CellTypes DEF IsSplit
<1>7. ~is_internal(nodes[child].type) => m + 1 < Len(nodes[child].cells)
  <2>1. Half(Len(nodes[child].cells)) + 1 < Len(nodes[child].cells)
          => m + 1 < Len(nodes[child].cells)
    BY <1>6, BelowHalf
  <2>2. QED
    BY <1>3, <2>1
<1>8. Splitting(nodes, nodes', n_pages, nM, roots, own, ht, cov, con, here, pos, child, m)
  BY <1>2, <1>3, <1>4, <1>5, <1>7 DEF Splitting
<1>9. QED
  BY <1>8 DEF nM, pos, child

(* The first step of an insert, which splits the root if it is full.       *)
LEMMA InsertKeepsKeys ==
  ASSUME SafeSizes, PageInv, NEW f, Stores(f), NEW r \in roots, NEW c \in BTreeCell,
         FitsIn(nodes[r].type, c.key), Insert(r, c)
  PROVE  Stores(f)'
<1>1. PICK own, ht, cov, con :
        KeysHold(own, ht, cov, con) /\ \A x \in roots : con[x] = f[x]
  BY DEF Stores
<1>2. /\ Shape(nodes, n_pages, roots, own, ht)
      /\ Ordered(nodes, n_pages, roots, own, ht, cov, con)
      /\ Typed(own, ht) /\ Rooted(n_pages, roots, own)
      /\ Covers(nodes, n_pages, roots, cov) /\ ContainsEntries(nodes, n_pages, roots, cov, con)
  BY <1>1 DEF KeysHold, TreesHold, Shape, Ordered
<1>3. op' = [nroot |-> r, npage |-> r, btc |-> c] /\ roots' = roots
  BY DEF Insert
<1>4. op'.npage = r /\ op'.nroot = r /\ op'.btc = c
  BY <1>3
<1>5. own[r] = r /\ cov[r] = Nat /\ c.key \in Nat
  BY <1>2 DEF Rooted, Covers, BTreeCell
<1>6. CASE UNCHANGED <<nodes, n_pages>>
  <2>1. /\ Shape(nodes', n_pages', roots', own, ht)
        /\ Ordered(nodes', n_pages', roots', own, ht, cov, con)
    BY <1>2, <1>3, <1>6
  <2>2. FitsIn(nodes'[op'.npage].type, op'.btc.key)
    BY <1>4, <1>6
  <2>3. QED
    BY <1>1, <1>3, <1>4, <1>5, <2>1, <2>2, StoresNext
<1>7. CASE /\ Full(nodes[r], c)
           /\ n_pages + 2 <= MaxPages
           /\ n_pages' = n_pages + 2
           /\ nodes' = splitRoot(nodes, r, n_pages + 1, n_pages + 2)
  <2> DEFINE nC == n_pages + 1
             nM == n_pages + 2
             own1 == [own EXCEPT ![nC] = r]
             ht1 == [ht EXCEPT ![nC] = ht[r], ![r] = ht[r] + 1]
             cov1 == LiftKeys(cov, nC)
             con1 == LiftEntries(con, r, nC)
             own2 == [own1 EXCEPT ![nM] = own1[nC]]
             ht2 == [ht1 EXCEPT ![nM] = ht1[nC]]
  <2>1. PICK mid, m :
          /\ is_index(mid[r].type) <=> is_index(nodes[r].type)
          /\ Splitting(mid, nodes', nC, nM, roots, own1, ht1, cov1, con1, r, 1, nC, m)
    BY <1>2, <1>7, SplitOfRoot
  <2> DEFINE K == mid[nC].cells[m + 1].key
             cov2 == SplitKeys(cov1, nC, nM, K)
             con2 == SplitEntries(con1, nC, nM, K)
  <2>2. /\ nM = nC + 1 /\ nC \in Nat /\ nC \in Pages /\ nM \in Pages /\ r \in Pages
        /\ r # nC /\ r # nM /\ roots \subseteq 1 .. n_pages /\ n_pages \in Nat
        /\ nC \notin roots /\ nM \notin roots /\ roots \subseteq Pages
        /\ nM = n_pages'
    <3>1. n_pages \in Nat /\ MaxPages \in Nat /\ roots \subseteq 1 .. n_pages
      BY ConstantsAssumption DEF PageInv, TypeOK, Pages
    <3>2. QED
      BY <1>7, <3>1 DEF Pages
  <2> HIDE DEF nC, nM, own1, ht1
  <2>3. Shape(nodes', nM, roots, own2, ht2)
    <3>1. /\ mid \in [Pages -> BTreeNode] /\ Shape(mid, nC, roots, own1, ht1)
          /\ r \in 1 .. nC /\ Link(mid, r, 1, nC)
          /\ IsSplit(mid, nodes', r, nC, 1, nM, m)
      BY <2>1 DEF Splitting
    <3>2. QED
      BY <2>2, <3>1, SplitKeepsShape
  <2>4. Ordered(nodes', nM, roots, own2, ht2, cov2, con2)
    BY <2>1, SplitKeepsOrder
  <2>5. /\ own \in [Pages -> Pages] /\ cov \in [Pages -> SUBSET Nat]
        /\ con \in [Pages -> SUBSET BTreeCell]
    BY <1>2 DEF Typed, Covers, ContainsEntries
  <2>6. own2[r] = r
    BY <1>5, <2>2, <2>5 DEF own1
  <2>7. cov2[r] = Nat
    BY <1>5, <2>2, <2>5 DEF LiftKeys, SplitKeys
  <2>8. \A x \in roots : con2[x] = f[x]
    <3>1. ASSUME NEW x \in roots PROVE con2[x] = con[x]
      BY <2>2, <2>5 DEF LiftEntries, SplitEntries
    <3>2. QED
      BY <1>1, <3>1
  <2>9. FitsIn(nodes'[r].type, c.key)
    <3>1. nodes'[r].type = mid[r].type
      BY <2>1 DEF Splitting, IsSplit
    <3>2. QED
      BY <2>1, <3>1 DEF FitsIn
  <2> HIDE DEF own2, ht2, cov2, con2, cov1, con1, K
  <2>10. /\ Shape(nodes', n_pages', roots', own2, ht2)
         /\ Ordered(nodes', n_pages', roots', own2, ht2, cov2, con2)
    BY <1>3, <2>2, <2>3, <2>4
  <2>11. QED
    BY <1>3, <1>4, <1>5, <2>6, <2>7, <2>8, <2>9, <2>10, StoresNext
<1>8. QED
  BY <1>6, <1>7 DEF Insert

(* A step down to a child with room.                                       *)
LEMMA DescendKeepsKeys ==
  ASSUME SafeSizes, PageInv, NEW f, Stores(f), Descend
  PROVE  Stores(f)'
<1> DEFINE here == op.npage
           key == op.btc.key
           pos == find_position(nodes[here], key)
           child == ChildFor(nodes[here], key)
<1>1. PICK own, ht, cov, con :
        KeysHold(own, ht, cov, con) /\ \A x \in roots : con[x] = f[x]
  BY DEF Stores
<1>2. /\ op \in Insertion /\ op # Idle /\ here \in 1 .. n_pages /\ key \in Nat
      /\ nodes[here] \in BTreeNode
      /\ pos \in Nat /\ Link(nodes, here, pos, child) /\ child \in Pages
  <2>1. AtInternal
    BY DEF Descend
  <2>2. QED
    BY <2>1, PagesOfDescent
<1>3. op' = [op EXCEPT !.npage = child] /\ UNCHANGED <<nodes, n_pages, roots>>
  BY DEF Descend
<1>4. SlotOf(nodes[here], key, pos)
  BY <1>2, SlotFound
<1> HIDE DEF pos, child
<1>5. op'.npage = child /\ op'.nroot = op.nroot /\ op'.btc = op.btc
  BY <1>2, <1>3, InsertionType
<1>6. /\ Shape(nodes, n_pages, roots, own, ht)
      /\ Ordered(nodes, n_pages, roots, own, ht, cov, con)
      /\ Descends(nodes, n_pages, roots, own, ht) /\ Covers(nodes, n_pages, roots, cov)
      /\ own[here] = op.nroot /\ key \in cov[here] /\ FitsIn(nodes[here].type, key)
  BY <1>1, <1>2 DEF KeysHold, TreesHold, Shape, Ordered
<1>7. own[child] = op.nroot /\ (is_index(nodes[child].type) <=> is_index(nodes[here].type))
  <2>1. here \in 1 .. n_pages /\ pos \in Nat /\ Link(nodes, here, pos, child)
    BY <1>2
  <2>2. Descends(nodes, n_pages, roots, own, ht) /\ own[here] = op.nroot
    BY <1>6
  <2>3. QED
    BY ONLY <2>1, <2>2 DEF Descends
<1>8. key \in cov[child]
  BY <1>2, <1>4, <1>6 DEF Covers
<1>9. FitsIn(nodes[child].type, key)
  BY <1>6, <1>7 DEF FitsIn
<1>10. /\ Shape(nodes', n_pages', roots', own, ht)
       /\ Ordered(nodes', n_pages', roots', own, ht, cov, con)
       /\ roots' = roots /\ nodes' = nodes
  BY <1>3, <1>6
<1>11. QED
  BY <1>1, <1>5, <1>7, <1>8, <1>9, <1>10, StoresNext

(* A step down that splits the child first.                                *)
LEMMA SplitAndDescendKeepsKeys ==
  ASSUME SafeSizes, PageInv, NEW f, Stores(f), SplitAndDescend
  PROVE  Stores(f)'
<1> DEFINE here == op.npage
           key == op.btc.key
           pos == find_position(nodes[here], key)
           child == ChildFor(nodes[here], key)
           nM == n_pages + 1
           next == ChildFor(nodes'[here], key)
           npos == find_position(nodes'[here], key)
<1>1. PICK own, ht, cov, con :
        KeysHold(own, ht, cov, con) /\ \A x \in roots : con[x] = f[x]
  BY DEF Stores
<1> DEFINE own2 == [own EXCEPT ![nM] = own[child]]
           ht2 == [ht EXCEPT ![nM] = ht[child]]
<1>2. /\ nodes \in [Pages -> BTreeNode] /\ n_pages \in Nat
      /\ op \in Insertion /\ op # Idle /\ key \in Nat
      /\ here \in 1 .. n_pages /\ here \in Pages
      /\ pos \in Nat /\ Link(nodes, here, pos, child) /\ child \in (1 .. n_pages) \ {here}
  <2>1. AtInternal
    BY DEF SplitAndDescend
  <2>2. QED
    BY <2>1, PagesOfDescent
<1>3. /\ nM \in Pages /\ here # nM
      /\ n_pages' = nM
      /\ nodes'[here] \in BTreeNode
      /\ op' = [op EXCEPT !.npage = next]
      /\ roots' = roots
  BY PagesOfSplit
<1>4. /\ Shape(nodes, n_pages, roots, own, ht)
      /\ Ordered(nodes, n_pages, roots, own, ht, cov, con)
      /\ Typed(own, ht) /\ Rooted(n_pages, roots, own)
      /\ Covers(nodes, n_pages, roots, cov) /\ ContainsEntries(nodes, n_pages, roots, cov, con)
      /\ Descends(nodes, n_pages, roots, own, ht)
      /\ own[here] = op.nroot /\ key \in cov[here] /\ FitsIn(nodes[here].type, key)
  BY <1>1, <1>2 DEF KeysHold, TreesHold, Shape, Ordered
<1>5. PICK m : Splitting(nodes, nodes', n_pages, nM, roots, own, ht, cov, con, here, pos, child, m)
  BY <1>4, SplitOfChild
<1> DEFINE K == nodes[child].cells[m + 1].key
           cov2 == SplitKeys(cov, child, nM, K)
           con2 == SplitEntries(con, child, nM, K)
<1>6. nM = n_pages + 1 /\ nM \notin 1 .. n_pages /\ here \in 1 .. nM
  BY <1>2
<1> HIDE DEF nM, pos, child
<1>7. IsSplit(nodes, nodes', here, child, pos, nM, m)
  BY <1>5 DEF Splitting
<1>8. Shape(nodes', nM, roots, own2, ht2)
  BY <1>2, <1>3, <1>4, <1>6, <1>7, SplitKeepsShape
<1>9. Ordered(nodes', nM, roots, own2, ht2, cov2, con2)
  BY <1>5, SplitKeepsOrder
<1>10. /\ own \in [Pages -> Pages] /\ cov \in [Pages -> SUBSET Nat]
       /\ con \in [Pages -> SUBSET BTreeCell]
       /\ roots \subseteq 1 .. n_pages /\ child \notin roots
  BY <1>2, <1>4 DEF Typed, Covers, ContainsEntries, Rooted, Descends
<1>11. own2[here] = op.nroot /\ cov2[here] = cov[here]
  BY <1>2, <1>3, <1>4, <1>10 DEF SplitKeys
<1>12. \A x \in roots : con2[x] = f[x]
  <2>1. ASSUME NEW x \in roots PROVE con2[x] = con[x]
    <3>1. x \in Pages /\ x # nM /\ x # child
      BY <1>2, <1>3, <1>6, <1>10, ConstantsAssumption, SMTT(30) DEF Pages
    <3>2. QED
      BY <1>10, <3>1 DEF SplitEntries
  <2>2. QED
    BY <1>1, <2>1
<1>13. nodes'[here].type = nodes[here].type /\ is_internal(nodes'[here].type)
  BY <1>2, <1>7 DEF IsSplit, Link
<1>14. /\ Link(nodes', here, npos, next) /\ npos \in Nat
       /\ SlotOf(nodes'[here], key, npos)
  BY <1>2, <1>3, <1>13, ChildLinked, SlotFound
<1> HIDE DEF own2, ht2, cov2, con2, K, next, npos
<1>15. /\ own2[next] = op.nroot /\ next \in 1 .. nM
       /\ is_index(nodes'[next].type) <=> is_index(nodes'[here].type)
  BY <1>6, <1>8, <1>11, <1>14 DEF Shape, Descends
<1>16. key \in cov2[next]
  <2>1. cov2[next] = {k \in cov2[here] : SlotOf(nodes'[here], k, npos)}
    BY <1>6, <1>9, <1>14 DEF Ordered, Covers
  <2>2. QED
    BY <1>4, <1>11, <1>14, <2>1
<1>17. FitsIn(nodes'[next].type, key)
  BY <1>4, <1>13, <1>15 DEF FitsIn
<1>18. next \in Pages
  BY <1>3, <1>15, ConstantsAssumption DEF Pages
<1>19. op'.npage = next /\ op'.nroot = op.nroot /\ op'.btc = op.btc
  BY <1>2, <1>3, <1>18, InsertionType
<1>20. /\ Shape(nodes', n_pages', roots', own2, ht2)
       /\ Ordered(nodes', n_pages', roots', own2, ht2, cov2, con2)
  BY <1>3, <1>8, <1>9
<1>21. QED
  BY <1>3, <1>12, <1>15, <1>16, <1>17, <1>19, <1>20, StoresNext

(* An insert that puts its cell in a leaf adds it to its tree.             *)
LEMMA InsertInLeafKeepsKeys ==
  ASSUME SafeSizes, PageInv, NEW f \in [Pages -> SUBSET BTreeCell], Stores(f),
         InsertInLeaf, NEW g,
         g = [f EXCEPT ![op.nroot] = @ \cup {Stored(nodes[op.npage].type, op.btc)}]
  PROVE  Stores(g)' /\ g \in [Pages -> SUBSET BTreeCell]
<1> DEFINE p == op.npage
           key == op.btc.key
           i == find_position(nodes[p], key)
           c == Stored(nodes[p].type, op.btc)
           new == insertCell(nodes[p], i, op.btc)
<1>1. PICK own, ht, cov, con :
        KeysHold(own, ht, cov, con) /\ \A x \in roots : con[x] = f[x]
  BY DEF Stores
<1>2. /\ op \in Insertion /\ op # Idle /\ op.nroot \in roots
      /\ p \in 1 .. n_pages /\ p \in Pages /\ op.btc \in BTreeCell /\ key \in Nat
      /\ nodes \in [Pages -> BTreeNode] /\ nodes[p] \in BTreeNode
      /\ n_pages \in Nat /\ 1 .. n_pages \subseteq Pages
      /\ roots \subseteq 1 .. n_pages
      /\ ~is_internal(nodes[p].type) /\ nodes[p].type \in NodeTypes
  <2>1. /\ op \in Insertion /\ op # Idle /\ nodes \in [Pages -> BTreeNode]
        /\ n_pages \in Pages /\ roots \subseteq 1 .. n_pages
        /\ op.nroot \in roots /\ p \in 1 .. n_pages
        /\ ~is_internal(nodes[p].type)
    BY DEF InsertInLeaf, AtLeaf, PageInv, TypeOK, WellLinked, Allocated
  <2>2. n_pages \in Nat /\ 1 .. n_pages \subseteq Pages
    BY <2>1, ConstantsAssumption DEF Pages
  <2>3. p \in Pages /\ op.btc \in BTreeCell /\ key \in Nat
    BY <2>1, InsertionType
  <2>4. nodes[p].type \in NodeTypes
    BY <2>1 DEF PageInv, WellLinked, Allocated
  <2>5. QED
    BY <2>1, <2>2, <2>3, <2>4
<1>3. /\ nodes' = [nodes EXCEPT ![p] = new]
      /\ op' = Idle /\ n_pages' = n_pages /\ roots' = roots
      /\ ~HoldsKey(nodes[p], key)
  BY <1>2 DEF InsertInLeaf
<1>4. nodes' \in [Pages -> BTreeNode]
  BY AtLeafKeepsPageInv DEF PageInv, TypeOK
<1>5. /\ Shape(nodes, n_pages, roots, own, ht)
      /\ Ordered(nodes, n_pages, roots, own, ht, cov, con)
      /\ Typed(own, ht) /\ Rooted(n_pages, roots, own)
      /\ Covers(nodes, n_pages, roots, cov) /\ ContainsEntries(nodes, n_pages, roots, cov, con)
      /\ own[p] = op.nroot /\ key \in cov[p] /\ FitsIn(nodes[p].type, key)
  BY <1>1, <1>2 DEF KeysHold, TreesHold, Shape, Ordered
<1>6. c \in BTreeCell /\ c.key = key
  <2>1. c \in BTreeCell
    BY <1>2, StoredType
  <2>2. c.key = key
    BY <1>5 DEF Stored, FitsIn
  <2>3. QED
    BY <2>1, <2>2
<1>7. /\ i \in 1 .. Len(nodes[p].cells) + 1
      /\ SlotOf(nodes[p], key, i)
      /\ i <= Len(nodes[p].cells) => nodes[p].cells[i].key # key
  BY <1>2, <1>3, PositionFound, SlotFound DEF HoldsKey
<1> HIDE DEF i
<1>8. /\ new.type = nodes[p].type
      /\ new.cells = InsertAt(nodes[p].cells, i, c)
  BY <1>2 DEF insertCell, BTreeNode
<1> HIDE DEF c, new
<1>9. /\ Len(new.cells) = Len(nodes[p].cells) + 1
      /\ new.cells[i] = c
      /\ \A l \in 1 .. Len(nodes[p].cells) :
           new.cells[IF l < i THEN l ELSE l + 1] = nodes[p].cells[l]
  <2>1. nodes[p].cells \in Seq(BTreeCell)
    BY <1>2, CellTypes
  <2> DEFINE cells == InsertAt(nodes[p].cells, i, c)
  <2>2. /\ Len(cells) = Len(nodes[p].cells) + 1
        /\ cells[i] = c
        /\ \A l \in 1 .. Len(nodes[p].cells) :
             cells[IF l < i THEN l ELSE l + 1] = nodes[p].cells[l]
    BY <1>6, <1>7, <2>1, InsertAtCells
  <2>3. new.cells = cells
    BY <1>8
  <2> HIDE DEF cells
  <2>4. QED
    BY <2>2, <2>3
<1>10. nodes'[p] = new /\ \A q \in Pages \ {p} : nodes'[q] = nodes[q]
  BY <1>2, <1>3
<1>11. IsPut(nodes[p], nodes'[p], i, c)
  BY <1>6, <1>7, <1>8, <1>9, <1>10 DEF IsPut
<1>12. Putting(nodes, nodes', n_pages, roots, own, ht, cov, con, p, i, c)
  BY <1>2, <1>4, <1>5, <1>6, <1>10, <1>11 DEF Putting
<1> DEFINE con2 == PutEntries(own, cov, con, p, c)
<1>13. Ordered(nodes', n_pages, roots, own, ht, cov, con2)
  BY <1>12, PutKeepsOrder
<1>14. Shape(nodes', n_pages, roots, own, ht)
  <2>1. \A q \in 1 .. n_pages :
          /\ nodes'[q].type = nodes[q].type
          /\ is_internal(nodes[q].type) => nodes'[q] = nodes[q]
    BY <1>2, <1>8, <1>10
  <2>2. QED
    BY <1>2, <1>5, <2>1, SameLinksKeepShape
<1>15. g = [f EXCEPT ![op.nroot] = @ \cup {c}] /\ op.nroot \in Pages
  BY <1>2 DEF c
<1>16. ASSUME NEW x \in roots PROVE con2[x] = g[x]
  <2>1. x \in Pages /\ own[x] = x /\ key \in cov[x] /\ con[x] = f[x]
    BY <1>1, <1>2, <1>5 DEF Rooted, Covers
  <2>2. con2[x] = IF x = op.nroot THEN con[x] \cup {c} ELSE con[x]
    BY <1>5, <1>6, <2>1 DEF PutEntries
  <2>3. g[x] = IF x = op.nroot THEN f[x] \cup {c} ELSE f[x]
    BY <1>15, <2>1
  <2>4. QED
    BY <2>1, <2>2, <2>3
<1> HIDE DEF con2
<1>17. /\ Shape(nodes', n_pages', roots', own, ht)
       /\ Ordered(nodes', n_pages', roots', own, ht, cov, con2)
       /\ \A x \in roots' : con2[x] = g[x]
  BY <1>3, <1>13, <1>14, <1>16
<1>18. Stores(g)'
  BY <1>3, <1>17, StoresNext
<1>19. g \in [Pages -> SUBSET BTreeCell]
  BY <1>6, <1>15
<1>20. QED
  BY <1>18, <1>19

(* A new tree has no entries.                                              *)
LEMMA NewTreeKeepsKeys ==
  ASSUME SafeSizes, PageInv, NEW f \in [Pages -> SUBSET BTreeCell], Stores(f),
         NEW t \in LeafTypes, NewTree(t), NEW g,
         g = [f EXCEPT ![n_pages + 1] = {}]
  PROVE  Stores(g)' /\ g \in [Pages -> SUBSET BTreeCell]
<1> DEFINE p == n_pages + 1
<1>1. PICK own, ht, cov, con :
        KeysHold(own, ht, cov, con) /\ \A x \in roots : con[x] = f[x]
  BY DEF Stores
<1>2. /\ op = Idle /\ op' = Idle
      /\ n_pages' = p /\ roots' = roots \cup {p}
      /\ nodes' = [nodes EXCEPT ![p] = initEmptyNode(p, t)]
  BY DEF NewTree
<1>3. /\ nodes \in [Pages -> BTreeNode] /\ n_pages \in Nat
      /\ roots \subseteq 1 .. n_pages /\ p \in Pages /\ p = n_pages + 1
      /\ 1 .. n_pages \subseteq Pages /\ p \notin 1 .. n_pages
  BY ConstantsAssumption DEF NewTree, PageInv, TypeOK, Pages
<1>4. /\ nodes'[p].type = t /\ Len(nodes'[p].cells) = 0
      /\ ~is_internal(t)
      /\ \A q \in 1 .. n_pages : nodes'[q] = nodes[q]
  BY <1>2, <1>3 DEF initEmptyNode, LeafTypes, is_internal,
     TABLE_LEAF, TABLE_INTERNAL, INDEX_LEAF, INDEX_INTERNAL
<1> HIDE DEF p
<1>5. /\ Shape(nodes, n_pages, roots, own, ht)
      /\ Ordered(nodes, n_pages, roots, own, ht, cov, con)
      /\ con \in [Pages -> SUBSET BTreeCell]
  BY <1>1 DEF KeysHold, TreesHold, Ordered, ContainsEntries
<1> DEFINE own2 == [own EXCEPT ![p] = p]
           ht2 == [ht EXCEPT ![p] = 0]
           cov2 == [cov EXCEPT ![p] = Nat]
           con2 == [con EXCEPT ![p] = {}]
<1>6. Growing(nodes, nodes', n_pages, roots, own, ht, cov, con, p)
  BY <1>3, <1>4, <1>5 DEF Growing
<1>7. Ordered(nodes', p, roots \cup {p}, own2, ht2, cov2, con2)
  BY <1>6, GrowKeepsOrder
<1>8. Shape(nodes', p, roots \cup {p}, own2, ht2)
  <2>1. nodes'[p].type \in NodeTypes
    BY <1>4 DEF LeafTypes, NodeTypes
  <2>2. QED
    BY <1>6, <2>1, GrowKeepsShape
<1>9. g = [f EXCEPT ![p] = {}]
  BY DEF p
<1>10. \A x \in roots \cup {p} : con2[x] = g[x]
  <2>1. \A x \in roots : x \in Pages /\ x # p /\ con[x] = f[x]
    BY <1>1, <1>3
  <2>2. QED
    BY <1>3, <1>5, <1>9, <2>1
<1> HIDE DEF own2, ht2, cov2, con2
<1>11. /\ Shape(nodes', n_pages', roots', own2, ht2)
       /\ Ordered(nodes', n_pages', roots', own2, ht2, cov2, con2)
       /\ \A x \in roots' : con2[x] = g[x]
  BY <1>2, <1>7, <1>8, <1>10
<1>12. QED
  BY <1>2, <1>3, <1>9, <1>11, StoresNext

(* A step that changes no page keeps what is stored.                       *)
LEMMA SamePagesKeepKeys ==
  ASSUME NEW f, Stores(f), UNCHANGED <<nodes, n_pages, roots>>,
         op' \in {op, Idle}
  PROVE  Stores(f)'
<1>1. PICK own, ht, cov, con :
        KeysHold(own, ht, cov, con) /\ \A x \in roots : con[x] = f[x]
  BY DEF Stores
<1>2. nodes' = nodes /\ n_pages' = n_pages /\ roots' = roots
  OBVIOUS
<1>3. /\ Shape(nodes', n_pages', roots', own, ht)
      /\ Ordered(nodes', n_pages', roots', own, ht, cov, con)
      /\ \A x \in roots' : con[x] = f[x]
  BY <1>1, <1>2 DEF KeysHold, TreesHold
<1>4. op' # Idle => /\ own[op'.npage] = op'.nroot
                    /\ op'.btc.key \in cov[op'.npage]
                    /\ FitsIn(nodes'[op'.npage].type, op'.btc.key)
  BY <1>1, <1>2 DEF KeysHold, TreesHold
<1>5. QED
  BY <1>3, <1>4, StoresNext

(* Keys of inserts are written so that they are read back.                 *)
LEMMA InsertedKeyFits ==
  ASSUME KeysFit, NEW r \in roots
  PROVE  /\ \A k \in TableKeys : FitsIn(nodes[r].type, k)
         /\ is_index(nodes[r].type) => \A k : FitsIn(nodes[r].type, k)
BY DEF KeysFit, FitsIn

(* Every step keeps the search order.                                      *)
LEMMA NextKeepsKeys ==
  SafeSizes /\ KeysFit /\ PageInv /\ KeysInv /\ [Next]_vars => KeysInv'
<1> SUFFICES ASSUME SafeSizes, KeysFit, PageInv, KeysInv, [Next]_vars
             PROVE  KeysInv'
  OBVIOUS
<1>1. PICK f \in [Pages -> SUBSET BTreeCell] : Stores(f)
  BY DEF KeysInv
<1>2. ASSUME NEW t \in LeafTypes, NewTree(t)
      PROVE  KeysInv'
  <2> DEFINE g == [f EXCEPT ![n_pages + 1] = {}]
  <2>1. PICK h : h = g
    OBVIOUS
  <2>2. Stores(h)' /\ h \in [Pages -> SUBSET BTreeCell]
    BY <1>1, <1>2, <2>1, NewTreeKeepsKeys
  <2>3. QED
    BY <2>2 DEF KeysInv
<1>3. ASSUME NEW r \in roots, NEW k \in TableKeys, NEW d \in Records, InsertInTable(r, k, d)
      PROVE  KeysInv'
  <2> DEFINE c == [key |-> k, val |-> d, child |-> 0]
  <2>1. c \in BTreeCell /\ c.key = k /\ FitsIn(nodes[r].type, c.key) /\ Insert(r, c)
    BY <1>3, InsertedCellType, InsertedKeyFits DEF InsertInTable
  <2>2. Stores(f)'
    BY <1>1, <2>1, InsertKeepsKeys
  <2>3. QED
    BY <2>2 DEF KeysInv
<1>4. ASSUME NEW r \in roots, NEW k \in IndexKeys, NEW pk \in KeyPks, InsertInIndex(r, k, pk)
      PROVE  KeysInv'
  <2> DEFINE c == [key |-> k, val |-> pk, child |-> 0]
  <2>1. c \in BTreeCell /\ FitsIn(nodes[r].type, c.key) /\ Insert(r, c)
    BY <1>4, InsertedCellType, InsertedKeyFits DEF InsertInIndex
  <2>2. Stores(f)'
    BY <1>1, <2>1, InsertKeepsKeys
  <2>3. QED
    BY <2>2 DEF KeysInv
<1>5. CASE Descend
  <2>1. Stores(f)'
    BY <1>1, <1>5, DescendKeepsKeys
  <2>2. QED
    BY <2>1 DEF KeysInv
<1>6. CASE SplitAndDescend
  <2>1. Stores(f)'
    BY <1>1, <1>6, SplitAndDescendKeepsKeys
  <2>2. QED
    BY <2>1 DEF KeysInv
<1>7. CASE RejectDuplicate
  <2>1. Stores(f)'
    BY <1>1, <1>7, SamePagesKeepKeys DEF RejectDuplicate
  <2>2. QED
    BY <2>1 DEF KeysInv
<1>8. CASE InsertInLeaf
  <2> DEFINE g == [f EXCEPT ![op.nroot] = @ \cup {Stored(nodes[op.npage].type, op.btc)}]
  <2>1. PICK h : h = g
    OBVIOUS
  <2>2. Stores(h)' /\ h \in [Pages -> SUBSET BTreeCell]
    BY <1>1, <1>8, <2>1, InsertInLeafKeepsKeys
  <2>3. QED
    BY <2>2 DEF KeysInv
<1>9. CASE UNCHANGED vars
  <2>1. Stores(f)'
    BY <1>1, <1>9, SamePagesKeepKeys DEF vars
  <2>2. QED
    BY <2>1 DEF KeysInv
<1>10. QED
  BY <1>2, <1>3, <1>4, <1>5, <1>6, <1>7, <1>8, <1>9 DEF Next, InsertNonFull

(* The trees of the file are search trees in every state, and an insert is *)
(* always at a page where a search for its key comes through.              *)
THEOREM TreesStayOrdered ==
  ASSUME SafeSizes, KeysFit
  PROVE  Spec => [](PageInv /\ KeysInv)
<1>1. Init => PageInv /\ KeysInv
  <2>1. Init => KeysInv
    <3>1. [p \in Pages |-> {}] \in [Pages -> SUBSET BTreeCell]
      OBVIOUS
    <3>2. QED
      BY <3>1, InitKeys DEF KeysInv
  <2>2. QED
    BY <2>1, InitPageInv
<1>2. PageInv /\ KeysInv /\ [Next]_vars => (PageInv /\ KeysInv)'
  BY NextKeepsPageInv, NextKeepsKeys
<1>3. QED
  BY <1>1, <1>2, PTL DEF Spec
-----------------------------------------------------------------------------
(* What the invariant says of the entries that are read.                   *)

(* The entries under an internal node are those under its children.        *)
LEMMA LeafCellsUnfold ==
  ASSUME \A p \in Allocated : Children(nodes[p]) \subseteq Allocated,
         NEW p \in Allocated, NEW c
  PROVE  c \in LeafCells(p) <=>
           IF is_internal(nodes[p].type)
           THEN \E q \in Children(nodes[p]) : c \in LeafCells(q)
           ELSE c \in CellsOf(p)
<1>1. \A q, x : x \in LeafCells(q) <=>
        \E y \in PagesUnder(q) : ~is_internal(nodes[y].type) /\ x \in CellsOf(y)
  BY DEF LeafCells
<1>2. \A y : y \in PagesUnder(p) <=>
        y = p \/ \E q \in Children(nodes[p]) : y \in PagesUnder(q)
  <2>1. PagesUnder(p) = {p} \cup UNION {PagesUnder(q) : q \in Children(nodes[p])}
    BY PagesUnderUnfolds
  <2>2. QED
    BY <2>1
<1>3. ~is_internal(nodes[p].type) => Children(nodes[p]) = {}
  BY DEF Children
<1>4. QED
  BY <1>1, <1>2, <1>3

(* The hypotheses of the lemmas that follow, spelled out.                  *)
LEMMA OrderParts ==
  ASSUME PageInv, NEW own, NEW ht, NEW cov, NEW con, KeysHold(own, ht, cov, con)
  PROVE  /\ Shape(nodes, n_pages, roots, own, ht)
         /\ \A p \in Allocated :
              /\ p \in 1 .. n_pages /\ nodes[p] \in BTreeNode /\ ht[p] \in Nat
              /\ Ascending(nodes[p])
              /\ Children(nodes[p]) \subseteq Allocated
              /\ \A q : q \in Children(nodes[p]) <=> \E i \in Nat : Link(nodes, p, i, q)
              /\ \A q \in Children(nodes[p]) : ht[p] = ht[q] + 1
              /\ \A c : c \in con[p] <=>
                   IF is_internal(nodes[p].type)
                   THEN \E q \in Children(nodes[p]) : c \in con[q]
                   ELSE c \in CellsOf(p)
              /\ \A c \in con[p] : c \in BTreeCell /\ c.key \in Nat
              /\ \A i \in Nat : \A q : Link(nodes, p, i, q) =>
                   \A c \in con[q] : SlotOf(nodes[p], c.key, i)
<1>1. /\ Shape(nodes, n_pages, roots, own, ht)
      /\ Covers(nodes, n_pages, roots, cov) /\ Sorted(nodes, n_pages)
      /\ ContainsEntries(nodes, n_pages, roots, cov, con)
  BY DEF KeysHold, TreesHold, Ordered
<1>2. SUFFICES ASSUME NEW p \in Allocated
               PROVE  /\ p \in 1 .. n_pages /\ nodes[p] \in BTreeNode /\ ht[p] \in Nat
                      /\ Ascending(nodes[p])
                      /\ Children(nodes[p]) \subseteq Allocated
                      /\ \A q : q \in Children(nodes[p])
                                  <=> \E i \in Nat : Link(nodes, p, i, q)
                      /\ \A q \in Children(nodes[p]) : ht[p] = ht[q] + 1
                      /\ \A c : c \in con[p] <=>
                           IF is_internal(nodes[p].type)
                           THEN \E q \in Children(nodes[p]) : c \in con[q]
                           ELSE c \in CellsOf(p)
                      /\ \A c \in con[p] : c \in BTreeCell /\ c.key \in Nat
                      /\ \A i \in Nat : \A q : Link(nodes, p, i, q) =>
                           \A c \in con[q] : SlotOf(nodes[p], c.key, i)
  BY <1>1
<1>3. /\ p \in 1 .. n_pages /\ p \in Pages /\ nodes[p] \in BTreeNode /\ ht[p] \in Nat
      /\ Children(nodes[p]) \subseteq Allocated
      /\ \A q \in Children(nodes[p]) : ht[p] = ht[q] + 1
      /\ Allocated = 1 .. n_pages
  <2>1. /\ Allocated = 1 .. n_pages /\ Allocated \subseteq Pages
        /\ \A x \in Allocated :
             /\ nodes[x] \in BTreeNode /\ ht[x] \in Nat
             /\ Children(nodes[x]) \subseteq Allocated \ roots
             /\ \A q \in Children(nodes[x]) : own[q] = own[x] /\ ht[x] = ht[q] + 1
    BY <1>1, ShapeParts
  <2>2. p \in 1 .. n_pages /\ p \in Pages
    BY <2>1
  <2>3. /\ nodes[p] \in BTreeNode /\ ht[p] \in Nat
        /\ Children(nodes[p]) \subseteq Allocated \ roots
        /\ \A q \in Children(nodes[p]) : ht[p] = ht[q] + 1
    BY <2>1
  <2>4. QED
    BY <2>1, <2>2, <2>3
<1>4. \A q : q \in Children(nodes[p]) <=> \E i \in Nat : Link(nodes, p, i, q)
  BY <1>3, ChildrenAreLinked
<1>5. Ascending(nodes[p])
  BY <1>1, <1>3 DEF Sorted
<1>6. \A c : c \in con[p] <=>
        IF is_internal(nodes[p].type)
        THEN \E q \in Children(nodes[p]) : c \in con[q]
        ELSE c \in CellsOf(p)
  <2>1. \A c : c \in con[p] <=> Under(nodes, con, p, c)
    BY <1>1, <1>3 DEF ContainsEntries
  <2>2. \A c : c \in CellsOf(p) <=> \E i \in 1 .. Len(nodes[p].cells) : c = nodes[p].cells[i]
    BY DEF CellsOf
  <2>3. QED
    BY <1>4, <2>1, <2>2 DEF Under
<1>7. \A c \in con[p] : c \in BTreeCell /\ c.key \in Nat
  <2>1. con[p] \subseteq BTreeCell
    BY <1>1, <1>3 DEF ContainsEntries
  <2>2. \A c \in BTreeCell : c.key \in Nat
    BY DEF BTreeCell
  <2>3. QED
    BY <2>1, <2>2
<1>8. ASSUME NEW i \in Nat, NEW q, Link(nodes, p, i, q), NEW c \in con[q]
      PROVE  SlotOf(nodes[p], c.key, i)
  <2>1. q \in 1 .. n_pages
    BY <1>3, <1>4, <1>8
  <2>2. c.key \in cov[q]
    BY <1>1, <2>1 DEF ContainsEntries
  <2>3. cov[q] = {k \in cov[p] : SlotOf(nodes[p], k, i)}
    BY <1>1, <1>3, <1>8 DEF Covers
  <2>4. QED
    BY <2>2, <2>3
<1>9. QED
  BY <1>3, <1>4, <1>5, <1>6, <1>7, <1>8

(* What con says of a page is what its leaves hold.                        *)
LEMMA LeafCellsAre ==
  ASSUME PageInv, NEW own, NEW ht, NEW cov, NEW con, KeysHold(own, ht, cov, con)
  PROVE  \A p \in Allocated : \A c : c \in LeafCells(p) <=> c \in con[p]
<1> DEFINE Bad == {p \in Allocated : ~\A c : c \in LeafCells(p) <=> c \in con[p]}
<1>1. SUFFICES ASSUME Bad # {} PROVE FALSE
  OBVIOUS
<1>2. \A p \in Allocated :
        /\ ht[p] \in Nat
        /\ Children(nodes[p]) \subseteq Allocated
        /\ \A q \in Children(nodes[p]) : ht[p] = ht[q] + 1
        /\ \A c : c \in con[p] <=>
             IF is_internal(nodes[p].type)
             THEN \E q \in Children(nodes[p]) : c \in con[q]
             ELSE c \in CellsOf(p)
  BY OrderParts
<1>3. PICK p \in Bad : \A q \in Bad : ht[p] <= ht[q]
  <2>1. \A q \in Bad : ht[q] \in Nat
    BY <1>2
  <2> HIDE DEF Bad
  <2>2. QED
    BY <1>1, <2>1, LeastRank
<1>4. ASSUME NEW q \in Children(nodes[p])
      PROVE  \A c : c \in LeafCells(q) <=> c \in con[q]
  <2>1. q \in Allocated /\ ht[p] = ht[q] + 1 /\ ht[q] \in Nat /\ ht[p] \in Nat
    BY <1>2
  <2>2. q \notin Bad
    BY <1>3, <2>1
  <2>3. QED
    BY <2>1, <2>2
<1>5. \A c : c \in LeafCells(p) <=> c \in con[p]
  <2>1. SUFFICES ASSUME NEW c PROVE c \in LeafCells(p) <=> c \in con[p]
    OBVIOUS
  <2>2. c \in LeafCells(p) <=>
          IF is_internal(nodes[p].type)
          THEN \E q \in Children(nodes[p]) : c \in LeafCells(q)
          ELSE c \in CellsOf(p)
    BY <1>2, LeafCellsUnfold
  <2>3. QED
    BY <1>2, <1>4, <2>2
<1>6. QED
  BY <1>5

(* Separators are in order, and repeat the largest entry on their left.    *)
LEMMA SeparatorsAreLargest ==
  PageInv /\ KeysInv => SeparatorIsLargestOnItsLeft
<1> SUFFICES ASSUME PageInv, KeysInv,
                    NEW p \in Allocated, is_internal(nodes[p].type),
                    NEW i \in 1 .. Len(nodes[p].cells)
             PROVE  LET sep == nodes[p].cells[i]
                    IN  /\ \A c \in LeafCells(sep.child) : c.key <= sep.key
                        /\ \E c \in LeafCells(sep.child) :
                             /\ c.key = sep.key
                             /\ is_index(nodes[p].type) => c.val = sep.val
  BY DEF SeparatorIsLargestOnItsLeft
<1>1. PICK own, ht, cov, con : KeysHold(own, ht, cov, con)
  BY DEF KeysInv, Stores
<1> DEFINE sep == nodes[p].cells[i]
<1>2. /\ nodes[p] \in BTreeNode
      /\ Children(nodes[p]) \subseteq Allocated
      /\ \A q : q \in Children(nodes[p]) <=> \E j \in Nat : Link(nodes, p, j, q)
      /\ \A j \in Nat : \A q : Link(nodes, p, j, q) =>
           \A c \in con[q] : SlotOf(nodes[p], c.key, j)
  BY <1>1, OrderParts
<1>3. Len(nodes[p].cells) \in Nat
  BY <1>2, CellTypes
<1>4. i \in 1 .. Len(nodes[p].cells) + 1 /\ i # Len(nodes[p].cells) + 1 /\ i \in Nat
  BY <1>3
<1>5. Link(nodes, p, i, sep.child)
  BY <1>4 DEF Link, child_at
<1>6. sep.child \in Allocated
  BY <1>2, <1>4, <1>5
<1>7. \A c : c \in LeafCells(sep.child) <=> c \in con[sep.child]
  BY <1>1, <1>6, LeafCellsAre
<1>8. ASSUME NEW c \in con[sep.child] PROVE c.key <= sep.key
  <2>1. SlotOf(nodes[p], c.key, i)
    BY <1>2, <1>4, <1>5
  <2>2. c.key <= KeysOf(nodes[p])[i]
    BY <1>3, <2>1 DEF SlotOf, SlotIn
  <2>3. QED
    BY <2>2 DEF KeysOf
<1>9. \E c \in con[sep.child] : c.key = sep.key /\ (is_index(nodes[p].type) => c.val = sep.val)
  <2>1. Witnessed(nodes, n_pages, con) /\ p \in 1 .. n_pages
    BY <1>1, OrderParts DEF KeysHold, Ordered
  <2>2. QED
    BY <2>1 DEF Witnessed, Repeats
<1>10. QED
  BY <1>7, <1>8, <1>9
-----------------------------------------------------------------------------
(* Where a walk down a tree ends, and what it finds there.                 *)

(* From any page it goes on from the child for the key, and ends in the    *)
(* leaf that is reached that way: the function that the definition of      *)
(* LeafFor asks for exists.                                                *)
LEMMA LeafUnfolds ==
  ASSUME NEW k,
         \A p \in Allocated :
           is_internal(nodes[p].type) => ChildFor(nodes[p], k) \in Allocated
  PROVE  \A p \in Allocated :
           LeafFor(p, k) = IF is_internal(nodes[p].type)
                           THEN LeafFor(ChildFor(nodes[p], k), k)
                           ELSE p
<1> DEFINE E == [p \in Allocated |-> IF is_internal(nodes[p].type)
                                     THEN {ChildFor(nodes[p], k)} ELSE {}]
           leaves(p) == {q \in Reach(E, Allocated, p) : ~is_internal(nodes[q].type)}
           v == [p \in Allocated |-> CHOOSE q : q \in leaves(p)]
           u == CHOOSE u : u = [p \in Allocated |->
                  IF is_internal(nodes[p].type) THEN u[ChildFor(nodes[p], k)]
                  ELSE p]
<1>1. E \in [Allocated -> SUBSET Allocated]
  OBVIOUS
<1>2. ASSUME NEW p \in Allocated
      PROVE  Reach(E, Allocated, p)
               = {p} \cup UNION {Reach(E, Allocated, q) : q \in E[p]}
  <2> HIDE DEF E
  <2>1. QED
    BY <1>1, ReachUnfolds
<1>3. ASSUME NEW p \in Allocated
      PROVE  leaves(p) = IF is_internal(nodes[p].type)
                         THEN leaves(ChildFor(nodes[p], k)) ELSE {p}
  <2>1. CASE is_internal(nodes[p].type)
    <3>1. E[p] = {ChildFor(nodes[p], k)}
      BY <2>1
    <3> HIDE DEF E
    <3>2. Reach(E, Allocated, p) = {p} \cup Reach(E, Allocated, ChildFor(nodes[p], k))
      BY <1>2, <3>1
    <3>3. QED
      BY <2>1, <3>2
  <2>2. CASE ~is_internal(nodes[p].type)
    <3>1. E[p] = {}
      BY <2>2
    <3> HIDE DEF E
    <3>2. Reach(E, Allocated, p) = {p}
      BY <1>2, <3>1
    <3>3. QED
      BY <2>2, <3>2
  <2>3. QED
    BY <2>1, <2>2
<1> HIDE DEF leaves, E
<1>4. v = [p \in Allocated |->
             IF is_internal(nodes[p].type) THEN v[ChildFor(nodes[p], k)] ELSE p]
  <2>1. ASSUME NEW p \in Allocated
        PROVE  v[p] = IF is_internal(nodes[p].type) THEN v[ChildFor(nodes[p], k)] ELSE p
    <3>1. CASE is_internal(nodes[p].type)
      <4>1. leaves(p) = leaves(ChildFor(nodes[p], k)) /\ ChildFor(nodes[p], k) \in Allocated
        BY <1>3, <3>1
      <4>2. QED
        BY <3>1, <4>1
    <3>2. CASE ~is_internal(nodes[p].type)
      <4>1. leaves(p) = {p}
        BY <1>3, <3>2
      <4>2. (CHOOSE q : q \in leaves(p)) = p
        BY <4>1
      <4>3. v[p] = CHOOSE q : q \in leaves(p)
        OBVIOUS
      <4>4. QED
        BY <3>2, <4>2, <4>3
    <3>3. QED
      BY <3>1, <3>2
  <2>2. QED
    BY <2>1
<1> HIDE DEF v
<1>5. u = [p \in Allocated |->
             IF is_internal(nodes[p].type) THEN u[ChildFor(nodes[p], k)] ELSE p]
  BY <1>4
<1>6. \A x : LeafFor(x, k) = u[x]
  BY DEF LeafFor
<1> HIDE DEF u
<1>7. ASSUME NEW p \in Allocated
      PROVE  u[p] = IF is_internal(nodes[p].type) THEN u[ChildFor(nodes[p], k)] ELSE p
  BY <1>5, Zenon
<1>8. QED
  BY <1>6, <1>7

(* A leaf's cell is found by its key, whether all cells are compared or    *)
(* the one at the key's position.                                          *)
LEMMA CellIsFound ==
  ASSUME NEW n \in BTreeNode, Ascending(n), NEW j \in 1 .. Len(n.cells)
  PROVE  /\ \A i \in 1 .. Len(n.cells) : n.cells[i].key = n.cells[j].key <=> i = j
         /\ ValueIn(n, n.cells[j].key) = n.cells[j].val
<1> DEFINE k == n.cells[j].key
<1>1. /\ Len(n.cells) \in Nat
      /\ \A i \in 1 .. Len(n.cells) : n.cells[i].key \in Nat
  BY CellTypes
<1>2. \A i, l \in 1 .. Len(n.cells) : i < l => n.cells[i].key < n.cells[l].key
  BY DEF Ascending, Ascends, KeysOf
<1>3. \A i \in 1 .. Len(n.cells) : n.cells[i].key = k => i = j
  <2>1. SUFFICES ASSUME NEW i \in 1 .. Len(n.cells), n.cells[i].key = k
                 PROVE  i = j
    OBVIOUS
  <2>2. ~(i < j) /\ ~(j < i)
    BY <1>1, <1>2, <2>1
  <2>3. QED
    BY <1>1, <2>2
<1>4. find_position(n, k) = j
  <2> DEFINE f == find_position(n, k)
  <2>1. /\ f \in 1 .. Len(n.cells) + 1
        /\ \A i \in 1 .. Len(n.cells) : i < f => n.cells[i].key < k
        /\ f <= Len(n.cells) => n.cells[f].key >= k
    BY <1>1, PositionFound
  <2> HIDE DEF f
  <2>2. ~(j < f)
    BY <1>1, <2>1
  <2>3. f <= Len(n.cells) => ~(f < j)
    BY <1>1, <1>2, <2>1
  <2>4. QED
    BY <1>1, <2>1, <2>2, <2>3 DEF f
<1>5. HoldsKey(n, k)
  BY <1>1, <1>4 DEF HoldsKey
<1>6. QED
  BY <1>3, <1>4, <1>5 DEF ValueIn

(* The leaf of page p's tree that has entry c in it.                       *)
HasEntry(p, q, c) ==
    /\ q \in Allocated /\ ~is_internal(nodes[q].type)
    /\ is_index(nodes[q].type) <=> is_index(nodes[p].type)
    /\ c \in CellsOf(q)

(* The walk from a page for an entry under it ends in the entry's leaf.    *)
LEMMA WalkEndsAtEntry ==
  ASSUME PageInv, NEW own, NEW ht, NEW cov, NEW con, KeysHold(own, ht, cov, con)
  PROVE  \A p \in Allocated : \A c \in con[p] : HasEntry(p, LeafFor(p, c.key), c)
<1> DEFINE Good(p) == \A c \in con[p] : HasEntry(p, LeafFor(p, c.key), c)
           Bad == {p \in Allocated : ~Good(p)}
<1>1. SUFFICES ASSUME Bad # {} PROVE FALSE
  OBVIOUS
<1>2. \A p \in Allocated :
        /\ nodes[p] \in BTreeNode /\ ht[p] \in Nat
        /\ Ascending(nodes[p])
        /\ Children(nodes[p]) \subseteq Allocated
        /\ \A q : q \in Children(nodes[p]) <=> \E i \in Nat : Link(nodes, p, i, q)
        /\ \A q \in Children(nodes[p]) : ht[p] = ht[q] + 1
        /\ \A c : c \in con[p] <=>
             IF is_internal(nodes[p].type)
             THEN \E q \in Children(nodes[p]) : c \in con[q]
             ELSE c \in CellsOf(p)
        /\ \A c \in con[p] : c.key \in Nat
        /\ \A i \in Nat : \A q : Link(nodes, p, i, q) =>
             \A c \in con[q] : SlotOf(nodes[p], c.key, i)
  BY OrderParts
<1>3. PICK p \in Bad : \A q \in Bad : ht[p] <= ht[q]
  <2>1. \A q \in Bad : ht[q] \in Nat
    BY <1>2
  <2> HIDE DEF Bad
  <2>2. QED
    BY <1>1, <2>1, LeastRank
<1>4. p \in Allocated
  OBVIOUS
<1>5. ASSUME NEW q \in Children(nodes[p]) PROVE Good(q)
  <2>1. q \in Allocated /\ ht[p] = ht[q] + 1 /\ ht[q] \in Nat /\ ht[p] \in Nat
    BY <1>2
  <2>2. q \notin Bad
    BY <1>3, <2>1
  <2>3. QED
    BY <2>1, <2>2
<1>6. ASSUME NEW c \in con[p] PROVE HasEntry(p, LeafFor(p, c.key), c)
  <2>1. c.key \in Nat
    BY <1>2, <1>4
  <2>2. LeafFor(p, c.key) = IF is_internal(nodes[p].type)
                            THEN LeafFor(ChildFor(nodes[p], c.key), c.key)
                            ELSE p
    <3>1. \A q \in Allocated : is_internal(nodes[q].type) =>
            ChildFor(nodes[q], c.key) \in Allocated
      BY <1>2, <2>1, ChildLinked
    <3>2. QED
      BY <1>4, <3>1, LeafUnfolds
  <2>3. CASE is_internal(nodes[p].type)
    <3>1. PICK q \in Children(nodes[p]) : c \in con[q]
      BY <1>2, <1>4, <2>3
    <3>2. PICK i \in Nat : Link(nodes, p, i, q)
      BY <1>2, <1>4, <3>1
    <3>3. SlotOf(nodes[p], c.key, i)
      BY <1>2, <1>4, <3>1, <3>2
    <3>4. i = find_position(nodes[p], c.key)
      BY <1>2, <1>4, <2>1, <3>3, SlotFound
    <3>5. q = ChildFor(nodes[p], c.key)
      BY <3>2, <3>4 DEF Link, ChildFor
    <3>6. HasEntry(q, LeafFor(q, c.key), c)
      BY <1>5, <3>1
    <3>7. is_index(nodes[q].type) <=> is_index(nodes[p].type)
      BY <1>4, <3>2 DEF KeysHold, TreesHold, Shape, Descends, Allocated
    <3>8. QED
      BY <2>2, <2>3, <3>5, <3>6, <3>7 DEF HasEntry
  <2>4. CASE ~is_internal(nodes[p].type)
    <3>1. c \in CellsOf(p)
      BY <1>2, <1>4, <2>4
    <3>2. QED
      BY <1>4, <2>2, <2>4, <3>1 DEF HasEntry
  <2>5. QED
    BY <2>3, <2>4
<1>7. QED
  BY <1>6

(* The invariant says that the walk for an entry of a tree ends in the     *)
(* leaf that holds it, and that this leaf is in order.                     *)
LEMMA WalkOfTree ==
  ASSUME PageInv, KeysInv, NEW r \in roots, NEW c \in LeafCells(r)
  PROVE  /\ HasEntry(r, LeafFor(r, c.key), c)
         /\ nodes[LeafFor(r, c.key)] \in BTreeNode
         /\ nodes[LeafFor(r, c.key)].type \in NodeTypes
         /\ Ascending(nodes[LeafFor(r, c.key)])
<1>1. PICK own, ht, cov, con : KeysHold(own, ht, cov, con)
  BY DEF KeysInv, Stores
<1>2. r \in Allocated
  BY DEF PageInv, TypeOK, Allocated
<1>3. c \in con[r]
  BY <1>1, <1>2, LeafCellsAre
<1>4. HasEntry(r, LeafFor(r, c.key), c)
  BY <1>1, <1>2, <1>3, WalkEndsAtEntry
<1>5. LeafFor(r, c.key) \in Allocated
  BY <1>4 DEF HasEntry
<1>6. \A p \in Allocated : nodes[p] \in BTreeNode /\ Ascending(nodes[p])
  BY <1>1, OrderParts
<1>7. \A p \in Allocated : nodes[p].type \in NodeTypes
  BY DEF PageInv, WellLinked
<1>8. QED
  BY <1>4, <1>5, <1>6, <1>7

(* What a tree contains is reached in it,                                  *)
LEMMA EntriesOfTreesAreReached ==
  PageInv /\ KeysInv => EveryEntryIsReached
<1> SUFFICES ASSUME PageInv, KeysInv, NEW r \in roots, NEW c \in LeafCells(r)
             PROVE  ValueIn(nodes[LeafFor(r, c.key)], c.key) = c.val
  BY DEF EveryEntryIsReached
<1> DEFINE n == nodes[LeafFor(r, c.key)]
<1>1. n \in BTreeNode /\ Ascending(n) /\ HasEntry(r, LeafFor(r, c.key), c)
  BY WalkOfTree
<1>2. PICK j \in 1 .. Len(n.cells) : c = n.cells[j]
  BY <1>1 DEF HasEntry, CellsOf
<1> HIDE DEF n
<1>3. ValueIn(n, n.cells[j].key) = n.cells[j].val
  BY <1>1, CellIsFound
<1>4. QED
  BY <1>2, <1>3 DEF n

(* and what a table contains is found in it.                               *)
LEMMA EntriesOfTablesAreFound ==
  PageInv /\ KeysInv => EveryEntryIsFound
<1> SUFFICES ASSUME PageInv, KeysInv, NEW r \in roots, ~is_index(nodes[r].type),
                    NEW c \in LeafCells(r)
             PROVE  Find(r, c.key) = c.val
  BY DEF EveryEntryIsFound
<1> DEFINE n == nodes[LeafFor(r, c.key)]
           hits == {i \in 1 .. Len(n.cells) : n.cells[i].key = c.key}
<1>1. /\ n \in BTreeNode /\ Ascending(n) /\ n.type \in NodeTypes
      /\ HasEntry(r, LeafFor(r, c.key), c)
  BY WalkOfTree
<1>2. n.type = TABLE_LEAF
  BY <1>1 DEF HasEntry, NodeTypes, is_internal, is_index
<1>3. PICK j \in 1 .. Len(n.cells) : c = n.cells[j]
  BY <1>1 DEF HasEntry, CellsOf
<1>4. Find(r, c.key) = CASE n.type = TABLE_LEAF /\ hits # {} -> n.cells[Min(hits)].val
                         [] n.type = TABLE_LEAF /\ hits = {} -> NoValue
  BY DEF Find
<1>5. hits = {j}
  <2> HIDE DEF n
  <2>1. \A i \in 1 .. Len(n.cells) : n.cells[i].key = n.cells[j].key <=> i = j
    BY <1>1, CellIsFound
  <2>2. QED
    BY <1>3, <2>1
<1>6. Len(n.cells) \in Nat
  BY <1>1, CellTypes
<1> HIDE DEF n, hits
<1>7. Min(hits) = j
  <2>1. hits \subseteq Nat /\ hits # {}
    BY <1>5, <1>6
  <2>2. Min(hits) \in hits
    BY <2>1, MinExists
  <2>3. QED
    BY <1>5, <2>2
<1>8. Find(r, c.key) = n.cells[Min(hits)].val
  BY <1>2, <1>4, <1>5
<1>9. QED
  BY <1>3, <1>7, <1>8

(* A separator is the largest entry of the subtree on its left, in every   *)
(* state of a file of any size.                                            *)
THEOREM SeparatorsStayLargest ==
  ASSUME SafeSizes, KeysFit
  PROVE  Spec => []SeparatorIsLargestOnItsLeft
<1>1. Spec => [](PageInv /\ KeysInv)
  BY TreesStayOrdered
<1>2. PageInv /\ KeysInv => SeparatorIsLargestOnItsLeft
  BY SeparatorsAreLargest
<1>3. QED
  BY <1>1, <1>2, PTL

(* An insert of a key that some leaf of the tree holds, a table's or an    *)
(* index's, would come to that leaf and be refused, at every moment of     *)
(* another insert.                                                         *)
THEOREM EntriesStayReached ==
  ASSUME SafeSizes, KeysFit
  PROVE  Spec => []EveryEntryIsReached
<1>1. Spec => [](PageInv /\ KeysInv)
  BY TreesStayOrdered
<1>2. PageInv /\ KeysInv => EveryEntryIsReached
  BY EntriesOfTreesAreReached
<1>3. QED
  BY <1>1, <1>2, PTL

(* chidb_Btree_find comes to every entry that is in a leaf of a table, at  *)
(* every moment of an insert.  Of indexes it says nothing: the code knows  *)
(* no leaf of an index.                                                    *)
THEOREM EntriesStayFound ==
  ASSUME SafeSizes, KeysFit
  PROVE  Spec => []EveryEntryIsFound
<1>1. Spec => [](PageInv /\ KeysInv)
  BY TreesStayOrdered
<1>2. PageInv /\ KeysInv => EveryEntryIsFound
  BY EntriesOfTablesAreFound
<1>3. QED
  BY <1>1, <1>2, PTL
=============================================================================
