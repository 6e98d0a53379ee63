-------------------------- MODULE PageWrites_proofs -------------------------
(***************************************************************************)
(* Theorems about module PageWrites, for every size of page and record,    *)
(* every set of keys, every number of pages, trees and crashes: the page   *)
(* writes of a call come to the nodes that the call makes, and whenever    *)
(* the process dies the pages in the file are nodes that point to pages in *)
(* the file.                                                               *)
(***************************************************************************)
EXTENDS PageWrites, BTree_proofs

-----------------------------------------------------------------------------
(* Sequences, one element after the other.                                 *)

LEMMA OneMore ==
  ASSUME NEW S, NEW s \in Seq(S), NEW x \in S
  PROVE  /\ s \o <<x>> \in Seq(S)
         /\ Len(s \o <<x>>) = Len(s) + 1
         /\ (s \o <<x>>)[Len(s) + 1] = x
         /\ \A i \in 1 .. Len(s) : (s \o <<x>>)[i] = s[i]
<1>1. <<x>> \in Seq(S) /\ Len(<<x>>) = 1 /\ <<x>>[1] = x /\ Len(s) \in Nat
  OBVIOUS
<1>2. /\ s \o <<x>> \in Seq(S)
      /\ Len(s \o <<x>>) = Len(s) + Len(<<x>>)
      /\ \A i \in 1 .. Len(s) + Len(<<x>>) :
           (s \o <<x>>)[i] = IF i <= Len(s) THEN s[i] ELSE <<x>>[i - Len(s)]
  BY <1>1, ConcatProperties
<1>3. QED
  BY <1>1, <1>2
-----------------------------------------------------------------------------
(* The file, and what writes make of it.                                   *)

(* A write past the end adds one page, any other replaces one.             *)
Grown(f, p) == IF p <= Len(f) THEN Len(f) ELSE Len(f) + 1

LEMMA FlushedPages ==
  ASSUME NEW f \in Seq(BTreeNode), NEW b \in PageWrite, b.npage <= Len(f) + 1
  PROVE  LET g == Flush(f, b)
         IN  /\ g \in Seq(BTreeNode)
             /\ Len(g) = Grown(f, b.npage)
             /\ b.npage \in 1 .. Len(g)
             /\ g[b.npage] = b.node
             /\ \A p \in 1 .. Len(g) : p # b.npage => p \in 1 .. Len(f) /\ g[p] = f[p]
             /\ \A p \in 1 .. Len(f) : p \in 1 .. Len(g)
<1> DEFINE n == Grown(f, b.npage)
           g == [p \in 1 .. n |-> IF p = b.npage THEN b.node
                                  ELSE IF p <= Len(f) THEN f[p] ELSE Zeros(p)]
<1>1. b # None /\ b.npage \in Nat /\ b.npage >= 1 /\ b.node \in BTreeNode
      /\ Len(f) \in Nat
  BY FilesAssumption, ConstantsAssumption DEF PageWrite, Pages
<1>2. n \in Nat /\ Max({Len(f), b.npage}) = n
  BY <1>1 DEF Max, Grown
<1>3. Flush(f, b) = g
  BY <1>1, <1>2 DEF Flush
<1>4. \A p \in 1 .. n : p # b.npage => p \in 1 .. Len(f) /\ g[p] = f[p]
  BY <1>1 DEF Grown
<1>5. b.npage \in 1 .. n /\ g[b.npage] = b.node /\ 1 .. Len(f) \subseteq 1 .. n
  BY <1>1 DEF Grown
<1>6. g \in [1 .. n -> BTreeNode]
  BY <1>1, <1>4, <1>5
<1>7. g \in Seq(BTreeNode) /\ Len(g) = n
  BY <1>2, <1>6
<1> HIDE DEF n, g
<1>8. QED
  BY <1>3, <1>4, <1>5, <1>7 DEF n

LEMMA NothingToFlush ==
  ASSUME NEW f
  PROVE  Flush(f, None) = f
BY DEF Flush

(* The files that writes w make of file f, one after the other.            *)
IsViews(v, f, w) ==
    /\ v = [i \in 0 .. Len(w) |-> v[i]]
    /\ v[0] = f
    /\ \A i \in 1 .. Len(w) : v[i] = Flush(v[i - 1], w[i])

ViewsOf(f, w) == CHOOSE v : IsViews(v, f, w)

Views == ViewsOf(Flushed, todo)

LEMMA LeastOf ==
  ASSUME NEW S, S \subseteq Nat, S # {}
  PROVE  \E n \in S : \A m \in S : n <= m
BY MinExists

LEMMA ViewsExist ==
  ASSUME NEW f, NEW w, Len(w) \in Nat
  PROVE  IsViews(ViewsOf(f, w), f, w)
<1> DEFINE Upto(v, n) == /\ v[0] = f
                         /\ \A i \in 1 .. n : v[i] = Flush(v[i - 1], w[i])
           S == {n \in Nat : ~ \E v : Upto(v, n)}
<1>1. ASSUME S # {}
      PROVE  FALSE
  <2>1. PICK n \in S : \A m \in S : n <= m
    BY <1>1, LeastOf
  <2>2. n # 0
    <3>1. Upto([i \in {0} |-> f], 0)
      OBVIOUS
    <3>2. QED
      BY <2>1, <3>1
  <2>3. n - 1 \in Nat /\ n - 1 \notin S
    <3>1. n \in Nat
      BY <2>1
    <3> HIDE DEF S
    <3>2. n - 1 \in Nat /\ n - 1 < n
      BY <2>2, <3>1
    <3>3. QED
      BY <2>1, <3>1, <3>2
  <2>4. PICK v : Upto(v, n - 1)
    BY <2>3
  <2> DEFINE u == [i \in 0 .. n |-> IF i = n THEN Flush(v[n - 1], w[n]) ELSE v[i]]
  <2>5. Upto(u, n)
    <3>1. u[0] = f
      BY <2>1, <2>2, <2>4
    <3>2. ASSUME NEW i \in 1 .. n
          PROVE  u[i] = Flush(u[i - 1], w[i])
      <4>1. i \in 0 .. n /\ i - 1 \in 0 .. n /\ i - 1 # n
        BY <2>1
      <4>2. u[i - 1] = v[i - 1]
        BY <4>1
      <4>3. CASE i = n
        BY <4>1, <4>2, <4>3
      <4>4. CASE i # n
        <5>1. i \in 1 .. n - 1 /\ u[i] = v[i]
          BY <2>1, <4>1, <4>4
        <5>2. v[i] = Flush(v[i - 1], w[i])
          BY <2>4, <5>1
        <5>3. QED
          BY <4>2, <5>1, <5>2
      <4>5. QED
        BY <4>3, <4>4
    <3>3. QED
      BY <3>1, <3>2
  <2> HIDE DEF u
  <2>6. QED
    BY <2>1, <2>5
<1>2. PICK v : Upto(v, Len(w))
  BY <1>1
<1> DEFINE u == [i \in 0 .. Len(w) |-> v[i]]
<1>3. IsViews(u, f, w)
  <2>1. u = [i \in 0 .. Len(w) |-> u[i]]
    OBVIOUS
  <2>2. u[0] = f
    BY <1>2
  <2>3. ASSUME NEW i \in 1 .. Len(w)
        PROVE  u[i] = Flush(u[i - 1], w[i])
    <3>1. i \in 0 .. Len(w) /\ i - 1 \in 0 .. Len(w)
      OBVIOUS
    <3>2. u[i] = v[i] /\ u[i - 1] = v[i - 1]
      BY <3>1
    <3>3. v[i] = Flush(v[i - 1], w[i])
      BY <1>2
    <3>4. QED
      BY <3>2, <3>3
  <2> HIDE DEF u
  <2>4. QED
    BY <2>1, <2>2, <2>3 DEF IsViews
<1>4. QED
  BY <1>3 DEF ViewsOf

(* They are determined by f and w.                                         *)
LEMMA ViewsUnique ==
  ASSUME NEW f, NEW w, NEW n \in Nat, n <= Len(w), Len(w) \in Nat,
         NEW u, u[0] = f, \A i \in 1 .. n : u[i] = Flush(u[i - 1], w[i])
  PROVE  \A i \in 0 .. n : ViewsOf(f, w)[i] = u[i]
<1> DEFINE v == ViewsOf(f, w)
           S == {i \in 0 .. n : v[i] # u[i]}
<1>1. v[0] = f /\ \A i \in 1 .. Len(w) : v[i] = Flush(v[i - 1], w[i])
  BY ViewsExist DEF IsViews
<1> HIDE DEF v
<1>2. SUFFICES ASSUME S # {} PROVE FALSE
  BY DEF v
<1>3. PICK i \in S : \A j \in S : i <= j
  <2>1. S \subseteq Nat
    OBVIOUS
  <2> HIDE DEF S
  <2>2. QED
    BY <1>2, <2>1, LeastOf
<1>4. i # 0 /\ i \in 0 .. n /\ v[i] # u[i]
  BY <1>1, <1>3
<1>5. i - 1 \in 0 .. n /\ i - 1 \notin S /\ i \in 1 .. n /\ i \in 1 .. Len(w)
  BY <1>3, <1>4
<1>6. v[i - 1] = u[i - 1]
  BY <1>5
<1>7. QED
  BY <1>1, <1>4, <1>5, <1>6

(* The first of the writes made, the rest make the same files.             *)
LEMMA ViewsAfterFirst ==
  ASSUME NEW f, NEW w \in Seq(PageWrite), w # << >>
  PROVE  /\ Len(Tail(w)) = Len(w) - 1 /\ Len(w) \in Nat /\ Len(w) >= 1
         /\ \A i \in 0 .. Len(w) - 1 :
              ViewsOf(Flush(f, Head(w)), Tail(w))[i] = ViewsOf(f, w)[i + 1]
<1> DEFINE v == ViewsOf(f, w)
           u == [i \in 0 .. Len(w) - 1 |-> v[i + 1]]
           t == Tail(w)
<1>1. /\ Len(w) \in Nat /\ Len(w) >= 1 /\ Len(t) = Len(w) - 1 /\ Head(w) = w[1]
      /\ \A i \in 1 .. Len(w) - 1 : t[i] = w[i + 1]
  OBVIOUS
<1> HIDE DEF t
<1>2. v[0] = f /\ \A i \in 1 .. Len(w) : v[i] = Flush(v[i - 1], w[i])
  <2>1. Len(w) \in Nat
    BY <1>1
  <2>2. QED
    BY ONLY <2>1, ViewsExist DEF IsViews
<1> HIDE DEF v
<1>3. u[0] = Flush(f, Head(w))
  BY <1>1, <1>2
<1>4. ASSUME NEW i \in 1 .. Len(w) - 1
      PROVE  u[i] = Flush(u[i - 1], t[i])
  <2>1. i + 1 \in 1 .. Len(w) /\ i - 1 \in 0 .. Len(w) - 1 /\ (i + 1) - 1 = i
        /\ (i - 1) + 1 = i /\ i \in 0 .. Len(w) - 1
    BY <1>1
  <2>2. v[i + 1] = Flush(v[i], w[i + 1])
    BY <1>2, <2>1
  <2>3. u[i] = v[i + 1] /\ u[i - 1] = v[i]
    BY <2>1
  <2>4. QED
    BY <1>1, <2>2, <2>3
<1>5. \A i \in 0 .. Len(w) - 1 : ViewsOf(Flush(f, Head(w)), t)[i] = u[i]
  <2> DEFINE g == Flush(f, Head(w))
             n == Len(w) - 1
  <2>1. n \in Nat /\ n <= Len(t) /\ Len(t) \in Nat
    BY <1>1
  <2>2. \A i \in 1 .. n : u[i] = Flush(u[i - 1], t[i])
    BY <1>4
  <2>3. u[0] = g
    BY <1>3
  <2> HIDE DEF u, g, n
  <2>4. \A i \in 0 .. n : ViewsOf(g, t)[i] = u[i]
    BY <2>1, <2>2, <2>3, ViewsUnique
  <2>5. QED
    BY <2>4 DEF g, n
<1>6. QED
  BY <1>1, <1>5 DEF t, v

(* Two runs of writes, one after the other.                                *)
LEMMA ViewsOfTwo ==
  ASSUME NEW f, NEW a \in Seq(PageWrite), NEW b \in Seq(PageWrite)
  PROVE  /\ a \o b \in Seq(PageWrite) /\ Len(a \o b) = Len(a) + Len(b)
         /\ \A i \in 0 .. Len(a) : ViewsOf(f, a \o b)[i] = ViewsOf(f, a)[i]
         /\ \A i \in 0 .. Len(b) :
              ViewsOf(f, a \o b)[Len(a) + i] = ViewsOf(ViewsOf(f, a)[Len(a)], b)[i]
<1> DEFINE w == a \o b
           v == ViewsOf(f, w)
           g == ViewsOf(f, a)[Len(a)]
           u == [i \in 0 .. Len(b) |-> v[Len(a) + i]]
<1>1. /\ w \in Seq(PageWrite) /\ Len(w) = Len(a) + Len(b)
      /\ Len(a) \in Nat /\ Len(b) \in Nat
      /\ \A i \in 1 .. Len(a) + Len(b) :
           w[i] = IF i <= Len(a) THEN a[i] ELSE b[i - Len(a)]
  BY ConcatProperties
<1> HIDE DEF w
<1>2. v[0] = f /\ \A i \in 1 .. Len(w) : v[i] = Flush(v[i - 1], w[i])
  <2>1. Len(w) \in Nat
    BY <1>1
  <2>2. QED
    BY <2>1, ViewsExist DEF IsViews
<1> HIDE DEF v
<1>3. \A i \in 0 .. Len(a) : ViewsOf(f, a)[i] = v[i]
  <2>1. ASSUME NEW i \in 1 .. Len(a)
        PROVE  v[i] = Flush(v[i - 1], a[i])
    <3>1. i \in 1 .. Len(w) /\ w[i] = a[i]
      BY <1>1
    <3>2. QED
      BY <1>2, <3>1
  <2> DEFINE n == Len(a)
  <2>2. n \in Nat /\ n <= Len(a) /\ Len(a) \in Nat /\ v[0] = f
        /\ \A i \in 1 .. n : v[i] = Flush(v[i - 1], a[i])
    BY <1>1, <1>2, <2>1
  <2> HIDE DEF n
  <2>3. \A i \in 0 .. n : ViewsOf(f, a)[i] = v[i]
    BY ONLY <2>2, ViewsUnique
  <2>4. QED
    BY <2>3 DEF n
<1>4. \A i \in 0 .. Len(b) : ViewsOf(g, b)[i] = u[i]
  <2>1. u[0] = g
    BY <1>1, <1>3
  <2>2. ASSUME NEW i \in 1 .. Len(b)
        PROVE  u[i] = Flush(u[i - 1], b[i])
    <3>1. /\ Len(a) + i \in 1 .. Len(w) /\ i \in 0 .. Len(b) /\ i - 1 \in 0 .. Len(b)
          /\ (Len(a) + i) - 1 = Len(a) + (i - 1) /\ (Len(a) + i) - Len(a) = i
          /\ ~(Len(a) + i <= Len(a))
      BY <1>1
    <3>2. v[Len(a) + i] = Flush(v[(Len(a) + i) - 1], w[Len(a) + i])
      BY <1>2, <3>1
    <3>3. w[Len(a) + i] = b[i]
      BY <1>1, <3>1
    <3>4. u[i] = v[Len(a) + i] /\ u[i - 1] = v[(Len(a) + i) - 1]
      BY <3>1
    <3>5. QED
      BY <3>2, <3>3, <3>4
  <2> HIDE DEF u, g
  <2>3. QED
    BY <1>1, <2>1, <2>2, ViewsUnique
<1>5. QED
  BY <1>1, <1>3, <1>4 DEF w, v, g
-----------------------------------------------------------------------------
(* The pages of a file, and those of the nodes.                            *)

(* The file is pages 1 to n of ns.                                         *)
Holds(f, ns, n) ==
    f \in Seq(BTreeNode) /\ Len(f) = n /\ \A p \in 1 .. n : f[p] = ns[p]

(* A write puts a node in its page.                                        *)
PutIn(ns, p, node) == [ns EXCEPT ![p] = node]

PutFits(n, p, m) ==
    /\ n \in Nat
    /\ \/ m = n /\ p <= n
       \/ m = n + 1 /\ p = m

LEMMA PagePut ==
  ASSUME NEW ns \in [Pages -> BTreeNode], NEW n, NEW f, Holds(f, ns, n),
         NEW p \in Pages, NEW node \in BTreeNode, NEW m, PutFits(n, p, m)
  PROVE  /\ PutIn(ns, p, node) \in [Pages -> BTreeNode]
         /\ Holds(Flush(f, Write(p, node)), PutIn(ns, p, node), m)
<1> DEFINE b == Write(p, node)
           g == Flush(f, b)
           new == [ns EXCEPT ![p] = node]
<1>1. b \in PageWrite /\ b.npage = p /\ b.node = node
  BY DEF Write, PageWrite
<1>0. n \in Nat
  BY DEF PutFits
<1>2. f \in Seq(BTreeNode) /\ Len(f) = n /\ \A q \in 1 .. n : f[q] = ns[q]
  BY DEF Holds
<1>3. /\ g \in Seq(BTreeNode) /\ Len(g) = Grown(f, p)
      /\ p \in 1 .. Len(g) /\ g[p] = node
      /\ \A q \in 1 .. Len(g) : q # p => q \in 1 .. Len(f) /\ g[q] = f[q]
  <2> HIDE DEF b
  <2>1. b.npage <= Len(f) + 1
    BY <1>0, <1>1, <1>2 DEF PutFits
  <2>2. QED
    BY <1>1, <1>2, <2>1, FlushedPages
<1>4. p \in Nat /\ MaxPages \in Nat
  BY ConstantsAssumption DEF Pages
<1> HIDE DEF g, b
<1>5. ASSUME NEW q \in 1 .. Len(g)
      PROVE  g[q] = new[q]
  <2>1. CASE q = p
    BY <1>3, <2>1
  <2>2. CASE q # p
    BY <1>2, <1>3, <2>2
  <2>3. QED
    BY <2>1, <2>2
<1>6. new \in [Pages -> BTreeNode]
  OBVIOUS
<1> HIDE DEF new
<1>7. Len(g) = m
  BY <1>2, <1>3, <1>4 DEF Grown, PutFits
<1>8. QED
  BY <1>3, <1>5, <1>6, <1>7 DEF Holds, PutIn, b, g, new

LEMMA PutTwice ==
  ASSUME NEW ns \in [Pages -> BTreeNode], NEW p \in Pages, NEW a, NEW b
  PROVE  PutIn(PutIn(ns, p, a), p, b) = PutIn(ns, p, b)
BY DEF PutIn

LEMMA SamePagesHold ==
  ASSUME NEW f, NEW ns, NEW n, Holds(f, ns, n), NEW new,
         \A p \in 1 .. n : new[p] = ns[p]
  PROVE  Holds(f, new, n)
BY DEF Holds

(* What writes w make of f.                                                *)
LEMMA FirstViews ==
  ASSUME NEW f, NEW w, Len(w) \in Nat
  PROVE  /\ ViewsOf(f, w)[0] = f
         /\ \A i \in 1 .. Len(w) :
              ViewsOf(f, w)[i] = Flush(ViewsOf(f, w)[i - 1], w[i])
BY ViewsExist DEF IsViews
-----------------------------------------------------------------------------
(* Sound nodes.                                                            *)

LEMMA SoundInLargerFile ==
  ASSUME NEW p, NEW n, NEW c \in Nat, NEW d \in Nat, c <= d, SoundNode(p, n, c)
  PROVE  SoundNode(p, n, d)
BY DEF SoundNode

LEMMA GoodIsSound ==
  ASSUME NEW p, NEW n, NEW c, GoodNode(p, n, c)
  PROVE  SoundNode(p, n, c)
BY DEF GoodNode, SoundNode

LEMMA EmptyNodeType ==
  \A p \in Pages, t \in NodeTypes \cup {Unallocated} : initEmptyNode(p, t) \in BTreeNode
<1> SUFFICES ASSUME NEW p \in Pages, NEW t \in NodeTypes \cup {Unallocated}
             PROVE  initEmptyNode(p, t) \in BTreeNode
  OBVIOUS
<1>1. node_header_base(p) + node_header_size(t) \in Nat /\ PageSize \in Nat /\ 0 \in 0 .. MaxPages
  BY ConstantsAssumption DEF node_header_base, node_header_size
<1>2. \A n \in Nat : Word16(n) \in Nat
  BY DEF Word16
<1>3. << >> \in Seq(BTreeCell)
  OBVIOUS
<1> DEFINE free == Word16(node_header_base(p) + node_header_size(t))
           cells == Word16(PageSize)
<1>4. free \in Nat /\ cells \in Nat
  BY <1>1, <1>2
<1> HIDE DEF free, cells
<1>5. [type |-> t, free_offset |-> free, cells_offset |-> cells,
       cells |-> << >>, right_page |-> 0] \in BTreeNode
  BY <1>1, <1>3, <1>4 DEF BTreeNode
<1>6. QED
  BY <1>5 DEF initEmptyNode, free, cells

LEMMA BlankIsSound ==
  ASSUME SafeSizes, NEW p \in Pages, NEW t \in NodeTypes, NEW c \in Nat
  PROVE  /\ initEmptyNode(p, t) \in BTreeNode
         /\ initEmptyNode(p, t).type = t
         /\ initEmptyNode(p, t).cells = << >>
         /\ initEmptyNode(p, t).right_page = 0
         /\ SoundNode(p, initEmptyNode(p, t), c)
<1> DEFINE n == initEmptyNode(p, t)
           new == [n EXCEPT !.right_page = 0]
<1>1. new = n
  BY DEF initEmptyNode
<1>2. 0 \in 0 .. MaxPages
  BY ConstantsAssumption
<1>3. /\ new \in BTreeNode /\ Layout(p, new)
      /\ new.type = t /\ new.cells = << >> /\ new.right_page = 0
  BY <1>2, EmptyNodeLayout
<1> HIDE DEF n, new
<1>4. SoundNode(p, n, c)
  <2>1. CASE is_internal(t)
    BY <1>1, <1>3, <2>1 DEF SoundNode, Blank
  <2>2. CASE ~is_internal(t)
    BY <1>1, <1>3, <2>2 DEF SoundNode, Children
  <2>3. QED
    BY <2>1, <2>2
<1>5. QED
  BY <1>1, <1>3, <1>4 DEF n

(* A sound node that is full, or leads to a page, is good.                 *)
LEMMA FullIsGood ==
  ASSUME SafeSizes, NEW p \in Pages, NEW n \in BTreeNode, NEW count,
         SoundNode(p, n, count), n.type # Unallocated,
         NEW c \in BTreeCell, Full(n, c)
  PROVE  GoodNode(p, n, count) /\ Crowded(n)
<1>1. n.type \in NodeTypes /\ Layout(p, n)
  BY DEF SoundNode, Zeros, initEmptyNode
<1>2. Crowded(n)
  BY <1>1, FullIsCrowded
<1>3. n.cells # << >>
  <2>1. SUFFICES ASSUME n.cells = << >> PROVE FALSE
    OBVIOUS
  <2>2. Len(n.cells) = 0
    BY <2>1
  <2>3. 0 \in Nat /\ 2 * 0 <= Len(n.cells) /\ Len(n.cells) <= 2 * 0 + 1
    BY <2>2
  <2>4. \E cut \in Nat : cut = IF is_internal(n.type) THEN 0 ELSE 0 + 1
    OBVIOUS
  <2>5. 0 + 1 \in 1 .. Len(n.cells)
    BY <1>1, <1>2, <2>3, <2>4, HalvesFit
  <2>6. QED
    BY <2>2, <2>5
<1>4. QED
  BY <1>1, <1>2, <1>3 DEF SoundNode, GoodNode, Blank, Zeros, initEmptyNode

LEMMA LinkedIsGood ==
  ASSUME NEW p, NEW n \in BTreeNode, NEW count, SoundNode(p, n, count),
         is_internal(n.type), NEW key \in Nat, ChildFor(n, key) # 0
  PROVE  GoodNode(p, n, count)
<1>1. n.type # Unallocated
  BY DEF is_internal, Unallocated, TABLE_INTERNAL, INDEX_INTERNAL
<1>2. ASSUME Blank(n)
      PROVE  FALSE
  <2>1. Len(n.cells) = 0 /\ n.right_page = 0
    BY <1>2 DEF Blank
  <2>2. find_position(n, key) \in 1 .. Len(n.cells) + 1
    BY PositionFound
  <2>3. find_position(n, key) = Len(n.cells) + 1
    BY <2>1, <2>2
  <2>4. QED
    BY <2>1, <2>3 DEF ChildFor, child_at
<1>3. n.type \in NodeTypes /\ Layout(p, n) /\ Children(n) \subseteq (1 .. count) \ {p}
  BY <1>1, <1>2 DEF SoundNode, Zeros, initEmptyNode
<1>4. QED
  BY <1>3 DEF GoodNode

(* Nodes that are sound, and the file of them.                             *)
SoundNodes(ns, n) == \A p \in 1 .. n : SoundNode(p, ns[p], n)

LEMMA SoundPagesMakeSoundFile ==
  ASSUME NEW f, NEW ns, NEW n \in Pages, Holds(f, ns, n), SoundNodes(ns, n)
  PROVE  SoundFile(f)
<1>1. n \in Nat /\ n >= 1 /\ n <= MaxPages
  BY ConstantsAssumption DEF Pages
<1>2. f # << >>
  BY <1>1 DEF Holds
<1>3. QED
  BY <1>1, <1>2 DEF Holds, SoundNodes, SoundFile

LEMMA SoundPagePut ==
  ASSUME NEW ns \in [Pages -> BTreeNode], NEW n \in Nat, NEW m \in Nat, n <= m,
         \A p \in 1 .. n : SoundNode(p, ns[p], n),
         NEW p \in Pages, NEW node, SoundNode(p, node, m),
         \A q \in 1 .. m : q # p => q \in 1 .. n /\ q \in Pages
  PROVE  SoundNodes([ns EXCEPT ![p] = node], m)
<1>1. SUFFICES ASSUME NEW q \in 1 .. m
               PROVE  SoundNode(q, [ns EXCEPT ![p] = node][q], m)
  BY DEF SoundNodes
<1>2. CASE q = p
  BY <1>2
<1>3. CASE q # p
  <2>1. q \in 1 .. n /\ [ns EXCEPT ![p] = node][q] = ns[q]
    BY <1>3
  <2>2. SoundNode(q, ns[q], n)
    BY <2>1
  <2>3. QED
    BY <2>1, <2>2, SoundInLargerFile
<1>4. QED
  BY <1>2, <1>3
-----------------------------------------------------------------------------
(* The writes of a split.                                                  *)

LEMMA TwoWrites ==
  ASSUME NEW a \in PageWrite, NEW b \in PageWrite
  PROVE  <<a, b>> = <<a>> \o <<b>>
<1> DEFINE s == <<a>>
           t == s \o <<b>>
           u == <<a, b>>
<1>1. s \in Seq(PageWrite)
  OBVIOUS
<1>2. Len(s) = 1 /\ s[1] = a
  OBVIOUS
<1> HIDE DEF s
<1>3. /\ t \in Seq(PageWrite) /\ Len(t) = Len(s) + 1 /\ t[Len(s) + 1] = b
      /\ \A i \in 1 .. Len(s) : t[i] = s[i]
  BY <1>1, OneMore
<1>4. u \in Seq(PageWrite)
  OBVIOUS
<1>5. Len(u) = 2 /\ u[1] = a /\ u[2] = b
  OBVIOUS
<1> HIDE DEF t, u
<1>6. Len(t) = 2 /\ t[1] = a /\ t[2] = b
  BY <1>2, <1>3
<1>7. Len(u) = Len(t) /\ \A i \in 1 .. Len(u) : u[i] = t[i]
  BY <1>5, <1>6
<1>8. u = t
  BY <1>3, <1>4, <1>7, SeqEqual
<1>9. QED
  BY <1>8 DEF u, t, s

LEMMA FourWrites ==
  ASSUME NEW a \in PageWrite, NEW b \in PageWrite, NEW c \in PageWrite, NEW d \in PageWrite
  PROVE  LET w == <<a>> \o <<b>> \o <<c>> \o <<d>>
         IN  /\ w \in Seq(PageWrite) /\ Len(w) = 4
             /\ w[1] = a /\ w[2] = b /\ w[3] = c /\ w[4] = d
<1> DEFINE w1 == <<a>>
           w2 == w1 \o <<b>>
           w3 == w2 \o <<c>>
           w4 == w3 \o <<d>>
<1>0. w1 \in Seq(PageWrite)
  OBVIOUS
<1>1. Len(w1) = 1 /\ w1[1] = a
  OBVIOUS
<1> HIDE DEF w1
<1>2. /\ w2 \in Seq(PageWrite) /\ Len(w2) = Len(w1) + 1 /\ w2[Len(w1) + 1] = b
      /\ \A i \in 1 .. Len(w1) : w2[i] = w1[i]
  BY <1>0, OneMore
<1> HIDE DEF w2
<1>3. Len(w2) = 2 /\ w2[1] = a /\ w2[2] = b
  BY <1>1, <1>2
<1>4. /\ w3 \in Seq(PageWrite) /\ Len(w3) = Len(w2) + 1 /\ w3[Len(w2) + 1] = c
      /\ \A i \in 1 .. Len(w2) : w3[i] = w2[i]
  BY <1>2, OneMore
<1> HIDE DEF w3
<1>5. Len(w3) = 3 /\ w3[1] = a /\ w3[2] = b /\ w3[3] = c
  BY <1>3, <1>4
<1>6. /\ w4 \in Seq(PageWrite) /\ Len(w4) = Len(w3) + 1 /\ w4[Len(w3) + 1] = d
      /\ \A i \in 1 .. Len(w3) : w4[i] = w3[i]
  BY <1>4, OneMore
<1> HIDE DEF w4
<1>7. Len(w4) = 4 /\ w4[1] = a /\ w4[2] = b /\ w4[3] = c /\ w4[4] = d
  BY <1>5, <1>6
<1>8. QED
  BY <1>6, <1>7 DEF w4, w3, w2, w1

LEMMA FiveWrites ==
  ASSUME NEW a \in PageWrite, NEW b \in PageWrite, NEW c \in PageWrite, NEW d \in PageWrite,
         NEW e \in PageWrite
  PROVE  LET w == <<a>> \o <<b>> \o <<c>> \o <<d>> \o <<e>>
         IN  /\ w \in Seq(PageWrite) /\ Len(w) = 5
             /\ w[1] = a /\ w[2] = b /\ w[3] = c /\ w[4] = d /\ w[5] = e
<1> DEFINE w4 == <<a>> \o <<b>> \o <<c>> \o <<d>>
           w5 == w4 \o <<e>>
<1>1. w4 \in Seq(PageWrite)
  BY FourWrites
<1>2. Len(w4) = 4 /\ w4[1] = a /\ w4[2] = b /\ w4[3] = c /\ w4[4] = d
  BY FourWrites
<1> HIDE DEF w4
<1>3. /\ w5 \in Seq(PageWrite) /\ Len(w5) = Len(w4) + 1 /\ w5[Len(w4) + 1] = e
      /\ \A i \in 1 .. Len(w4) : w5[i] = w4[i]
  BY <1>1, OneMore
<1> HIDE DEF w5
<1>4. /\ Len(w5) = 5
      /\ w5[1] = a /\ w5[2] = b /\ w5[3] = c /\ w5[4] = d /\ w5[5] = e
  BY <1>2, <1>3
<1>5. QED
  BY <1>3, <1>4 DEF w5, w4

(* The nodes while a split is written: the new page blank and then with    *)
(* the lower half, the old page blank and then with the upper half, the    *)
(* separator in the parent.                                                *)
SplitStage(ns, new, child, nM, k) ==
    LET t == ns[child].type
        low == [ns EXCEPT ![nM] = new[nM]]
    IN  CASE k = 0 -> ns
          [] k = 1 -> [ns EXCEPT ![nM] = initEmptyNode(nM, t)]
          [] k = 2 -> low
          [] k = 3 -> [low EXCEPT ![child] = initEmptyNode(child, t)]
          [] k = 4 -> [low EXCEPT ![child] = new[child]]
          [] k = 5 -> new

SplitViewsHold(f, ns, new, parent, child, i, count, nM) ==
    LET w == SplitWrites(ns, parent, child, i, nM)
    IN  /\ w \in Seq(PageWrite) /\ Len(w) = 5
        /\ \A k \in 0 .. 5 :
             Holds(ViewsOf(f, w)[k], SplitStage(ns, new, child, nM, k),
                   IF k = 0 THEN count ELSE nM)

LEMMA SplitViews ==
  ASSUME SafeSizes, NEW ns \in [Pages -> BTreeNode],
         NEW count \in Nat, NEW nM \in Pages, nM = count + 1,
         NEW f, Holds(f, ns, count),
         NEW parent \in 1 .. count, NEW child \in 1 .. count, child # parent,
         NEW i, NEW new \in [Pages -> BTreeNode],
         new = split(ns, parent, child, i, nM),
         ns[child].type \in NodeTypes,
         \A q \in Pages \ {parent, child, nM} : new[q] = ns[q]
  PROVE  SplitViewsHold(f, ns, new, parent, child, i, count, nM)
<1> DEFINE t == ns[child].type
           w == SplitWrites(ns, parent, child, i, nM)
           v == ViewsOf(f, w)
           e1 == initEmptyNode(nM, t)
           e2 == initEmptyNode(child, t)
           n1 == PutIn(ns, nM, e1)
           n2 == PutIn(ns, nM, new[nM])
           n3 == PutIn(n2, child, e2)
           n4 == PutIn(n2, child, new[child])
           n5 == PutIn(n4, parent, new[parent])
<1>1. /\ parent \in Pages /\ child \in Pages /\ child \in Nat /\ parent \in Nat
      /\ nM # parent /\ nM # child /\ child <= nM /\ parent <= nM /\ nM \in Nat
  BY ConstantsAssumption DEF Pages
<1>2. e1 \in BTreeNode /\ e2 \in BTreeNode
  BY <1>1, BlankIsSound
<1>3. new[nM] \in BTreeNode /\ new[child] \in BTreeNode /\ new[parent] \in BTreeNode
  BY <1>1
<1>4. w = <<Write(nM, e1)>> \o <<Write(nM, new[nM])>> \o <<Write(child, e2)>>
            \o <<Write(child, new[child])>> \o <<Write(parent, new[parent])>>
  BY DEF SplitWrites, newNode
<1>5. /\ Write(nM, e1) \in PageWrite /\ Write(nM, new[nM]) \in PageWrite
      /\ Write(child, e2) \in PageWrite /\ Write(child, new[child]) \in PageWrite
      /\ Write(parent, new[parent]) \in PageWrite
  BY <1>1, <1>2, <1>3 DEF Write, PageWrite
<1> HIDE DEF w, e1, e2
<1>6. /\ w \in Seq(PageWrite) /\ Len(w) = 5
      /\ w[1] = Write(nM, e1) /\ w[2] = Write(nM, new[nM])
      /\ w[3] = Write(child, e2) /\ w[4] = Write(child, new[child])
      /\ w[5] = Write(parent, new[parent])
  BY <1>4, <1>5, FiveWrites
<1>7. v[0] = f /\ \A k \in 1 .. 5 : v[k] = Flush(v[k - 1], w[k])
  <2>1. Len(w) \in Nat
    BY <1>6
  <2>2. v[0] = f /\ \A k \in 1 .. Len(w) : v[k] = Flush(v[k - 1], w[k])
    BY ONLY <2>1, FirstViews
  <2> HIDE DEF v
  <2>3. QED
    BY <1>6, <2>2
<1> HIDE DEF v
<1>8. /\ v[1] = Flush(f, Write(nM, e1)) /\ v[2] = Flush(v[1], Write(nM, new[nM]))
      /\ v[3] = Flush(v[2], Write(child, e2)) /\ v[4] = Flush(v[3], Write(child, new[child]))
      /\ v[5] = Flush(v[4], Write(parent, new[parent]))
  BY <1>6, <1>7
<1>f. /\ PutFits(count, nM, nM) /\ PutFits(nM, nM, nM)
      /\ PutFits(nM, child, nM) /\ PutFits(nM, parent, nM)
  BY <1>1 DEF PutFits
<1>p. /\ ns \in [Pages -> BTreeNode] /\ Holds(f, ns, count)
      /\ nM \in Pages /\ child \in Pages /\ parent \in Pages
  BY <1>1
<1>9. n1 \in [Pages -> BTreeNode] /\ Holds(v[1], n1, nM)
  BY ONLY <1>2, <1>8, <1>f, <1>p, PagePut
<1>10. n2 \in [Pages -> BTreeNode] /\ Holds(v[2], n2, nM)
  <2>1. PutIn(n1, nM, new[nM]) = n2
    BY PutTwice
  <2> HIDE DEF n1
  <2>2. QED
    BY ONLY <1>3, <1>8, <1>9, <2>1, <1>f, <1>p, PagePut
<1> HIDE DEF n1, n2
<1>11. n3 \in [Pages -> BTreeNode] /\ Holds(v[3], n3, nM)
  BY ONLY <1>2, <1>8, <1>10, <1>f, <1>p, PagePut
<1>12. n4 \in [Pages -> BTreeNode] /\ Holds(v[4], n4, nM)
  <2>1. PutIn(n3, child, new[child]) = n4
    BY <1>1, <1>10, PutTwice
  <2> HIDE DEF n3
  <2>2. QED
    BY ONLY <1>3, <1>8, <1>11, <2>1, <1>f, <1>p, PagePut
<1>13. n5 \in [Pages -> BTreeNode] /\ Holds(v[5], n5, nM)
  <2> HIDE DEF n4
  <2>1. QED
    BY ONLY <1>3, <1>8, <1>12, <1>f, <1>p, PagePut
<1>14. n5 = new
  BY <1>1, <1>10, <1>12 DEF n2, PutIn
<1>15. Holds(v[0], ns, count)
  BY <1>7
<1> HIDE DEF n3, n4, n5
<1>16. /\ SplitStage(ns, new, child, nM, 0) = ns
       /\ SplitStage(ns, new, child, nM, 1) = n1
       /\ SplitStage(ns, new, child, nM, 2) = n2
       /\ SplitStage(ns, new, child, nM, 3) = n3
       /\ SplitStage(ns, new, child, nM, 4) = n4
       /\ SplitStage(ns, new, child, nM, 5) = new
  BY DEF SplitStage, PutIn, n1, n2, n3, n4, e1, e2
<1>17. ASSUME NEW k \in 0 .. 5
       PROVE  Holds(v[k], SplitStage(ns, new, child, nM, k), IF k = 0 THEN count ELSE nM)
  <2>1. k = 0 \/ k = 1 \/ k = 2 \/ k = 3 \/ k = 4 \/ k = 5
    OBVIOUS
  <2>2. QED
    BY <1>9, <1>10, <1>11, <1>12, <1>13, <1>14, <1>15, <1>16, <2>1
<1>18. QED
  BY <1>6, <1>17 DEF SplitViewsHold, w, v
-----------------------------------------------------------------------------
(* The nodes while a full root is raised by a level: its copy blank and    *)
(* then filled, the root blank and then over its copy.                     *)
Top(ns, r) == IF is_index(ns[r].type) THEN INDEX_INTERNAL ELSE TABLE_INTERNAL

LiftStage(ns, r, nC, k) ==
    LET low == [ns EXCEPT ![nC] = Copied(ns, r, nC)]
    IN  CASE k = 0 -> ns
          [] k = 1 -> [ns EXCEPT ![nC] = initEmptyNode(nC, ns[r].type)]
          [] k = 2 -> low
          [] k = 3 -> [low EXCEPT ![r] = initEmptyNode(r, Top(ns, r))]
          [] k = 4 -> [low EXCEPT ![r] = Emptied(ns, r, nC)]

Lifted(ns, r, nC) == LiftStage(ns, r, nC, 4)

LiftWrites(ns, r, nC) ==
    newNode(nC, ns[r].type) \o <<Write(nC, Copied(ns, r, nC))>>
      \o newNode(r, Top(ns, r)) \o <<Write(r, Emptied(ns, r, nC))>>

LEMMA SplitRootIsLiftAndSplit ==
  ASSUME NEW ns \in [Pages -> BTreeNode], NEW r \in Pages, NEW nC \in Pages, NEW nM
  PROVE  /\ SplitRootWrites(ns, r, nC, nM)
              = LiftWrites(ns, r, nC) \o SplitWrites(Lifted(ns, r, nC), r, nC, 1, nM)
         /\ splitRoot(ns, r, nC, nM) = split(Lifted(ns, r, nC), r, nC, 1, nM)
<1> DEFINE C == [InsertCells(initEmptyNode(nC, ns[r].type), ns[r].cells)
                   EXCEPT !.right_page = ns[r].right_page]
           top == [initEmptyNode(r, Top(ns, r)) EXCEPT !.right_page = nC]
           mid == [ns EXCEPT ![nC] = C, ![r] = top]
<1>1. C = Copied(ns, r, nC) /\ top = Emptied(ns, r, nC)
  BY DEF Copied, Emptied, FilledNode, Top
<1>2. /\ SplitRootWrites(ns, r, nC, nM)
           = newNode(nC, ns[r].type) \o <<Write(nC, C)>>
               \o newNode(r, Top(ns, r)) \o <<Write(r, top)>>
               \o SplitWrites(mid, r, nC, 1, nM)
      /\ splitRoot(ns, r, nC, nM) = split(mid, r, nC, 1, nM)
  BY DEF SplitRootWrites, splitRoot, Top
<1> HIDE DEF C, top
<1>3. mid = Lifted(ns, r, nC)
  BY <1>1 DEF Lifted, LiftStage
<1> HIDE DEF mid
<1>4. QED
  BY <1>1, <1>2, <1>3 DEF LiftWrites

LiftViewsHold(f, ns, r, count, nC) ==
    LET w == LiftWrites(ns, r, nC)
    IN  /\ w \in Seq(PageWrite) /\ Len(w) = 4
        /\ Lifted(ns, r, nC) \in [Pages -> BTreeNode]
        /\ \A k \in 0 .. 4 :
             Holds(ViewsOf(f, w)[k], LiftStage(ns, r, nC, k), IF k = 0 THEN count ELSE nC)

LEMMA LiftViews ==
  ASSUME SafeSizes, NEW ns \in [Pages -> BTreeNode],
         NEW count \in Nat, NEW nC \in Pages, nC = count + 1,
         NEW f, Holds(f, ns, count), NEW r \in 1 .. count,
         ns[r].type \in NodeTypes,
         Copied(ns, r, nC) \in BTreeNode, Emptied(ns, r, nC) \in BTreeNode
  PROVE  LiftViewsHold(f, ns, r, count, nC)
<1> DEFINE w == LiftWrites(ns, r, nC)
           v == ViewsOf(f, w)
           e1 == initEmptyNode(nC, ns[r].type)
           e2 == initEmptyNode(r, Top(ns, r))
           C == Copied(ns, r, nC)
           E == Emptied(ns, r, nC)
           n1 == PutIn(ns, nC, e1)
           n2 == PutIn(ns, nC, C)
           n3 == PutIn(n2, r, e2)
           n4 == PutIn(n2, r, E)
<1>1. /\ r \in Pages /\ r \in Nat /\ nC # r /\ r <= nC /\ nC \in Nat
  BY ConstantsAssumption DEF Pages
<1>2. e1 \in BTreeNode /\ e2 \in BTreeNode
  <2>1. Top(ns, r) \in NodeTypes
    BY DEF Top, NodeTypes
  <2>2. QED
    BY <1>1, <2>1, BlankIsSound
<1>3. C \in BTreeNode /\ E \in BTreeNode
  OBVIOUS
<1>4. w = <<Write(nC, e1)>> \o <<Write(nC, C)>> \o <<Write(r, e2)>> \o <<Write(r, E)>>
  BY DEF LiftWrites, newNode
<1>5. /\ Write(nC, e1) \in PageWrite /\ Write(nC, C) \in PageWrite
      /\ Write(r, e2) \in PageWrite /\ Write(r, E) \in PageWrite
  BY <1>1, <1>2, <1>3 DEF Write, PageWrite
<1> HIDE DEF w, e1, e2, C, E
<1>6. /\ w \in Seq(PageWrite) /\ Len(w) = 4
      /\ w[1] = Write(nC, e1) /\ w[2] = Write(nC, C)
      /\ w[3] = Write(r, e2) /\ w[4] = Write(r, E)
  BY <1>4, <1>5, FourWrites
<1>7. v[0] = f /\ \A k \in 1 .. 4 : v[k] = Flush(v[k - 1], w[k])
  <2>1. Len(w) \in Nat
    BY <1>6
  <2>2. v[0] = f /\ \A k \in 1 .. Len(w) : v[k] = Flush(v[k - 1], w[k])
    BY ONLY <2>1, FirstViews
  <2> HIDE DEF v
  <2>3. QED
    BY <1>6, <2>2
<1> HIDE DEF v
<1>8. /\ v[1] = Flush(f, Write(nC, e1)) /\ v[2] = Flush(v[1], Write(nC, C))
      /\ v[3] = Flush(v[2], Write(r, e2)) /\ v[4] = Flush(v[3], Write(r, E))
  BY <1>6, <1>7
<1>f. PutFits(count, nC, nC) /\ PutFits(nC, nC, nC) /\ PutFits(nC, r, nC)
  BY <1>1 DEF PutFits
<1>p. /\ ns \in [Pages -> BTreeNode] /\ Holds(f, ns, count)
      /\ nC \in Pages /\ r \in Pages
  BY <1>1
<1>9. n1 \in [Pages -> BTreeNode] /\ Holds(v[1], n1, nC)
  BY ONLY <1>2, <1>8, <1>f, <1>p, PagePut
<1>10. n2 \in [Pages -> BTreeNode] /\ Holds(v[2], n2, nC)
  <2>1. PutIn(n1, nC, C) = n2
    BY PutTwice
  <2> HIDE DEF n1
  <2>2. QED
    BY ONLY <1>3, <1>8, <1>9, <2>1, <1>f, <1>p, PagePut
<1> HIDE DEF n1, n2
<1>11. n3 \in [Pages -> BTreeNode] /\ Holds(v[3], n3, nC)
  BY ONLY <1>2, <1>8, <1>10, <1>f, <1>p, PagePut
<1>12. n4 \in [Pages -> BTreeNode] /\ Holds(v[4], n4, nC)
  <2>1. PutIn(n3, r, E) = n4
    BY <1>1, <1>10, PutTwice
  <2> HIDE DEF n3
  <2>2. QED
    BY ONLY <1>3, <1>8, <1>11, <2>1, <1>f, <1>p, PagePut
<1>13. Holds(v[0], ns, count)
  BY <1>7
<1> HIDE DEF n3, n4
<1>14. /\ LiftStage(ns, r, nC, 0) = ns
       /\ LiftStage(ns, r, nC, 1) = n1
       /\ LiftStage(ns, r, nC, 2) = n2
       /\ LiftStage(ns, r, nC, 3) = n3
       /\ LiftStage(ns, r, nC, 4) = n4
  BY DEF LiftStage, PutIn, n1, n2, n3, n4, e1, e2, C, E
<1>15. ASSUME NEW k \in 0 .. 4
       PROVE  Holds(v[k], LiftStage(ns, r, nC, k), IF k = 0 THEN count ELSE nC)
  <2>1. k = 0 \/ k = 1 \/ k = 2 \/ k = 3 \/ k = 4
    OBVIOUS
  <2>2. QED
    BY <1>9, <1>10, <1>11, <1>12, <1>13, <1>14, <2>1
<1>16. QED
  BY <1>6, <1>12, <1>14, <1>15 DEF LiftViewsHold, w, v, Lifted

(* The nodes on the way are sound if those before and after are.           *)
LEMMA SplitStagesSound ==
  ASSUME SafeSizes, NEW ns \in [Pages -> BTreeNode], NEW new \in [Pages -> BTreeNode],
         NEW count \in Nat, NEW nM \in Pages, nM = count + 1,
         NEW child \in 1 .. count, ns[child].type \in NodeTypes,
         SoundNodes(ns, count), SoundNodes(new, nM)
  PROVE  \A k \in 1 .. 5 : SoundNodes(SplitStage(ns, new, child, nM, k), nM)
<1>1. SUFFICES ASSUME NEW k \in 1 .. 5, NEW q \in 1 .. nM
               PROVE  SoundNode(q, SplitStage(ns, new, child, nM, k)[q], nM)
  BY DEF SoundNodes
<1>2. q \in Pages /\ child \in Pages /\ nM # child /\ (q # nM => q \in 1 .. count)
      /\ nM \in Nat /\ count <= nM
  BY ConstantsAssumption DEF Pages
<1>3. SplitStage(ns, new, child, nM, k)[q]
        \in {new[q], initEmptyNode(q, ns[child].type)} \cup {x \in {ns[q]} : q # nM}
  BY <1>2 DEF SplitStage
<1>4. SoundNode(q, new[q], nM)
  BY DEF SoundNodes
<1>5. SoundNode(q, initEmptyNode(q, ns[child].type), nM)
  BY <1>2, BlankIsSound
<1>6. q # nM => SoundNode(q, ns[q], nM)
  BY <1>2, SoundInLargerFile DEF SoundNodes
<1>7. QED
  BY <1>3, <1>4, <1>5, <1>6

LEMMA LiftStagesSound ==
  ASSUME SafeSizes, NEW ns \in [Pages -> BTreeNode],
         NEW count \in Nat, NEW nC \in Pages, nC = count + 1,
         NEW r \in 1 .. count, ns[r].type \in NodeTypes, SoundNodes(ns, count),
         SoundNode(nC, Copied(ns, r, nC), nC), SoundNode(r, Emptied(ns, r, nC), nC)
  PROVE  \A k \in 1 .. 4 : SoundNodes(LiftStage(ns, r, nC, k), nC)
<1>1. SUFFICES ASSUME NEW k \in 1 .. 4, NEW q \in 1 .. nC
               PROVE  SoundNode(q, LiftStage(ns, r, nC, k)[q], nC)
  BY DEF SoundNodes
<1>2. q \in Pages /\ r \in Pages /\ nC # r /\ (q # nC => q \in 1 .. count)
      /\ nC \in Nat /\ count <= nC
  BY ConstantsAssumption DEF Pages
<1>3. \/ q = nC /\ LiftStage(ns, r, nC, k)[q]
                     \in {Copied(ns, r, nC), initEmptyNode(q, ns[r].type)}
      \/ q = r /\ LiftStage(ns, r, nC, k)[q]
                    \in {ns[r], Emptied(ns, r, nC), initEmptyNode(q, Top(ns, r))}
      \/ q # nC /\ LiftStage(ns, r, nC, k)[q] = ns[q]
  BY <1>2 DEF LiftStage
<1>4. Top(ns, r) \in NodeTypes
  BY DEF Top, NodeTypes
<1>5. /\ SoundNode(q, initEmptyNode(q, ns[r].type), nC)
      /\ SoundNode(q, initEmptyNode(q, Top(ns, r)), nC)
  BY <1>2, <1>4, BlankIsSound
<1>6. q # nC => SoundNode(q, ns[q], nC)
  BY <1>2, SoundInLargerFile DEF SoundNodes
<1>7. QED
  BY <1>2, <1>3, <1>5, <1>6
-----------------------------------------------------------------------------
(* Writes w lead from file f to the n pages of ns, by sound files only.    *)
Leads(f, w, ns, n) ==
    /\ w \in Seq(PageWrite)
    /\ \A i \in 0 .. Len(w) : SoundFile(ViewsOf(f, w)[i])
    /\ Holds(ViewsOf(f, w)[Len(w)], ns, n)

LEMMA LeadsFrom ==
  ASSUME NEW f, NEW w, NEW ns, NEW n, Leads(f, w, ns, n)
  PROVE  SoundFile(f) /\ SoundNodes(ns, n) /\ n \in Nat
<1>1. Len(w) \in Nat
  BY DEF Leads
<1>2. ViewsOf(f, w)[0] = f
  BY <1>1, FirstViews
<1>3. 0 \in 0 .. Len(w) /\ Len(w) \in 0 .. Len(w)
  BY <1>1
<1>4. SoundFile(ViewsOf(f, w)[0]) /\ SoundFile(ViewsOf(f, w)[Len(w)])
  BY <1>3 DEF Leads
<1> DEFINE g == ViewsOf(f, w)[Len(w)]
<1>5. SoundFile(g) /\ Holds(g, ns, n)
  BY <1>4 DEF Leads
<1> HIDE DEF g
<1>6. SoundNodes(ns, n) /\ n \in Nat
  BY <1>5 DEF SoundFile, Holds, SoundNodes
<1>7. QED
  BY <1>2, <1>4, <1>6

LEMMA LeadsNowhere ==
  ASSUME NEW f, NEW ns, NEW n, SoundFile(f), Holds(f, ns, n)
  PROVE  Leads(f, << >>, ns, n)
<1> DEFINE w == << >>
<1>1. w \in Seq(PageWrite) /\ Len(w) \in Nat /\ Len(w) = 0
  OBVIOUS
<1> HIDE DEF w
<1>2. ViewsOf(f, w)[0] = f
  BY <1>1, FirstViews
<1>3. \A i \in 0 .. Len(w) : i = 0
  BY <1>1
<1>4. Leads(f, w, ns, n)
  BY <1>1, <1>2, <1>3 DEF Leads
<1>5. QED
  BY <1>4 DEF w

LEMMA LeadsByOne ==
  ASSUME NEW f, NEW b \in PageWrite, NEW ns, NEW n,
         SoundFile(f), SoundFile(Flush(f, b)), Holds(Flush(f, b), ns, n)
  PROVE  Leads(f, <<b>>, ns, n)
<1> DEFINE w == <<b>>
           v == ViewsOf(f, w)
<1>1. w \in Seq(PageWrite) /\ Len(w) \in Nat
  OBVIOUS
<1>2. Len(w) = 1 /\ w[1] = b
  OBVIOUS
<1> HIDE DEF w
<1>3. v[0] = f /\ \A i \in 1 .. Len(w) : v[i] = Flush(v[i - 1], w[i])
  BY <1>1, FirstViews
<1> HIDE DEF v
<1>4. v[1] = Flush(v[0], b)
  BY <1>2, <1>3
<1>5. \A i \in 0 .. Len(w) : i = 0 \/ i = 1
  BY <1>2
<1>6. \A i \in 0 .. Len(w) : SoundFile(v[i])
  BY <1>3, <1>4, <1>5
<1>7. Holds(v[Len(w)], ns, n)
  BY <1>2, <1>3, <1>4
<1>8. Leads(f, w, ns, n)
  BY <1>1, <1>6, <1>7 DEF Leads, v
<1>9. QED
  BY <1>8 DEF w

(* One run of writes after the other.                                      *)
LEMMA LeadsOn ==
  ASSUME NEW f, NEW a, NEW b, NEW ms, NEW m, NEW ns, NEW n,
         Leads(f, a, ms, m), Leads(ViewsOf(f, a)[Len(a)], b, ns, n)
  PROVE  Leads(f, a \o b, ns, n)
<1> DEFINE w == a \o b
           g == ViewsOf(f, a)[Len(a)]
<1>1. a \in Seq(PageWrite) /\ b \in Seq(PageWrite)
  BY DEF Leads
<1>2. /\ w \in Seq(PageWrite) /\ Len(w) = Len(a) + Len(b)
      /\ \A i \in 0 .. Len(a) : ViewsOf(f, w)[i] = ViewsOf(f, a)[i]
      /\ \A i \in 0 .. Len(b) : ViewsOf(f, w)[Len(a) + i] = ViewsOf(g, b)[i]
  BY <1>1, ViewsOfTwo
<1>3. Len(a) \in Nat /\ Len(b) \in Nat
  BY <1>1
<1> HIDE DEF w, g
<1>4. ASSUME NEW i \in 0 .. Len(w)
      PROVE  SoundFile(ViewsOf(f, w)[i])
  <2>1. CASE i <= Len(a)
    <3>1. i \in 0 .. Len(a)
      BY <1>2, <1>3, <2>1
    <3>2. QED
      BY <1>2, <3>1 DEF Leads
  <2>2. CASE ~(i <= Len(a))
    <3>1. PICK j \in 0 .. Len(b) : i = Len(a) + j
      <4>1. i - Len(a) \in 0 .. Len(b) /\ i = Len(a) + (i - Len(a))
        BY <1>2, <1>3, <2>2
      <4>2. QED
        BY <4>1
    <3>2. ViewsOf(f, w)[i] = ViewsOf(g, b)[j]
      BY <1>2, <3>1
    <3>3. SoundFile(ViewsOf(g, b)[j])
      BY DEF Leads, g
    <3>4. QED
      BY <3>2, <3>3
  <2>3. QED
    BY <2>1, <2>2
<1>5. Holds(ViewsOf(f, w)[Len(w)], ns, n)
  <2>1. Len(b) \in 0 .. Len(b)
    BY <1>3
  <2>2. ViewsOf(f, w)[Len(w)] = ViewsOf(g, b)[Len(b)]
    BY <1>2, <2>1
  <2>3. Holds(ViewsOf(g, b)[Len(b)], ns, n)
    BY DEF Leads, g
  <2>4. QED
    BY <2>2, <2>3
<1>6. QED
  BY <1>2, <1>4, <1>5 DEF Leads, w

(* The first write made, the rest lead to the same pages.                  *)
LEMMA LeadsAfterFirst ==
  ASSUME NEW f, NEW w, NEW ns, NEW n, Leads(f, w, ns, n), w # << >>
  PROVE  /\ Leads(Flush(f, Head(w)), Tail(w), ns, n)
         /\ Head(w) \in PageWrite
<1> DEFINE g == Flush(f, Head(w))
           t == Tail(w)
           k == Len(w) - 1
<1>1. w \in Seq(PageWrite)
  BY DEF Leads
<1>2. t \in Seq(PageWrite) /\ Head(w) \in PageWrite
  BY <1>1
<1>3. /\ Len(t) = k /\ Len(w) \in Nat /\ Len(w) >= 1
      /\ \A i \in 0 .. k : ViewsOf(g, t)[i] = ViewsOf(f, w)[i + 1]
  BY <1>1, ViewsAfterFirst
<1>4. k \in 0 .. k /\ k + 1 = Len(w) /\ \A i \in 0 .. k : i + 1 \in 0 .. Len(w)
  BY <1>3
<1> HIDE DEF g, t, k
<1>5. \A i \in 0 .. Len(t) : SoundFile(ViewsOf(g, t)[i])
  BY <1>3, <1>4 DEF Leads
<1>6. Holds(ViewsOf(g, t)[Len(t)], ns, n)
  <2>1. ViewsOf(g, t)[k] = ViewsOf(f, w)[k + 1]
    BY <1>3, <1>4
  <2>2. QED
    BY <1>3, <1>4, <2>1 DEF Leads
<1>7. QED
  BY <1>2, <1>5, <1>6 DEF Leads, g, t
-----------------------------------------------------------------------------
(* The writes of a split lead to the nodes that split makes.               *)
PagesWritten(ns, count, new, nM, S) ==
    /\ ns \in [Pages -> BTreeNode] /\ new \in [Pages -> BTreeNode]
    /\ count \in Nat /\ nM \in Pages /\ nM \in count + 1 .. count + 2
    /\ count + 1 .. nM \subseteq S
    /\ \A q \in S : GoodNode(q, new[q], nM)
    /\ \A q \in Pages \ S : new[q] = ns[q]

LEMMA PagesOfHalves ==
  ASSUME NEW ns, NEW count, NEW new, NEW nM, NEW S,
         PagesWritten(ns, count, new, nM, S), SoundNodes(ns, count)
  PROVE  SoundNodes(new, nM)
<1> USE DEF PagesWritten
<1>1. SUFFICES ASSUME NEW q \in 1 .. nM
               PROVE  SoundNode(q, new[q], nM)
  BY DEF SoundNodes
<1>2. CASE q \in S
  BY <1>2, GoodIsSound
<1>3. CASE q \notin S
  <2>1. q \in 1 .. count /\ q \in Pages /\ nM \in Nat /\ count <= nM
    BY <1>3, ConstantsAssumption DEF Pages
  <2>2. SoundNode(q, ns[q], count) /\ new[q] = ns[q]
    BY <1>3, <2>1 DEF SoundNodes
  <2>3. QED
    BY <2>1, <2>2, SoundInLargerFile
<1>4. QED
  BY <1>2, <1>3

LEMMA SplitLeads ==
  ASSUME SafeSizes, NEW ns \in [Pages -> BTreeNode],
         NEW count \in Nat, NEW nM \in Pages, nM = count + 1,
         NEW f, SoundFile(f), Holds(f, ns, count),
         NEW parent \in 1 .. count, NEW child \in 1 .. count, child # parent,
         NEW i, NEW new \in [Pages -> BTreeNode],
         new = split(ns, parent, child, i, nM),
         ns[child].type \in NodeTypes,
         \A q \in Pages \ {parent, child, nM} : new[q] = ns[q],
         SoundNodes(ns, count), SoundNodes(new, nM)
  PROVE  Leads(f, SplitWrites(ns, parent, child, i, nM), new, nM)
<1> DEFINE w == SplitWrites(ns, parent, child, i, nM)
           v == ViewsOf(f, w)
           st(k) == SplitStage(ns, new, child, nM, k)
<1>1. SplitViewsHold(f, ns, new, parent, child, i, count, nM)
  BY SplitViews
<1>2. /\ w \in Seq(PageWrite) /\ Len(w) = 5
      /\ \A k \in 0 .. 5 : Holds(v[k], st(k), IF k = 0 THEN count ELSE nM)
  BY <1>1 DEF SplitViewsHold
<1>3. v[0] = f
  <2>1. Len(w) \in Nat
    BY <1>2
  <2>2. QED
    BY <2>1, FirstViews
<1>4. \A k \in 1 .. 5 : SoundNodes(st(k), nM)
  BY SplitStagesSound
<1>5. st(5) = new
  BY DEF SplitStage
<1> HIDE DEF w, v, st
<1>6. ASSUME NEW k \in 0 .. 5
      PROVE  SoundFile(v[k])
  <2>1. CASE k = 0
    BY <1>3, <2>1
  <2>2. CASE k # 0
    <3>1. k \in 1 .. 5
      BY <2>2
    <3>2. Holds(v[k], st(k), nM) /\ SoundNodes(st(k), nM)
      BY <1>2, <1>4, <2>2, <3>1
    <3>3. QED
      BY <3>2, SoundPagesMakeSoundFile
  <2>3. QED
    BY <2>1, <2>2
<1>7. Holds(v[5], new, nM)
  BY <1>2, <1>5
<1>8. Leads(f, w, new, nM)
  BY <1>2, <1>6, <1>7 DEF Leads, v
<1>9. QED
  BY <1>8 DEF w

(* Those of the split of a root, to the nodes that splitRoot makes.        *)
LEMMA LiftLeads ==
  ASSUME SafeSizes, NEW ns \in [Pages -> BTreeNode],
         NEW count \in Nat, NEW nC \in Pages, nC = count + 1,
         NEW f, SoundFile(f), Holds(f, ns, count), NEW r \in 1 .. count,
         ns[r].type \in NodeTypes, SoundNodes(ns, count),
         Copied(ns, r, nC) \in BTreeNode, Emptied(ns, r, nC) \in BTreeNode,
         GoodNode(nC, Copied(ns, r, nC), nC), GoodNode(r, Emptied(ns, r, nC), nC)
  PROVE  /\ Leads(f, LiftWrites(ns, r, nC), Lifted(ns, r, nC), nC)
         /\ Lifted(ns, r, nC) \in [Pages -> BTreeNode]
<1> DEFINE w == LiftWrites(ns, r, nC)
           v == ViewsOf(f, w)
           st(k) == LiftStage(ns, r, nC, k)
<1>1. LiftViewsHold(f, ns, r, count, nC)
  BY LiftViews
<1>2. /\ w \in Seq(PageWrite) /\ Len(w) = 4
      /\ \A k \in 0 .. 4 : Holds(v[k], st(k), IF k = 0 THEN count ELSE nC)
      /\ Lifted(ns, r, nC) \in [Pages -> BTreeNode]
  BY <1>1 DEF LiftViewsHold
<1>3. v[0] = f
  <2>1. Len(w) \in Nat
    BY <1>2
  <2>2. QED
    BY <2>1, FirstViews
<1>4. \A k \in 1 .. 4 : SoundNodes(st(k), nC)
  BY GoodIsSound, LiftStagesSound
<1>5. st(4) = Lifted(ns, r, nC)
  BY DEF Lifted
<1> HIDE DEF w, v, st
<1>6. ASSUME NEW k \in 0 .. 4
      PROVE  SoundFile(v[k])
  <2>1. CASE k = 0
    BY <1>3, <2>1
  <2>2. CASE k # 0
    <3>1. k \in 1 .. 4
      BY <2>2
    <3>2. Holds(v[k], st(k), nC) /\ SoundNodes(st(k), nC)
      BY <1>2, <1>4, <2>2, <3>1
    <3>3. QED
      BY <3>2, SoundPagesMakeSoundFile
  <2>3. QED
    BY <2>1, <2>2
<1>7. Holds(v[4], Lifted(ns, r, nC), nC)
  BY <1>2, <1>5
<1>8. Leads(f, w, Lifted(ns, r, nC), nC)
  BY <1>2, <1>6, <1>7 DEF Leads, v
<1>9. QED
  BY <1>2, <1>8 DEF w

LEMMA SplitRootLeads ==
  ASSUME SafeSizes, NEW ns \in [Pages -> BTreeNode],
         NEW count \in Nat, NEW nC \in Pages, NEW nM \in Pages,
         nC = count + 1, nM = count + 2,
         NEW f, SoundFile(f), Holds(f, ns, count), NEW r \in 1 .. count,
         SoundNodes(ns, count), GoodNode(r, ns[r], count), Crowded(ns[r])
  PROVE  LET new == splitRoot(ns, r, nC, nM)
         IN  /\ new \in [Pages -> BTreeNode]
             /\ Leads(f, SplitRootWrites(ns, r, nC, nM), new, nM)
             /\ \A q \in Pages \ {r, nC, nM} : new[q] = ns[q]
             /\ GoodNode(r, new[r], nM) /\ Roomy(new[r])
<1> DEFINE new == splitRoot(ns, r, nC, nM)
           mid == Lifted(ns, r, nC)
           a == LiftWrites(ns, r, nC)
           b == SplitWrites(mid, r, nC, 1, nM)
           g == ViewsOf(f, a)[Len(a)]
<1>1. /\ new \in [Pages -> BTreeNode]
      /\ \A q \in Pages \ {r, nC, nM} : new[q] = ns[q]
      /\ \A q \in {r, nC, nM} : GoodNode(q, new[q], nM)
      /\ GoodNode(nC, Copied(ns, r, nC), nC) /\ GoodNode(r, Emptied(ns, r, nC), nC)
      /\ Copied(ns, r, nC) \in BTreeNode /\ Emptied(ns, r, nC) \in BTreeNode
      /\ Roomy(new[r])
  BY SplitRootWritesGood, SMTT(30)
<1>2. /\ r \in Pages /\ r # nC /\ nC \in Nat /\ nM = nC + 1 /\ r \in 1 .. nC /\ nC \in 1 .. nC
  BY ConstantsAssumption DEF Pages
<1>3. ns[r].type \in NodeTypes
  BY DEF GoodNode
<1>4. /\ SplitRootWrites(ns, r, nC, nM) = a \o b
      /\ new = split(mid, r, nC, 1, nM)
  BY <1>2, SplitRootIsLiftAndSplit
<1>5. Leads(f, a, mid, nC) /\ mid \in [Pages -> BTreeNode]
  BY <1>1, <1>3, LiftLeads
<1>6. /\ mid[nC] = Copied(ns, r, nC)
      /\ \A q \in Pages \ {r, nC} : mid[q] = ns[q]
  BY <1>2 DEF Lifted, LiftStage
<1>7. SoundNodes(mid, nC)
  BY <1>5, LeadsFrom
<1>8. SoundFile(g) /\ Holds(g, mid, nC)
  <2>1. Len(a) \in 0 .. Len(a)
    BY <1>5 DEF Leads
  <2>2. QED
    BY <1>5, <2>1 DEF Leads
<1> HIDE DEF new, mid, a, b, g
<1>9. \A q \in Pages \ {r, nC, nM} : new[q] = mid[q]
  BY <1>1, <1>6
<1>10. SoundNodes(new, nM)
  <2>1. PagesWritten(mid, nC, new, nM, {r, nC, nM})
    BY <1>1, <1>2, <1>5, <1>9 DEF PagesWritten
  <2>2. QED
    BY <1>7, <2>1, PagesOfHalves
<1>11. Leads(g, b, new, nM)
  <2>1. mid[nC].type \in NodeTypes
    BY <1>1, <1>6 DEF GoodNode
  <2>2. QED
    BY <1>1, <1>2, <1>4, <1>5, <1>7, <1>8, <1>9, <1>10, <2>1, SplitLeads DEF b
<1>12. Leads(f, a \o b, new, nM)
  BY <1>5, <1>11, LeadsOn DEF g
<1>13. QED
  BY <1>1, <1>4, <1>12 DEF new
-----------------------------------------------------------------------------
(* The inductive invariant: what is buffered and what is still to be       *)
(* written leads, by files that a program can open, to the nodes of the    *)
(* B-Trees; the node that an insert visits is in use and has room for what *)
(* the insert may put there; and no insert runs over a page 1 that is no   *)
(* node.                                                                   *)
FileInv ==
    /\ buffer \in PageWrite \cup {None}
    /\ SoundFile(file)
    /\ Leads(Flushed, todo, nodes, n_pages)

NodesInv ==
    /\ n_pages \in Pages
    /\ nodes \in [Pages -> BTreeNode]
    /\ roots \subseteq 1 .. n_pages
    /\ op \in Insertion \cup {Idle}
    /\ op # Idle => /\ op.npage \in 1 .. n_pages /\ op.nroot \in roots
                    /\ ~Full(nodes[op.npage], op.btc)
                    /\ nodes[1].type # Unallocated

WritesInv == FileInv /\ NodesInv

(* What it says of a call that has made its writes.                        *)
LEMMA ReturnedFacts ==
  ASSUME WritesInv, Returned
  PROVE  /\ SoundFile(Flushed)
         /\ Holds(Flushed, nodes, n_pages)
         /\ SoundNodes(nodes, n_pages)
         /\ n_pages \in Nat
<1>1. todo = << >> /\ Leads(Flushed, todo, nodes, n_pages)
  BY DEF WritesInv, FileInv, Returned
<1>2. /\ SoundFile(Flushed) /\ SoundNodes(nodes, n_pages) /\ n_pages \in Nat
  BY <1>1, LeadsFrom
<1>3. Len(todo) = 0 /\ Len(todo) \in Nat
  BY <1>1
<1>4. ViewsOf(Flushed, todo)[0] = Flushed
  BY <1>3, FirstViews
<1>5. Holds(Flushed, nodes, n_pages)
  BY <1>1, <1>3, <1>4 DEF Leads
<1>6. QED
  BY <1>2, <1>5

(* While page 1 is a node all pages in use are.                            *)
LEMMA PagesAreNodes ==
  ASSUME NEW ns \in [Pages -> BTreeNode], NEW n, SoundNodes(ns, n), ns[1].type # Unallocated
  PROVE  \A p \in 1 .. n : ns[p].type \in NodeTypes
BY DEF SoundNodes, SoundNode, Zeros, initEmptyNode

(* A call has its writes to make, which lead to the nodes it makes.        *)
LEMMA CallMade ==
  ASSUME WritesInv, NEW w, NEW risk, Call(w, risk),
         Leads(Flushed, w, nodes', n_pages')
  PROVE  FileInv'
<1>1. file' = Flushed /\ buffer' = None /\ todo' = w
  BY DEF Call
<1>2. Flushed' = Flushed
  BY <1>1, NothingToFlush DEF Flushed
<1>3. SoundFile(Flushed)
  BY LeadsFrom
<1>4. SoundFile(file)'
  BY <1>1, <1>3
<1>5. Leads(Flushed, todo, nodes, n_pages)'
  BY <1>1, <1>2
<1>6. QED
  BY <1>1, <1>4, <1>5 DEF FileInv

(* One that writes nothing.                                                *)
LEMMA NothingWritten ==
  ASSUME WritesInv, Returned, NEW risk, Call(<< >>, risk), UNCHANGED <<nodes, n_pages>>
  PROVE  FileInv'
<1>1. Leads(Flushed, << >>, nodes, n_pages)
  BY ReturnedFacts, LeadsNowhere
<1>2. Leads(Flushed, << >>, nodes', n_pages')
  BY <1>1
<1>3. QED
  BY <1>2, CallMade

(* chidb_Btree_newNode writes the page that it adds.                       *)
LEMMA NewTreeKeepsWrites ==
  ASSUME SafeSizes, WritesInv, CallNewTree
  PROVE  WritesInv'
<1>1. PICK t \in LeafTypes : NewTree(t) /\ Call(newNode(n_pages', t), {})
  BY DEF CallNewTree
<1> DEFINE p == n_pages'
           node == initEmptyNode(p, t)
           b == Write(p, node)
<1>2. /\ n_pages \in Pages /\ nodes \in [Pages -> BTreeNode] /\ MaxPages \in Nat
      /\ roots \subseteq 1 .. n_pages /\ n_pages \in Nat
  BY ConstantsAssumption DEF WritesInv, NodesInv, Pages
<1>3. /\ op = Idle /\ op' = Idle /\ p = n_pages + 1 /\ n_pages < MaxPages
      /\ roots' = roots \cup {p} /\ nodes' = PutIn(nodes, p, node)
  BY <1>1 DEF NewTree, PutIn
<1>4. p \in Pages /\ PutFits(n_pages, p, p) /\ p \in Nat
  BY <1>2, <1>3 DEF Pages, PutFits
<1>5. t \in NodeTypes
  BY DEF LeafTypes, NodeTypes
<1>6. node \in BTreeNode /\ SoundNode(p, node, p) /\ b \in PageWrite
  <2>1. node \in BTreeNode /\ SoundNode(p, node, p)
    BY <1>4, <1>5, BlankIsSound
  <2> HIDE DEF node
  <2>2. QED
    BY <1>4, <2>1 DEF Write, PageWrite
<1> HIDE DEF node
<1>7. /\ SoundFile(Flushed) /\ Holds(Flushed, nodes, n_pages)
      /\ SoundNodes(nodes, n_pages)
  BY <1>1, ReturnedFacts DEF CallNewTree
<1>8. nodes' \in [Pages -> BTreeNode] /\ Holds(Flush(Flushed, b), nodes', p)
  BY <1>2, <1>3, <1>4, <1>6, <1>7, PagePut
<1>9. SoundNodes(nodes', p)
  <2> DEFINE new == PutIn(nodes, p, node)
  <2>1. ASSUME NEW q \in 1 .. p
        PROVE  SoundNode(q, new[q], p)
    <3>1. CASE q = p
      BY <1>2, <1>4, <1>6, <3>1 DEF PutIn
    <3>2. CASE q # p
      <4>1. q \in 1 .. n_pages /\ q \in Pages /\ n_pages <= p /\ new[q] = nodes[q]
        BY <1>2, <1>3, <1>4, <3>2 DEF PutIn, Pages
      <4>2. SoundNode(q, nodes[q], n_pages)
        BY <1>7, <4>1 DEF SoundNodes
      <4>3. QED
        BY <1>2, <1>4, <4>1, <4>2, SoundInLargerFile
    <3>3. QED
      BY <3>1, <3>2
  <2>2. QED
    BY <1>3, <2>1 DEF SoundNodes
<1>10. Leads(Flushed, <<b>>, nodes', p)
  <2>1. SoundFile(Flush(Flushed, b))
    BY <1>4, <1>8, <1>9, SoundPagesMakeSoundFile
  <2> HIDE DEF b, p
  <2>2. QED
    BY <1>6, <1>7, <1>8, <2>1, LeadsByOne
<1>11. FileInv'
  BY <1>1, <1>10, CallMade DEF newNode, node
<1>12. NodesInv'
  BY <1>2, <1>3, <1>4, <1>8 DEF NodesInv
<1>13. QED
  BY <1>11, <1>12 DEF WritesInv

(* chidb_Btree_insert.                                                     *)
LEMMA InsertKeepsWrites ==
  ASSUME SafeSizes, WritesInv, Returned, nodes[1].type # Unallocated,
         NEW r \in roots, NEW c \in BTreeCell, Insert(r, c),
         LET s == op'.nroot
         IN  IF n_pages' = n_pages THEN Call(<<>>, {})
             ELSE Call(SplitRootWrites(nodes, s, n_pages + 1, n_pages + 2),
                       EntriesUnder(Flushed, s, s))
  PROVE  WritesInv'
<1>1. /\ n_pages \in Pages /\ nodes \in [Pages -> BTreeNode] /\ MaxPages \in Nat
      /\ roots \subseteq 1 .. n_pages /\ n_pages \in Nat /\ r \in 1 .. n_pages
      /\ r \in Pages /\ 1 \in Pages
  BY ConstantsAssumption DEF WritesInv, NodesInv, Pages
<1>2. /\ op' = [nroot |-> r, npage |-> r, btc |-> c]
      /\ op' \in Insertion /\ op'.npage = r /\ op'.nroot = r /\ op'.btc = c
      /\ roots' = roots
  BY <1>1 DEF Insert, Insertion
<1>3. /\ SoundFile(Flushed) /\ Holds(Flushed, nodes, n_pages)
      /\ SoundNodes(nodes, n_pages)
  BY ReturnedFacts
<1>4. CASE ~Full(nodes[r], c) /\ UNCHANGED <<nodes, n_pages>>
  <2>1. Call(<< >>, {})
    BY <1>4
  <2>2. FileInv'
    BY <1>4, <2>1, NothingWritten
  <2>3. NodesInv'
    BY <1>1, <1>2, <1>4 DEF NodesInv
  <2>4. QED
    BY <2>2, <2>3 DEF WritesInv
<1>5. CASE /\ Full(nodes[r], c)
           /\ n_pages + 2 <= MaxPages
           /\ n_pages' = n_pages + 2
           /\ nodes' = splitRoot(nodes, r, n_pages + 1, n_pages + 2)
  <2> DEFINE nC == n_pages + 1
             nM == n_pages + 2
  <2>1. nC \in Pages /\ nM \in Pages /\ n_pages' = nM /\ n_pages' # n_pages
        /\ 1 .. n_pages \subseteq 1 .. nM
    BY <1>1, <1>5 DEF Pages
  <2>2. GoodNode(r, nodes[r], n_pages) /\ Crowded(nodes[r])
    <3>1. SoundNode(r, nodes[r], n_pages) /\ nodes[r].type # Unallocated
          /\ nodes[r] \in BTreeNode
      <4>1. SoundNode(r, nodes[r], n_pages)
        BY <1>1, <1>3 DEF SoundNodes
      <4>2. nodes[r].type \in NodeTypes
        BY <1>1, <1>3, PagesAreNodes
      <4>3. QED
        BY <1>1, <4>1, <4>2 DEF NodeTypes, Unallocated, TABLE_LEAF, TABLE_INTERNAL,
                                INDEX_LEAF, INDEX_INTERNAL
    <3>2. QED
      BY <1>1, <1>5, <3>1, FullIsGood
  <2>3. /\ nodes' \in [Pages -> BTreeNode]
        /\ Leads(Flushed, SplitRootWrites(nodes, r, nC, nM), nodes', nM)
        /\ \A q \in Pages \ {r, nC, nM} : nodes'[q] = nodes[q]
        /\ GoodNode(r, nodes'[r], nM) /\ Roomy(nodes'[r])
    <3>1. nC = n_pages + 1 /\ nM = n_pages + 2
      OBVIOUS
    <3>2. nodes' = splitRoot(nodes, r, nC, nM)
      BY <1>5
    <3> HIDE DEF nC, nM
    <3>3. QED
      BY ONLY SafeSizes, <1>1, <1>3, <2>1, <2>2, <3>1, <3>2, SplitRootLeads
  <2>4. FileInv'
    <3>1. Call(SplitRootWrites(nodes, r, nC, nM), EntriesUnder(Flushed, r, r))
      BY <1>2, <2>1
    <3>2. QED
      BY <2>1, <2>3, <3>1, CallMade
  <2>5. ~Full(nodes'[r], c)
    <3>1. nodes'[r] \in BTreeNode /\ nodes'[r].type \in NodeTypes /\ Layout(r, nodes'[r])
      BY <1>1, <2>3 DEF GoodNode
    <3>2. QED
      BY <1>1, <2>3, <3>1, RoomForAny DEF Roomy
  <2>6. nodes'[1].type # Unallocated
    <3>1. CASE r = 1
      BY <2>3, <3>1 DEF GoodNode, NodeTypes, Unallocated, TABLE_LEAF, TABLE_INTERNAL,
                        INDEX_LEAF, INDEX_INTERNAL
    <3>2. CASE r # 1
      <4>1. nodes'[1] = nodes[1]
        BY <1>1, <2>1, <2>3, <3>2
      <4>2. QED
        BY <4>1
    <3>3. QED
      BY <3>1, <3>2
  <2>7. NodesInv'
    BY <1>1, <1>2, <2>1, <2>3, <2>5, <2>6 DEF NodesInv
  <2>8. QED
    BY <2>4, <2>7 DEF WritesInv
<1>6. QED
  BY <1>4, <1>5 DEF Insert

(* insertNonFull at an internal node: the page it goes to.                 *)
LEMMA VisitedIsGood ==
  ASSUME SafeSizes, WritesInv, Returned, AtInternal, ChildHere
  PROVE  /\ op \in Insertion /\ op.npage \in 1 .. n_pages /\ op.nroot \in roots
         /\ op.btc \in BTreeCell /\ op.btc.key \in Nat
         /\ n_pages \in Pages /\ n_pages \in Nat /\ nodes \in [Pages -> BTreeNode]
         /\ \A p \in 1 .. n_pages : p \in Pages /\ nodes[p].type \in NodeTypes
         /\ GoodNode(op.npage, nodes[op.npage], n_pages)
         /\ Roomy(nodes[op.npage])
         /\ child_at(nodes[op.npage], find_position(nodes[op.npage], op.btc.key))
              \in (1 .. n_pages) \ {op.npage}
<1> DEFINE here == op.npage
<1>1. /\ op \in Insertion /\ here \in 1 .. n_pages /\ op.nroot \in roots /\ op # Idle
      /\ n_pages \in Pages /\ nodes \in [Pages -> BTreeNode]
      /\ ~Full(nodes[here], op.btc) /\ nodes[1].type # Unallocated
      /\ is_internal(nodes[here].type)
  BY DEF AtInternal, WritesInv, NodesInv
<1>2. op.btc \in BTreeCell /\ op.btc.key \in Nat
  BY <1>1, InsertionType
<1>3. n_pages \in Nat /\ \A p \in 1 .. n_pages : p \in Pages
  BY <1>1, ConstantsAssumption DEF Pages
<1>4. SoundNodes(nodes, n_pages)
  BY ReturnedFacts
<1>5. \A p \in 1 .. n_pages : nodes[p].type \in NodeTypes
  BY <1>1, <1>4, PagesAreNodes
<1>6. GoodNode(here, nodes[here], n_pages)
  <2>1. SoundNode(here, nodes[here], n_pages) /\ nodes[here] \in BTreeNode
    BY <1>1, <1>3, <1>4 DEF SoundNodes
  <2>2. ChildFor(nodes[here], op.btc.key) # 0
    BY <1>1 DEF ChildHere
  <2>3. QED
    BY <1>1, <1>2, <2>1, <2>2, LinkedIsGood
<1>7. Roomy(nodes[here])
  <2>0. nodes[here] \in BTreeNode /\ nodes[here].type \in NodeTypes
        /\ Layout(here, nodes[here]) /\ here \in Pages
    BY <1>1, <1>3, <1>6 DEF GoodNode
  <2>1. ~(Slack(nodes[here]) < cell_size(nodes[here].type, op.btc) + 2)
        /\ Slack(nodes[here]) \in Nat
    BY <1>1, <1>2, <2>0, FullMeansNoSlack
  <2>2. /\ cell_size(nodes[here].type, op.btc) = ShortCellSize(nodes[here].type)
        /\ ShortCellSize(nodes[here].type) \in Nat
    BY <1>1, <1>2, <2>0, CellSizes
  <2>3. MaxCellSize(nodes[here].type) = ShortCellSize(nodes[here].type)
    BY <1>1, <2>2
       DEF MaxCellSize, is_internal, TABLE_LEAF, TABLE_INTERNAL, INDEX_INTERNAL
  <2>4. QED
    BY <2>1, <2>2, <2>3 DEF Roomy
<1>8. child_at(nodes[here], find_position(nodes[here], op.btc.key)) \in (1 .. n_pages) \ {here}
  BY <1>1, <1>2, <1>3, <1>6, ChildForGood
<1>9. QED
  BY <1>1, <1>2, <1>3, <1>5, <1>6, <1>7, <1>8

LEMMA DescendKeepsWrites ==
  ASSUME SafeSizes, WritesInv, CallDescend
  PROVE  WritesInv'
<1> DEFINE child == ChildFor(nodes[op.npage], op.btc.key)
<1>1. Returned /\ ChildHere /\ Descend /\ Call(<< >>, {}) /\ AtInternal
  BY DEF CallDescend, Descend
<1>2. /\ op \in Insertion /\ op.nroot \in roots
      /\ \A p \in 1 .. n_pages : p \in Pages
      /\ child \in 1 .. n_pages
  BY <1>1, VisitedIsGood DEF ChildFor
<1>3. /\ op' = [op EXCEPT !.npage = child] /\ ~Full(nodes[child], op.btc)
      /\ UNCHANGED <<nodes, n_pages, roots>>
  BY <1>1 DEF Descend
<1> HIDE DEF child
<1>4. /\ op' \in Insertion /\ op'.npage = child /\ op'.btc = op.btc
      /\ op'.nroot = op.nroot
  BY <1>2, <1>3, InsertionType
<1>5. FileInv'
  BY <1>1, <1>3, NothingWritten
<1>6. nodes[1].type # Unallocated
  BY <1>1 DEF AtInternal, WritesInv, NodesInv
<1>7. NodesInv'
  BY <1>2, <1>3, <1>4, <1>6 DEF WritesInv, NodesInv
<1>8. QED
  BY <1>5, <1>7 DEF WritesInv

(* A child that is full is split first.                                    *)
LEMMA SplitKeepsWrites ==
  ASSUME SafeSizes, WritesInv, CallSplit
  PROVE  WritesInv'
<1> DEFINE here == op.npage
           key == op.btc.key
           pos == find_position(nodes[here], key)
           child == child_at(nodes[here], pos)
           next == ChildFor(nodes'[here], key)
           nM == n_pages + 1
<1>1. /\ Returned /\ ChildHere /\ SplitAndDescend /\ AtInternal
      /\ Call(SplitWrites(nodes, here, child, pos, nM), EntriesUnder(Flushed, op.nroot, child))
  BY DEF CallSplit, SplitAndDescend
<1>2. /\ op \in Insertion /\ here \in 1 .. n_pages /\ op.nroot \in roots
      /\ op.btc \in BTreeCell /\ key \in Nat
      /\ n_pages \in Pages /\ n_pages \in Nat /\ nodes \in [Pages -> BTreeNode]
      /\ \A p \in 1 .. n_pages : p \in Pages /\ nodes[p].type \in NodeTypes
      /\ GoodNode(here, nodes[here], n_pages)
      /\ Roomy(nodes[here])
      /\ child \in (1 .. n_pages) \ {here}
      /\ is_internal(nodes[here].type)
  BY <1>1, VisitedIsGood DEF AtInternal
<1>3. /\ Full(nodes[child], op.btc) /\ n_pages < MaxPages /\ n_pages' = nM
      /\ nodes' = split(nodes, here, child, pos, nM)
      /\ op' = [op EXCEPT !.npage = next]
      /\ roots' = roots
  BY <1>1 DEF SplitAndDescend
<1>4. nM \in Pages /\ 1 .. n_pages \subseteq 1 .. nM /\ nM \in 1 .. nM
      /\ \A p \in 1 .. nM : p \in Pages
  BY <1>2, <1>3, ConstantsAssumption DEF Pages
<1>5. /\ SoundFile(Flushed) /\ Holds(Flushed, nodes, n_pages)
      /\ SoundNodes(nodes, n_pages) /\ nodes[1].type # Unallocated
      /\ roots \subseteq 1 .. n_pages /\ op # Idle
  BY <1>1, ReturnedFacts DEF AtInternal, WritesInv, NodesInv
<1>6. GoodNode(child, nodes[child], n_pages) /\ Crowded(nodes[child])
  <2>1. SoundNode(child, nodes[child], n_pages) /\ nodes[child].type # Unallocated
        /\ nodes[child] \in BTreeNode /\ child \in Pages
    BY <1>2, <1>5 DEF SoundNodes, NodeTypes, Unallocated, TABLE_LEAF, TABLE_INTERNAL,
                      INDEX_LEAF, INDEX_INTERNAL
  <2>2. QED
    BY <1>2, <1>3, <2>1, FullIsGood
<1>7. /\ nodes' \in [Pages -> BTreeNode]
      /\ \A q \in Pages \ {here, child, nM} : nodes'[q] = nodes[q]
      /\ \A q \in {here, child, nM} : GoodNode(q, nodes'[q], nM)
      /\ next \in {child, nM}
      /\ Roomy(nodes'[child]) /\ Roomy(nodes'[nM])
  <2>1. /\ pos = find_position(nodes[here], key) /\ child = child_at(nodes[here], pos)
        /\ nM = n_pages + 1
    OBVIOUS
  <2>2. nodes' = split(nodes, here, child, pos, nM)
    BY <1>3
  <2> HIDE DEF pos, child, nM
  <2>3. LET new == split(nodes, here, child, pos, nM)
        IN  /\ new \in [Pages -> BTreeNode]
            /\ \A q \in Pages \ {here, child, nM} : new[q] = nodes[q]
            /\ \A q \in {here, child, nM} : GoodNode(q, new[q], nM)
            /\ ChildFor(new[here], key) \in {child, nM}
            /\ Roomy(new[child]) /\ Roomy(new[nM])
    <3>1. /\ nodes \in [Pages -> BTreeNode] /\ n_pages \in Nat /\ nM \in Pages
          /\ nM = n_pages + 1 /\ here \in 1 .. n_pages /\ is_internal(nodes[here].type)
          /\ GoodNode(here, nodes[here], n_pages) /\ Roomy(nodes[here]) /\ key \in Nat
          /\ pos = find_position(nodes[here], key) /\ child = child_at(nodes[here], pos)
          /\ Crowded(nodes[child]) /\ GoodNode(child, nodes[child], n_pages)
      BY ONLY <1>2, <1>4, <1>6, <2>1
    <3>2. QED
      BY ONLY SafeSizes, <3>1, SplitWritesGood, SMTT(30)
  <2>4. QED
    BY ONLY <2>2, <2>3
<1> HIDE DEF pos, child, next
<1>8. SoundNodes(nodes', nM)
  <2>1. PagesWritten(nodes, n_pages, nodes', nM, {here, child, nM})
    BY <1>2, <1>4, <1>7 DEF PagesWritten
  <2>2. QED
    BY <1>5, <2>1, PagesOfHalves
<1>9. Leads(Flushed, SplitWrites(nodes, here, child, pos, nM), nodes', nM)
  <2>1. nM = n_pages + 1 /\ nodes' = split(nodes, here, child, pos, nM)
        /\ child \in 1 .. n_pages /\ child # here /\ nodes[child].type \in NodeTypes
    BY <1>2, <1>3
  <2> HIDE DEF nM
  <2>2. QED
    BY ONLY SafeSizes, <1>2, <1>4, <1>5, <1>7, <1>8, <2>1, SplitLeads
<1>10. FileInv'
  BY <1>1, <1>3, <1>9, CallMade
<1>11. next \in 1 .. nM /\ Roomy(nodes'[next]) /\ GoodNode(next, nodes'[next], nM)
       /\ next \in Pages
  BY <1>2, <1>4, <1>7
<1>12. /\ op' \in Insertion /\ op'.npage = next /\ op'.btc = op.btc
       /\ op'.nroot = op.nroot
  BY <1>2, <1>3, <1>11, InsertionType
<1>13. ~Full(nodes'[next], op.btc)
  <2>1. nodes'[next] \in BTreeNode /\ nodes'[next].type \in NodeTypes
        /\ Layout(next, nodes'[next])
    BY <1>7, <1>11 DEF GoodNode
  <2>2. QED
    BY <1>2, <1>11, <2>1, RoomForAny DEF Roomy
<1>14. nodes'[1].type # Unallocated
  <2>1. CASE 1 \in {here, child, nM}
    BY <1>7, <2>1 DEF GoodNode, NodeTypes, Unallocated, TABLE_LEAF, TABLE_INTERNAL,
                      INDEX_LEAF, INDEX_INTERNAL
  <2>2. CASE 1 \notin {here, child, nM}
    <3>1. 1 \in Pages
      BY ConstantsAssumption DEF Pages
    <3>2. nodes'[1] = nodes[1]
      BY <1>7, <2>2, <3>1
    <3>3. QED
      BY <1>5, <3>2
  <2>3. QED
    BY <2>1, <2>2
<1>15. NodesInv'
  BY <1>2, <1>3, <1>4, <1>5, <1>7, <1>11, <1>12, <1>13, <1>14 DEF NodesInv
<1>16. QED
  BY <1>10, <1>15 DEF WritesInv

(* insertNonFull at a leaf; and where a crash left no page to go to.       *)
LEMMA RejectKeepsWrites ==
  ASSUME WritesInv, CallReject \/ RejectPageNumber
  PROVE  WritesInv'
<1>1. /\ Returned /\ Call(<< >>, {}) /\ UNCHANGED <<nodes, n_pages, roots>>
      /\ op' = Idle
  BY DEF CallReject, RejectDuplicate, RejectPageNumber
<1>2. FileInv'
  BY <1>1, NothingWritten
<1>3. NodesInv'
  BY <1>1 DEF WritesInv, NodesInv
<1>4. QED
  BY <1>2, <1>3 DEF WritesInv

LEMMA InsertInLeafKeepsWrites ==
  ASSUME SafeSizes, WritesInv, CallInsertInLeaf
  PROVE  WritesInv'
<1> DEFINE here == op.npage
           pos == find_position(nodes[here], op.btc.key)
           new == insertCell(nodes[here], pos, op.btc)
           b == Write(here, new)
           risk == {[tree |-> op.nroot, key |-> op.btc.key, val |-> op.btc.val]}
<1>1. /\ Returned /\ AtLeaf /\ op' = Idle /\ UNCHANGED <<n_pages, roots>>
      /\ nodes' = [nodes EXCEPT ![here] = new]
      /\ Call(<<Write(here, nodes'[here])>>, risk)
  BY DEF CallInsertInLeaf, InsertInLeaf
<1>2. /\ op \in Insertion /\ here \in 1 .. n_pages /\ op # Idle
      /\ n_pages \in Pages /\ nodes \in [Pages -> BTreeNode]
      /\ ~Full(nodes[here], op.btc) /\ nodes[1].type # Unallocated
      /\ ~is_internal(nodes[here].type) /\ roots \subseteq 1 .. n_pages
  BY <1>1 DEF AtLeaf, WritesInv, NodesInv
<1>3. op.btc \in BTreeCell /\ op.btc.key \in Nat
  BY <1>2, InsertionType
<1>4. /\ SoundFile(Flushed) /\ Holds(Flushed, nodes, n_pages)
      /\ SoundNodes(nodes, n_pages) /\ n_pages \in Nat
  BY <1>1, ReturnedFacts
<1>5. here \in Pages /\ nodes[here] \in BTreeNode /\ nodes[here].type \in NodeTypes
  BY <1>2, <1>4, PagesAreNodes, ConstantsAssumption DEF Pages
<1>6. Layout(here, nodes[here])
  BY <1>2, <1>4, <1>5 DEF SoundNodes, SoundNode, Zeros, initEmptyNode, NodeTypes,
                          Unallocated, TABLE_LEAF, TABLE_INTERNAL, INDEX_LEAF,
                          INDEX_INTERNAL
<1>7. pos \in 1 .. Len(nodes[here].cells) + 1
  BY <1>3, <1>5, PositionFound
<1>8. new \in BTreeNode /\ Layout(here, new) /\ new.type = nodes[here].type
  BY <1>2, <1>3, <1>5, <1>6, <1>7, InsertCellKeepsLayout
<1> HIDE DEF new
<1>9. SoundNode(here, new, n_pages)
  <2>1. Children(new) = {}
    BY <1>2, <1>8 DEF Children
  <2>2. QED
    BY <1>5, <1>8, <2>1 DEF SoundNode
<1>10. /\ nodes' = PutIn(nodes, here, new) /\ nodes'[here] = new
       /\ PutFits(n_pages, here, n_pages) /\ b \in PageWrite
  BY <1>1, <1>2, <1>4, <1>5, <1>8 DEF PutIn, PutFits, Write, PageWrite
<1>11. nodes' \in [Pages -> BTreeNode] /\ Holds(Flush(Flushed, b), nodes', n_pages)
  BY <1>2, <1>4, <1>5, <1>8, <1>10, PagePut
<1>12. SoundNodes(nodes', n_pages)
  <2>1. ASSUME NEW q \in 1 .. n_pages
        PROVE  SoundNode(q, nodes'[q], n_pages)
    <3>1. CASE q = here
      BY <1>9, <1>10, <3>1
    <3>2. CASE q # here
      <4>1. q \in Pages /\ nodes'[q] = nodes[q]
        BY <1>1, <1>2, <3>2, ConstantsAssumption DEF Pages
      <4>2. QED
        BY <1>4, <4>1 DEF SoundNodes
    <3>3. QED
      BY <3>1, <3>2
  <2>2. QED
    BY <2>1 DEF SoundNodes
<1>13. Leads(Flushed, <<b>>, nodes', n_pages)
  <2>1. SoundFile(Flush(Flushed, b))
    BY <1>2, <1>11, <1>12, SoundPagesMakeSoundFile
  <2> HIDE DEF b
  <2>2. QED
    BY <1>4, <1>10, <1>11, <2>1, LeadsByOne
<1>14. FileInv'
  <2>1. Call(<<b>>, risk) /\ Leads(Flushed, <<b>>, nodes', n_pages')
    BY <1>1, <1>10, <1>13
  <2> HIDE DEF b, risk
  <2>2. QED
    BY <2>1, CallMade
<1>15. NodesInv'
  BY <1>1, <1>2, <1>11 DEF NodesInv
<1>16. QED
  BY <1>14, <1>15 DEF WritesInv

(* chidb_Pager_writePage.                                                  *)
LEMMA WritePageKeepsWrites ==
  ASSUME WritesInv, WritePage
  PROVE  WritesInv'
<1>1. /\ todo # << >> /\ file' = Flushed /\ buffer' = Head(todo) /\ todo' = Tail(todo)
      /\ UNCHANGED <<nodes, n_pages, roots, op>>
  BY DEF WritePage, vars
<1>2. Leads(Flushed, todo, nodes, n_pages)
  BY DEF WritesInv, FileInv
<1>3. /\ Leads(Flush(Flushed, Head(todo)), Tail(todo), nodes, n_pages)
      /\ Head(todo) \in PageWrite /\ SoundFile(Flushed)
  BY <1>1, <1>2, LeadsAfterFirst, LeadsFrom
<1>4. Flushed' = Flush(Flushed, Head(todo))
  BY <1>1 DEF Flushed
<1>5. FileInv'
  BY <1>1, <1>3, <1>4 DEF FileInv
<1>6. NodesInv'
  BY <1>1 DEF WritesInv, NodesInv
<1>7. QED
  BY <1>5, <1>6 DEF WritesInv

(* chidb_Btree_open.                                                       *)
LEMMA StoredNodes ==
  ASSUME NEW f, SoundFile(f)
  PROVE  /\ NodesOf(f) \in [Pages -> BTreeNode]
         /\ Holds(f, NodesOf(f), Len(f))
         /\ Len(f) \in Nat /\ Len(f) <= MaxPages
         /\ f = << >> => NodesOf(f)[1] = initEmptyNode(1, TABLE_LEAF)
<1>1. f \in Seq(BTreeNode) /\ Len(f) \in Nat /\ Len(f) <= MaxPages
  BY DEF SoundFile
<1>2. 1 \in Pages /\ Pages \subseteq Nat /\ \A p \in Pages : p >= 1
  BY ConstantsAssumption DEF Pages
<1>3. \A p \in Pages, t \in NodeTypes \cup {Unallocated} : initEmptyNode(p, t) \in BTreeNode
  BY EmptyNodeType
<1>4. TABLE_LEAF \in NodeTypes
  BY DEF NodeTypes
<1>5. ASSUME NEW p \in Pages
      PROVE  NodesOf(f)[p] = IF p <= Len(f) THEN f[p]
                             ELSE initEmptyNode(p, IF p = 1 THEN TABLE_LEAF ELSE Unallocated)
  BY DEF NodesOf
<1>6. ASSUME NEW p \in Pages
      PROVE  NodesOf(f)[p] \in BTreeNode
  <2>1. CASE p <= Len(f)
    <3>1. p \in 1 .. Len(f)
      BY <1>1, <1>2, <2>1
    <3>2. QED
      BY <1>1, <1>5, <2>1, <3>1
  <2>2. CASE ~(p <= Len(f))
    BY <1>3, <1>4, <1>5, <2>2
  <2>3. QED
    BY <2>1, <2>2
<1>7. NodesOf(f) \in [Pages -> BTreeNode]
  <2>1. NodesOf(f) = [p \in Pages |-> NodesOf(f)[p]]
    BY DEF NodesOf
  <2>2. QED
    BY <1>6, <2>1
<1>8. Holds(f, NodesOf(f), Len(f))
  <2>1. ASSUME NEW p \in 1 .. Len(f)
        PROVE  f[p] = NodesOf(f)[p]
    <3>1. p \in Pages /\ p <= Len(f)
      BY <1>1, ConstantsAssumption DEF Pages
    <3>2. QED
      BY <1>5, <3>1
  <2>2. QED
    BY <1>1, <2>1 DEF Holds
<1>9. f = << >> => NodesOf(f)[1] = initEmptyNode(1, TABLE_LEAF)
  <2>1. SUFFICES ASSUME f = << >>
                 PROVE  NodesOf(f)[1] = initEmptyNode(1, TABLE_LEAF)
    OBVIOUS
  <2>2. Len(f) = 0
    BY <2>1
  <2>3. QED
    BY <1>2, <1>5, <2>2
<1>10. QED
  BY <1>1, <1>7, <1>8, <1>9

(* The writes that make page 1 of an empty file.                           *)
LEMMA CreationLeads ==
  ASSUME SafeSizes, NEW f, f = << >>, SoundFile(f)
  PROVE  Leads(f, CreateWrites(f), NodesOf(f), 1)
<1> DEFINE ns == NodesOf(f)
           leaf == initEmptyNode(1, TABLE_LEAF)
           zeros == Zeros(1)
           a == Write(1, zeros)
           b == Write(1, leaf)
           g == Flush(f, a)
           ms == PutIn(ns, 1, zeros)
<1>1. /\ ns \in [Pages -> BTreeNode] /\ Holds(f, ns, Len(f)) /\ ns[1] = leaf
  BY StoredNodes
<1>2. Len(f) = 0 /\ Creating
  BY DEF SoundFile
<1>3. 1 \in Pages /\ PutFits(0, 1, 1) /\ PutFits(1, 1, 1)
  BY ConstantsAssumption DEF Pages, PutFits
<1>4. /\ TABLE_LEAF \in NodeTypes /\ leaf \in BTreeNode /\ zeros \in BTreeNode
      /\ SoundNode(1, leaf, 1) /\ SoundNode(1, zeros, 1)
  <2>1. TABLE_LEAF \in NodeTypes
    BY DEF NodeTypes
  <2>2. leaf \in BTreeNode /\ SoundNode(1, leaf, 1)
    BY <1>3, <2>1, BlankIsSound
  <2>4. zeros \in BTreeNode
    <3> DEFINE z == [type |-> Unallocated, free_offset |-> 0, cells_offset |-> 0,
                     cells |-> << >>, right_page |-> 0]
    <3>1. z \in BTreeNode
      <4>1. << >> \in Seq(BTreeCell) /\ 0 \in 0 .. MaxPages
            /\ Unallocated \in NodeTypes \cup {Unallocated}
        BY ConstantsAssumption
      <4>2. QED
        BY <4>1 DEF BTreeNode
    <3>2. zeros = z
      <4> DEFINE e == initEmptyNode(1, Unallocated)
                 free == Word16(node_header_base(1) + node_header_size(Unallocated))
                 room == Word16(PageSize)
      <4>1. zeros = [e EXCEPT !.free_offset = 0, !.cells_offset = 0]
        BY DEF Zeros
      <4>2. e = [type |-> Unallocated, free_offset |-> free, cells_offset |-> room,
                 cells |-> << >>, right_page |-> 0]
        BY DEF initEmptyNode
      <4> HIDE DEF e, free, room, zeros
      <4>3. QED
        BY <4>1, <4>2
    <3>3. QED
      BY <3>1, <3>2
  <2>5. SoundNode(1, zeros, 1)
    BY <1>2 DEF SoundNode
  <2>6. QED
    BY <2>1, <2>2, <2>4, <2>5
<1>5. a \in PageWrite /\ b \in PageWrite
  <2> HIDE DEF leaf, zeros
  <2>1. QED
    BY <1>3, <1>4 DEF Write, PageWrite
<1> HIDE DEF ns, leaf, zeros
<1>6. Holds(f, ns, 0)
  BY <1>1, <1>2
<1>7. ms \in [Pages -> BTreeNode] /\ Holds(g, ms, 1)
  BY ONLY <1>1, <1>3, <1>4, <1>6, PagePut
<1>8. /\ ns = PutIn(ms, 1, leaf)
      /\ ms[1] = zeros
  BY <1>1, <1>3 DEF PutIn
<1>9. Holds(Flush(g, b), ns, 1)
  <2> HIDE DEF g, ms
  <2>1. QED
    BY ONLY <1>3, <1>4, <1>7, <1>8, PagePut
<1>10. \A p \in 1 .. 1 : p = 1
  OBVIOUS
<1>11. SoundFile(g)
  <2>1. SoundNodes(ms, 1)
    BY <1>4, <1>8, <1>10 DEF SoundNodes
  <2>2. QED
    BY <1>3, <1>7, <2>1, SoundPagesMakeSoundFile
<1>12. SoundFile(Flush(g, b))
  <2>1. SoundNodes(ns, 1)
    BY <1>1, <1>4, <1>10 DEF SoundNodes
  <2>2. QED
    BY <1>3, <1>9, <2>1, SoundPagesMakeSoundFile
<1> HIDE DEF ms
<1>13. Leads(f, <<a>>, ms, 1)
  <2> HIDE DEF a, b
  <2>1. QED
    BY <1>5, <1>7, <1>11, LeadsByOne
<1>14. ViewsOf(f, <<a>>)[Len(<<a>>)] = g
  <2> DEFINE w == <<a>>
  <2>1. Len(w) \in Nat
    OBVIOUS
  <2>2. Len(w) = 1 /\ w[1] = a
    OBVIOUS
  <2> HIDE DEF w, a
  <2>3. ViewsOf(f, w)[0] = f
        /\ \A i \in 1 .. Len(w) : ViewsOf(f, w)[i] = Flush(ViewsOf(f, w)[i - 1], w[i])
    BY <2>1, FirstViews
  <2>4. ViewsOf(f, w)[1] = Flush(ViewsOf(f, w)[0], a)
    BY <2>2, <2>3
  <2>5. QED
    BY <2>2, <2>3, <2>4 DEF w
<1>15. Leads(g, <<b>>, ns, 1)
  <2> HIDE DEF a, b, g
  <2>1. QED
    BY <1>5, <1>9, <1>11, <1>12, LeadsByOne
<1>16. CreateWrites(f) = <<a>> \o <<b>>
  <2>1. CreateWrites(f) = <<a, b>>
    BY DEF CreateWrites, leaf, zeros
  <2> HIDE DEF a, b
  <2>2. QED
    BY <1>5, <2>1, TwoWrites
<1> HIDE DEF a, b, g
<1>17. Leads(f, <<a>> \o <<b>>, ns, 1)
  <2> DEFINE u == <<a>>
             w == <<b>>
  <2>1. Leads(f, u, ms, 1) /\ Leads(ViewsOf(f, u)[Len(u)], w, ns, 1)
    BY <1>13, <1>14, <1>15
  <2> HIDE DEF u, w
  <2>2. Leads(f, u \o w, ns, 1)
    BY <2>1, LeadsOn
  <2>3. QED
    BY <2>2 DEF u, w
<1>18. QED
  BY <1>16, <1>17 DEF ns

LEMMA OpenedFile ==
  ASSUME SafeSizes, NEW f, SoundFile(f)
  PROVE  /\ PagesOf(f) \in Pages /\ NodesOf(f) \in [Pages -> BTreeNode]
         /\ Leads(f, CreateWrites(f), NodesOf(f), PagesOf(f))
         /\ 1 \in 1 .. PagesOf(f) /\ DOMAIN f \subseteq 1 .. PagesOf(f)
<1>1. /\ NodesOf(f) \in [Pages -> BTreeNode] /\ Holds(f, NodesOf(f), Len(f))
      /\ Len(f) \in Nat /\ Len(f) <= MaxPages /\ DOMAIN f = 1 .. Len(f)
  BY StoredNodes DEF SoundFile
<1>2. MaxPages \in Nat /\ MaxPages >= 1
  BY ConstantsAssumption
<1>3. CASE f = << >>
  <2>1. Leads(f, CreateWrites(f), NodesOf(f), 1) /\ PagesOf(f) = 1
    BY <1>3, CreationLeads DEF PagesOf
  <2>2. Len(f) = 0
    BY <1>3
  <2>3. QED
    BY <1>1, <1>2, <2>1, <2>2 DEF Pages
<1>4. CASE f # << >>
  <2>1. Len(f) >= 1
    BY <1>1, <1>4 DEF SoundFile
  <2>2. PagesOf(f) = Len(f) /\ CreateWrites(f) = << >>
    BY <1>4 DEF PagesOf, RealDBSize, CreateWrites
  <2>3. Leads(f, << >>, NodesOf(f), Len(f))
    BY <1>1, LeadsNowhere
  <2>4. QED
    BY <1>1, <1>2, <2>1, <2>2, <2>3 DEF Pages
<1>5. QED
  BY <1>3, <1>4

LEMMA OpenKeepsWrites ==
  ASSUME SafeSizes, WritesInv, NEW f, SoundFile(f), OpenFile(f),
         file' = f, buffer' = None
  PROVE  WritesInv'
<1>1. /\ n_pages' = PagesOf(f) /\ nodes' = NodesOf(f) /\ todo' = CreateWrites(f)
      /\ roots' = {1} \cup (roots \cap DOMAIN f) /\ op' = Idle
  BY DEF OpenFile
<1>2. /\ PagesOf(f) \in Pages /\ NodesOf(f) \in [Pages -> BTreeNode]
      /\ Leads(f, CreateWrites(f), NodesOf(f), PagesOf(f))
      /\ 1 \in 1 .. PagesOf(f) /\ DOMAIN f \subseteq 1 .. PagesOf(f)
  BY OpenedFile
<1>3. Flushed' = f
  BY NothingToFlush DEF Flushed
<1>4. FileInv'
  BY <1>1, <1>2, <1>3 DEF FileInv
<1>5. NodesInv'
  BY <1>1, <1>2 DEF NodesInv
<1>6. QED
  BY <1>4, <1>5 DEF WritesInv

LEMMA InitWrites ==
  ASSUME SafeSizes, FileInit
  PROVE  WritesInv
<1>1. PICK start \in StartFiles : file = start.file /\ roots = start.roots
  BY DEF FileInit
<1>2. /\ n_pages = PagesOf(file) /\ nodes = NodesOf(file) /\ todo = CreateWrites(file)
      /\ op = Idle /\ buffer = None
  BY DEF FileInit
<1>3. SoundFile(file) /\ roots \subseteq 1 .. PagesOf(file)
  BY <1>1, FilesAssumption
<1>4. /\ PagesOf(file) \in Pages /\ NodesOf(file) \in [Pages -> BTreeNode]
      /\ Leads(file, CreateWrites(file), NodesOf(file), PagesOf(file))
  BY <1>3, OpenedFile
<1>5. Flushed = file
  BY <1>2, NothingToFlush DEF Flushed
<1>6. FileInv
  BY <1>2, <1>3, <1>4, <1>5 DEF FileInv
<1>7. NodesInv
  BY <1>2, <1>3, <1>4 DEF NodesInv
<1>8. QED
  BY <1>6, <1>7 DEF WritesInv

LEMMA StutterKeepsWrites ==
  ASSUME WritesInv, UNCHANGED allVars
  PROVE  WritesInv'
<1>1. UNCHANGED <<nodes, n_pages, roots, op, file, buffer, todo>>
  BY DEF allVars
<1>2. Flushed' = Flushed
  BY <1>1 DEF Flushed
<1>3. FileInv'
  BY <1>1, <1>2 DEF WritesInv, FileInv
<1>4. NodesInv'
  BY <1>1 DEF WritesInv, NodesInv
<1>5. QED
  BY <1>3, <1>4 DEF WritesInv

LEMMA NextKeepsWrites ==
  SafeSizes /\ WritesInv /\ [FileNext]_allVars => WritesInv'
<1> SUFFICES ASSUME SafeSizes, WritesInv, [FileNext]_allVars
             PROVE  WritesInv'
  OBVIOUS
<1>1. CASE CallNewTree
  BY <1>1, NewTreeKeepsWrites
<1>2. CASE CallInsert
  <2>1. PICK r \in roots, c \in BTreeCell : Insert(r, c)
    BY <1>2, InsertedCellType DEF CallInsert, InsertInTable, InsertInIndex
  <2>2. /\ Returned /\ nodes[1].type # Unallocated
        /\ LET s == op'.nroot
           IN  IF n_pages' = n_pages THEN Call(<< >>, {})
               ELSE Call(SplitRootWrites(nodes, s, n_pages + 1, n_pages + 2),
                         EntriesUnder(Flushed, s, s))
    BY <1>2 DEF CallInsert
  <2>3. QED
    BY <2>1, <2>2, InsertKeepsWrites
<1>3. CASE CallDescend
  BY <1>3, DescendKeepsWrites
<1>4. CASE CallSplit
  BY <1>4, SplitKeepsWrites
<1>5. CASE CallReject \/ RejectPageNumber
  BY <1>5, RejectKeepsWrites
<1>6. CASE CallInsertInLeaf
  BY <1>6, InsertInLeafKeepsWrites
<1>7. CASE WritePage
  BY <1>7, WritePageKeepsWrites
<1>8. CASE CloseAndOpen
  <2>1. SoundFile(Flushed) /\ OpenFile(Flushed) /\ file' = Flushed /\ buffer' = None
    BY <1>8, ReturnedFacts DEF CloseAndOpen
  <2>2. QED
    BY <2>1, OpenKeepsWrites
<1>9. CASE CrashAndOpen
  <2>1. SoundFile(file) /\ OpenFile(file) /\ file' = file /\ buffer' = None
    BY <1>9 DEF CrashAndOpen, WritesInv, FileInv
  <2>2. QED
    BY <2>1, OpenKeepsWrites
<1>10. CASE UNCHANGED allVars
  BY <1>10, StutterKeepsWrites
<1>11. QED
  BY <1>1, <1>2, <1>3, <1>4, <1>5, <1>6, <1>7, <1>8, <1>9, <1>10 DEF FileNext, Continue
-----------------------------------------------------------------------------
(* The theorems.  They assume SafeSizes, without which a split may leave a *)
(* page that is no node.                                                   *)

(* At every moment what is buffered and still to be written leads, from    *)
(* the pages in the file, to the nodes that the B-Trees are using.         *)
THEOREM WritesLeadToNodes ==
  ASSUME SafeSizes
  PROVE  FileSpec => []WritesInv
<1>1. FileInit => WritesInv
  BY InitWrites
<1>2. WritesInv /\ [FileNext]_allVars => WritesInv'
  BY NextKeepsWrites
<1>3. QED
  BY <1>1, <1>2, PTL DEF FileSpec

(* Between two calls the file and the page in the stream are the nodes of  *)
(* the B-Trees, neither more pages nor fewer: the order in which a split   *)
(* writes its pages loses none of its writes, and a program that opens the *)
(* file allocates the page that this one would.                            *)
THEOREM FileHoldsTheNodes ==
  ASSUME SafeSizes
  PROVE  FileSpec => []FileIsTheNodes
<1>1. WritesInv => FileIsTheNodes
  <2> SUFFICES ASSUME WritesInv, Returned
               PROVE  /\ RealDBSize(Flushed) = n_pages
                      /\ \A p \in 1 .. n_pages : Flushed[p] = nodes[p]
    BY DEF FileIsTheNodes
  <2>1. Holds(Flushed, nodes, n_pages)
    BY ReturnedFacts
  <2>2. QED
    BY <2>1 DEF Holds, RealDBSize
<1>2. QED
  BY <1>1, WritesLeadToNodes, PTL

(* Whenever the process dies, the pages in the file are nodes and point to *)
(* pages in the file, in all the trees and after any number of crashes: a  *)
(* page is written before the first pointer to it.  Programs that find no  *)
(* file are left out, since page 1 is no node until it is made.            *)
THEOREM PointersNeverDangle ==
  ASSUME SafeSizes, \A start \in StartFiles : start.file # << >>
  PROVE  FileSpec => []PointersStayInFile
<1>1. WritesInv => PointersStayInFile
  <2> SUFFICES ASSUME WritesInv, NEW p \in DOMAIN file
               PROVE  /\ file[p].type \in NodeTypes
                      /\ Children(file[p]) \subseteq DOMAIN file \cup {0}
                      /\ 0 \in Children(file[p]) => file[p].cells = << >>
    BY DEF PointersStayInFile
  <2>1. ~Creating
    BY DEF Creating
  <2>2. SoundFile(file)
    BY DEF WritesInv, FileInv
  <2>3. file \in Seq(BTreeNode) /\ DOMAIN file = 1 .. Len(file) /\ Len(file) \in Nat
    BY <2>2 DEF SoundFile
  <2>4. p \in 1 .. Len(file) /\ p \in Nat /\ p >= 1
    BY <2>3
  <2>5. SoundNode(p, file[p], Len(file)) /\ file[p] \in BTreeNode
    BY <2>2, <2>3, <2>4 DEF SoundFile
  <2> DEFINE n == file[p]
  <2>6. CASE Children(n) \subseteq (1 .. Len(file)) \ {p}
    BY <2>1, <2>3, <2>5, <2>6 DEF SoundNode
  <2>7. CASE Blank(n)
    <3>1. Len(n.cells) = 0 /\ n.cells = << >> /\ n.right_page = 0 /\ is_internal(n.type)
      BY <2>7 DEF Blank
    <3>2. Children(n) = {0}
      BY <3>1 DEF Children
    <3>3. QED
      BY <2>1, <2>5, <3>1, <3>2 DEF SoundNode
  <2>8. QED
    BY <2>1, <2>5, <2>6, <2>7 DEF SoundNode
<1>2. QED
  BY <1>1, WritesLeadToNodes, PTL
=============================================================================
