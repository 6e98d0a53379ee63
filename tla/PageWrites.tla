----------------------------- MODULE PageWrites ----------------------------
(***************************************************************************)
(* The pages that the B-Trees write, one at a time, and what a crash of    *)
(* the process leaves of them (src/libchidb/pager.c, the page writes of    *)
(* btree.c).                                                               *)
(*                                                                         *)
(* BTree describes what a call makes of the nodes; here the same call      *)
(* issues the page writes that get there, in the code's order, the nodes   *)
(* it blanks on the way included.  The pager writes through a stdio FILE   *)
(* and never flushes it: a page waits in the stream's buffer until the     *)
(* next fseek, with which each read and each write of a page begins, or    *)
(* fclose.  So the file holds all writes, or all but the last.             *)
(***************************************************************************)
EXTENDS BTree

CONSTANTS
    StartFiles,     \* the files a program may find, with their roots
    MaxCrashes,     \* bound of the model: crashes
    None            \* the stream's buffer is empty

VARIABLES
    file,       \* the pages in the file, by number
    buffer,     \* the page that waits in the stream, or None
    todo,       \* the writes the current call has still to make
    crashes,    \* bound: how often the process crashed
    acked,      \* history: the entries whose insert returned OK
    atRisk      \* history: the entries the current call may cost in a crash

pagerVars == <<file, buffer, todo, crashes, acked, atRisk>>
allVars == <<nodes, n_pages, roots, op, rc, file, buffer, todo, crashes, acked, atRisk>>

Write(p, n) == [npage |-> p, node |-> n]
-----------------------------------------------------------------------------
(* The file.  A page beyond its end is added to it, with the hole before it *)
(* full of zeros; what is in no page reads as zeros.                       *)

Zeros(p) == [initEmptyNode(p, Unallocated) EXCEPT !.free_offset = 0, !.cells_offset = 0]

(* Mutant: the stream keeps the pages of one write only.                   *)
FlushLosesOld(f, b) == f

Flush(f, b) ==
    IF b = None THEN f
    ELSE [p \in 1 .. Max({Len(f), b.npage}) |->
            IF p = b.npage THEN b.node
            ELSE IF p <= Len(f) THEN f[p] ELSE Zeros(p)]

Flushed == Flush(file, buffer)

(* chidb_Pager_getRealDBSize: the pages in the file, in whole ones.        *)
RealDBSize(f) == Len(f)
-----------------------------------------------------------------------------
(* The writes of the calls of BTree.                                       *)

newNode(p, t) == <<Write(p, initEmptyNode(p, t))>>

(* chidb_Btree_split: the new page and what goes into it, the old page     *)
(* blank and then with what stays, the separator in the parent.            *)
(* Mutants: the parent first; the old page last.                           *)
SplitParentFirst(ns, parent, child, i, nM) ==
    LET after == split(ns, parent, child, i, nM)
        t == ns[child].type
    IN  <<Write(parent, after[parent])>> \o newNode(nM, t) \o <<Write(nM, after[nM])>>
        \o newNode(child, t) \o <<Write(child, after[child])>>

SplitOldPageLast(ns, parent, child, i, nM) ==
    LET after == split(ns, parent, child, i, nM)
        t == ns[child].type
    IN  newNode(nM, t) \o <<Write(nM, after[nM]), Write(parent, after[parent])>>
        \o newNode(child, t) \o <<Write(child, after[child])>>

SplitWrites(ns, parent, child, i, nM) ==
    LET after == split(ns, parent, child, i, nM)
        t == ns[child].type
    IN  newNode(nM, t) \o <<Write(nM, after[nM])>>
        \o newNode(child, t) \o <<Write(child, after[child])>>
        \o <<Write(parent, after[parent])>>

(* chidb_Btree_insert on a full root: its content goes to page nC, it is   *)
(* blanked as an internal node and made to point at nC, and nC is split.   *)
(* Mutant: an internal root is made to point at nC without being blanked.  *)
SplitRootInPlace(ns, r, nC, nM) ==
    LET t == ns[r].type
        top == IF is_index(t) THEN INDEX_INTERNAL ELSE TABLE_INTERNAL
        C == [InsertCells(initEmptyNode(nC, t), ns[r].cells)
                EXCEPT !.right_page = ns[r].right_page]
        root == [initEmptyNode(r, top) EXCEPT !.right_page = nC]
        kept == IF is_internal(t) THEN [ns[r] EXCEPT !.right_page = nC] ELSE root
    IN  newNode(nC, t) \o <<Write(nC, C), Write(r, kept)>>
        \o SplitWrites([ns EXCEPT ![nC] = C, ![r] = root], r, nC, 1, nM)

SplitRootWrites(ns, r, nC, nM) ==
    LET t == ns[r].type
        top == IF is_index(t) THEN INDEX_INTERNAL ELSE TABLE_INTERNAL
        C == [InsertCells(initEmptyNode(nC, t), ns[r].cells)
                EXCEPT !.right_page = ns[r].right_page]
        root == [initEmptyNode(r, top) EXCEPT !.right_page = nC]
    IN  newNode(nC, t) \o <<Write(nC, C)>> \o newNode(r, top) \o <<Write(r, root)>>
        \o SplitWrites([ns EXCEPT ![nC] = C, ![r] = root], r, nC, 1, nM)
-----------------------------------------------------------------------------
(* What a file holds, for a reader that starts at a root.  A pointer to    *)
(* page 0, or past the end, is where the reader gets CHIDB_EPAGENO.        *)

FileChildren(f, p) == Children(f[p]) \cap DOMAIN f

(* Whatever is damaged, no page leads back to itself: the depth of the     *)
(* search is bounded by the number of pages.                               *)
FilePagesUnder(f, r) ==
    LET reach[n \in 0 .. Len(f)] ==
          IF n = 0 THEN {r} \cap DOMAIN f
          ELSE LET before == reach[n - 1]
               IN  before \cup UNION {FileChildren(f, p) : p \in before}
    IN  reach[Len(f)]

EntriesUnder(f, r, p) ==
    UNION {{[tree |-> r, key |-> f[q].cells[i].key, val |-> f[q].cells[i].val]
              : i \in 1 .. Len(f[q].cells)}
             : q \in {l \in FilePagesUnder(f, p) : ~is_internal(f[l].type)}}

(* The walk of insertNonFull on the file, from root r to the leaf for a    *)
(* key: the value of the entry with which it compares the key there.       *)
Finds(f, r, k) ==
    LET find[n \in 0 .. Len(f)] ==
          [p \in 0 .. MaxPages |->
             IF p \notin DOMAIN f \/ n = 0 THEN NoValue
             ELSE IF is_internal(f[p].type) THEN find[n - 1][ChildFor(f[p], k)]
             ELSE ValueIn(f[p], k)]
    IN  find[Len(f)][r]

Found(f, entries) == {e \in entries : Finds(f, e.tree, e.key) = e.val}
-----------------------------------------------------------------------------
(* chidb_Btree_open.  In an empty file it makes page 1, first with nothing *)
(* but the file header and then with the node of the schema table.  Of any *)
(* other file it looks at the header alone, and takes the count of pages   *)
(* from the size (chidb_Pager_setPageSize).                                *)
CreateWrites(f) ==
    IF f # <<>> THEN <<>>
    ELSE <<Write(1, Zeros(1)), Write(1, initEmptyNode(1, TABLE_LEAF))>>

PagesOf(f) == IF f = <<>> THEN 1 ELSE RealDBSize(f)

NodesOf(f) ==
    [p \in Pages |-> IF p <= Len(f) THEN f[p]
                     ELSE initEmptyNode(p, IF p = 1 THEN TABLE_LEAF ELSE Unallocated)]

(* A page of a file that chidb left is a node or a blank node, whose       *)
(* content a crash kept from it; page 1 may be all zeros, in a file that   *)
(* was just made.                                                          *)
Creating == \E start \in StartFiles : start.file = <<>>

Blank(n) == is_internal(n.type) /\ n.cells = <<>> /\ n.right_page = 0

SoundNode(p, n, count) ==
    \/ /\ n.type \in NodeTypes /\ Layout(p, n)
       /\ Children(n) \subseteq (1 .. count) \ {p} \/ Blank(n)
    \/ Creating /\ p = 1 /\ n = Zeros(1)

SoundFile(f) ==
    /\ f \in Seq(BTreeNode) /\ Len(f) <= MaxPages
    /\ \A p \in 1 .. Len(f) : SoundNode(p, f[p], Len(f))
    /\ f = <<>> => Creating

PageWrite == [npage : Pages, node : BTreeNode]

(* A program finds no file, or one of pages such as this code writes.      *)
ASSUME FilesAssumption ==
    /\ None \notin PageWrite
    /\ \A start \in StartFiles :
         SoundFile(start.file) /\ start.roots \subseteq 1 .. PagesOf(start.file)

FileInit ==
    /\ \E start \in StartFiles :
         /\ file = start.file
         /\ roots = start.roots
         /\ acked = UNION {EntriesUnder(file, r, r) : r \in roots}
    /\ n_pages = PagesOf(file)
    /\ nodes = NodesOf(file)
    /\ op = Idle
    /\ rc = "OK"
    /\ buffer = None
    /\ todo = CreateWrites(file)
    /\ crashes = 0
    /\ atRisk = {}

(* A call reads a page first, which flushes the stream, and then has its   *)
(* writes to make.  A split may cost what is under the page it splits; the *)
(* write of a leaf is one page, and may cost the entry it adds.            *)
Call(writes, risk) ==
    /\ file' = Flushed
    /\ buffer' = None
    /\ todo' = writes
    /\ atRisk' = risk
    /\ UNCHANGED crashes

Returned == todo = <<>>

CallNewTree ==
    /\ Returned
    /\ \E t \in LeafTypes : NewTree(t) /\ Call(newNode(n_pages', t), {})
    /\ UNCHANGED acked

(* An insert under a page 1 that is no node is left out: the code reads a   *)
(* cell that is not there and what it then does is undefined.               *)
CallInsert ==
    /\ Returned
    /\ nodes[1].type # Unallocated
    /\ \/ \E r \in roots, k \in TableKeys, d \in Records : InsertInTable(r, k, d)
       \/ \E r \in roots, k \in IndexKeys, pk \in KeyPks : InsertInIndex(r, k, pk)
    /\ LET r == op'.nroot
       IN  IF n_pages' = n_pages THEN Call(<<>>, {})
           ELSE Call(SplitRootWrites(nodes, r, n_pages + 1, n_pages + 2),
                     EntriesUnder(Flushed, r, r))
    /\ UNCHANGED acked

(* insertNonFull, where getNodeByPage finds the page of the child.         *)
ChildHere ==
    is_internal(nodes[op.npage].type) => ChildFor(nodes[op.npage], op.btc.key) # 0

CallDescend ==
    /\ Returned /\ op # Idle /\ ChildHere
    /\ Descend
    /\ Call(<<>>, {})
    /\ UNCHANGED acked

CallSplit ==
    /\ Returned /\ op # Idle /\ ChildHere
    /\ SplitAndDescend
    /\ LET pos == find_position(nodes[op.npage], op.btc.key)
           child == child_at(nodes[op.npage], pos)
       IN  Call(SplitWrites(nodes, op.npage, child, pos, n_pages + 1),
                EntriesUnder(Flushed, op.nroot, child))
    /\ UNCHANGED acked

CallReject ==
    /\ Returned
    /\ RejectDuplicate
    /\ Call(<<>>, {})
    /\ UNCHANGED acked

CallInsertInLeaf ==
    /\ Returned
    /\ InsertInLeaf
    /\ LET entry == [tree |-> op.nroot, key |-> op.btc.key, val |-> op.btc.val]
       IN  /\ Call(<<Write(op.npage, nodes'[op.npage])>>, {entry})
           /\ acked' = acked \cup {entry}

(* A node that a crash left blank points to page 0, which readPage         *)
(* refuses: the insert returns CHIDB_EPAGENO.                              *)
(* Mutant: the insert is tried again.                                      *)
RetryPageNumber ==
    /\ Returned /\ op # Idle /\ ~ChildHere
    /\ op' = [op EXCEPT !.npage = op.nroot]
    /\ Call(<<>>, {})
    /\ UNCHANGED <<nodes, n_pages, roots, rc, acked>>

RejectPageNumber ==
    /\ Returned /\ op # Idle /\ ~ChildHere
    /\ op' = Idle
    /\ rc' = "EPAGENO"
    /\ Call(<<>>, {})
    /\ UNCHANGED <<nodes, n_pages, roots, acked>>

(* chidb_Pager_writePage, from chidb_Btree_writeNode.                      *)
WritePage ==
    /\ todo # <<>>
    /\ file' = Flushed
    /\ buffer' = Head(todo)
    /\ todo' = Tail(todo)
    /\ UNCHANGED <<vars, crashes, acked, atRisk>>

(* chidb_close and chidb_open, or a crash and chidb_open: what was in      *)
(* memory is gone, an insert that was running too.                         *)
OpenFile(f) ==
    /\ n_pages' = PagesOf(f)
    /\ nodes' = NodesOf(f)
    /\ roots' = {1} \cup (roots \cap DOMAIN f)
    /\ todo' = CreateWrites(f)
    /\ op' = Idle
    /\ rc' = "OK"

(* Between two calls.  fclose flushes.                                     *)
CloseAndOpen ==
    /\ Returned /\ op = Idle /\ buffer # None
    /\ file' = Flushed
    /\ buffer' = None
    /\ OpenFile(Flushed)
    /\ atRisk' = {}
    /\ UNCHANGED <<crashes, acked>>

(* The process ends at any moment, and a program opens the file again.     *)
CrashAndOpen ==
    /\ crashes < MaxCrashes
    /\ crashes' = crashes + 1
    /\ UNCHANGED file
    /\ buffer' = None
    /\ OpenFile(file)
    /\ acked' = Found(file, acked)
    /\ atRisk' = {}

Continue ==
    WritePage \/ CallDescend \/ CallSplit \/ CallReject \/ CallInsertInLeaf \/ RejectPageNumber

FileNext == CallNewTree \/ CallInsert \/ Continue \/ CloseAndOpen \/ CrashAndOpen

FileSpec == FileInit /\ [][FileNext]_allVars /\ WF_allVars(Continue)
-----------------------------------------------------------------------------
(* The writes of a call, in their order, come to what BTree says the call  *)
(* makes of the nodes, and leave a file whose size counts the pages that   *)
(* are in use: a program that opens it allocates the page that this one    *)
(* would (chidb_Pager_getRealDBSize against chidb_Pager_allocatePage).     *)
FileIsTheNodes ==
    Returned => /\ RealDBSize(Flushed) = n_pages
                /\ \A p \in 1 .. n_pages : Flushed[p] = nodes[p]

(* Whenever the process dies, the pages in the file are nodes and point to *)
(* pages in the file: a page is written before the first pointer to it, so *)
(* that no page in use is given out again.  Only a blank internal node     *)
(* points nowhere, to page 0 (chidb_Btree_split, chidb_Btree_insert).      *)
PointersStayInFile ==
    \A p \in DOMAIN file :
      /\ file[p].type \in NodeTypes
      /\ Children(file[p]) \subseteq DOMAIN file \cup {0}
      /\ 0 \in Children(file[p]) => file[p].cells = <<>>

(* A crash costs, of the entries whose insert had returned, the last one   *)
(* at most, or those under the one node that was being split.              *)
CrashCostsOneSplit == acked \ Found(file, acked) \subseteq atRisk

(* What a crash leaves of the trees are trees: of the pages that a reader  *)
(* can reach each hangs from one pointer and belongs to one tree.  The     *)
(* halves of a split are never both reachable with the whole.              *)
FilePointers(f) ==
    UNION {{<<p, i>> : i \in 1 .. Len(f[p].cells) + 1} :
             p \in {q \in UNION {FilePagesUnder(f, r) : r \in roots} : is_internal(f[q].type)}}

FilePointersTo(f, p) == {w \in FilePointers(f) : child_at(f[w[1]], w[2]) = p}

ReachablePagesFormTrees ==
    \A r \in roots : \A p \in FilePagesUnder(file, r) :
      /\ \A s \in roots \ {r} : p \notin FilePagesUnder(file, s)
      /\ Cardinality(FilePointersTo(file, p)) = IF p = r THEN 0 ELSE 1

(* What can be read can be found: in what a crash leaves, no key is in two *)
(* reachable cells of the leaves, and the walk down to it ends at its cell. *)
CellsWith(f, r, k) ==
    UNION {{<<p, i>> : i \in {j \in 1 .. Len(f[p].cells) : f[p].cells[j].key = k}}
             : p \in {q \in FilePagesUnder(f, r) : ~is_internal(f[q].type)}}

ReachableEntriesAreFound ==
    \A r \in roots : \A e \in EntriesUnder(file, r, r) :
      /\ Finds(file, r, e.key) = e.val
      /\ Cardinality(CellsWith(file, r, e.key)) = 1

(* chidb_open returns CHIDB_OK for files that are well formed only          *)
(* (include/chidb/chidb.h: "CHIDB_ECORRUPT: The database file is not well  *)
(* formed"), and in each of these page 1 is the root of the schema table.  *)
(* It fails for a file that a crash left while it was made (README,        *)
(* section 3).                                                             *)
OpenedFileIsWellFormed == Returned => nodes[1].type \in NodeTypes

(* A call returns, in a file that a crash has damaged too.                 *)
CallReturns == (todo # <<>> \/ op # Idle) ~> (todo = <<>> /\ op = Idle)
=============================================================================
