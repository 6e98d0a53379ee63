------------------------------- MODULE Cursor -------------------------------
(***************************************************************************)
(* The cursors of the database machine (src/libchidb/dbm-cursor.c).        *)
(*                                                                         *)
(* Opening a cursor copies the entries of a tree in the order of their     *)
(* keys; the cursor then moves over the copy and never looks at the tree   *)
(* again.  A position is 1 .. n, or 0 (-1 in the code) before the first    *)
(* move.  A move that has nowhere to go leaves the cursor where it is.     *)
(***************************************************************************)
EXTENDS Integers, FiniteSets, SequencesExt

Unpositioned == 0

(* The n-th number of a set, and the elements of a sequence that stand at  *)
(* the positions of a set, in their order.                                 *)
Nth(numbers, n) ==
    CHOOSE i \in numbers : Cardinality({j \in numbers : j < i}) = n - 1

Selected(seq, positions) ==
    [n \in 1 .. Cardinality(positions) |-> seq[Nth(positions, n)]]

(* What collect copies: each entry of a tree has its key and, in a table,  *)
(* the record, in an index, the primary key.  An index of more than one    *)
(* page would give some entries twice: collect takes the cells of internal *)
(* index pages too, and split leaves the median that it promotes in the    *)
(* leaf as well.  A tree here is a table, or an index of one page.         *)
InOrder(tree) ==
    [n \in 1 .. Cardinality(DOMAIN tree) |->
       [key |-> Nth(DOMAIN tree, n), val |-> tree[Nth(DOMAIN tree, n)]]]

(* Mutant: the right page is copied before the pages on its left.          *)
collectRightFirst(tree) == Reverse(InOrder(tree))

collect(tree) == InOrder(tree)

Cursor_open(root, tree) ==
    [root |-> root, entries |-> collect(tree), pos |-> Unpositioned]

IsPositioned(cursor) == cursor.pos \in DOMAIN cursor.entries
Entry(cursor) == cursor.entries[cursor.pos]

MoveTo(cursor, pos) == [cursor EXCEPT !.pos = pos]
-----------------------------------------------------------------------------
(* Where each move goes; 0 if there is no such entry.                      *)

Cursor_rewind(cursor) == IF cursor.entries = <<>> THEN 0 ELSE 1

(* Mutant: the last entry is not reached.                                  *)
Cursor_nextBeforeLast(cursor) ==
    IF cursor.pos + 1 < Len(cursor.entries) THEN cursor.pos + 1 ELSE 0

Cursor_next(cursor) == IF cursor.pos < Len(cursor.entries) THEN cursor.pos + 1 ELSE 0
Cursor_prev(cursor) == IF cursor.pos > 1 THEN cursor.pos - 1 ELSE 0

Cursor_seekEq(cursor, k) == SelectInSeq(cursor.entries, LAMBDA e : e.key = k)
Cursor_seekGt(cursor, k) == SelectInSeq(cursor.entries, LAMBDA e : e.key > k)
Cursor_seekGe(cursor, k) == SelectInSeq(cursor.entries, LAMBDA e : e.key >= k)
Cursor_seekLt(cursor, k) == SelectLastInSeq(cursor.entries, LAMBDA e : e.key < k)
Cursor_seekLe(cursor, k) == SelectLastInSeq(cursor.entries, LAMBDA e : e.key <= k)
=============================================================================
