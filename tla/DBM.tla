-------------------------------- MODULE DBM ---------------------------------
(***************************************************************************)
(* The database machine (src/libchidb/dbm.c and dbm-ops.c): statements are *)
(* programs with a program counter, registers and cursors.  chidb_stmt_exec*)
(* runs a statement until a row, an error or the end of its program; there *)
(* is one thread, so one statement runs at a time and the others wait.     *)
(* There is one action per handler of dbm-ops.c.                           *)
(*                                                                         *)
(* The file is the family of maps that KeyedStore specifies.  Roots are    *)
(* numbered in the order of their creation; tree 1 is the schema table.    *)
(* Addresses are the code's: instruction 0 is the first.                   *)
(***************************************************************************)
EXTENDS Cursor

CONSTANTS
    Handles,    \* the chidb_stmt's a program may hold
    KeyWord,    \* the number of values of a chidb_key_t (2^32 in the code)
    NoStmt,     \* the handle holds no statement
    Idle        \* no statement is running

ASSUME KeyWordAssumption == KeyWord \in Nat /\ KeyWord > 1

OK == "CHIDB_OK"
ROW == "CHIDB_ROW"
DONE == "CHIDB_DONE"
ECONSTRAINT == "CHIDB_ECONSTRAINT"

VARIABLES
    trees,      \* the trees of the file, by their roots
    stmts,      \* the prepared statements
    running,    \* the statement in chidb_stmt_exec, or Idle
    view,       \* the trees as they were when each statement began
    rows        \* the rows that each statement has returned

dbmVars == <<trees, stmts, running, view, rows>>
-----------------------------------------------------------------------------
(* Registers, records and trees.                                           *)

Int32(i) == [type |-> "int32", value |-> i]
Str(s) == [type |-> "string", value |-> s]
Null == [type |-> "null"]
Binary(record) == [type |-> "binary", value |-> record]

(* The keys of trees are unsigned: a register is cast on its way in and    *)
(* back on its way out.                                                    *)
chidb_key(i) == i % KeyWord
int32(k) == IF 2 * k >= KeyWord THEN k - KeyWord ELSE k

(* A map with k sent to v: registers, cursors and the entries of trees.     *)
Put(map, k, v) == [x \in {k} \cup DOMAIN map |-> IF x = k THEN v ELSE map[x]]

EmptyTree(index) == [index |-> index, entries |-> <<>>]

Op(opcode, p1, p2, p3) ==
    [opcode |-> opcode, p1 |-> p1, p2 |-> p2, p3 |-> p3, p4 |-> "NULL"]
OpString(r, s) ==
    [opcode |-> "String", p1 |-> 0, p2 |-> r, p3 |-> 0, p4 |-> s]

(* A text is represented by its rank in the order of strcmp.               *)
reg_compare(a, b) == a.value - b.value

NewStmt(ops, schema_change) ==
    [ops |-> ops, pc |-> 0, reg |-> <<>>, cursors |-> <<>>, rc |-> OK,
     schema_change |-> schema_change]
-----------------------------------------------------------------------------
(* The loop of chidb_stmt_exec.                                            *)

stmt == stmts[running]
endOp == Len(stmt.ops)
Fetched == running # Idle /\ stmt.pc < endOp
op == stmt.ops[stmt.pc + 1]

reg(r) == stmt.reg[r].value
cursor == stmt.cursors[op.p1]

Becomes(s) == stmts' = [stmts EXCEPT ![running] = s]

(* The handler returns CHIDB_OK, and the loop goes on at address pc.       *)
ContinueAt(pc, s) ==
    /\ Becomes([s EXCEPT !.pc = pc])
    /\ UNCHANGED <<running, view, rows>>
Continue(s) == ContinueAt(stmt.pc + 1, s)
Jump(taken) == ContinueAt(IF taken THEN op.p2 ELSE stmt.pc + 1, stmt)

(* It returns something else, and chidb_stmt_exec returns that.            *)
Return(rc) ==
    /\ Becomes([stmt EXCEPT !.pc = @ + 1, !.rc = rc])
    /\ running' = Idle
    /\ UNCHANGED view

SetReg(r, value) == [stmt EXCEPT !.reg = Put(@, r, value)]
SetCursor(c) == [stmt EXCEPT !.cursors = Put(@, op.p1, c)]

(* chidb_step begins: the statement has been prepared, and the caller does *)
(* not step a statement that failed.                                       *)
ExecBegins(s) ==
    /\ running = Idle
    /\ stmts[s] # NoStmt /\ stmts[s].rc # ECONSTRAINT
    /\ running' = s
    /\ view' = [view EXCEPT ![s] = IF stmts[s].pc = 0 THEN trees ELSE @]
    /\ UNCHANGED <<trees, stmts, rows>>

(* Mutant: the loop waits for pc to pass endOp.                            *)
ExecEndsPastEnd ==
    /\ running # Idle /\ stmt.pc > endOp
    /\ Becomes([stmt EXCEPT !.rc = DONE])
    /\ running' = Idle
    /\ UNCHANGED <<trees, view, rows>>

(* The program is at its end.                                              *)
ExecEnds ==
    /\ running # Idle /\ stmt.pc = endOp
    /\ Becomes([stmt EXCEPT !.rc = DONE])
    /\ running' = Idle
    /\ UNCHANGED <<trees, view, rows>>
-----------------------------------------------------------------------------
(* The handlers.                                                           *)

Runs(opcode) == Fetched /\ op.opcode = opcode

Opens == {"OpenRead", "OpenWrite"}

OpOpen ==
    /\ Fetched /\ op.opcode \in Opens
    /\ Continue(SetCursor(Cursor_open(reg(op.p2), trees[reg(op.p2)].entries)))
    /\ UNCHANGED trees

OpClose ==
    /\ Runs("Close")
    /\ Continue([stmt EXCEPT !.cursors =
                   [c \in DOMAIN @ \ {op.p1} |-> @[c]]])
    /\ UNCHANGED trees

(* Rewind and the seeks jump if the cursor has nowhere to go; Next and     *)
(* Prev jump if it moved.                                                  *)
Seeks == {"Rewind", "Seek", "SeekGt", "SeekGe", "SeekLt", "SeekLe"}
Steps == {"Next", "Prev"}

Sought(c, k) ==
    CASE op.opcode = "Seek"   -> Cursor_seekEq(c, k)
      [] op.opcode = "SeekGt" -> Cursor_seekGt(c, k)
      [] op.opcode = "SeekGe" -> Cursor_seekGe(c, k)
      [] op.opcode = "SeekLt" -> Cursor_seekLt(c, k)
      [] op.opcode = "SeekLe" -> Cursor_seekLe(c, k)

Destination(opcode) ==
    CASE opcode = "Rewind" -> Cursor_rewind(cursor)
      [] opcode = "Next"   -> Cursor_next(cursor)
      [] opcode = "Prev"   -> Cursor_prev(cursor)
      [] OTHER             -> Sought(cursor, chidb_key(reg(op.p3)))

(* Mutant: a cursor that moves copies its tree again.                      *)
MovesOverTree(pos, jumps) ==
    LET fresh == [cursor EXCEPT !.entries = collect(trees[cursor.root].entries)]
    IN  /\ ContinueAt(IF jumps THEN op.p2 ELSE stmt.pc + 1,
                      IF pos = 0 THEN stmt ELSE SetCursor(MoveTo(fresh, pos)))
        /\ UNCHANGED trees

MovesTo(pos, jumps) ==
    /\ ContinueAt(IF jumps THEN op.p2 ELSE stmt.pc + 1,
                  IF pos = 0 THEN stmt ELSE SetCursor(MoveTo(cursor, pos)))
    /\ UNCHANGED trees

OpSeek ==
    /\ Fetched /\ op.opcode \in Seeks
    /\ LET pos == Destination(op.opcode) IN MovesTo(pos, pos = 0)

OpNextPrev ==
    /\ Fetched /\ op.opcode \in Steps
    /\ LET pos == Destination(op.opcode) IN MovesTo(pos, pos # 0)

OpColumn ==
    /\ Runs("Column")
    /\ Continue(SetReg(op.p3, Entry(cursor).val[op.p2 + 1]))
    /\ UNCHANGED trees

OpKey ==
    /\ Runs("Key")
    /\ Continue(SetReg(op.p2, Int32(int32(Entry(cursor).key))))
    /\ UNCHANGED trees

OpIdxPKey ==
    /\ Runs("IdxPKey")
    /\ Continue(SetReg(op.p2, Int32(int32(Entry(cursor).val))))
    /\ UNCHANGED trees

OpLoad ==
    /\ Fetched
    /\ \/ op.opcode = "Integer" /\ Continue(SetReg(op.p2, Int32(op.p1)))
       \/ op.opcode = "String" /\ Continue(SetReg(op.p2, Str(op.p4)))
       \/ op.opcode = "Null" /\ Continue(SetReg(op.p2, Null))
    /\ UNCHANGED trees

Comparisons == {"Ne", "Lt", "Le", "Gt", "Ge"}

OpCompare ==
    /\ Fetched
    /\ op.opcode \in Comparisons
    /\ LET order == reg_compare(stmt.reg[op.p3], stmt.reg[op.p1])
       IN  Jump(CASE op.opcode = "Ne" -> order # 0
                  [] op.opcode = "Lt" -> order < 0
                  [] op.opcode = "Le" -> order <= 0
                  [] op.opcode = "Gt" -> order > 0
                  [] op.opcode = "Ge" -> order >= 0)
    /\ UNCHANGED trees

OpMakeRecord ==
    /\ Runs("MakeRecord")
    /\ Continue(SetReg(op.p3, Binary([i \in 1 .. op.p2 |-> stmt.reg[op.p1 + i - 1]])))
    /\ UNCHANGED trees

OpResultRow ==
    /\ Runs("ResultRow")
    /\ Return(ROW)
    /\ rows' = [rows EXCEPT ![running] =
                  Append(@, [i \in 1 .. op.p2 |-> stmt.reg[op.p1 + i - 1]])]
    /\ UNCHANGED trees

(* Mutant: the code of a duplicate is dropped.                             *)
InsertsUnchecked(root, k, val) ==
    /\ trees' = IF k \in DOMAIN trees[root].entries THEN trees
                ELSE [trees EXCEPT ![root].entries = Put(@, k, val)]
    /\ Continue(stmt)

(* chidb_Btree_insertInTable and insertInIndex add an entry or find its    *)
(* key, which the handlers report as CHIDB_ECONSTRAINT.                    *)
Inserts(root, k, val) ==
    IF k \in DOMAIN trees[root].entries
    THEN Return(ECONSTRAINT) /\ UNCHANGED <<trees, rows>>
    ELSE /\ trees' = [trees EXCEPT ![root].entries = Put(@, k, val)]
         /\ Continue(stmt)

(* Mutant: a key that is taken is replaced by the next.                    *)
OpInsertNextKey ==
    /\ Runs("Insert")
    /\ LET keys == DOMAIN trees[cursor.root].entries
           k    == chidb_key(reg(op.p3))
       IN  Inserts(cursor.root, IF k \in keys THEN 1 + Max(keys) ELSE k, reg(op.p2))

OpInsert ==
    /\ Runs("Insert")
    /\ Inserts(cursor.root, chidb_key(reg(op.p3)), reg(op.p2))

OpIdxInsert ==
    /\ Runs("IdxInsert")
    /\ Inserts(cursor.root, chidb_key(reg(op.p2)), chidb_key(reg(op.p3)))

OpCreate ==
    /\ Fetched
    /\ op.opcode \in {"CreateTable", "CreateIndex"}
    /\ trees' = Append(trees, EmptyTree(op.opcode = "CreateIndex"))
    /\ Continue(SetReg(op.p1, Int32(Len(trees'))))

OpHalt ==
    /\ Runs("Halt")
    /\ ContinueAt(endOp, stmt)
    /\ UNCHANGED trees

Handle ==
    \/ OpOpen \/ OpClose \/ OpSeek \/ OpNextPrev
    \/ OpColumn \/ OpKey \/ OpIdxPKey \/ OpLoad \/ OpCompare
    \/ OpMakeRecord \/ OpResultRow
    \/ OpInsert \/ OpIdxInsert \/ OpCreate \/ OpHalt
-----------------------------------------------------------------------------
(* What an instruction takes for granted.  The handlers do not check their *)
(* operands: a register that was never written, a cursor that is closed or *)
(* was never moved to an entry are read as they are.                       *)

AtEntry == {"Column", "Key", "IdxPKey", "Next", "Prev"}
WithCursor == AtEntry \cup Seeks \cup {"Close", "Insert", "IdxInsert"}

RegistersRead ==
    CASE op.opcode \in Opens -> {op.p2}
      [] op.opcode \in Seeks \ {"Rewind"} -> {op.p3}
      [] op.opcode \in Comparisons -> {op.p1, op.p3}
      [] op.opcode \in {"Insert", "IdxInsert"} -> {op.p2, op.p3}
      [] op.opcode \in {"MakeRecord", "ResultRow"} -> op.p1 .. op.p1 + op.p2 - 1
      [] OTHER -> {}

(* Every instruction finds its registers written, its cursor open, on an   *)
(* entry where it reads one, the tree it opens in the file, and operands   *)
(* of one type where it compares; no cursor is opened over an open one.    *)
OperandsReady ==
    Fetched =>
      /\ RegistersRead \subseteq DOMAIN stmt.reg
      /\ op.opcode \in WithCursor => op.p1 \in DOMAIN stmt.cursors
      /\ op.opcode \in AtEntry => IsPositioned(cursor)
      /\ op.opcode \in Opens =>
           reg(op.p2) \in DOMAIN trees /\ op.p1 \notin DOMAIN stmt.cursors
      /\ op.opcode \in Comparisons => stmt.reg[op.p1].type = stmt.reg[op.p3].type
      /\ op.opcode \in Seeks \cup Steps \cup Comparisons => op.p2 \in 0 .. endOp

(* Types of the machine: the statement that runs exists, pc never passes   *)
(* the end of the program and cursors are over roots of the file, in the   *)
(* order of keys.                                                          *)
DBMTypeOK ==
    /\ running \in Handles \cup {Idle}
    /\ running # Idle => stmts[running] # NoStmt
    /\ \A h \in Handles : stmts[h] # NoStmt =>
         /\ stmts[h].pc \in 0 .. Len(stmts[h].ops)
         /\ stmts[h].rc \in {OK, ROW, DONE, ECONSTRAINT}
         /\ \A c \in DOMAIN stmts[h].cursors :
              LET cur == stmts[h].cursors[c]
              IN  /\ cur.root \in DOMAIN trees
                  /\ cur.pos \in 0 .. Len(cur.entries)
                  /\ \A i, j \in DOMAIN cur.entries :
                       i < j => cur.entries[i].key < cur.entries[j].key
=============================================================================
