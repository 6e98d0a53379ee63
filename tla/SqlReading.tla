----------------------------- MODULE SqlReading -----------------------------
(***************************************************************************)
(* What a text of SQL says, read from the text as it is written and        *)
(* without the parser: the last whole query once the comments are gone,    *)
(* the usual precedence of operators, and lists in their order.  It is the *)
(* reference that Parser is checked against.                               *)
(***************************************************************************)
EXTENDS Parser

(* The pieces of a text that are not comments, if it has comments of one   *)
(* kind.                                                                   *)
InComment(text, i) ==
    \E j \in 1 .. i :
      \/ text[j].p = "/*" /\ \A k \in j + 1 .. i - 1 : text[k].p # "*/"
      \/ text[j].p = "--" /\ \A k \in j + 1 .. i - 1 : text[k].p # "newline"

Written(text) ==
    LET pieces == [i \in DOMAIN text |-> IF InComment(text, i) THEN Piece("blank") ELSE text[i]]
    IN  SelectSeq(pieces, LAMBDA piece : piece.p \notin {"blank", "newline"})

IsQuery(ps) ==
    /\ ps # <<>> /\ Last(ps).p = ";"
    /\ \/ Len(ps) = 1
       \/ Len(ps) = 2 /\ ps[1].p \in {"line", "EXPLAIN"}
       \/ Len(ps) = 3 /\ ps[1].p = "EXPLAIN" /\ ps[2].p = "line"

(* The texts the grammar accepts: queries, each with its semicolon.        *)
IsWellFormed(text) ==
    LET ps    == Written(text)
        stops == {0} \cup {i \in DOMAIN ps : ps[i].p = ";"}
    IN  /\ ps # <<>> /\ Last(ps).p = ";"
        /\ \A i \in stops \ {0} :
             IsQuery(SubSeq(ps, Max({j \in stops : j < i}) + 1, i))

LinesOf(text) == SelectSeq(Written(text), LAMBDA piece : piece.p = "line")

(* The text is one query, and asks for its explanation.                    *)
AsksToExplain(text) ==
    LET ps == Written(text) IN Len(LinesOf(text)) = 1 /\ ps[1].p = "EXPLAIN"
-----------------------------------------------------------------------------
(* The value of an expression over a row: a sum of signed products.        *)

RECURSIVE ValueOf(_, _), OperandValue(_, _)
OperandValue(w, row) ==
    CASE w.t = "paren"  -> ValueOf(w.expr, row)
      [] w.t = "neg"    -> -OperandValue(w.arg, row)
      [] w.t = "column" -> row[w.name]
      [] OTHER          -> w.val

ValueOf(w, row) ==
    LET add(acc, r) ==
          CASE r.op = "*" -> [acc EXCEPT !.product = @ * OperandValue(r.arg, row)]
            [] r.op = "+" -> [sum |-> acc.sum + acc.product, product |-> OperandValue(r.arg, row)]
            [] r.op = "-" -> [sum |-> acc.sum + acc.product, product |-> -OperandValue(r.arg, row)]
        total == FoldLeft(add, [sum |-> 0, product |-> OperandValue(w.first, row)], w.rest)
    IN  total.sum + total.product

Compare(op, x, y) ==
    CASE op = "=" -> x = y [] op = "!=" -> x # y [] op = "<" -> x < y
      [] op = ">" -> x > y [] op = "<=" -> x <= y [] op = ">=" -> x >= y

(* A condition is a disjunction of conjunctions.                           *)
RECURSIVE Holds(_, _), TermHolds(_, _)
TermHolds(w, row) ==
    CASE w.t = "paren" -> Holds(w.cond, row)
      [] w.t = "not"   -> ~TermHolds(w.arg, row)
      [] w.t = "in"    -> \E i \in DOMAIN w.values : w.values[i].val = ValueOf(w.expr, row)
      [] OTHER         -> Compare(w.t, ValueOf(w.expr1, row), ValueOf(w.expr2, row))

Holds(w, row) ==
    LET term(i) == IF i = 0 THEN w.first ELSE w.rest[i].arg
        ors     == {0, Len(w.rest) + 1} \cup {i \in DOMAIN w.rest : w.rest[i].op = "or"}
    IN  \E i \in ors \ {Len(w.rest) + 1} :
          \A j \in i .. Min({k \in ors : k > i}) - 1 : TermHolds(term(j), row)
-----------------------------------------------------------------------------
(* The meaning of the trees that the parser builds.                        *)

RECURSIVE TreeValue(_, _)
TreeValue(e, row) ==
    CASE e.t = "literal"  -> e.val.val
      [] e.t = "colref"   -> row[e.columnName]
      [] e.t = "neg"      -> -TreeValue(e.expr, row)
      [] e.t = "plus"     -> TreeValue(e.expr1, row) + TreeValue(e.expr2, row)
      [] e.t = "minus"    -> TreeValue(e.expr1, row) - TreeValue(e.expr2, row)
      [] e.t = "multiply" -> TreeValue(e.expr1, row) * TreeValue(e.expr2, row)

RECURSIVE TreeHolds(_, _)
TreeHolds(c, row) ==
    CASE c.t = "and" -> TreeHolds(c.cond1, row) /\ TreeHolds(c.cond2, row)
      [] c.t = "or"  -> TreeHolds(c.cond1, row) \/ TreeHolds(c.cond2, row)
      [] c.t = "not" -> ~TreeHolds(c.cond, row)
      [] c.t = "in"  -> \E i \in DOMAIN c.values_list : c.values_list[i].val = TreeValue(c.expr, row)
      [] OTHER       -> Compare(c.t, TreeValue(c.expr1, row), TreeValue(c.expr2, row))

(* The tables of a SELECT from left to right, and how each is joined.      *)
RECURSIVE TablesOf(_)
TablesOf(sra) ==
    IF sra.t = "table" THEN <<[kind |-> "first", name |-> sra.table_name, alias |-> sra.alias]>>
    ELSE Append(TablesOf(sra.sra1),
                [kind |-> sra.t, name |-> sra.sra2.table_name, alias |-> sra.sra2.alias])

WrittenTables(from) ==
    <<[kind |-> "first", name |-> from.first.name, alias |-> from.first.alias]>> \o
    [i \in DOMAIN from.rest |->
       [kind |-> from.rest[i].kind, name |-> from.rest[i].table.name, alias |-> from.rest[i].table.alias]]
-----------------------------------------------------------------------------
(* A statement says what a sql_line says.                                  *)

SelectAgrees(sra, w, rows) ==
    LET source == IF sra.sra.t = "select" THEN sra.sra.sra ELSE sra.sra
        ordered == {i \in DOMAIN w.options : w.options[i].t = "order"}
        grouped == {i \in DOMAIN w.options : w.options[i].t = "group"}
    IN  /\ sra.distinct = w.distinct
        /\ (sra.order_by # Null) = (ordered # {})
        /\ (sra.group_by # Null) = (grouped # {})
        /\ \A i \in ordered : sra.asc_desc = w.options[i].dir
        /\ TablesOf(source) = WrittenTables(w.from)
        /\ Len(sra.expr_list) = Len(w.exprs)
        /\ \A i \in DOMAIN w.exprs : sra.expr_list[i].alias = w.exprs[i].alias
        /\ \A row \in rows :
             /\ \A i \in DOMAIN w.exprs :
                  TreeValue(sra.expr_list[i].expr, row) = ValueOf(w.exprs[i].expr, row)
             /\ (w.where = Null) = (sra.sra.t # "select")
             /\ w.where # Null => TreeHolds(sra.sra.cond, row) = Holds(w.where, row)

RECURSIVE UnionAgrees(_, _, _, _)
UnionAgrees(sra, w, n, rows) ==
    IF n = 0 THEN sra.t = "project" /\ SelectAgrees(sra, w.first, rows)
    ELSE sra.t = "union" /\ SelectAgrees(sra.sra2, w.unions[n], rows) /\ UnionAgrees(sra.sra1, w, n - 1, rows)

TableAgrees(tbl, w) ==
    /\ tbl.t = "table" /\ tbl.name = w.name
    /\ Len(tbl.columns) = Len(w.columns)
    /\ \A i \in DOMAIN w.columns :
         tbl.columns[i].name = w.columns[i].name /\ tbl.columns[i].type = w.columns[i].type

Agrees(stmt, w, rows) ==
    CASE w.l = "create_table" -> stmt.type = "create" /\ TableAgrees(stmt.body, w)
      [] w.l = "create_index" ->
           stmt.type = "create" /\ stmt.body = [t |-> "index", name |-> w.name, table_name |-> w.table,
                                                column_name |-> w.column, unique |-> w.unique]
      [] w.l = "select" -> stmt.type = "select" /\ UnionAgrees(stmt.body, w, Len(w.unions), rows)
      [] w.l = "insert" ->
           /\ stmt.type = "insert"
           /\ stmt.body # Null =>
                /\ stmt.body.table_name = w.table
                /\ Len(stmt.body.values) = Len(w.values)
                /\ \A i \in DOMAIN w.values : stmt.body.values[i].val = w.values[i].val
      [] w.l = "delete" ->
           /\ stmt.type = "delete" /\ stmt.body.table_name = w.table
           /\ \A row \in rows : TreeHolds(stmt.body.where, row) = Holds(w.where, row)
=============================================================================
