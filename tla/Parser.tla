------------------------------- MODULE Parser -------------------------------
(***************************************************************************)
(* chisql, the SQL parser (src/libchisql): what the lexer drops, what the  *)
(* actions of the grammar build, and what a call of chisql_parser leaves   *)
(* behind for the next one.                                                *)
(*                                                                         *)
(* The tables of flex and bison are not modelled.  A text is a sequence of *)
(* pieces: a comment sign, a newline, EXPLAIN, a semicolon, or a whole     *)
(* sql_line as its author wrote it.  Inside a sql_line lists are sequences *)
(* in the order of the text, and expressions and conditions are flat: the  *)
(* first operand and then operators with their right operands.  That a     *)
(* production is found is bison's work; which tree its action builds, with *)
(* the code's own lists, is what the operators below say.                  *)
(*                                                                         *)
(* Two things outlive a call: the start condition of the lexer, and the    *)
(* size of the column type that was reduced last (size_constraint).        *)
(***************************************************************************)
EXTENDS Integers, FiniteSetsExt, SequencesExt

CONSTANT Null       \* a null pointer, or an optional part that is not written

CHIDB_OK == "CHIDB_OK"
CHIDB_EINVALIDSQL == "CHIDB_EINVALIDSQL"
EXIT == "exit"      \* the parser ends the program
NoSize == -1

Piece(p) == [p |-> p]
Line(l) == [p |-> "line", line |-> l]
Garbled(size) == [p |-> "garbled", size |-> size]
-----------------------------------------------------------------------------
(* The lexer: which pieces reach the parser, and the start condition that  *)
(* a piece leaves.                                                         *)

INITIAL == "INITIAL"
BLOCK_COMMENT == "BLOCK_COMMENT"
LINE_COMMENT == "LINE_COMMENT"

IsToken(start, piece) == start = INITIAL /\ piece.p \notin {"--", "/*", "newline", "blank"}

StartAfter(start, piece) ==
    CASE start = INITIAL /\ piece.p = "--"            -> LINE_COMMENT
      [] start = INITIAL /\ piece.p = "/*"            -> BLOCK_COMMENT
      [] start = BLOCK_COMMENT /\ piece.p = "*/"      -> INITIAL
      [] start = LINE_COMMENT /\ piece.p = "newline"  -> INITIAL
      [] OTHER                                        -> start
-----------------------------------------------------------------------------
(* Literals, expressions and conditions.                                   *)

literal_value(w) ==
    CASE w.t = "int"    -> [t |-> "int", val |-> w.val]
      [] w.t = "double" -> [t |-> "double", val |-> w.val]
      [] w.t = "string" -> [t |-> IF w.len = 1 THEN "char" ELSE "text", val |-> w.val]

Literal_append(list, lit) == Append(list, lit)
values_list(ws) == FoldLeft(LAMBDA list, w : Literal_append(list, literal_value(w)), <<>>, ws)

TermLiteral(lit) == [t |-> "literal", val |-> lit]
TermNull == [t |-> "null"]
TermColumnReference(tname, cname) == [t |-> "colref", tableName |-> tname, columnName |-> cname]
TermFunction(f, e) == [t |-> "func", f |-> f, expr |-> e]
Binary(e1, e2, t) == [t |-> t, expr1 |-> e1, expr2 |-> e2]
Neg(e) == [t |-> "neg", expr |-> e]

(* `expression`, `mulexp` and `primary`, the three levels of the grammar:  *)
(* both lists of operators are left recursive.                             *)
ExprType(op) ==
    CASE op = "+" -> "plus" [] op = "-" -> "minus" [] op = "*" -> "multiply"
      [] op = "/" -> "divide" [] op = "||" -> "concat"

(* Mutant: the list of operators is right recursive.                       *)
FirstOf(w, ops) ==
    LET at == {i \in DOMAIN w.rest : w.rest[i].op \in ops} IN IF at = {} THEN 0 ELSE Min(at)

LastOf(w, ops) == Max({0} \cup {i \in DOMAIN w.rest : w.rest[i].op \in ops})
BeforeOp(w, i) == [w EXCEPT !.rest = SubSeq(@, 1, i - 1)]
AfterOp(w, i) == [first |-> w.rest[i].arg, rest |-> SubSeq(w.rest, i + 1, Len(w.rest))]

RECURSIVE expression(_), mulexp(_), primary(_)
expression(w) ==
    LET i == LastOf(w, {"+", "-"})
    IN  IF i = 0 THEN mulexp(w)
        ELSE Binary(expression(BeforeOp(w, i)), mulexp(AfterOp(w, i)), ExprType(w.rest[i].op))

mulexp(w) ==
    LET i == LastOf(w, {"*", "/", "||"})
    IN  IF i = 0 THEN primary(w.first)
        ELSE Binary(mulexp(BeforeOp(w, i)), primary(w.rest[i].arg), ExprType(w.rest[i].op))

primary(w) ==
    CASE w.t = "paren"    -> expression(w.expr)
      [] w.t = "neg"      -> Neg(primary(w.arg))
      [] w.t = "null"     -> TermNull
      [] w.t = "column"   -> TermColumnReference(w.table, w.name)
      [] w.t = "function" -> TermFunction(w.f, expression(w.expr))
      [] OTHER            -> TermLiteral(literal_value(w))

add_alias(e, alias) == [expr |-> e, alias |-> alias]
append_expression(list, e) == Append(list, e)
expression_list(ws) ==
    FoldLeft(LAMBDA list, w : append_expression(list, add_alias(expression(w.expr), w.alias)), <<>>, ws)

Comparison(t, e1, e2) == [t |-> t, expr1 |-> e1, expr2 |-> e2]
And(c1, c2) == [t |-> "and", cond1 |-> c1, cond2 |-> c2]
Or(c1, c2) == [t |-> "or", cond1 |-> c1, cond2 |-> c2]
Not(c) == [t |-> "not", cond |-> c]
In(e, values) == [t |-> "in", expr |-> e, values_list |-> values]

(* `bool_term bool_op condition` is right recursive, and AND and OR are of *)
(* one level.                                                              *)
RECURSIVE condition(_), bool_term(_)
condition(w) ==
    IF w.rest = <<>> THEN bool_term(w.first)
    ELSE IF w.rest[1].op = "and" THEN And(bool_term(w.first), condition(AfterOp(w, 1)))
         ELSE Or(bool_term(w.first), condition(AfterOp(w, 1)))

bool_term(w) ==
    CASE w.t = "paren" -> condition(w.cond)
      [] w.t = "not"   -> Not(bool_term(w.arg))
      [] w.t = "in"    -> In(expression(w.expr), values_list(w.values))
      [] w.t = "!="    -> Not(Comparison("=", expression(w.expr1), expression(w.expr2)))
      [] OTHER         -> Comparison(w.t, expression(w.expr1), expression(w.expr2))
-----------------------------------------------------------------------------
(* SELECT: the sugared relational algebra.                                 *)

SRATable(ref) == [t |-> "table", table_name |-> ref.name, alias |-> ref.alias]
SRAProject(sra, exprs) ==
    [t |-> "project", sra |-> sra, expr_list |-> exprs, distinct |-> FALSE,
     order_by |-> Null, asc_desc |-> Null, group_by |-> Null]
SRASelect(sra, cond) == [t |-> "select", sra |-> sra, cond |-> cond]
SRAJoin(sra1, sra2, t, cond) == [t |-> t, sra1 |-> sra1, sra2 |-> sra2, opt_cond |-> cond]
SRABinary(sra1, sra2, t) == [t |-> t, sra1 |-> sra1, sra2 |-> sra2]

join_condition(w) ==
    IF w = Null THEN Null
    ELSE IF w.t = "on" THEN [t |-> "on", on |-> condition(w.cond)]
    ELSE [t |-> "using", col_list |-> w.columns]

(* The condition of a NATURAL JOIN is dropped, with a warning.             *)
table(from) ==
    FoldLeft(LAMBDA sra, j :
               IF j.kind = "natural_join" THEN SRABinary(sra, SRATable(j.table), j.kind)
               ELSE SRAJoin(sra, SRATable(j.table), j.kind, join_condition(j.cond)),
             SRATable(from.first), from.rest)

OrderBy_make(e, dir) == [order_by |-> e, asc_desc |-> dir, group_by |-> Null]
GroupBy_make(e) == [order_by |-> Null, asc_desc |-> "asc", group_by |-> e]
option(w) ==
    IF w.t = "group" THEN GroupBy_make(expression(w.expr)) ELSE OrderBy_make(expression(w.expr), w.dir)

(* At most one of each is in a text that the grammar accepts.              *)
ProjectOption_combine(op1, op2) ==
    IF op2.group_by # Null THEN [op1 EXCEPT !.group_by = op2.group_by]
    ELSE [op2 EXCEPT !.group_by = op1.group_by]

SRA_applyOption(sra, op) ==
    LET ordered == IF op.order_by = Null THEN sra
                   ELSE [sra EXCEPT !.order_by = op.order_by, !.asc_desc = op.asc_desc]
    IN  IF op.group_by = Null THEN ordered ELSE [ordered EXCEPT !.group_by = op.group_by]

SRA_makeDistinct(sra) == [sra EXCEPT !.distinct = TRUE]

opt_options(sra, ws) ==
    CASE Len(ws) = 0 -> sra
      [] Len(ws) = 1 -> SRA_applyOption(sra, option(ws[1]))
      [] Len(ws) = 2 -> SRA_applyOption(sra, ProjectOption_combine(option(ws[1]), option(ws[2])))

opt_where_condition(sra, w) == IF w = Null THEN sra ELSE SRASelect(sra, condition(w))
opt_distinct(sra, distinct) == IF distinct THEN SRA_makeDistinct(sra) ELSE sra

select_statement(w) ==
    opt_distinct(opt_options(SRAProject(opt_where_condition(table(w.from), w.where), expression_list(w.exprs)),
                             w.options),
                 w.distinct)

select(w) ==
    FoldLeft(LAMBDA sra, u : SRABinary(sra, select_statement(u), "union"),
             select_statement(w.first), w.unions)
-----------------------------------------------------------------------------
(* CREATE.                                                                 *)

PRIMARY_KEY == [t |-> "primary_key"]
ForeignKey(ref) == [t |-> "foreign_key", ref |-> ref]
ColumnSize(n) == [t |-> "size", size |-> n]

constraint(w) ==
    CASE w.t = "default"     -> [t |-> "default", default_val |-> literal_value(w.val)]
      [] w.t = "check"       -> [t |-> "check", check |-> condition(w.cond)]
      [] w.t = "foreign_key" -> ForeignKey([col_name |-> Null, table_name |-> w.table,
                                            table_col_name |-> w.column])
      [] OTHER               -> [t |-> w.t]

(* The list's first node gets a new successor; what followed it is gone.   *)
Constraint_append(list, con) == IF list = <<>> THEN <<con>> ELSE <<list[1], con>>

(* `constraint constraints` is right recursive: the last one comes first.  *)
constraints(ws) == FoldRight(LAMBDA w, list : Constraint_append(list, constraint(w)), ws, <<>>)

Column_getSize(col) ==
    LET sizes == {i \in DOMAIN col.constraints : col.constraints[i].t = "size"}
    IN  IF sizes # {} THEN col.constraints[Min(sizes)].size
        ELSE CASE col.type = "char" -> 1 [] col.type = "double" -> 8
               [] col.type = "int" -> 4 [] col.type = "text" -> 250

(* A column takes the size that was reduced last.  If it has no constraint *)
(* the list that Constraint_append returns is not kept.                    *)
Column(w, size) ==
    LET cons == constraints(w.constraints)
    IN  [name |-> w.name, type |-> w.type, offset |-> 0,
         constraints |-> IF size > 0 /\ cons # <<>> THEN Constraint_append(cons, ColumnSize(size))
                         ELSE cons]

Column_append(columns, col) == Append(columns, col)

(* column_dec_list, with size_constraint: set by a type that has a size    *)
(* (one that is not positive ends the program), consumed by the column.    *)
column_dec(dec, w) ==
    LET size == IF w.size = NoSize THEN dec.size ELSE w.size
    IN  IF dec.exit THEN dec
        ELSE IF w.size # NoSize /\ w.size <= 0 THEN [dec EXCEPT !.exit = TRUE]
        ELSE [dec EXCEPT !.columns = Column_append(@, Column(w, size)), !.size = NoSize]

column_dec_list(ws, size) == FoldLeft(column_dec, [columns |-> <<>>, size |-> size, exit |-> FALSE], ws)

Column_getOffsets(columns) ==
    [i \in DOMAIN columns |->
       [columns[i] EXCEPT !.offset = IF i = 1 THEN 0 ELSE Column_getSize(columns[i - 1])]]

(* The first column of that name gets the constraint, if there is one.     *)
AddToColumn(columns, name, con) ==
    LET named == {i \in DOMAIN columns : columns[i].name = name}
    IN  IF named = {} THEN columns
        ELSE [columns EXCEPT ![Min(named)].constraints = Constraint_append(@, con)]

Table_addPrimaryKey(columns, name) == AddToColumn(columns, name, PRIMARY_KEY)
Table_addForeignKey(columns, fkr) == AddToColumn(columns, fkr.col_name, ForeignKey(fkr))

KeyDec_append(decs, dec) == IF decs = <<>> THEN <<dec>> ELSE <<decs[1], dec>>
opt_key_dec_list(ws) == FoldLeft(KeyDec_append, <<>>, ws)

Table_addKeyDecs(columns, decs) ==
    FoldLeft(LAMBDA cols, dec :
               IF dec.t = "primary" THEN FoldLeft(Table_addPrimaryKey, cols, dec.columns)
               ELSE Table_addForeignKey(cols, [col_name |-> dec.column, table_name |-> dec.table,
                                               table_col_name |-> dec.table_column]),
             columns, decs)

Table_make(name, columns, decs) ==
    [t |-> "table", name |-> name,
     columns |-> Table_addKeyDecs(Column_getOffsets(columns), opt_key_dec_list(decs))]

Index_make(w) ==
    [t |-> "index", name |-> w.name, table_name |-> w.table, column_name |-> w.column, unique |-> w.unique]
-----------------------------------------------------------------------------
(* INSERT and DELETE.                                                      *)

(* No statement is made if columns are named and are not as many as the    *)
(* values; the parser accepts the text nevertheless.                       *)
Insert_make(w) ==
    IF w.columns # <<>> /\ Len(w.columns) # Len(w.values) THEN Null
    ELSE [t |-> "insert", table_name |-> w.table, col_names |-> w.columns, values |-> values_list(w.values)]

Delete_make(w) == [t |-> "delete", table_name |-> w.table, where |-> condition(w.where)]
-----------------------------------------------------------------------------
(* sql_queries: one piece after the other, while yyparse runs.             *)

Lexer == [start : {INITIAL, BLOCK_COMMENT, LINE_COMMENT}, size : Int]
FreshLexer == [start |-> INITIAL, size |-> NoSize]

(* The memory of a statement before a line of the text sets it: malloc's,  *)
(* and of any type.                                                        *)
NoStatement == [type |-> "unset", body |-> Null, explain |-> FALSE]

Started(lexer) == [start |-> lexer.start, size |-> lexer.size, at |-> "start", stmt |-> NoStatement, rc |-> CHIDB_OK]
Refuse(ps) == [ps EXCEPT !.rc = CHIDB_EINVALIDSQL]

create_table(ps, w, dec) ==
    IF dec.exit THEN [ps EXCEPT !.rc = EXIT]
    ELSE [ps EXCEPT !.size = dec.size, !.stmt.type = "create",
                    !.stmt.body = Table_make(w.name, dec.columns, w.keys)]

sql_line(ps, w) ==
    CASE w.l = "create_table" -> create_table(ps, w, column_dec_list(w.columns, ps.size))
      [] w.l = "create_index" -> [ps EXCEPT !.stmt.type = "create", !.stmt.body = Index_make(w)]
      [] w.l = "select" -> [ps EXCEPT !.stmt.type = "select", !.stmt.body = select(w)]
      [] w.l = "insert" -> [ps EXCEPT !.stmt.type = "insert", !.stmt.body = Insert_make(w)]
      [] w.l = "delete" -> [ps EXCEPT !.stmt.type = "delete", !.stmt.body = Delete_make(w)]

(* Mutant: both forms of sql_query say that nothing is to be explained.    *)
QueryEndsPlain(ps) == [ps EXCEPT !.stmt.explain = FALSE, !.at = "query"]

QueryEnds(ps) == [ps EXCEPT !.stmt.explain = ps.at \in {"explain", "explained"}, !.at = "query"]

(* sql_query, with an empty sql_line if the semicolon comes at once.  All  *)
(* queries of a text write the same statement.                             *)
sql_query(ps, piece) ==
    CASE piece.p = "EXPLAIN" ->
           IF ps.at \in {"start", "query"} THEN [ps EXCEPT !.at = "explain"] ELSE Refuse(ps)
      [] piece.p = "line" ->
           IF ps.at \in {"start", "query", "explain"}
           THEN [sql_line(ps, piece.line) EXCEPT !.at = IF ps.at = "explain" THEN "explained" ELSE "line"]
           ELSE Refuse(ps)
      [] piece.p = ";" -> QueryEnds(ps)
      [] piece.p = "garbled" ->
           IF ps.at \in {"start", "query", "explain"} /\ piece.size # NoSize
           THEN [Refuse(ps) EXCEPT !.size = piece.size] ELSE Refuse(ps)
      [] OTHER -> Refuse(ps)

ReadPiece(ps, piece) ==
    IF ps.rc # CHIDB_OK THEN ps
    ELSE IF IsToken(ps.start, piece) THEN sql_query(ps, piece)
    ELSE [ps EXCEPT !.start = StartAfter(@, piece)]

__sql_semicolon(sql) == IF sql # <<>> /\ Last(sql).p = ";" THEN sql ELSE Append(sql, Piece(";"))

Parsed(end, tsql) ==
    [lexer |-> [start |-> end.start, size |-> end.size],
     rc    |-> IF end.rc = CHIDB_OK /\ end.at # "query" THEN CHIDB_EINVALIDSQL ELSE end.rc,
     stmt  |-> end.stmt,
     text  |-> tsql]

ReadText(tsql, lexer) == Parsed(FoldLeft(ReadPiece, Started(lexer), tsql), tsql)
chisql_parser(sql, lexer) == ReadText(__sql_semicolon(sql), lexer)
=============================================================================
