------------------------------ MODULE Codegen -------------------------------
(***************************************************************************)
(* The code generator (src/libchidb/codegen.c): the program of a statement *)
(* under a schema.  Statements are syntax trees; the text of a CREATE that *)
(* is stored in the schema table is its tree, which the code gets back by  *)
(* parsing the text again.                                                 *)
(*                                                                         *)
(*   CREATE TABLE  [type, name, columns]    a column: [name, type, pk]     *)
(*   CREATE INDEX  [type, name, table_name, column_name]                   *)
(*   INSERT        [type, table_name, values]                              *)
(*   SELECT        [type, expr, from, side1, side2, cond]                  *)
(*                                                                         *)
(* Values and literals are Int32 and Str registers.  A condition is the    *)
(* sequence of its conjuncts [table, column, comp, lit, flipped]: column   *)
(* comp literal, or literal comp column if flipped.  side1 and side2 are   *)
(* conditions below a natural join, where the optimizer puts them.         *)
(* Columns count from 0, as operands of the instruction Column do.         *)
(***************************************************************************)
EXTENDS DBM

Star == "*"             \* as the column of a reference: all columns
NoTable == "no table"    \* an unqualified column
-----------------------------------------------------------------------------
(* The schema list: what chidb_schema_load makes of the schema table.      *)

SchemaRow(type, name, table_name, root, sql) ==
    <<Str(type), Str(name), Str(table_name), Int32(root), Str(sql)>>

schema_item(key, record) ==
    [type |-> record[1].value, name |-> record[2].value,
     table_name |-> record[3].value, root_page |-> record[4].value,
     sql |-> record[5].value, key |-> key]

schema_load(file) ==
    LET c == Cursor_open(1, file[1].entries)
    IN  [i \in DOMAIN c.entries |-> schema_item(c.entries[i].key, c.entries[i].val)]

tables_named(schema, name) ==
    Selected(schema, {i \in DOMAIN schema :
                        schema[i].type = "table" /\ schema[i].name = name})

indexes_of(schema, table) ==
    Selected(schema, {i \in DOMAIN schema :
                        schema[i].type = "index" /\ schema[i].table_name = table})

find_index_on(schema, table, column) ==
    LET indexes == indexes_of(schema, table)
    IN  Selected(indexes, {i \in DOMAIN indexes : indexes[i].sql.column_name = column})

schema_next_key(schema) == 1 + Max({0} \cup {schema[i].key : i \in DOMAIN schema})

column_index_by_name(columns, name) ==
    SelectInSeq(columns, LAMBDA c : c.name = name) - 1

column_is_primary_key(columns, i) == columns[i + 1].pk

primary_key_index(columns) == Max({0, SelectInSeq(columns, LAMBDA c : c.pk) - 1})

literal_matches_type(lit, coltype) ==
    lit.type = IF coltype = "INT" THEN "int32" ELSE "string"
-----------------------------------------------------------------------------
(* Pieces of programs.                                                     *)

When(condition, code) == IF condition THEN code ELSE <<>>

(* Pieces of `width` instructions each, one behind the other.              *)
Chain(width, pieces) ==
    [i \in 1 .. width * Len(pieces) |->
       pieces[1 + ((i - 1) \div width)][1 + ((i - 1) % width)]]

emit_literal(lit, r) ==
    IF lit.type = "int32" THEN Op("Integer", lit.value, r, 0) ELSE OpString(r, lit.value)

(* The value of column i of the row that a table's cursor is on.           *)
emit_column(c, columns, i, r) ==
    IF column_is_primary_key(columns, i) THEN Op("Key", c, r, 0) ELSE Op("Column", c, i, r)

(* A column [side, idx] of the tables `cols`, whose cursors are `at`.       *)
emit_rcol(at, cols, rc, r) ==
    emit_column(at[rc.side + 1], cols[rc.side + 1], rc.idx, r)

(* One literal per conjunct, loaded once, and for each row the negated     *)
(* comparisons, which jump to `target`.                                    *)
emit_filter_literals(cmps, base) ==
    [i \in DOMAIN cmps |-> emit_literal(cmps[i].lit, base + i - 1)]

emit_filter_checks(at, cols, cmps, base, tmp, target) ==
    Chain(2, [i \in DOMAIN cmps |->
        << emit_rcol(at, cols, cmps[i].col, tmp),
           Op(cmps[i].op, base + i - 1, target, tmp) >>])

emit_output_columns(at, cols, out, r) ==
    Append([i \in DOMAIN out |-> emit_rcol(at, cols, out[i], r + i - 1)],
           Op("ResultRow", r, Len(out), 0))

(* A compiler returns the programs it has for a statement: one, or none    *)
(* (CHIDB_EINVALIDSQL).                                                    *)
Compiled(accepted, program) == IF accepted THEN {program} ELSE {}
-----------------------------------------------------------------------------
(* CREATE TABLE, CREATE INDEX and INSERT.                                  *)

emit_schema_row(create, type, table_name, sql, key) ==
    << Op("Integer", 1, 0, 0),
       Op("OpenWrite", 0, 0, 5),
       Op(create, 4, 0, 0),
       OpString(1, type),
       OpString(2, sql.name),
       OpString(3, table_name),
       OpString(5, sql),
       Op("MakeRecord", 1, 5, 6),
       Op("Integer", key, 7, 0),
       Op("Insert", 0, 6, 7),
       Op("Close", 0, 0, 0) >>

codegen_create_table(schema, sql) ==
    Compiled(tables_named(schema, sql.name) = <<>>,
             NewStmt(Append(emit_schema_row("CreateTable", "table", sql.name, sql,
                                            schema_next_key(schema)),
                            Op("Halt", 0, 0, 0)),
                     TRUE))

(* Registers the index, then adds an entry for every row of the table.     *)
codegen_create_index(schema, sql) ==
    LET found   == tables_named(schema, sql.table_name)
        tbl     == found[1]
        columns == tbl.sql.columns
        col     == column_index_by_name(columns, sql.column_name)
        loop    == 15
        after   == 19
        program ==
            emit_schema_row("CreateIndex", "index", sql.table_name, sql,
                            schema_next_key(schema))
            \o << Op("OpenWrite", 2, 4, 0),
                  Op("Integer", tbl.root_page, 8, 0),
                  Op("OpenRead", 1, 8, Len(columns)),
                  Op("Rewind", 1, after, 0),
                  emit_column(1, columns, col, 9),
                  Op("Key", 1, 10, 0),
                  Op("IdxInsert", 2, 9, 10),
                  Op("Next", 1, loop, 0),
                  Op("Close", 1, 0, 0),
                  Op("Close", 2, 0, 0),
                  Op("Halt", 0, 0, 0) >>
    IN  Compiled(found # <<>> /\ col >= 0 /\ columns[col + 1].type = "INT",
                 NewStmt(program, TRUE))

(* Mutant: the cursors of the indexes count from 0, the table's.           *)
emit_index_entry_at_table(item, c, r, key) ==
    << Op("Integer", item.root_page, r, 0),
       Op("OpenWrite", c - 1, r, 0),
       Op("IdxInsert", c - 1, key, 1),
       Op("Close", c - 1, 0, 0) >>

(* The entry of one more index: its root goes to register r, its cursor is c. *)
emit_index_entry(item, c, r, key) ==
    << Op("Integer", item.root_page, r, 0),
       Op("OpenWrite", c, r, 0),
       Op("IdxInsert", c, key, 1),
       Op("Close", c, 0, 0) >>

(* An index whose column the table has not gets no entry.                  *)
indexes_to_fill(schema, table, columns) ==
    LET indexes == indexes_of(schema, table)
    IN  Selected(indexes, {i \in DOMAIN indexes :
                             column_index_by_name(columns, indexes[i].sql.column_name) >= 0})

codegen_insert(schema, sql) ==
    LET found   == tables_named(schema, sql.table_name)
        tbl     == found[1]
        columns == tbl.sql.columns
        ncols   == Len(columns)
        pk      == primary_key_index(columns)
        indexes == indexes_to_fill(schema, sql.table_name, columns)
        record  == 2 + ncols
        KeyReg(item) == LET col == column_index_by_name(columns, item.sql.column_name)
                        IN  IF col = pk THEN 1 ELSE 2 + col
        Load(i) == IF i = pk THEN Op("Null", 0, 2 + i, 0)
                   ELSE emit_literal(sql.values[i + 1], 2 + i)
        program ==
            << Op("Integer", tbl.root_page, 0, 0),
               Op("OpenWrite", 0, 0, ncols),
               Op("Integer", sql.values[pk + 1].value, 1, 0) >>
            \o [i \in 1 .. ncols |-> Load(i - 1)]
            \o << Op("MakeRecord", 2, ncols, record), Op("Insert", 0, record, 1) >>
            \o Chain(4, [n \in DOMAIN indexes |->
                   emit_index_entry(indexes[n], n, record + n, KeyReg(indexes[n]))])
            \o << Op("Close", 0, 0, 0), Op("Halt", 0, 0, 0) >>
    IN  Compiled(/\ found # <<>> /\ Len(sql.values) = ncols
                 /\ \A i \in 1 .. ncols :
                      literal_matches_type(sql.values[i], columns[i].type),
                 NewStmt(program, FALSE))
-----------------------------------------------------------------------------
(* The condition of a SELECT.  `sources` are its tables, one or two.       *)

sources_of(schema, from) ==
    [i \in DOMAIN from |->
       LET item == tables_named(schema, from[i])[1]
       IN  [name |-> from[i], root_page |-> item.root_page, columns |-> item.sql.columns]]

(* The column a reference means: the first table that has one of its name, *)
(* or the table that qualifies it.  With one table a qualifier is not read. *)
resolve_column(sources, ref) ==
    LET sides == {s \in DOMAIN sources :
                    /\ \/ Len(sources) = 1 \/ ref.table = NoTable
                       \/ sources[s].name = ref.table
                    /\ column_index_by_name(sources[s].columns, ref.column) >= 0}
    IN  IF sides = {} THEN {}
        ELSE {[side |-> Min(sides) - 1,
               idx |-> column_index_by_name(sources[Min(sides)].columns, ref.column)]}

rcol_type(sources, rc) == sources[rc.side + 1].columns[rc.idx + 1].type

Flip(comp) ==
    CASE comp = "<" -> ">" [] comp = ">" -> "<"
      [] comp = "<=" -> ">=" [] comp = ">=" -> "<=" [] OTHER -> comp

Negated(comp) ==
    CASE comp = "=" -> "Ne"
      [] comp = ">" -> "Le" [] comp = ">=" -> "Lt"
      [] comp = "<" -> "Ge" [] comp = "<=" -> "Gt"

resolve_comparison(sources, conj) ==
    {[col |-> rc, lit |-> conj.lit,
      op |-> Negated(IF conj.flipped THEN Flip(conj.comp) ELSE conj.comp)] :
        rc \in {c \in resolve_column(sources, conj) :
                  literal_matches_type(conj.lit, rcol_type(sources, c))}}

Resolvable(sources, cond) ==
    \A i \in DOMAIN cond : resolve_comparison(sources, cond[i]) # {}

resolve_conjuncts(sources, cond) ==
    [i \in DOMAIN cond |-> CHOOSE c \in resolve_comparison(sources, cond[i]) : TRUE]
-----------------------------------------------------------------------------
(* The access to a table: by a scan, or by an index on the column of the   *)
(* only conjunct, or of a lower and an upper bound.  An equality finds one *)
(* row; a bound starts a walk of the index, forward from a lower bound and *)
(* backward from an upper one.                                             *)

LowerBounds == {"Le", "Lt"}     \* as negated: col > v and col >= v
UpperBounds == {"Ge", "Gt"}

(* Mutant: a strict bound finds its own value.                             *)
index_seek_opcode_wide(negated) ==
    CASE negated = "Ne" -> "Seek"
      [] negated \in LowerBounds -> "SeekGe"
      [] negated \in UpperBounds -> "SeekLe"

index_seek_opcode(negated) ==
    CASE negated = "Ne" -> "Seek"
      [] negated = "Le" -> "SeekGt" [] negated = "Lt" -> "SeekGe"
      [] negated = "Ge" -> "SeekLt" [] negated = "Gt" -> "SeekLe"

detect_range_pair(cmps) ==
    IF Len(cmps) # 2 \/ cmps[1].col # cmps[2].col THEN <<>>
    ELSE CASE cmps[1].op \in LowerBounds /\ cmps[2].op \in UpperBounds -> cmps
           [] cmps[1].op \in UpperBounds /\ cmps[2].op \in LowerBounds -> Reverse(cmps)
           [] OTHER -> <<>>

plan_side_access(schema, source, cmps) ==
    LET by   == IF Len(cmps) = 1 THEN cmps ELSE detect_range_pair(cmps)
        idxs == IF by = <<>> THEN <<>>
                ELSE find_index_on(schema, source.name, source.columns[by[1].col.idx + 1].name)
    IN  IF idxs = <<>> THEN [kind |-> "scan", filter |-> cmps]
        ELSE [kind |-> IF by[1].op = "Ne" THEN "eqseek" ELSE "rangeseek",
              filter |-> <<>>, by |-> by, idx_root |-> idxs[1].root_page]

Advance(access) == IF access.by[1].op \in LowerBounds THEN "Next" ELSE "Prev"
-----------------------------------------------------------------------------
(* SELECT from one table.                                                  *)

scan_program(source, access, out) ==
    LET cols   == <<source.columns>>
        n      == Len(access.filter)
        tmp    == 1 + n
        head   == << Op("Integer", source.root_page, 0, 0),
                     Op("OpenRead", 0, 0, Len(source.columns)) >>
                  \o emit_filter_literals(access.filter, 1)
        output == emit_output_columns(<<0>>, cols, out, IF n = 0 THEN 1 ELSE tmp + 1)
        loop   == Len(head) + 1
        next   == loop + 2 * n + Len(output)
    IN  head \o << Op("Rewind", 0, next + 1, 0) >>
        \o emit_filter_checks(<<0>>, cols, access.filter, 1, tmp, next)
        \o output
        \o << Op("Next", 0, loop, 0), Op("Close", 0, 0, 0), Op("Halt", 0, 0, 0) >>

(* Cursor 0 is the index, cursor 1 the table.                              *)
codegen_select_indexed(source, access, out) ==
    LET cols   == <<source.columns>>
        by     == access.by
        two    == Len(by) = 2
        walks  == access.kind = "rangeseek"
        head   == << Op("Integer", access.idx_root, 0, 0),
                     Op("OpenRead", 0, 0, 0),
                     Op("Integer", source.root_page, 1, 0),
                     Op("OpenRead", 1, 1, Len(source.columns)),
                     emit_literal(by[1].lit, 2) >>
                  \o When(two, << emit_literal(by[2].lit, 4) >>)
        output == emit_output_columns(<<1>>, cols, out, IF two THEN 6 ELSE 4)
        loop   == Len(head) + 1
        after  == loop + (IF two THEN 4 ELSE 2) + Len(output)
        tail   == IF walks THEN after + 1 ELSE after
    IN  head
        \o << Op(index_seek_opcode(by[1].op), 0, tail, 2),
              Op("IdxPKey", 0, 3, 0),
              Op("Seek", 1, after, 3) >>
        \o When(two, << emit_rcol(<<1>>, cols, by[2].col, 5), Op(by[2].op, 4, tail, 5) >>)
        \o output
        \o When(walks, << Op(Advance(access), 0, loop, 0) >>)
        \o << Op("Close", 1, 0, 0), Op("Close", 0, 0, 0), Op("Halt", 0, 0, 0) >>
-----------------------------------------------------------------------------
(* SELECT from a natural join of two tables: a loop over the rows of the   *)
(* first, and in it one over those of the second.  A side that is found by *)
(* an equality has no loop: it is positioned before the loops begin.       *)
(* Cursors 0 and 1 are on the tables, 2 and 3 on their indexes.            *)

Indexed(access) == access.kind # "scan"
Loops(access) == access.kind # "eqseek"
TwoSided(access) == access.kind = "rangeseek" /\ Len(access.by) = 2

(* The registers of the roots, the literals and the keys, in the code's    *)
(* order of allocation.                                                    *)
Bit(b) == IF b THEN 1 ELSE 0

join_registers(a1, a2) ==
    LET base   == 2 + Bit(Indexed(a1)) + Bit(Indexed(a2))
        first2 == base + 2 * Bit(Indexed(a1)) + Bit(TwoSided(a1))
        root2  == 1 + Bit(Indexed(a1)) + Bit(Indexed(a2))
    IN  [sides |-> << [idxroot |-> 0, root |-> Bit(Indexed(a1)),
                       lit |-> base, pkey |-> base + 1, lit2 |-> base + 2],
                      [idxroot |-> root2 - 1, root |-> root2,
                       lit |-> first2, pkey |-> first2 + 1, lit2 |-> first2 + 2] >>,
         lits  |-> first2 + 2 * Bit(Indexed(a2)) + Bit(TwoSided(a2))]

open_side(source, a, s, r) ==
    When(Indexed(a), << Op("Integer", a.idx_root, r.idxroot, 0),
                        Op("OpenRead", s + 2, r.idxroot, 0) >>)
    \o << Op("Integer", source.root_page, r.root, 0),
          Op("OpenRead", s, r.root, Len(source.columns)) >>

side_literals(a, r) ==
    When(Indexed(a), << emit_literal(a.by[1].lit, r.lit) >>)
    \o When(TwoSided(a), << emit_literal(a.by[2].lit, r.lit2) >>)

find_row(s, r, die) ==
    << Op("IdxPKey", s + 2, r.pkey, 0), Op("Seek", s, die, r.pkey) >>

seek_once(a, s, r, die) ==
    When(~Loops(a), << Op("Seek", s + 2, die, r.lit) >> \o find_row(s, r, die))

(* Mutant: a walk of an index that has nowhere to begin goes to the        *)
(* instruction that advances it.                                           *)
begin_loop_advances(a, s, r, none) ==
    When(Loops(a),
         IF Indexed(a) THEN << Op(index_seek_opcode(a.by[1].op), s + 2, none - 1, r.lit) >>
                       ELSE << Op("Rewind", s, none, 0) >>)

begin_loop(a, s, r, none) ==
    When(Loops(a),
         IF Indexed(a) THEN << Op(index_seek_opcode(a.by[1].op), s + 2, none, r.lit) >>
                       ELSE << Op("Rewind", s, none, 0) >>)

enter_row(cols, a, s, r, tmp, die, stop) ==
    When(a.kind = "rangeseek",
         find_row(s, r, die)
         \o When(TwoSided(a), << emit_rcol(<<0, 1>>, cols, a.by[2].col, tmp),
                                 Op(a.by[2].op, r.lit2, stop, tmp) >>))

end_loop(a, s, loop) ==
    When(Loops(a), IF Indexed(a) THEN << Op(Advance(a), s + 2, loop, 0) >>
                                 ELSE << Op("Next", s, loop, 0) >>)

(* The columns that the tables share.                                      *)
join_pairs(cols) ==
    LET pairs == [i \in DOMAIN cols[1] |->
                    <<i - 1, column_index_by_name(cols[2], cols[1][i].name)>>]
    IN  Selected(pairs, {i \in DOMAIN pairs : pairs[i][2] >= 0})

emit_join_checks(cols, pairs, tmp, retry) ==
    Chain(3, [i \in DOMAIN pairs |->
        << emit_column(0, cols[1], pairs[i][1], tmp),
           emit_column(1, cols[2], pairs[i][2], tmp + 1),
           Op("Ne", tmp, retry, tmp + 1) >>])

select_join_program(sources, a1, a2, top, out) ==
    LET cols == <<sources[1].columns, sources[2].columns>>
        at   == <<0, 1>>
        regs == join_registers(a1, a2)
        r1   == regs.sides[1]
        r2   == regs.sides[2]
        lits2 == regs.lits + Len(a1.filter)
        lits3 == lits2 + Len(a2.filter)
        tmp  == lits3 + Len(top)
        pairs == join_pairs(cols)
        Opening(die) ==
            open_side(sources[1], a1, 0, r1) \o open_side(sources[2], a2, 1, r2)
            \o side_literals(a1, r1) \o side_literals(a2, r2)
            \o seek_once(a1, 0, r1, die) \o seek_once(a2, 1, r2, die)
            \o emit_filter_literals(a1.filter, regs.lits)
            \o emit_filter_literals(a2.filter, lits2)
            \o emit_filter_literals(top, lits3)
        Begin1(tail) == begin_loop(a1, 0, r1, tail)
        Enter1(tail, skip) ==
            enter_row(cols, a1, 0, r1, tmp, tail, tail)
            \o emit_filter_checks(at, cols, a1.filter, regs.lits, tmp, skip)
        Begin2(done) == begin_loop(a2, 1, r2, done)
        Body(tail, done, retry) ==
            enter_row(cols, a2, 1, r2, tmp, tail, done)
            \o emit_join_checks(cols, pairs, tmp, retry)
            \o emit_filter_checks(at, cols, a2.filter, lits2, tmp, retry)
            \o emit_filter_checks(at, cols, top, lits3, tmp, retry)
            \o emit_output_columns(at, cols, out, tmp + 2)
        loop1 == Len(Opening(0)) + Len(Begin1(0))
        loop2 == loop1 + Len(Enter1(0, 0)) + Len(Begin2(0))
        retry == loop2 + Len(Body(0, 0, 0))
        done  == retry + Len(end_loop(a2, 1, 0))
        tail  == done + Len(end_loop(a1, 0, 0))
    IN  Opening(tail) \o Begin1(tail) \o Enter1(tail, done)
        \o Begin2(done) \o Body(tail, done, retry)
        \o end_loop(a2, 1, loop2) \o end_loop(a1, 0, loop1)
        \o << Op("Close", 1, 0, 0) >> \o When(Indexed(a2), << Op("Close", 3, 0, 0) >>)
        \o << Op("Close", 0, 0, 0) >> \o When(Indexed(a1), << Op("Close", 2, 0, 0) >>)
        \o << Op("Halt", 0, 0, 0) >>
-----------------------------------------------------------------------------
(* The columns of the result: those that are named, or all, with those     *)
(* that two tables share only once.                                        *)
star_columns(sources) ==
    [i \in DOMAIN sources[1].columns |-> [side |-> 0, idx |-> i - 1]]
    \o When(Len(sources) = 2,
            LET cols == <<sources[1].columns, sources[2].columns>>
                shared == {pair[2] : pair \in ToSet(join_pairs(cols))}
            IN  Selected([i \in DOMAIN cols[2] |-> [side |-> 1, idx |-> i - 1]],
                         {i \in DOMAIN cols[2] : i - 1 \notin shared}))

IsStar(expr) == Len(expr) = 1 /\ expr[1].column = Star

output_columns(sources, expr) ==
    IF IsStar(expr) THEN star_columns(sources)
    ELSE [i \in DOMAIN expr |-> CHOOSE rc \in resolve_column(sources, expr[i]) : TRUE]

codegen_select(schema, sql) ==
    LET sources == sources_of(schema, sql.from)
        out == output_columns(sources, sql.expr)
        Cmps(cond) == resolve_conjuncts(sources, cond)
        Side(i, cond) == plan_side_access(schema, sources[i], Cmps(cond))
        access == Side(1, sql.cond)
        program ==
            IF Len(sql.from) = 2
            THEN select_join_program(sources, Side(1, sql.side1), Side(2, sql.side2),
                                     Cmps(sql.cond), out)
            ELSE IF Indexed(access) THEN codegen_select_indexed(sources[1], access, out)
                                    ELSE scan_program(sources[1], access, out)
    IN  Compiled(/\ \A i \in DOMAIN sql.from : tables_named(schema, sql.from[i]) # <<>>
                 /\ \/ IsStar(sql.expr)
                    \/ \A i \in DOMAIN sql.expr : resolve_column(sources, sql.expr[i]) # {}
                 /\ Resolvable(sources, sql.side1)
                 /\ Resolvable(sources, sql.side2)
                 /\ Resolvable(sources, sql.cond),
                 NewStmt(program, FALSE))

stmt_codegen(schema, sql) ==
    CASE sql.type = "create table" -> codegen_create_table(schema, sql)
      [] sql.type = "create index" -> codegen_create_index(schema, sql)
      [] sql.type = "insert"       -> codegen_insert(schema, sql)
      [] sql.type = "select"       -> codegen_select(schema, sql)
=============================================================================
