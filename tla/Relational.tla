---------------------------- MODULE Relational -----------------------------
(***************************************************************************)
(* What a SELECT promises, without plans, cursors or programs: the rows of *)
(* the table, or the pairs of rows of two tables that agree on the columns *)
(* the tables share, that satisfy every conjunct of its condition.         *)
(***************************************************************************)
EXTENDS Optimizer

(* A row in full: the key of an entry stands in the place of the primary   *)
(* key, where the stored record has a null.                                *)
FullRow(columns, k, record) ==
    [i \in DOMAIN columns |-> IF columns[i].pk THEN Int32(int32(k)) ELSE record[i]]

TableRows(file, item) ==
    LET entries == file[item.root_page].entries
    IN  {FullRow(item.sql.columns, k, entries[k]) : k \in DOMAIN entries}

(* The tables a query names, and the tuples of rows, one of each table,    *)
(* that it ranges over.                                                    *)
ItemsOf(file, sql) ==
    [i \in DOMAIN sql.from |-> tables_named(schema_load(file), sql.from[i])[1]]

Tuples(file, items) ==
    IF Len(items) = 1 THEN {<<r>> : r \in TableRows(file, items[1])}
    ELSE TableRows(file, items[1]) \X TableRows(file, items[2])

Columns(items, s) == items[s].sql.columns

Shared(items) ==
    IF Len(items) = 1 THEN {}
    ELSE {ij \in (DOMAIN Columns(items, 1)) \X (DOMAIN Columns(items, 2)) :
            Columns(items, 1)[ij[1]].name = Columns(items, 2)[ij[2]].name}

ValueOf(items, tuple, ref) ==
    LET Where(s) == {i \in DOMAIN Columns(items, s) :
                       /\ Columns(items, s)[i].name = ref.column
                       /\ ref.table \in {NoTable, items[s].name}}
    IN  CHOOSE v \in UNION {{tuple[s][i] : i \in Where(s)} : s \in DOMAIN items} : TRUE

Compares(a, comp, b) ==
    CASE comp = "="  -> a.value = b.value
      [] comp = "<"  -> a.value < b.value
      [] comp = "<=" -> a.value <= b.value
      [] comp = ">"  -> a.value > b.value
      [] comp = ">=" -> a.value >= b.value

Holds(items, tuple, conj) ==
    LET v == ValueOf(items, tuple, conj)
    IN  IF conj.flipped THEN Compares(conj.lit, conj.comp, v)
                        ELSE Compares(v, conj.comp, conj.lit)

Answer(file, sql) ==
    LET items == ItemsOf(file, sql)
    IN  {tuple \in Tuples(file, items) :
           /\ \A ij \in Shared(items) : tuple[1][ij[1]] = tuple[2][ij[2]]
           /\ \A n \in DOMAIN sql.cond : Holds(items, tuple, sql.cond[n])}

(* The row that the query shows of a tuple.                                *)
Shown(file, sql, tuple) ==
    LET items == ItemsOf(file, sql)
        Own(i) == \A ij \in Shared(items) : ij[2] # i
        rest == IF Len(items) = 1 THEN <<>>
                ELSE SelectSeq([i \in DOMAIN tuple[2] |-> i], Own)
    IN  IF IsStar(sql.expr)
        THEN tuple[1] \o [n \in DOMAIN rest |-> tuple[2][rest[n]]]
        ELSE [n \in DOMAIN sql.expr |-> ValueOf(items, tuple, sql.expr[n])]

(* A sequence of rows shows each tuple of a set once, or some at most once. *)
TimesIn(sequence, row) == Cardinality({i \in DOMAIN sequence : sequence[i] = row})

ShowsSome(sequence, tuples, file, sql) ==
    \A i \in DOMAIN sequence :
      TimesIn(sequence, sequence[i])
        <= Cardinality({t \in tuples : Shown(file, sql, t) = sequence[i]})

ShowsAll(sequence, tuples, file, sql) ==
    ShowsSome(sequence, tuples, file, sql) /\ Len(sequence) = Cardinality(tuples)
-----------------------------------------------------------------------------
(* An index is complete if it has an entry for each row of its table.      *)

Items(file) == ToSet(schema_load(file))
IndexItems(file) == {item \in Items(file) : item.type = "index"}

IndexedValue(columns, column, k, record) ==
    chidb_key(FullRow(columns, k, record)[column_index_by_name(columns, column) + 1].value)

(* The entries an index should have, as pairs of an indexed value and a    *)
(* primary key; and those it has.                                          *)
RowEntries(file, item) ==
    LET table == tables_named(schema_load(file), item.table_name)[1]
        entries == file[table.root_page].entries
    IN  {<<IndexedValue(table.sql.columns, item.sql.column_name, k, entries[k]), k>>
            : k \in DOMAIN entries}

IndexEntries(file, item) ==
    LET entries == file[item.root_page].entries
    IN  {<<k, entries[k]>> : k \in DOMAIN entries}

Complete(file) == \A item \in IndexItems(file) : RowEntries(file, item) \subseteq IndexEntries(file, item)

(* No index points to a row that is not there or has another value.        *)
IndexesMatchRows(file) ==
    \A item \in IndexItems(file) :
      IndexEntries(file, item) \subseteq RowEntries(file, item)

(* Every object has a tree of its kind of its own, no two tables have one  *)
(* name, and an index is on a column of a table.                           *)
HasTable(file, index) ==
    \E table \in Items(file) :
      /\ table.type = "table" /\ table.name = index.table_name
      /\ column_index_by_name(table.sql.columns, index.sql.column_name) >= 0

SchemaIsSound(file) ==
    \A x \in Items(file) :
      /\ x.root_page \in 2 .. Len(file)
      /\ file[x.root_page].index = (x.type = "index")
      /\ x.type = "index" => HasTable(file, x)
      /\ \A y \in Items(file) \ {x} :
           /\ x.root_page # y.root_page
           /\ x.type = "table" /\ y.type = "table" => x.name # y.name
-----------------------------------------------------------------------------
(* The statements and files of the format: a table has one primary key,    *)
(* which is a number (docs/chidb-website/chidb/fileformat.html, 142).      *)

OnePrimaryKey(columns) ==
    /\ columns \in Seq(ToSet(columns))
    /\ \E i \in DOMAIN columns :
         /\ columns[i].type = "INT"
         /\ \A j \in DOMAIN columns : columns[j].pk = (j = i)

IsCondition(cond) ==
    /\ cond \in Seq(ToSet(cond))
    /\ \A i \in DOMAIN cond : cond[i].comp \in {"=", "<", "<=", ">", ">="}

IsStatement(sql) ==
    \/ sql.type = "create table" /\ OnePrimaryKey(sql.columns)
    \/ sql.type = "create index"
    \/ /\ sql.type = "insert"
       /\ sql.values \in Seq(ToSet(sql.values))
       /\ \A i \in DOMAIN sql.values :
            sql.values[i].type = "int32" => sql.values[i].value \in Int
    \/ /\ sql.type = "select"
       /\ sql = [type |-> sql.type, expr |-> sql.expr, from |-> sql.from,
                 side1 |-> sql.side1, side2 |-> sql.side2, cond |-> sql.cond]
       /\ sql.from \in Seq(ToSet(sql.from)) /\ Len(sql.from) \in 1 .. 2
       /\ sql.expr \in Seq(ToSet(sql.expr))
       /\ IsCondition(sql.cond) /\ IsCondition(sql.side1) /\ IsCondition(sql.side2)

(* Trees by their roots, of which the first is the schema table.           *)
IsFile(file) ==
    /\ file \in Seq(ToSet(file)) /\ file # <<>> /\ ~file[1].index
    /\ \A r \in DOMAIN file :
         /\ file[r] = [index |-> file[r].index, entries |-> file[r].entries]
         /\ ~file[r].index => DOMAIN file[r].entries \subseteq 0 .. KeyWord - 1
    /\ \A item \in Items(file) :
         \/ item.type = "table" /\ OnePrimaryKey(item.sql.columns)
         \/ item.type = "index"
=============================================================================
