----------------------------- MODULE MCQueries -----------------------------
(* Small files and queries for Queries: tables t(a, b, d) and u(b, c),     *)
(* whose primary keys are t.a and u.b; d is a text.                        *)
EXTENDS Queries

Column(name, type, pk) == [name |-> name, type |-> type, pk |-> pk]
Table(name, columns) == [type |-> "create table", name |-> name, columns |-> columns]
Index(name, table, column) ==
    [type |-> "create index", name |-> name, table_name |-> table, column_name |-> column]

T == Table("t", << Column("a", "INT", TRUE), Column("b", "INT", FALSE),
                   Column("d", "TEXT", FALSE) >>)
U == Table("u", << Column("b", "INT", TRUE), Column("c", "INT", FALSE) >>)
TB == Index("tb", "t", "b")
TA == Index("ta", "t", "a")
UC == Index("uc", "u", "c")

(* A file with the tables' data, functions from keys to values of the      *)
(* second column, and indexes, which are complete.                         *)
TableTree(table, data) ==
    [index |-> FALSE,
     entries |-> [k \in DOMAIN data |->
                    SubSeq(<<Null, Int32(data[k]), Str(data[k] \div 2)>>,
                           1, Len(table.columns))]]
IndexTree(data, pk) ==
    [index |-> TRUE,
     entries |-> [v \in {chidb_key(IF pk THEN k ELSE data[k]) : k \in DOMAIN data} |->
                    CHOOSE k \in DOMAIN data : v = chidb_key(IF pk THEN k ELSE data[k])]]

File(second, t, u, indexes) ==
    LET items == << SchemaRow("table", "t", "t", 2, T),
                    SchemaRow("table", "u", "u", 3, second) >>
                 \o [i \in DOMAIN indexes |->
                       SchemaRow("index", indexes[i].name, indexes[i].table_name,
                                 3 + i, indexes[i])]
    IN  << [index |-> FALSE, entries |-> items], TableTree(T, t), TableTree(second, u) >>
        \o [i \in DOMAIN indexes |->
              IndexTree(IF indexes[i].table_name = "t" THEN t ELSE u,
                        indexes[i].column_name = "a")]

Compare(table, column, comp, lit, flipped) ==
    [table |-> table, column |-> column, comp |-> comp, lit |-> lit, flipped |-> flipped]
Conj(table, column, comp, v, flipped) == Compare(table, column, comp, Int32(v), flipped)
Select(expr, from, cond) ==
    [type |-> "select", expr |-> expr, from |-> from, cond |-> cond,
     side1 |-> <<>>, side2 |-> <<>>]
Ref(table, column) == [table |-> table, column |-> column]
All == <<Ref(NoTable, Star)>>

Comps == {"=", "<", "<=", ">", ">="}
Keyed(v) == (1 :> v[1]) @@ (2 :> v[2]) @@ (3 :> v[3])

MCFiles ==
    { File(U, t, u, indexes) :
        t \in { <<>>, Keyed(<<2, 3, 1>>) },
        u \in { <<>>, Keyed(<<3, 1, 2>>) },
        indexes \in { <<>>, <<TB>>, <<TA, UC>>, <<UC, TB>> } }

(* No condition; each comparison of a column of t with each value; two of  *)
(* them, of which some are a range.                                        *)
OneTable ==
    LET Conjs(values, flips) ==
            { Conj(NoTable, c, o, v, f) : c \in {"a", "b"}, o \in Comps, v \in values, f \in flips }
        OfText == { Compare("t", "d", o, Str(1), FALSE) : o \in Comps }
    IN  { Select(All, <<"t">>, <<>>) }
        \cup { Select(All, <<"t">>, <<c>>) : c \in Conjs(0 .. 4, BOOLEAN) }
        \cup { Select(<<Ref(NoTable, "b")>>, <<"t">>, <<c, d>>) :
                 c \in Conjs({1, 3}, {FALSE}), d \in Conjs({2}, {FALSE}) \cup OfText }

(* Joins with conditions on one side, on both, and on the shared column.   *)
TwoTables ==
    LET OfT == { Conj(NoTable, "a", o, 2, FALSE) : o \in Comps }
               \cup { Conj("t", "b", o, 2, FALSE) : o \in Comps }
        OfU == { Conj(NoTable, "c", o, 2, TRUE) : o \in Comps }
               \cup { Conj(NoTable, "b", o, 2, FALSE) : o \in {"<", ">="} }
    IN  { Select(All, <<"t", "u">>, <<>>) }
        \cup { Select(All, <<"t", "u">>, <<c, d>>) : c \in OfT, d \in OfU }
        \cup { Select(<<Ref("u", "c"), Ref(NoTable, "b")>>, <<"u", "t">>,
                      <<c, Conj("u", "c", "<=", 2, FALSE), Conj("u", "c", ">", 1, FALSE)>>) :
                 c \in OfT }

MCSelects == OneTable \cup TwoTables

(* A bound below zero, on an indexed column whose values are not.          *)
NegativeFiles == { File(U, Keyed(<<2, 3, 1>>), <<>>, <<TB>>) }
NegativeSelects == { Select(All, <<"t">>, <<Conj(NoTable, "b", "<", -1, FALSE)>>) }

(* A column d of both tables, a text in t and a number in u.               *)
MistypedFiles ==
    LET second == Table("u", << Column("c", "INT", TRUE), Column("d", "INT", FALSE) >>)
    IN  { File(second, Keyed(<<2, 3, 1>>), Keyed(<<3, 1, 2>>), <<>>) }
MistypedSelects == { Select(All, <<"t", "u">>, <<>>) }
=============================================================================
