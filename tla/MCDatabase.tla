----------------------------- MODULE MCDatabase ----------------------------
(* A table t(a, b) with primary key a, with and without a row, and the     *)
(* statements of two programs on it.                                       *)
EXTENDS Database

T == [type |-> "create table", name |-> "t",
      columns |-> <<[name |-> "a", type |-> "INT", pk |-> TRUE],
                    [name |-> "b", type |-> "INT", pk |-> FALSE]>>]
TB == [type |-> "create index", name |-> "tb", table_name |-> "t", column_name |-> "b"]
Insert(a, b) == [type |-> "insert", table_name |-> "t", values |-> <<Int32(a), Int32(b)>>]
Select(cond) ==
    [type |-> "select", expr |-> <<[table |-> NoTable, column |-> Star]>>,
     from |-> <<"t">>, cond |-> cond, side1 |-> <<>>, side2 |-> <<>>]
WhereB(comp, v) ==
    <<[table |-> NoTable, column |-> "b", comp |-> comp, lit |-> Int32(v), flipped |-> FALSE]>>

NewFile == <<EmptyTree(FALSE)>>
WithRow ==
    << [index |-> FALSE, entries |-> <<SchemaRow("table", "t", "t", 2, T)>>],
       [index |-> FALSE, entries |-> <<<<Null, Int32(2)>>>>] >>

(* Inserts of a new row, of a key and of an indexed value that are taken.  *)
MCStatements ==
    { T, TB, Insert(2, 1), Insert(1, 3), Insert(3, 2), Select(WhereB(">=", 1)) }

MCFiles == {NewFile, WithRow}

(* Values of b that are distinct, as those of an indexed column are to be. *)
DistinctStatements == { TB, Insert(2, 1), Insert(3, 3) }
=============================================================================
