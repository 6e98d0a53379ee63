----------------------------- MODULE Optimizer ------------------------------
(***************************************************************************)
(* The optimizer (src/libchidb/optimizer.c): in a SELECT from a natural    *)
(* join, a conjunct that speaks of a column of one table only is moved     *)
(* below the join, to that table's side.  chidb_prepare runs it on every   *)
(* statement before the code generator.                                    *)
(***************************************************************************)
EXTENDS Codegen

(* The one table a column can be of; none if both have it, or neither.     *)
classify_column_side(sources, ref) ==
    LET having == {s \in DOMAIN sources :
                     column_index_by_name(sources[s].columns, ref.column) >= 0}
        named  == {s \in DOMAIN sources : sources[s].name = ref.table}
    IN  CASE ref.table # NoTable /\ named # {} -> Min(named)
          [] ref.table = NoTable /\ Cardinality(having) = 1 -> Min(having)
          [] OTHER -> 0

Pushable(schema, sql) ==
    /\ sql.type = "select" /\ Len(sql.from) = 2 /\ sql.cond # <<>>
    /\ \A i \in 1 .. 2 : tables_named(schema, sql.from[i]) # <<>>

stmt_optimize(schema, sql) ==
    LET sources == sources_of(schema, sql.from)
        Bucket(side) ==
            Selected(sql.cond, {i \in DOMAIN sql.cond :
                                  classify_column_side(sources, sql.cond[i]) = side})
    IN  IF Pushable(schema, sql)
        THEN [sql EXCEPT !.side1 = Bucket(1), !.side2 = Bucket(2), !.cond = Bucket(0)]
        ELSE sql
=============================================================================
