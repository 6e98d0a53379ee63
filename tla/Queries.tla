------------------------------ MODULE Queries ------------------------------
(***************************************************************************)
(* One SELECT over a file that does not change: chidb_prepare optimizes    *)
(* and compiles it, and the caller steps it until it is done.  The         *)
(* instance chooses the files and the queries.                             *)
(***************************************************************************)
EXTENDS Relational

CONSTANTS
    Files,      \* the files, each by its trees
    Selects     \* the queries

VARIABLE sql    \* the query that is run

vars == <<trees, stmts, running, view, rows, sql>>

Init ==
    /\ trees \in Files
    /\ sql \in Selects
    /\ LET schema == schema_load(trees)
       IN  \E s \in stmt_codegen(schema, stmt_optimize(schema, sql)) :
             stmts = [h \in Handles |-> s]
    /\ running = Idle
    /\ view = [h \in Handles |-> trees]
    /\ rows = [h \in Handles |-> <<>>]

Step == \E h \in Handles : ExecBegins(h)

Next == (Step \/ Handle \/ ExecEnds) /\ UNCHANGED sql

Spec == Init /\ [][Next]_vars /\ WF_vars((Handle \/ ExecEnds) /\ UNCHANGED sql)
-----------------------------------------------------------------------------
(* Whatever its plan, a SELECT returns the rows that its condition defines: *)
(* never a wrong row or one too often, and when it is done, all of them.   *)
(* The rows are those of the unoptimized query (codegen_select, its two    *)
(* indexed forms and the join; chidb_stmt_optimize).                       *)
RowsAreAnswer ==
    \A h \in Handles :
      LET answer == Answer(view[h], sql)
      IN  /\ ShowsSome(rows[h], answer, view[h], sql)
          /\ stmts[h].rc = DONE => ShowsAll(rows[h], answer, view[h], sql)

(* Each call of chidb_step returns: no program loops for ever, whatever    *)
(* its jumps were patched to.                                              *)
StepReturns == running # Idle ~> running = Idle
=============================================================================
