------------------------------ MODULE Database ------------------------------
(***************************************************************************)
(* A program that uses the API of chidb (src/libchidb/api.c) on one        *)
(* database: it prepares statements, steps them in any order, finalizes    *)
(* them, and closes and opens the file again.                              *)
(*                                                                         *)
(* A statement is compiled against the schema list in memory when it is    *)
(* prepared, and runs later, against the file as it is then.  The list is  *)
(* read from the schema table when the file is opened and after a CREATE   *)
(* has run to its end.                                                     *)
(***************************************************************************)
EXTENDS Relational

CONSTANTS
    InitialFiles,   \* the files that are opened first, each by its trees
    Statements,     \* the statements the program may prepare
    MaxPrepared,    \* bound of the model: statements prepared
    NoSql           \* the handle holds no statement

ASSUME StatementsAssumption == \A sql \in Statements : IsStatement(sql)
ASSUME FilesAssumption ==
    \A file \in InitialFiles :
      IsFile(file) /\ SchemaIsSound(file) /\ IndexesMatchRows(file)

VARIABLES
    schema,     \* db->schema
    sqls,       \* what each handle runs, and the schema it was compiled against
    prepared    \* the number of statements prepared

vars == <<trees, stmts, running, view, rows, schema, sqls, prepared>>

Init ==
    /\ trees \in InitialFiles
    /\ schema = schema_load(trees)
    /\ stmts = [h \in Handles |-> NoStmt]
    /\ sqls = [h \in Handles |-> NoSql]
    /\ running = Idle
    /\ view = [h \in Handles |-> <<>>]
    /\ rows = [h \in Handles |-> <<>>]
    /\ prepared = 0
-----------------------------------------------------------------------------
(* chidb_prepare: optimize and compile.  Invalid SQL leaves no statement.  *)
Prepare(h, sql) ==
    /\ running = Idle /\ stmts[h] = NoStmt
    /\ prepared < MaxPrepared
    /\ \E s \in stmt_codegen(schema, stmt_optimize(schema, sql)) :
         stmts' = [stmts EXCEPT ![h] = s]
    /\ sqls' = [sqls EXCEPT ![h] = [sql |-> sql, schema |-> schema]]
    /\ prepared' = prepared + 1
    /\ UNCHANGED <<trees, running, view, rows, schema>>

(* chidb_step: begins to run the statement.                                *)
Step(h) ==
    /\ ExecBegins(h)
    /\ UNCHANGED <<schema, sqls, prepared>>

Instruction ==
    /\ Handle
    /\ UNCHANGED <<schema, sqls, prepared>>

(* Mutant: the schema is not loaded again.                                 *)
StepDoneKeepsSchema == ExecEnds /\ UNCHANGED <<schema, sqls, prepared>>

(* The end of the program: chidb_step loads the schema again if the        *)
(* statement was a CREATE.                                                 *)
StepDone ==
    /\ ExecEnds
    /\ schema' = IF stmt.schema_change THEN schema_load(trees) ELSE schema
    /\ UNCHANGED <<sqls, prepared>>

(* chidb_finalize, at any time between two steps.                          *)
Finalize(h) ==
    /\ running = Idle /\ stmts[h] # NoStmt
    /\ stmts' = [stmts EXCEPT ![h] = NoStmt]
    /\ sqls' = [sqls EXCEPT ![h] = NoSql]
    /\ view' = [view EXCEPT ![h] = <<>>]
    /\ rows' = [rows EXCEPT ![h] = <<>>]
    /\ UNCHANGED <<trees, running, schema, prepared>>

(* chidb_close and chidb_open, when no statement is left.                  *)
Reopen ==
    /\ running = Idle /\ \A h \in Handles : stmts[h] = NoStmt
    /\ schema' = schema_load(trees)
    /\ UNCHANGED <<trees, stmts, running, view, rows, sqls, prepared>>

Next ==
    \/ \E h \in Handles, sql \in Statements : Prepare(h, sql)
    \/ \E h \in Handles : Step(h) \/ Finalize(h)
    \/ Instruction \/ StepDone \/ Reopen

(* A statement that was stepped runs in the calling thread until it has a  *)
(* row, an error or is done.  Nobody has to step a statement.              *)
Spec == Init /\ [][Next]_vars /\ WF_vars(Instruction \/ StepDone)
-----------------------------------------------------------------------------
TypeOK ==
    /\ DBMTypeOK
    /\ prepared \in 0 .. MaxPrepared
    /\ \A h \in Handles : (stmts[h] = NoStmt) <=> (sqls[h] = NoSql)
    /\ \A i \in DOMAIN schema : schema[i].root_page \in DOMAIN trees

IsRunBy(h, type) == stmts[h] # NoStmt /\ sqls[h].sql.type = type
IsDone(h) == stmts[h].rc = DONE

(* A SELECT returns rows of the file as it was at the first step, however  *)
(* it is interleaved with inserts and schema changes, whatever plan it was *)
(* compiled to and however old that plan is; all of them, if no index was  *)
(* missing an entry then.                                                  *)
SelectsReadSnapshot ==
    \A h \in Handles : IsRunBy(h, "select") /\ stmts[h].pc > 0 =>
      LET sql == sqls[h].sql
          answer == Answer(view[h], sql)
      IN  /\ ShowsSome(rows[h], answer, view[h], sql)
          /\ IsDone(h) /\ Complete(view[h]) => ShowsAll(rows[h], answer, view[h], sql)

(* An index never points to a row that is not there or has another value,  *)
(* whichever statement failed or stopped half way (codegen_insert and      *)
(* codegen_create_index add the entry after the row).                      *)
IndexEntriesMatchRows == IndexesMatchRows(trees)

(* The key of the row that an INSERT adds.                                 *)
KeyOfRow(known, sql) ==
    LET columns == tables_named(known, sql.table_name)[1].sql.columns
    IN  chidb_key(sql.values[primary_key_index(columns) + 1].value)

(* A statement that is done has kept the indexes it knew of: an INSERT has *)
(* added its row's entry to each index of the schema it was compiled       *)
(* against, a CREATE INDEX an entry for each row that it found.            *)
DoneMeansIndexed ==
    \A h \in Handles :
      /\ IsRunBy(h, "insert") /\ IsDone(h) =>
           \A item \in ToSet(indexes_of(sqls[h].schema, sqls[h].sql.table_name)) :
             \E e \in IndexEntries(trees, item) : e[2] = KeyOfRow(sqls[h].schema, sqls[h].sql)
      /\ IsRunBy(h, "create index") /\ IsDone(h) =>
           \E item \in IndexItems(trees) :
             /\ item.sql = sqls[h].sql
             /\ RowEntries(view[h], item) \subseteq IndexEntries(trees, item)

(* No two tables have one name and no two objects one root, although the   *)
(* check of names is made when a CREATE is prepared and the table is added *)
(* when it runs: the key that was chosen with the check is taken by then.  *)
SchemaSound == SchemaIsSound(trees)

(* Between steps the schema in memory has nothing that the file has not,   *)
(* and it has what every CREATE that is done has added.                    *)
SchemaKnown ==
    running = Idle =>
      /\ ToSet(schema) \subseteq Items(trees)
      /\ \A h \in Handles :
           stmts[h] # NoStmt /\ IsDone(h) /\ stmts[h].schema_change =>
             \E item \in ToSet(schema) :
               item.sql = sqls[h].sql /\ item.key = chidb_key(schema_next_key(sqls[h].schema))

(* Every call of chidb_step returns.                                       *)
StepReturns == running # Idle ~> running = Idle

(* Between steps every index has an entry for each row of its table.  It   *)
(* fails for an INSERT prepared before a CREATE INDEX (README, section 3). *)
IndexesComplete == running = Idle => Complete(trees)
=============================================================================
