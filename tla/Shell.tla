-------------------------------- MODULE Shell -------------------------------
(***************************************************************************)
(* The chidb shell (src/shell) on top of the parser, the API and the       *)
(* stream of the pager: lines are typed, databases are opened, the shell   *)
(* ends or is killed, and is started again.                                *)
(*                                                                         *)
(* What ties these parts together is state that outlives a line: the       *)
(* lexer's, which the parser shares between the text of a statement and    *)
(* the texts of the schema that it reads again; the schema list of the     *)
(* handle; and the buffer of the FILE, which holds the last page written   *)
(* until the stream is next used.                                          *)
(*                                                                         *)
(* The bytes of pages and records are Records' and PageWrites': here page  *)
(* 1 of a file is the sequence of its schema rows, and another page is the *)
(* rows of a table by their keys.  Messages, headers and modes of display  *)
(* are left out, and so are the commands that only change them.  The SQL   *)
(* that is run creates tables, inserts, deletes and selects all of a       *)
(* table; other SELECTs and indexes are compiled and run in Database.      *)
(***************************************************************************)
EXTENDS SqlReading

CONSTANTS
    FileNames,
    InitialFiles,   \* what the files may hold at first
    Sqls,           \* the texts that are run
    Texts,          \* the texts that are only parsed
    Rows,           \* the rows that expressions and conditions are read for
    MaxLines,       \* bound of the model: texts typed
    MaxCrashes,     \* bound of the model: crashes that are not the shell's own
    ReopenOpen      \* whether the file that is open may be opened again

NoFile == <<>>                      \* no such file, or an empty one
Corrupt == <<"not a database">>     \* its header is not chidb's

VARIABLES
    files,      \* what is in each file
    ctx,        \* the shell's context: the handle and the name of its file
    lexer,      \* what the parser keeps between calls
    process,    \* "stopped", "shell", "command" (-c) or "leaving"
    inserted,   \* history: the rows of each file whose INSERT was reported done
    crashes,    \* history: how often a file was open when the process died
    last,       \* history: the last text that was parsed, and what came of it
    typed       \* the number of texts typed

vars == <<files, ctx, lexer, process, inserted, crashes, last, typed>>
histories == <<inserted, crashes, last, typed>>

NoContext == [db |-> Null, dbfile |-> Null]
NoText == [text |-> <<>>, fresh |-> FALSE, rc |-> CHIDB_OK, stmt |-> NoStatement]
-----------------------------------------------------------------------------
(* The FILE of a handle.  All pages are within one block of its buffer: a  *)
(* read fills it, and further reads are served from it.  A page that is    *)
(* written stays in it until the stream is read, written, closed, or the   *)
(* process exits.                                                          *)

EmptyBuffer == [mode |-> "empty"]
ReadBuffer(pages) == [mode |-> "read", pages |-> pages]
WriteBuffer(n, page) == [mode |-> "write", n |-> n, page |-> page]

PutPage(pages, n, page) == [i \in DOMAIN pages \cup {n} |-> IF i = n THEN page ELSE pages[i]]

(* What is in the file once the buffer of its stream is written.           *)
Flushed(pages, buffer) ==
    IF buffer.mode = "write" THEN PutPage(pages, buffer.n, buffer.page) ELSE pages

(* fseek and fread: the pages that the handle sees, from then on.          *)
fread(pages, buffer) == IF buffer.mode = "read" THEN buffer.pages ELSE Flushed(pages, buffer)
-----------------------------------------------------------------------------
(* chidb_open and the schema list, which is read from page 1.              *)

schema_load(pages) == pages[1]
NewDatabase == <<<<>>>>

Opened(pages) == IF pages = NoFile THEN NewDatabase ELSE pages
chidb_open(file) ==
    [file |-> file, schema |-> schema_load(Opened(files[file])),
     buffer |-> ReadBuffer(Opened(files[file]))]

find_table(schema, name) == SelectSeq(schema, LAMBDA item : item.name = name)
-----------------------------------------------------------------------------
(* table_columns: the columns of a table, by parsing its text again, with  *)
(* the lexer as it is.  The result is not looked at: if the text does not  *)
(* parse, the pointer has the value that the stack had, and the program    *)
(* crashes or reads columns that a former call has left.                   *)
ColumnsOf(parsed) ==
    [lexer |-> parsed.lexer, columns |-> IF parsed.rc = CHIDB_OK THEN parsed.stmt.body.columns ELSE Null]

OrStale(read, columns) ==
    {read} \cup {[read EXCEPT !.columns = c] : c \in IF read.columns = Null THEN columns ELSE {}}

table_columns(schema, item, lx) ==
    OrStale(ColumnsOf(chisql_parser(item.sql, lx)),
            {ColumnsOf(chisql_parser(schema[i].sql, FreshLexer)).columns : i \in DOMAIN schema})

is_primary_key(col) == \E i \in DOMAIN col.constraints : col.constraints[i] = PRIMARY_KEY

primary_key_index(columns) ==
    LET keys == {i \in DOMAIN columns : is_primary_key(columns[i])}
    IN  IF keys = {} THEN 1 ELSE Min(keys)

literal_matches_type(lit, type) ==
    (lit.t = "int" /\ type = "int") \/ (lit.t \in {"text", "char"} /\ type = "text")

InsertFits(values, columns) ==
    /\ Len(values) = Len(columns)
    /\ \A i \in DOMAIN values : literal_matches_type(values[i], columns[i].type)
-----------------------------------------------------------------------------
(* chidb_shell_handle_sql on a text that the parser accepts: prepare, step *)
(* until done, finalize.  An outcome is the code that is shown, the lexer, *)
(* and the file and handle afterwards; CRASH ends the process.             *)

DONE == "CHIDB_DONE"
ROWS == "EXPLAIN shows the program"
ECONSTRAINT == "CHIDB_ECONSTRAINT"
CRASH == "crash"

Outcome(rc, lx, pages, db) == [rc |-> rc, lexer |-> lx, pages |-> pages, db |-> db]

(* The handle after its stream was read, and after a page was written.     *)
AfterRead(rc, lx, pages, db) ==
    Outcome(rc, lx, Flushed(pages, db.buffer), [db EXCEPT !.buffer = ReadBuffer(fread(pages, db.buffer))])
AfterWrite(rc, lx, pages, db, n, page) ==
    Outcome(rc, lx, Flushed(pages, db.buffer), [db EXCEPT !.buffer = WriteBuffer(n, page)])

(* The page of the table and page 1 are written, and the schema is loaded  *)
(* again, which writes them to the file.                                   *)
RunCreateTable(stmt, text, lx, pages, db) ==
    LET tbl    == stmt.body
        seen   == fread(pages, db.buffer)
        item   == [name |-> tbl.name, root_page |-> Len(seen) + 1, sql |-> text]
        stored == Append([seen EXCEPT ![1] = Append(@, item)], <<>>)
    IN  IF find_table(db.schema, tbl.name) # <<>> THEN {Outcome(CHIDB_EINVALIDSQL, lx, pages, db)}
        ELSE IF stmt.explain THEN {Outcome(ROWS, lx, pages, db)}
        ELSE {Outcome(DONE, lx, stored,
                      [db EXCEPT !.schema = schema_load(stored), !.buffer = ReadBuffer(stored)])}

RunInsert(stmt, lx, pages, db) ==
    LET found == find_table(db.schema, stmt.body.table_name)
        tbl   == found[1]
        values == stmt.body.values
        seen  == fread(pages, db.buffer)[tbl.root_page]
        Stored(columns) ==
          LET pk  == primary_key_index(columns)
              key == values[pk].val
              row == [i \in DOMAIN values |-> IF i = pk THEN Null ELSE values[i].val]
          IN  IF key \in DOMAIN seen THEN [rc |-> ECONSTRAINT]
              ELSE [rc |-> DONE, page |-> [k \in DOMAIN seen \cup {key} |-> IF k = key THEN row ELSE seen[k]]]
    IN  IF stmt.body = Null THEN {Outcome(CRASH, lx, pages, db)}
        ELSE IF found = <<>> THEN {Outcome(CHIDB_EINVALIDSQL, lx, pages, db)}
        ELSE {LET lx2 == parsed.lexer
                  stored == Stored(parsed.columns)
              IN  IF parsed.columns = Null THEN Outcome(CRASH, lx2, pages, db)
                  ELSE IF ~InsertFits(values, parsed.columns) THEN Outcome(CHIDB_EINVALIDSQL, lx2, pages, db)
                  ELSE IF stmt.explain THEN Outcome(ROWS, lx2, pages, db)
                  ELSE IF stored.rc # DONE THEN AfterRead(stored.rc, lx2, pages, db)
                  ELSE AfterWrite(DONE, lx2, pages, db, tbl.root_page, stored.page) :
              parsed \in table_columns(db.schema, tbl, lx)}

(* SELECT * FROM table.                                                    *)
RunSelect(stmt, lx, pages, db) ==
    LET found == find_table(db.schema, stmt.body.sra.table_name)
    IN  IF found = <<>> THEN {Outcome(CHIDB_EINVALIDSQL, lx, pages, db)}
        ELSE {IF parsed.columns = Null THEN Outcome(CRASH, parsed.lexer, pages, db)
              ELSE IF stmt.explain THEN Outcome(ROWS, parsed.lexer, pages, db)
              ELSE AfterRead(DONE, parsed.lexer, pages, db) :
              parsed \in table_columns(db.schema, found[1], lx)}

(* A text with no line in it leaves the statement as malloc gave it.  Read *)
(* as one of a type that runs, it leads to no statement, and the program   *)
(* crashes; it is refused as any other.                                    *)
RunStatement(stmt, text, lx, pages, db) ==
    CASE stmt.type = "create" -> RunCreateTable(stmt, text, lx, pages, db)
      [] stmt.type = "insert" -> RunInsert(stmt, lx, pages, db)
      [] stmt.type = "select" -> RunSelect(stmt, lx, pages, db)
      [] stmt.type = "unset"  -> {Outcome(rc, lx, pages, db) : rc \in {CHIDB_EINVALIDSQL, CRASH}}
      [] OTHER                -> {Outcome(CHIDB_EINVALIDSQL, lx, pages, db)}

Run(parsed, pages, db) ==
    IF parsed.rc # CHIDB_OK THEN {Outcome(parsed.rc, parsed.lexer, pages, db)}
    ELSE RunStatement(parsed.stmt, parsed.text, parsed.lexer, pages, db)
-----------------------------------------------------------------------------
Init ==
    /\ files \in [FileNames -> InitialFiles]
    /\ ctx = NoContext
    /\ lexer = FreshLexer
    /\ process = "stopped"
    /\ inserted = [f \in FileNames |-> {}]
    /\ crashes = [f \in FileNames |-> 0]
    /\ last = NoText
    /\ typed = 0

(* main: the shell, or one command, with a database or with none.  A file  *)
(* that cannot be opened ends the process at once.                         *)
Start(mode) ==
    /\ process = "stopped"
    /\ process' = mode
    /\ lexer' = FreshLexer
    /\ last' = NoText
    /\ \/ UNCHANGED <<files, ctx>>
       \/ \E f \in FileNames :
            /\ files[f] # Corrupt
            /\ files' = [files EXCEPT ![f] = Opened(@)]
            /\ ctx' = [db |-> chidb_open(f), dbfile |-> f]
    /\ UNCHANGED <<inserted, crashes, typed>>

Reading == process \in {"shell", "command"}
Answered == process' = IF process = "command" THEN "leaving" ELSE process

(* A line of the shell has no newline; the argument of -c may have.        *)
Typed(text) ==
    /\ typed < MaxLines
    /\ typed' = typed + 1
    /\ process = "command" \/ Piece("newline") \notin Range(text)

Heard(parsed) ==
    last' = [text |-> parsed.text, fresh |-> lexer.start = INITIAL, rc |-> parsed.rc, stmt |-> parsed.stmt]

(* The process dies: what is in memory is lost.                            *)
Died ==
    /\ process' = "stopped"
    /\ ctx' = NoContext
    /\ crashes' = IF ctx.db = Null THEN crashes ELSE [crashes EXCEPT ![ctx.dbfile] = @ + 1]

(* The row of an INSERT, as it is written.                                 *)
RowOf(text) ==
    LET line == Last(LinesOf(text)).line
    IN  [table |-> line.table, values |-> [i \in DOMAIN line.values |-> line.values[i].val]]

(* chidb_shell_handle_sql.                                                 *)
HandleSql ==
    /\ Reading /\ ctx.db # Null
    /\ \E text \in Sqls : \E parsed \in {chisql_parser(text, lexer)} :
         /\ Typed(text)
         /\ Heard(parsed)
         /\ \E o \in Run(parsed, files[ctx.dbfile], ctx.db) :
              /\ lexer' = o.lexer
              /\ files' = [files EXCEPT ![ctx.dbfile] = o.pages]
              /\ inserted' = IF o.rc = DONE /\ parsed.stmt.type = "insert"
                             THEN [inserted EXCEPT ![ctx.dbfile] = @ \cup {RowOf(text)}] ELSE inserted
              /\ IF o.rc = CRASH THEN Died
                 ELSE /\ ctx' = [ctx EXCEPT !.db = o.db]
                      /\ IF o.rc = EXIT THEN process' = "leaving" ELSE Answered
                      /\ UNCHANGED crashes

(* SQL without a database, and commands with wrong arguments or names, are *)
(* refused before anything is read.                                        *)
Refused ==
    /\ process = "command"
    /\ Answered
    /\ UNCHANGED <<files, ctx, lexer, histories>>

(* .parse, and .opt if a database is open.  On a text of Texts the         *)
(* optimizer copies the statement.  The tree of no statement is not        *)
(* printed but dereferenced, and of a statement that no line has set       *)
(* nothing is printed if its type is none.                                 *)
Parse ==
    /\ Reading
    /\ \E text \in Texts : \E parsed \in {chisql_parser(text, lexer)} :
         /\ Typed(text)
         /\ Heard(parsed)
         /\ lexer' = parsed.lexer
         /\ \/ /\ parsed.rc = CHIDB_OK /\ parsed.stmt.body = Null
               /\ Died
            \/ /\ parsed.rc = CHIDB_OK => parsed.stmt.body # Null \/ parsed.stmt.type = "unset"
               /\ IF parsed.rc = EXIT THEN process' = "leaving" ELSE Answered
               /\ UNCHANGED <<ctx, crashes>>
    /\ UNCHANGED <<files, inserted>>

(* Mutant: the old handle is closed without its stream.                    *)
OpenLeaksOld(f) ==
    /\ Reading
    /\ ReopenOpen \/ f # ctx.dbfile
    /\ files[f] # Corrupt
    /\ files' = [files EXCEPT ![f] = Opened(@)]
    /\ ctx' = [db |-> chidb_open(f), dbfile |-> f]
    /\ Answered
    /\ UNCHANGED <<lexer, histories>>

(* .open: the new file is opened before the old one is closed.  If it      *)
(* cannot be opened nothing changes.                                       *)
Open(f) ==
    LET created == [files EXCEPT ![f] = Opened(@)]
    IN  /\ Reading
        /\ ReopenOpen \/ f # ctx.dbfile
        /\ files[f] # Corrupt
        /\ files' = IF ctx.db = Null THEN created
                    ELSE [created EXCEPT ![ctx.dbfile] = Flushed(@, ctx.db.buffer)]
        /\ ctx' = [db |-> chidb_open(f), dbfile |-> f]
        /\ Answered
        /\ UNCHANGED <<lexer, histories>>

(* The end of the input, of a command, or of the parser's patience: the    *)
(* process exits, and its streams are written.                             *)
Exit ==
    /\ process \in {"shell", "leaving"}
    /\ process' = "stopped"
    /\ files' = IF ctx.db = Null THEN files
                ELSE [files EXCEPT ![ctx.dbfile] = Flushed(@, ctx.db.buffer)]
    /\ ctx' = NoContext
    /\ UNCHANGED <<lexer, histories>>

Kill ==
    /\ process # "stopped"
    /\ ctx.db # Null /\ crashes[ctx.dbfile] < MaxCrashes
    /\ Died
    /\ UNCHANGED <<files, lexer, inserted, last, typed>>

Next ==
    \/ \E mode \in {"shell", "command"} : Start(mode)
    \/ \E f \in FileNames : Open(f)
    \/ HandleSql \/ Parse \/ Refused \/ Exit \/ Kill

Spec == Init /\ [][Next]_vars
-----------------------------------------------------------------------------
(* What a file holds for whoever uses it now: its own handle, if it is     *)
(* open, reads through its buffer.                                         *)
Contents(f) == IF ctx.db # Null /\ ctx.dbfile = f THEN fread(files[f], ctx.db.buffer) ELSE files[f]

IsIn(row, pages) ==
    /\ pages # NoFile
    /\ \E i \in DOMAIN pages[1] :
         LET item == pages[1][i] page == pages[item.root_page]
         IN  /\ item.name = row.table
             /\ \E key \in DOMAIN page :
                  \A c \in DOMAIN row.values : row.values[c] = IF page[key][c] = Null THEN key ELSE page[key][c]

(* Of the rows whose INSERT was reported done, a file lacks at most one    *)
(* for each time that the process died with the file open: a row waits in  *)
(* the buffer of the stream (pager.c writes without fflush) until the next *)
(* line reads, the next file is opened, or the shell exits.                *)
RowsAreKept ==
    \A f \in FileNames : Cardinality({row \in inserted[f] : ~IsIn(row, Contents(f))}) <= crashes[f]

(* A text that is read with a fresh lexer is accepted if and only if it is *)
(* well formed, and the statement says what its last line says: the values *)
(* of its expressions and conditions, the tables, columns and values in    *)
(* their order.                                                            *)
ReadsWhatIsWritten ==
    last.fresh /\ last.rc # EXIT =>
      /\ (last.rc = CHIDB_OK) = IsWellFormed(last.text)
      /\ last.rc = CHIDB_OK /\ LinesOf(last.text) # <<>> =>
           Agrees(last.stmt, Last(LinesOf(last.text)).line, Rows)

(* A line that asks for the explanation of one statement changes nothing   *)
(* that a database holds.                                                  *)
ExplainOnlyExplains ==
    [][typed' # typed /\ AsksToExplain(last'.text) => \A f \in FileNames :
         process' # "stopped" => Contents(f)' = Contents(f)]_vars
=============================================================================
