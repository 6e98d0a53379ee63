# A verification project for chidb

chidb is a small relational database: SQL is compiled to programs of a database
machine (DBM), which run on cursors over B-Trees in a single paged file.  This
directory holds TLA+ models of it, the TLC runs that check them and TLAPS proofs
about them.  Source paths are relative to the repository (`src/libchidb/...`);
`PROJECT.json` maps every definition to the lines it stands for.

## 1. The system

| component | state it keeps | operations | talks to |
|---|---|---|---|
| pager (`pager.c`) | the file, its page size, the count of pages | open, readHeader, allocatePage, readPage, writePage | the file |
| B-Trees (`btree.c`) | nodes in pages: header, cell offset array, cells | open, newNode, insertInTable, insertInIndex, insert, insertNonFull, split, find | pager |
| cursors (`dbm-cursor.c`) | a copy of a tree's entries in key order, a position | open (collect), rewind, next, prev, five seeks | B-Trees |
| DBM (`dbm.c`, `dbm-ops.c`) | program, pc, registers, cursors, result row | one handler per opcode; exec until a row, an error or the end | cursors, B-Trees, records |
| code generator (`codegen.c`) | none; reads the schema | CREATE TABLE, CREATE INDEX, INSERT, SELECT (scan, index, natural join) | schema list, DBM |
| optimizer (`optimizer.c`) | none | pushes conjuncts of a selection below a natural join | schema list |
| API (`api.c`, schema part of `util.c`) | the in-memory schema list, the open B-Tree file | open, prepare, step, finalize, close, schema_load | all of the above |
| records (`record.c`), integers (`util.c`) | a record being built: its types, offsets and a buffer that grows | append, finalize, pack, unpack, getters; varint32, put/get 2 and 4 bytes | - |
| SQL parser (`libchisql`) | the lexer's start condition, the size of the last column type | chisql_parser: text to syntax tree | code generator, shell |
| shell (`src/shell`) | a database handle, the name of its file | lines of SQL, `.open`, `.parse`, `.opt`; exit | API, parser |

Everything runs in the caller's thread.  What interleaves is *statements*: a
program can hold several prepared statements and step them in any order, and
each keeps a compiled plan and copies of the trees.  What is hard:

* splits: of leaves, inner nodes and the root, at the byte sizes of real cells,
  in trees that share one counter of pages;
* statements compiled against a schema that has changed by the time they run,
  and cursors over trees that have changed since they were opened;
* statements that fail half way: nothing is ever rolled back;
* equivalence of plans: an index walk, a pushed selection and a scan must return
  the same rows;
* widths: 28-bit table keys, 16-bit offsets and record lengths;
* crashes: a split is several page writes, the last write of a handle waits in its
  stdio stream, and nothing recovers;
* state that outlives a call where none is expected: the lexer's comments, the buffer
  of a file that is closed after another one is opened.

Per component, what makes it correct:

* B-Trees: no page overflows; each page belongs to one tree and has one parent;
  separators direct searches correctly at every step of an insert; leaves at one
  depth; every insert returns, having added its entry or reported the key;
* cursors: the entries of the tree, each once, in ascending order; a seek finds
  the nearest entry on its side;
* DBM and code generator: a SELECT returns the rows that its condition defines
  over the table as it was when the statement began, whatever plan it got;
* schema: an index holds exactly an entry per row; what is in memory agrees
  with the schema table; no two objects share a root page or a schema key;
* optimizer: the pushed query has the meaning of the original;
* pager: the file is always one that the sequence of writes passed through, no page
  is given out twice, and a crash costs no more than the node being split;
* records: what is appended is what is read back, inside the bytes that were allocated;
* parser and shell: a statement says what the text says, EXPLAIN runs nothing, and a row
  that was reported inserted is in its file unless the process died.

Section 5 says which parts are not modelled, section 6 what is planned.

## 2. Modules

**`KeyedStore`** is the promise of the file to the layers above: a family of maps
that only grow.  `Begin` is the call of an insert, `Finish` its return, which adds
the entry (`OK`) or finds the key (`EDUPLICATE`); `Create` is a new tree.

**`BTree`** is `btree.c` on a file of pages.

| variable | in the code |
|---|---|
| `nodes` | the nodes in the file's pages, as `BTreeNode` reads them: type, the two offsets of the header, the cells in the order of the offset array, `right_page` |
| `n_pages` | `pager->n_pages` |
| `roots` | the root pages, one per tree; page 1 is the schema table |
| `op` | the insert being run: its root, the page of the current `insertNonFull`, its cell |
| `rc` | what the last insert returned |

| action | in the code |
|---|---|
| `NewTree` | `chidb_Btree_newNode`, from the opcodes CreateTable and CreateIndex |
| `InsertInTable`, `InsertInIndex` | the two wrappers and `chidb_Btree_insert`: look at the root, split it if it is full |
| `Descend`, `SplitAndDescend` | `insertNonFull` on an inner node whose child has room, or is split first |
| `RejectDuplicate`, `InsertInLeaf` | `insertNonFull` on a leaf |

A step is one call of `insertNonFull`, so properties are checked between the
levels of a descent and not only between inserts.  The bytes of a page are kept
as arithmetic: `cell_size`, `node_free_space` (in 16 bits), the offsets that
`insertCell` moves.  The bytes of a record are abstracted to their number, and
the key to what `putVarint32` keeps of it.

**`Cursor`** and **`DBM`** are the database machine over the maps of `KeyedStore`: a
tree is a function from keys to records (in an index, to primary keys).  `Cursor`
holds what `dbm-cursor.c` computes on the copy of a tree that an open cursor keeps.

| variable of `DBM` | in the code |
|---|---|
| `trees` | the B-Trees of the file, by root; tree 1 is the schema table |
| `stmts` | the `chidb_stmt` of each handle: `ops`, `pc`, `reg`, `cursors`, what the last step returned, `schema_change` |
| `running` | the statement that `chidb_stmt_exec` is in, or `Idle` |
| `view`, `rows` | history: the file when the statement began, the rows it returned |

| action | in the code |
|---|---|
| `ExecBegins`, `ExecEnds` | entry of `chidb_stmt_exec`, and its return at the end of the program |
| `OpOpen` ... `OpHalt` | one handler of `dbm-ops.c`, with the part of the loop that fetches the instruction, raises `pc` and returns on an error or a row |

**`Codegen`** gives the program of a CREATE TABLE, CREATE INDEX, INSERT or SELECT under a
schema list, with the code's own registers, cursors and jump targets.  Statements are
syntax trees.  **`Optimizer`** is the rewriting that precedes it.  **`Relational`** is the
abstract specification of both: what rows a SELECT has, and what entries an index
has, said of the trees without plans, cursors or programs.

**`Queries`** runs one SELECT over one file, from `chidb_stmt_optimize` to the last row;
`MCQueries` has the files and the queries.  **`Database`** is a program that uses the API
with several handles; `MCDatabase` has its statements.

| `Database` | in the code |
|---|---|
| `schema` | `db->schema`, the list in memory |
| `sqls`, `prepared` | history: what each handle runs and the schema it was compiled against; a bound |
| `Prepare` | `chidb_prepare`: optimize, compile against `schema` |
| `Step`, `Instruction`, `StepDone` | `chidb_step`: enters the machine, runs it, loads the schema again if a CREATE is done |
| `Finalize`, `Reopen` | `chidb_finalize`; `chidb_close` and `chidb_open` |

The layers meet at `KeyedStore`: `BTree` implements it, and the two opcodes that insert
use it as `Inserts` in `DBM`, in one step, since no other statement runs while one
inserts.  `DBM` and `KeyedStore` are not linked formally, and where `BTree` does not keep
the promise (long records, medians of index leaves, keys of more than 28 bits:
section 3) the upper layer does not show it.

**`PageWrites`** extends `BTree` to the grain of the pager.  The same calls now issue their
page writes one at a time, in the code's order, blank nodes included.

| `PageWrites` | in the code |
|---|---|
| `file`, `buffer` | the pages in the file; the page that waits in the stdio stream |
| `todo` | the writes the current call has still to make |
| `acked`, `atRisk`, `crashes` | history: entries whose insert returned; those the current call may cost; a bound |
| `CallInsert`, `CallSplit`, ... | the calls of `BTree`, each with the writes it has to make |
| `WritePage` | `chidb_Pager_writePage`, whose `fseek` flushes the write before it |
| `CrashAndOpen`, `CloseAndOpen` | the process dies, or closes the file, and a program opens it |

The stream holds one page at most: each read and write of a page begins with `fseek`, which
flushes it, and pages are no larger than its buffer.  So a crash finds in the file all
writes, or all but the last; a `write` of one page is taken to be whole.

**`Records`** is `record.c`: a record grows field by field, is packed, cut to the 16-bit length
that the opcode Insert passes, and unpacked.  A step is one field of a loop; bytes are numbers
and integers are made of bytes as the macros make them.  **`Records_proofs`** holds its theorems.

**`Parser`** is `libchisql`: what the lexer drops, what each action of the grammar builds with the
code's own lists, and what a call leaves behind.  A text is a sequence of pieces (a comment
sign, EXPLAIN, a semicolon, a whole line as its author wrote it).  **`SqlReading`** reads the
same texts without trees: precedence by sums of products, lists in their order; it is the
reference, and no part of the code.

**`Shell`** puts parser, API and stream together: `HandleSql`, `Open`, `Parse`, `Refused`, `Exit` and `Kill`
are the handlers of `commands.c`, the end of `main` and the end of the process.  The
stream is modelled more closely than in `PageWrites`: it also serves reads, so that a
handle does not see what another one writes.

**`MCBTree`** instantiates `BTree` for TLC and asks TLC to evaluate `SafeSizes`.
The theorems about `BTree` are in four modules, each on top of the one before:
**`BTree_proofs`** (pages), **`BTreeForest_proofs`** (pages and trees),
**`BTreeKeys_proofs`** (the order of keys) and **`BTreeStore_proofs`** (entries, and
the refinement of `KeyedStore`).  **`PageWrites_proofs`** has those about the file, and
**`PageForest_proofs`** those about the trees in it; **`Database_proofs`** has those about
statements and the schema.

Definitions under a comment that begins with *Mutant* are not part of the models:
each is a plausible bug in the definition that follows it, and shows that the
property it is paired with in `PROJECT.json` can fail.

## 3. Runs

| run | what it asks |
|---|---|
| `btree_table` | all orders of inserting eight keys in one table: links, one parent per page, every entry found at every step, separators, return of every insert, refinement of `KeyedStore` |
| `btree_index` | an index, whose inner and leaf cells have other sizes, with seven keys: every entry reached by the descent of an insert, separators, the depth of the leaves, refinement of `KeyedStore` |
| `btree_sizes` | records of two sizes in every mix: page layout and room |
| `btree_forest` | two trees that grow by turns: one page counter, no page shared |
| `btree_long_records` | *violated*: records of 10 and 500 bytes in pages of 1024 |
| `queries` | 482 SELECTs on each of 16 files: rows against `Relational`, operands of every instruction, return of every step |
| `database` | two handles, statements in any order, stopped, failed or finalized half way: snapshots, indexes against tables, the schema in memory and in the file |
| `page_writes` | a crash between any two page writes: what the file holds, what was lost, that every call returns |
| `records` | every record of up to four fields: room, reads inside the record, round trip |
| `shell` | sessions on two files: rows kept over opening, exit and kill; statements against texts; EXPLAIN |
| `shell_explain` | *violated*: EXPLAIN with a blank behind its semicolon runs the statement |
| `queries_negative` | *violated*: a bound below zero on an indexed column |

**Bounds.** Pages of 52 to 72 bytes hold three to five cells, so that seven or
eight keys make trees of three levels in which leaves, inner nodes and the root
all split, in every order of insertion (TLC reports each action as taken).  The
file header is 2 or 4 bytes, so that page 1 has less room than the others, as in
the code.  `MaxPages` and `Reserve` stop inserts before the model runs out of
pages, never in the middle of one; `MaxTrees` bounds the trees.  `btree_long_records`
uses the real sizes.

`queries` enumerates instead of exploring: each initial state is a file and a query,
and its behaviour is one program.  Tables have no row or three, whose values are in no
order; values and literals are 0 to 4, so that a bound lies below, on, between and above
the values, and every opcode of the code generator, every seek, one- and two-sided
walks in both directions and all kinds of access on either side of a join occur.
`KeyWord` is 16: keys are unsigned words of 4 bits and integers signed ones, so that
the sign matters as it does with 32.  The indexes of these files are complete and no
indexed value is negative; `queries_negative` is what happens otherwise.

`database` starts with a new file or with a table of one row, and prepares four
statements (`MaxPrepared`) on two handles out of a CREATE TABLE, a CREATE INDEX, three
INSERTs (against the table with a row: one new, one whose key is taken, one whose
indexed value is taken) and a SELECT that is compiled to a scan or an index walk.  Four are enough for a
statement to be prepared, overtaken by others and stepped, and for a failure between
the row and its index entry. 

`page_writes` starts from files whose next insert splits a leaf that is the root, an inner root
of a table, or one of an index, and inserts one key below and one above: each kind of
split happens, with a crash (`MaxCrashes` is one, and the next program works on what it
left, with inserts into the damaged file).  In the start files page 1 is a node.

`records` takes values at the ends of each width, texts of no byte, of one, and of so many that
the type needs three bytes of its varint; the buffer grows by 61 bytes and lengths wrap at
256, so that growing happens and the bounds of `RecordsAssumption` are reached.

`shell` types three texts (`MaxLines`) and kills the process once per file (`MaxCrashes`).
Three are enough for a row to be written, delayed in the stream, overtaken by a line
that reads, by another file or by the end, and for a comment to be left open, met by
a second text and by a third.  `ReopenOpen` is FALSE: `.open` of the file that is open is
observation 7 below.

**Fairness.** `WF(InsertNonFull)` in `BTree`, `WF(Handle \/ ExecEnds)` in `Queries` and
`WF(Instruction \/ StepDone)` in `Database`: a call that was made runs in the calling
thread until it returns, and nothing in it waits.  `PageWrites` has `WF(Continue)` for the same reason: the
writes of a call follow each other, and so do the levels of an insert.  No fairness is assumed of callers:
nobody has to start an insert, to step a statement again or to finalize it.

**Assumption about callers.** Nobody steps a statement whose last step failed
(`ExecBegins`).  The header documents no such call; the code would go on behind the
instruction that failed (`dbm.c:205` raises `pc` first), and an INSERT whose key was
taken would then add an index entry that points to another row.

**What the runs show.** With record sizes that `SafeSizes` admits the insertion is
right: all properties hold in all orders.  Over a store that keeps `KeyedStore`, each
plan returns the rows that the query defines, snapshots hold against inserts and
schema changes, a failed or abandoned INSERT or CREATE INDEX leaves no index entry
without its row, and names, roots and schema keys stay unique although they are chosen
when a CREATE is prepared and used when it runs.  Between any two page writes the file is a
forest in which everything reachable is found: a page is written before the first
pointer to it, and the halves of a split are never reachable together with the
whole.  A crash costs what was under the node being split, or the one entry of the
last write, and the pages it leaves are never given out again.  Records come back as they went
in.  A row reported inserted is missing only if the process died with the file open, one row
for each time.

**Disagreements.**  Three runs show the code against the repository's own statements, quoted in
`PROJECT.json`:

1. `btree_long_records`: `split` divides cells by number and nobody measures the halves.  For
   records of one size up to about 295 bytes in pages of 1 KiB, half a page always has
   room; with sizes far enough apart, or with larger records, the cell is written over
   the offset array and entries are lost.
2. `queries_negative`: an index walk takes a negative literal for a large unsigned key: `b < -1`
   returns every row, the same query without an index none.
3. `shell_explain`: a text that does not end in a semicolon gets one, and if it ends in `; `
   that is an empty query of its own, which takes back the EXPLAIN of the one before it:
   the INSERT is executed.

**Observations without a run of their own.**  Each is a change to one configuration:

4. The median of an index *leaf* is both kept in the leaf and promoted, so an index holds more
   entries than its table (docs/chidb-website/chidb/fileformat.html:204 says as many), and a
   walk over it meets such an entry twice (dbm-cursor.c:114 copies the inner cells too).
   `MCBTreeIndex.cfg` with `INVARIANT IndexHoldsEachEntryOnce`.  `Cursor` lists an entry once: what `Queries` and
   `Database` say of an index walk is about indexes of one page.
5. Table keys are compared with 32 bits and stored with 28, so that `chidb_Btree_insert` takes
   a key that is there (btree.c:727).  `MCBTreeTable.cfg` with `TableKeys = {5, 268435461}`,
   `INVARIANT KeysAreUnique`.  For keys of 28 bits it is proved (section 4).
6. An INSERT keeps up to date the indexes known when it was prepared
   (docs/chidb-website/chidb/assignment_opt.html:195 asks for all); one prepared before a CREATE
   INDEX and stepped after it leaves the index without its row, which is why
   `SelectsReadSnapshot` asks for all the rows only where `Complete` holds.  `MCDatabase.cfg`
   with `Statements <- DistinctStatements`, `INVARIANT IndexesComplete`.
7. `.open` of the file that is open: the new handle reads it before the old one is closed
   (commands.c:224), and does not see the last row, which waits in the old stream; its next
   insert writes the page without it.  `MCShell.cfg` with `ReopenOpen = TRUE`.
8. A natural join pairs columns by name only, and compares a TEXT with an INT
   (docs/claude_notes/notes_dbm_spec.txt:34 asks for one type).  `MCQueries.cfg` with
   `Files <- MistypedFiles`, `Selects <- MistypedSelects`.
9. A crash while a file is created leaves a header without a node, which `chidb_open`
   accepts.  `MCPageWrites.cfg` with `StartFiles <- NewFiles`,
   `INVARIANT OpenedFileIsWellFormed`.

And what translating the code showed, which the models contain or exclude by assumption:

* `chidb_Btree_find` is for tables, as its comment says (btree.c:581): the only leaf it knows is
  `PGTYPE_TABLE_LEAF` (btree.c:604).  In an index it would take a leaf for an inner node and go on to a
  child that nobody has set.  Nothing in `libchidb` calls it for an index; `EveryEntryIsFound` is about
  tables, and `EveryEntryIsReached` about the descent of `insertNonFull`, which is what an index has.
* A text of more than 1024 bytes is copied past the end of a record's buffer, which grows
  by 1024 once (record.c:232); `RecordsAssumption` excludes it.
* A text without a statement (blanks, a comment) leaves the statement as `malloc` gave it (sql.y:531), of
  any type: it is refused, or the process ends (`NoStatement`, `Shell`).
* A CREATE INDEX that fails on a duplicate value stays in the schema table, incomplete, and is not
  in the list in memory; until the file is opened again the key of every later CREATE is
  taken and it fails as well.
* A statement that ends in a `--` comment, or in one that is not closed, makes every later
  text a comment, up to a newline or `*/`.  If it was a CREATE TABLE, its text is stored with
  the comment, and each statement about the table leaves the lexer so.  `table_columns`
  (codegen.c:135) does not look at the parser's result and then reads a pointer that was
  never set: `Shell` lets it crash or find the columns of an earlier call.
* Of a column's constraints two are kept, or one and the size, and the PRIMARY KEY may be the one
  that is lost; a size is lost if there is no constraint; of the key declarations
  two are kept.  A size survives a statement that fails and goes to the next column.  A size
  that is not positive ends the process.
* AND and OR are of one level and associate to the right: `a AND b OR c` is read as
  `a AND (b OR c)`.  The texts of `MCShell` do not mix them without parentheses.
* A literal of one character is a CHAR, which fits a TEXT column; a value for a column declared
  CHAR or DOUBLE is always refused.  The column names of an INSERT are counted and
  otherwise ignored, and if they are not as many as the values the statement is a null
  pointer that is dereferenced.  Of several queries in one text the last one is run.

## 4. Proofs

All theorems are for all values of the constants that satisfy the assumptions named with
them: any size of page, numbers of pages and trees, sets of keys and records.

**The pages** (`BTree_proofs`, under `ConstantsAssumption` and `SafeSizes`):

* `PagesStayWell`: `Spec => []PageInv` (the invariant of the proof; no run asks for it), and from it
* `TypeCorrect`, `PagesNeverOverflow`, `InsertFindsRoom`, `LinksStayInUse`.

`NoPageOverflows` is not inductive alone: a split is only safe because the node it
splits is crowded and its parent has room for a separator.  `PageInv` therefore
joins the types, `WellLinked` (pages point to pages in use, and so does the insert),
`NoPageOverflows` and `RoomWhereInsertGoes` (the node insertNonFull is on has room).
The argument: a node that is full for some cell is *crowded* (lemma
`FullIsCrowded`: it holds so many bytes that it must hold that many cells);
dividing a crowded node by number leaves each half with room for any cell
(`HalvesFit`, from `SafeSizes`); the parent has room for the separator because
`insertNonFull` was called on it (`SplitPages`, `SplitKeepsGood`); and the child chosen
again after the split is one of the two halves (`SeparatorInserted`).  A new root has
room for two separators (`SplitRootKeepsGood`).

`SafeSizes` is a hypothesis of the theorems and not an assumption of the module:
without it they are false, which is what `btree_long_records` shows.

**The trees** (`BTreeForest_proofs`, under the same assumptions):

* `TreesStayWell`: `Spec => [](PageInv /\ TreeInv)`, and from it
* `PagesFormTrees`, `TreesStayBalanced`, and the action property `InsertsStayInTheirTree`.

That a page is in one tree is a fact about the whole graph of pages and cannot be carried
along as it stands.  `TreeInv` says instead that there *is* a labelling of the pages,
with the root of the tree each is in and its height above the leaves, that agrees
along every pointer, and that pointers do not meet.  Each action is shown to admit
a new labelling: a page that a split makes gets the labels of the page that is split, and
when a root is split its height grows by one while its old content keeps the old
height.  The recursive functions of the properties (`PagesUnder`, `LeafDepths`) are read off
the labels: that they exist, since heights fall along pointers, and what they contain, by
taking a counterexample of least height (`LeastRank`) instead of an induction.

**The keys** (`BTreeKeys_proofs`, under `KeysFit` as well):

* `TreesStayOrdered`: `Spec => [](PageInv /\ KeysInv)`, and from it
* `SeparatorsStayLargest`, and `EntriesStayReached` for all trees, `EntriesStayFound` for tables.

`KeysInv` adds two labels: the range of keys that a page covers, and its contents, the cells of the
leaves under it.  The children of a page divide its range at the separators; the page an
insert is at covers the key it carries, at every step of its descent.  So every walk for a key comes
to the leaf that covers it (`WalkOfTree`), in a table or an index; what `chidb_Btree_find` makes of that
leaf is only known for a table.  When a node is split the two halves divide its range at the
median, which the left half keeps if it is a leaf; the contents of no page that is
there before change except those above the leaf that takes the cell.  `KeysFit` says that
a table key is what `putVarint32` keeps of it, that is less than 2^28; otherwise the theorems are
false (observation 5).

**The store** (`BTreeStore_proofs`, same assumptions):

* `FileImplementsStore`: `Spec => Store!Safety`, the refinement of `KeyedStore` without its
  fairness: initial states map to initial states, splits and descents to stutters, and the
  two steps at a leaf to `Finish`: the leaf that is reached holds the key exactly if
  the tree does, so that `EDUPLICATE` is true and `OK` adds one entry;
* `KeysStayUnique`: `Spec => []KeysAreUnique`, which no run asks for: it is the positive
  side of observation 5.

**The file** (`PageWrites_proofs`, under `ConstantsAssumption`, `FilesAssumption` and `SafeSizes`):

* `WritesLeadToNodes`: `FileSpec => []WritesInv`, and from it
* `FileHoldsTheNodes`, and `PointersNeverDangle` if no program finds an empty file.

After a crash the pages in memory are whatever the file holds, in trees that may be cut off half
way through a split, so nothing that is proved of `BTree` alone applies.  `FilesAssumption`
says what a program may find: nothing, or pages each of which is a node or a blank one.
`WritesInv` says that the pages in the file, the page in the stream and the writes in
`todo` lead to `nodes` (`Leads`): every file on the way (`ViewsOf`, one for each write) is
one that a program may find, each write is in the file or the next page behind its
end, and the last file is `nodes`.  A crash drops a tail of that sequence, a close goes to its
end, a call puts its own behind it.  For each stage of a split (`SplitViews`, five writes)
and of the lifting of a root (`LiftViews`, four) a lemma says which pages are old, blank or
new; that new pages are nodes is the work of `BTree_proofs`, whose lemmas are about
one split, not about reachable states, for this reason.  A blank page may be read and an insert
may come to it: it is never full, and has no child (`LinkedIsGood`).

**What a crash leaves** (`PageForest_proofs`, under `KeysFit` and `MarkedStarts` as well):

* `CrashesLeaveForests`: `FileSpec => []ForestInv`, and from it
* `CrashesSpareTheRest`, `CrashesLeaveTrees`, `CrashesLeaveSearchTrees`.

The labels of `TreeInv` and `KeysInv` cannot be those of every page here: a page that no
pointer leads to may hold the half of a split that was never finished.  So `Marked` labels *some* pages
(`l.pages`), a set that holds the roots and that pointers do not leave, with the root, the
height and a set of keys that are searched through the page.  It is a set and not a range, and
only some of what the slot of the parent takes: after the crash the old page of a split
may be blank, or the separator missing, and the keys that led there lead nowhere.
`ForestInv` says that the file has such marks, with a path (`HasPath`) for every acknowledged entry
that is not at risk; that so has every file in `ViewsOf`; and that so have the nodes, with a trail
for the key that is being inserted.

A split is then five questions, one for each of its writes, and four have the same answer: the
new page has no mark before a pointer leads to it, the old page keeps its marks when it is
blanked and when it holds only its right half, and so the marks are the old ones
(`SplitStagesMarked`), with the paths that do not pass the old page (`SplitStagesKeepPath`).  With the
write of the parent both halves are marked (`SplitMarks`, `HalvingKeepsTrees`).  That a half and the
whole are never marked together is the point of the order of the writes.  When a root is raised the
root that is blank for a moment is already marked one level higher (`LiftStageMarks`).  What `Finds`,
`FilePagesUnder` and `EntriesUnder` compute is read off the marks (`FoundIsPath`, `PathIsFound`,
`ReadIsFound`), and a crash asks for no more than that.  `Finds` is the descent of `insertNonFull` with its
test at the leaf, which is the same for tables and indexes.

`MarkedStarts` says that the files a program starts with are such forests; the file that does not
exist yet is one (`NoFileIsMarked`), and so is whatever a run leaves, by the theorem.

**Records** (`Records_proofs`, for all values, numbers of fields and sizes that satisfy
`RecordsAssumption`):

* `Inductive`: `Spec => []IInv`, and from it
* `BufferIsLargeEnough`, `ReadsAreInside`, `RecordsRoundTrip`.

That what is read back is what was written needs to be known of every byte between: `IInv` keeps, as
history, where the data and the type of each field went (`starts`, `heads`), and says
phase by phase that the types stand at their place in the packed header, the data at
theirs behind it, and that the offsets that unpacking adds up are those places again.  The
lemmas about bytes (`Int8Bytes` to `VarintBytes`) say that two's complement and varints
are undone by their readers; `FieldOfData` puts them together.  `RecordsAssumption` is as weak as the
code allows: what it excludes (a text longer than a growth step, a header of more than 255
bytes, data near 64 KiB) is where the code goes wrong.

**Statements and the schema** (`Database_proofs`, under `KeyWordAssumption`,
`StatementsAssumption` and `FilesAssumption`):

* `Spec => []DatabaseInv` (`InvHolds`), and from it
* `SchemaIsSoundAlways`, `EntriesMatchRows`, `SchemaIsKnown`, `DoneIsIndexed`.

They hold for any handles, any tables with any number of columns, rows and indexes, and any set of
statements, in every order of `chidb_prepare`, `chidb_step`, `chidb_finalize` and reopening.
`StatementsAssumption` says what a statement of the format is: above all that a table has one
primary key, which is an INT (docs/chidb-website/chidb/fileformat.html:142; `codegen.c` does not
check it, and without it an INSERT has no key).  `FilesAssumption` asks the same of the tables of the
files a program starts with, and that their schema is sound and their index entries point to rows;
by the theorems a run leaves such a file.

None of the four properties is inductive, for a step is one instruction and says nothing
about the statement it is part of.  `DatabaseInv` says:

* of the file, that it is `Whole` (its form, `SchemaSound`, `IndexEntriesMatchRows`);
* of every schema list, the one in memory and the ones that statements were compiled against,
  that it is `Current`: it has nothing that the file has not, and if it has less, then the key that a
  CREATE would take from it is taken.  This is why it is enough that the name of a table is
  checked when the CREATE is prepared: of two that were prepared from one list the second fails
  in `op_insert`, and so do all later ones from a list that is not loaded again;
* of every statement that writes and runs, where it is (`WriterAt`): which registers and cursors hold
  what at each address of its program (`TableAt`, `IndexAt`, `InsertStands`), and at its end that its
  work is done (`Finished`).  The program of an INSERT has one load for each column and four
  instructions for each index, so that its addresses are arithmetic over two unknown lengths;
* of every SELECT, that its program only reads (`IsReader`, from `CompiledStatement`: every program
  that scans, seeks, walks a range or joins is built of pieces that only read).

The argument for an index entry: in an INSERT it is made from the registers the row was made from,
and the row is in the table by then (`RowGoes`, `EntryGoes`); in a CREATE INDEX, from the
row its cursor is on, and that row is in the table still, since rows only grow (`FillGoes`).  The loop of a
CREATE INDEX has an entry for each row its cursor has passed, and a cursor passes all of them
(`TreesInOrder`, `AllFilled`); nobody else runs meanwhile.  A statement that rests is disturbed by
nothing that another does (`RestsOn`), since whatever was entered stays (`FinishedStays`).

To be reasoned about, the programs are put together by `Chain` and `Selected`, which have a
length and an element at each place, and not by recursive folds.

Model-checked only: everything about parser and shell (`Parser` and `SqlReading` are
recursive); the liveness properties `InsertReturns`, `CallReturns`, `StepReturns` and the fairness in
`ImplementsKeyedStore`; that a SELECT returns the right rows (`RowsAreAnswer`,
`SelectsReadSnapshot`, `OperandsReady`), which would need for the programs of the planner, with all their
kinds of access, what `WriterAt` says of three programs; and `TypeOK` of `Database`.

## 5. Not modelled

* I/O errors, failing allocations and corrupt files (`chidb_Btree_open` on a file whose
  header is wrong returns before it keeps any state).
* The opcodes Noop, Eq, Copy, SCopy, IdxGt, IdxGe, IdxLt and IdxLe: the code generator
  emits none of them, only the text programs of the tests do.
* The rows that EXPLAIN shows, aliases, the names of result columns and the accessors of the
  API; the conditions and statements that the code generator refuses.
* The tables of flex and bison, the words of a line, `( select )` and IN (SELECT), which
  yields no list; INTERSECT and EXCEPT, which the lexer never returns.  The relational
  algebra (`ra.c`, `SRA_desugar`), which nothing calls.  Functions that print or free.
* The shell's display, `.dbmrun` and the text format of DBM programs (`dbm-file.c`), and the
  vendored libraries.
* A page that is written in part, or writes that reach the disk in another order than the
  process made them: the model is of a process that dies, not of a machine.
* Two programs on one file: the code takes no locks and makes no promise.

## 6. Plan

1. `Cursor_proofs`: in a copy with ascending keys the seeks split it, so that Gt and Le, Ge
   and Lt are complements; the machine's type invariant.
2. Proofs about the programs of a SELECT: `OperandsReady` first, with an invariant on
   registers and cursors as `Database_proofs` has it for the statements that write; then that a scan
   returns the rows of its snapshot.
3. `DBM`: the opcodes that only the tests' programs use; stepping after a failure, as a
   run of its own.
