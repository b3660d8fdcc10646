# A TLA+ model of the ECS 165B database program

The program is a small SQL database. One process reads statements from
standard input; tables, indexes and intermediate join results are text files
under `./data`. This directory holds TLA+ modules translated from its source,
TLC configurations that check them on small instances, and proofs checked by
TLAPS of what holds for every instance.

## 1. The system

### Components

| Component | Source | State it keeps | Operations |
|---|---|---|---|
| Catalog and CREATE TABLE | `createtableinfo.cpp` | `tableInfo`: table to column names; `tableName`, `columnNames` of the command | `LoadTables`, `ParseTableHeader`, `Parse`, `Execute`, `Clear` |
| INSERT | `insertrowinfo.cpp` | `tableName`, `columnValues` of the command | `Parse`, `Execute`, `Clear` |
| Indexes | `indexinfo.cpp` | `stringIndexTable`, `floatIndexTable`: table to column to B-tree multimap | `CreateIndexFile`, `AddIndex`, `LoadIndexFiles`, `StoreIndexToBTree` (two), `Clear` |
| SELECT | `projectioninfo.cpp` | tables, columns and comparisons of the query, the indexes found, `lastJoinFile`, `selectSubTree` | `Parse`, `isValidQuery`, `Execute`, `IndexJoin`, `HashJoin`, `NestedLoopJoin`, `Clear` |
| WHERE evaluation | `projectioninfo.cpp:710-1179` | none | `EvaluateInequalityExpression`, `EvaluateStringExpression`, `EvaluateArithmeticExpression` |
| Dispatch and expression pool | `HW4-parser.cpp` | `ebuf`, `freen` | `main`, `makeexpr`, `cvt_itoe`, `compile`, `evalexpr` |
| Parser | `HW4-sql.ypp`, and `HW4-sql.tab.cpp` made of it | stacks of states and values, the token in hand | `yyparse`, one statement at a time |
| Scanner | `HW4-sql.x`, and `lex.yy.cc` made of it | the buffer, pointers into it, its status | `yylex`, `yy_get_next_buffer`, `yy_get_previous_state`, `yyrestart` |
| B-tree | `glibs/btree*.h` (vendored) | tree of nodes | insert, erase, find, bounds, iteration |
| Safe B-tree | `glibs/safe_btree*.h` (vendored, unused) | B-tree and a generation | the same through checked iterators |

### How they interact

`main` loads the catalog from the table files and then the index maps from
the index files. Each statement is parsed into the expression pool; `compile`
hands the tree to the `Parse` of its component and `evalexpr` calls its
`Execute`. The components share no locks and run one at a time; they are
coupled through files and through maps in memory:

- CREATE TABLE writes the table file and its header, enters the table in the
  catalog, and then creates an index file for each key column. A key column is
  one whose name starts with a capital: `Parse` capitalises the names of KEY
  columns, and nothing else records which columns are keys.
- INSERT appends a line to the table file, reads the header back, appends a
  line to the index file of each key column, and loads all indexes again.
- SELECT reads the catalog and the index maps, writes `.JOIN` files that its
  own next steps read, and prints the rows that satisfy the WHERE clause.

### What is hard about it

- Every command touches several files one after the other; the process may be
  killed between any two of these writes, and exceptions that nobody catches
  (`stof`) kill it from inside.
- Files, catalog and index maps are three copies of one truth, kept in step by
  hand. A refused command still runs the second half of its pair
  (`Execute`/`CreateIndexFile`, `Execute`/`AddIndex`).
- A query is answered by one of several routes. Which one depends on the order
  of the comparisons, on the catalog and on which index maps have an entry;
  the answer should not.
- Fields of the query object and entries of the index maps outlive the query.
- Reads past the end of a vector, an `int` that is never set, bool functions
  that end without a return, and unions read through the wrong member.

`PROJECT.json` lists these as hazards, each at the line where it bites.

### What makes each component correct

- *Storage*: rows are as wide as their header; no row is lost or changed; the
  catalog is what a restart would load; each stored row is in each index of
  its table and each full tuple in an index is a stored row; what a running
  process has stored it can load again; every command ends.
- *WHERE evaluation*: a chain of comparisons evaluates to what it means,
  whatever way its operands are written.
- *SELECT*: the rows printed are the rows of the product of the tables that
  satisfy the WHERE clause, each as often as it occurs, by whichever joins;
  queries leave no join file and no change in the index maps behind; every
  query ends.
- *Scanner*: the tokens are the longest lexemes of the text, in order, however
  the buffer is moved and grown meanwhile; nothing outside the buffer is read
  or written; no more is read than a statement needs.
- *B-tree*: keys stay in order, all leaves at one depth, nodes within their
  limits; the tree holds exactly the entries inserted and not erased.
- *Parser and expression pool*: the statements carried out are the legal ones
  of the input, each once, in order and with the tree the grammar gives it;
  refused ones are reported; nodes in use are never handed out again; the
  parser's stacks are never written past their end; every session ends.

## 2. The modules

| Module | Models | Kind |
|---|---|---|
| `Storage` | table files, index files, catalog and index maps under CREATE TABLE, INSERT, kill and restart | specification |
| `StorageProofs` | eight theorems about `Storage` | proofs |
| `MCStorage` | cells, schemas and rows for TLC | instance |
| `Evaluator` | the evaluation of a WHERE clause on a row, and what the clause means | operators |
| `WhereChain` | the chains of comparisons the grammar makes, growing by one at a time | specification |
| `EvaluatorProofs` | that chains of any length get their meaning | proofs |
| `MCEvaluator` | every row and comparison of a small universe for TLC | instance |
| `Relational` | tables, rows, index entries, queries and their answers | operators |
| `Answers` | what a user may expect of SELECT | abstract specification |
| `Query` | how `ProjectionInfo` answers SELECT | specification, implements `Answers` |
| `QueryProofs` | that a query reads only join files of its own and leaves none, that fields stay in range, that no query changes the index maps, and that every table is joined once | proofs |
| `MCQuery` | three tables, their contents and queries for TLC | instance |
| `ParserTables` | the tables bison made, and how they are read | operators |
| `Parser` | `main`, `yyparse` and the expression pool, from tokens to the trees carried out | specification |
| `ParserItems` | what each state of the tables has read of which rules | operators |
| `Grammar` | which tokens are a statement and which tree it means, told without tables | operators |
| `Scanner` | `yylex` with its buffer and its automaton, from characters to tokens | specification |
| `Lexemes` | which characters are a token, told without automaton or buffer | operators |
| `FrontEnd` | `Parser` and `Scanner`, from characters to the trees carried out | specification |
| `FrontEndProofs` | of `Parser`: that its stack always has room, that the tables agree with `ParserItems`, that the values on the stack are nodes of the pool, and what a statement finds in the pool; of `Scanner`: that it stays inside its buffer; of `FrontEnd`: that neither disturbs what was proved of the other | proofs |
| `MCFrontEnd` | sessions for TLC, and what `Grammar` and `Lexemes` say of them | instance |
| `Multimap` | what the B-tree promises: a sequence ordered by keys | abstract specification |
| `BTreeNodes` | nodes of the B-tree, changes of one or two of them, walks over them | operators |
| `BTree` | insertion, erasure, clear and copy, step by step | specification, implements `Multimap` |
| `BTreeNodeProofs` | that each operation on nodes leaves a tree, and what it does to the number of values | proofs |
| `BTreeProofs` | that room is always made and that the tree stays balanced | proofs |
| `BTreeContentsProofs` | which stretch of the contents each node has, what the operations on nodes do to it, and where walks and searches lead | proofs |
| `BTreeOrderProofs` | that the tree stays in order, and what searches and iterators find in it | proofs |
| `MCBTree` | keys and a view for TLC | instance |

### Storage

A file is the sequence of its lines and a line the sequence of its cells. The
program looks at a cell's first character only, so cells are opaque and the
sets `Upper` and `Numeric` say what the first character is. A table file, the
index files of a table and the two maps in memory are functions; a command is
a sequence of actions, one per file that is written:

    CreateTable -> CreateExecute -> WriteHeader -> CreateIndexFile* -> CreateDone
    Insert -> InsertExecute -> AddIndex* -> AddIndexDone -> LoadIndexFiles
    Start -> LoadTables -> LoadIndexFiles

`pc` says which step comes next, `i` is the counter of the loop over columns.
`CreateExecute` has the three outcomes of the code (exists, cannot be opened,
opened), each followed by `CreateIndexFile`, as in `evalexpr`. `InsertExecute`
has the two refusals that can happen; the third, "Table not found", cannot:
`operator[]` gives an unknown table an empty header first. `AddIndexPastEnd`
is `columnValues[i]` past the end of a short row: some cell, or the end of the
process. `LoadIndexFiles` ends the process when `stof` would throw. `Kill` may
come between any two steps. A row reaches its file with the `endl` that ends
it, so a line is written whole.

`excused` is a history variable. It holds the tables one of whose index files
may miss rows: a kill hit an insertion between the table and the last index
file, or a CREATE TABLE of a name in use emptied an index file. Everything
else is covered by `IndexCoversTable`.

### Evaluator

A WHERE clause is the chain of its parenthesised comparisons; the grammar
groups from the left without precedence. The evaluator looks at the first two
characters of a cell and at its number, and these are what a cell has here.
The value of a comparison is the set of its possible outcomes, because several
paths leave a bool function without a `return`; the makefile builds without
optimisation, where such a function yields what the register holds, so
`NoReturn` is "true or false". A read through the wrong union member is
`Undefined`: either, or a crash. Numbers are exact fractions; a division by
zero leaves the denominator zero, which is an infinite number, or none if the
numerator is zero as well. The values of a chain and of an arithmetic operand
are defined by recursion over the sequence, as the code recurs over the tree.

`Satisfies` says independently what a chain means: numbers are compared by
the sign of their difference, chains by "some comparison starts a run of ANDs
that all hold". `Decidable` names the comparisons the code can decide:
meaningful ones (no division by zero, no text ordered or compared with a
number) without a difference (`leftValue - leftValue` is always 0),
without a column inside arithmetic (taken for an operator node), and whose
left cell starts either with two digits or with none. Outside `Decidable` the
code gives other answers; this is part of the model, not assumed away.

### Query

`Query` follows `ProjectionInfo::Execute`:

    Parse -> ExecuteOnOneTable ------------------------------> ScanRow* -> ScanDone
          -> TryComparison* -> IndexJoin | HashJoin | NoJoinFound
             -> (WriteProduct -> CopyProduct)* -> AllJoined -> ScanRow* -> ScanDone

Its variables are the fields of `ProjectionInfo`, the index maps, the join
files that exist and the rows printed. `TryComparison` is one round of the
loop over the comparisons, last to first. A join pushes the cells of the tuples
it pairs into columns one by one (`Pushes`, `JoinedRows`), each into the column
that the header names at its place. The tuple of a refused row may be longer
than the header: what is read past its end (`PastHeader`) is any of
`GarbageNames`, or ends the process (`JoinCrashes`). It may be shorter: the cells
of later rows then move up. `WriteResultsToJoinFile` writes as many rows as the
column before the last has; when there is no such column the count is any of
`GarbageCounts`, and the rows are blank. A hash join whose comparison names no
column of the table it reads looks at a place that was never set
(`CheckedColumns`). `CopyProduct` takes the two tables off
the list by the base names of their files. `Clear` leaves `selectSubTree` and
`temp.JOIN` alone, as in the code. `Kill` may come between any two steps;
`Crash` is an exception or a bad access.

`Selected` is `SelectSeq` written as a function over the places of the
sequence, so that a proof can expand it. `Relational` ends with what narrows
databases and queries down to those users mean: `KeysOfOneKind`,
`ColumnsOfFrom` and `FullTuples`. `MCQuery` asserts them of the run `query`
(`AnsweredAsMeant`); `query_all` goes beyond them. What the module itself asks of
a database (`WellFormed`) is what `Storage` keeps: rows fit their header, tuples in
an index may have any length but zero, and an index that begins with a number
has numbers only, because the process would not have come up otherwise.

`Answers` is the abstract specification: a valid query prints, in any order,
a part of the bag `Answer(db, query)` and finishes when it is complete; only a
kill takes the process away. `Query` implements it under the mapping
`Promised`, which TLC checks as the property `GivesTheAnswer`. The mapping takes
two liberties. Blank rows are left out where the answer has no row at all
(`RowsPrinted`): a hash join that matches nothing leaves `rowAmount` as it was, and
on each of the blank rows it then writes the WHERE clause holds, because every
column it names is read as empty. The code prints as many rows of tabs as chance
has it, where the promise is none; wherever there is a row to print, blank ones
count as wrong. And a row has all the columns of the final file, which is
what the code prints, whatever columns SELECT lists.

### Parser

`Parser` is `main`'s loop around `yyparse`. The tables are those of
`HW4-sql.tab.cpp`, number for number; the skeleton's labels are the values of
`pc`, and each semantic action is an action of the module:

    CallParser -> (GrowStack* -> Settle -> (ReadToken | ReadWord)
                   -> Shift | Reduce... | Execute... )* -> AcceptAtEnd | Quit
        Decision = 0:   DetectError | DiscardToken -> PopState* -> ShiftError
        no room:        StackExhausted -> CallParser

A value on the parser's stack is an integer, as in the code: 0, an operator,
or `MAXNODE` plus the place of a node. `ebuf` is the part of the pool that is
in use; what lies beyond `freen` is dropped, and `ValuesAreLive` says that
nobody needs it. A word that finds the pool full is written in front of it
(`ebuf[0 - MAXNODE]`), which may or may not end the process; `compile` of a tree
that is not there does end it.

`Grammar` gives every token sequence its meaning without tables, states or a
stack: lists fall apart at their commas, expressions at their last operator,
a SELECT at its keywords. `ExecutesTheGrammar` compares what the parser has
handed to `evalexpr` with what `Grammar` says of the statements read so far,
after errors, a full pool and an exhausted stack too.

### Scanner and FrontEnd

`Scanner` is `yylex`, one action for each character and each place where the
code branches; `lex` is the label it is at:

    Begin -> Match* -> FindAction -> ReturnWord | ReturnToken | Skip
        end of the buffer: ReadCharacter -> Rescan* -> Rescanned -> Match
                           LastMatch     -> Rescan* -> Rescanned -> FindAction
                           EndOfFile
        a NUL was typed:   FoundNul -> Rescan* -> TakeNul -> Match
                                               | StopAtNul -> FindAction

The tables are those of `lex.yy.cc`. A character is a model value of its class;
pointers are offsets into `ch_buf`, which ends in the two end-of-buffer
characters. The buffer is filled one character at a time (`YY_INTERACTIVE`), so
nearly every lexeme meets its end, is moved and read again. Which words are
keywords is a constant. `Lexemes` tells what the rules of `HW4-sql.x` say: a
text falls into its longest lexemes.

`FrontEnd` composes both: `yyparse` asks for a token where the tables do not
tell what to do without one, the scanner runs until it returns it, and
`Parser`'s `input` grows by it. The rest of `Parser` is used as it stands.

### BTree

The index maps of the program are `btree_multimap`s. `BTreeNodes` has the
nodes: a heap from addresses to the fields of a node. `count` is the length of
`values`, and the parent of the root is the leftmost leaf, as in the code,
where "is root" means "my parent is a leaf". Both directions of rebalancing
are `Share`: two siblings and the value between them are shared out again.
`BTree` runs a call through the steps that change nodes:

    Ask -> SearchPlace -> FoundPlace | InsertAtHint -> InsertIntoLeaf | GrowRoot | MakeRoom
        MakeRoom -> RoomOnLeft | RoomOnRight | AskParent* | NewRootAboveLeaf
                    | NewNodeBelowRoot -> SplitNode* -> InsertIntoRoom -> Return
    Ask -> EraseAt | EraseKey -> RemoveFromLeaf -> MergeLeft | MergeRight (going up)
        -> TakeFromLeft | TakeFromRight | LeaveUnderfull | EnoughValues | RootKept
           | LeafBecomesRoot | ChildMovesIntoRoot -> Advance -> Return

`stack` is the recursion of `rebalance_or_split`, each frame its node and
insert position. `iter` keeps the leaf's position while the loop of `erase`
walks up, as the code does. `Unique` chooses between map and multimap
(`insert_unique`, `erase_unique` or `insert_multi`, `erase_multi`). A copy takes
the place of the original. Within a node a search is modelled by its result;
the linear and the binary search of the code agree on ordered nodes, which
`Verified` says they are.

`Multimap` is the abstract specification: a call takes effect in one step (a
key's erasure in one step per value) and is answered with a place. `BTree`
implements it under `entries <- Contents \o source`, where `Contents` is the
walk through the tree and `source` what a copy has still to take over: every
split, merge and rebalance in between is a stutter, and the iterator that is
returned is at the place the abstract answer names.

## 3. What the runs check

| Run | Module, configuration | Checks | What it shows |
|---|---|---|---|
| `storage` | `MCStorage`, `MCStorage.cfg` | `TypeOK`, `RowsFitHeader`, `CatalogMatchesDisk`, `IndexTuplesStored`, `IndexCoversTable`, `RunningImpliesLoadable`, `MemoryMatchesIndexFiles`, `TablesAppendOnly` | Two tables under every interleaving of CREATE TABLE, INSERT, kills between any two file writes and restarts: table files, index files, catalog and index maps stay in step. |
| `storage_two_keys` | `MCStorage`, `MCStorageTwoKeys.cfg` | `IndexCoversTable`, `CommandsEnd` | One table with two key columns, whose insertions append to two index files one after the other, with one more row: the indexes stay complete, and every command ends. |
| `storage_refused_rows_are_indexed` (violation) | `MCStorage`, `MCStorage_IndexTuplesOfTable.cfg` | `IndexTuplesOfTable` | A row that INSERT refuses is appended to the index files of the table all the same. |
| `evaluator` | `MCEvaluator`, `MCEvaluator.cfg` | `AnswersWhatTheChainMeans` | Every comparison of two columns, texts and numbers, on every row, alone and in chains of up to three with AND and OR: where the evaluator can decide it gives the one answer the chain means. |
| `query` | `MCQuery`, `MCQuery.cfg` | `EveryTableJoinedOnce`, `IndexesStayLoaded`, `GivesTheAnswer` | Queries over one to three tables, by index, hash and nested loop joins, one after the other, with kills and restarts at any point, whatever number of rows a hash join that matches nothing writes: the program implements the abstract specification Answers, except that blank rows may be printed where the answer has no row. |
| `query_all` | `MCQuery`, `MCQueryAll.cfg` | `TypeOK`, `EntriesStayLoaded`, `JoinFilesRemoved`, `LastFileWritten` | Every query the program accepts, well typed or not, on indexes in step with their tables, with tuples of refused rows that are too short or too long, or with a number in an index of texts: fields stay in range whatever a join reads past a header, no query changes an index, a step reads only join files of its own query, and none outlives it. |
| `query_ends` | `MCQuery`, `MCQueryEnds.cfg` | `QueriesEnd` | Every query ends, whichever joins it takes. |
| `query_index_entered` (violation) | `MCQuery`, `MCQuery_IndexEntered.cfg` | `WhereJoins` | A join in the WHERE clause does not have the effects of a join: an earlier query left an empty index in the maps, which is found instead of the real one. |
| `front_end` | `MCFrontEnd`, `MCFrontEnd.cfg` | `TypeOK`, `StackFits`, `ValuesAreLive`, `OnlyDropsLeaveNodes`, `OnlyAFullPoolCrashes`, `ExecutesTheGrammar`, `RefusalsReported`, `StaysInBuffer`, `ScansTheLexemes`, `SessionEnds`, `AnswersAtOnce` | Sessions of legal, spoilt and overlong statements, some given as tokens and some typed character by character, through error recovery, a full node pool, an exhausted parser stack and a buffer that is moved and grown within a lexeme: the scanner finds the lexemes of the text, and the statements carried out are the legal ones, with the trees the grammar gives them. |
| `btree_shapes` | `MCBTree`, `MCBTree.cfg` | `TypeOK`, `Verified`, `Balanced`, `RoomIsMade`, `IteratorsWalk`, `ImplementsMultimap` | Every tree of up to 15 equal keys that hints and erasures at any place can make, to three levels with splits, merges and rebalances of leaves and internal nodes: it stays well formed and gives the answers of a multimap. |
| `btree_two_keys` | `MCBTree`, `MCBTreeTwoKeys.cfg` | `SearchesAgree`, `ImplementsMultimap` | A multimap of two keys with up to 11 values in all, the border between the keys at every place of every tree: searches, insertions and erasures by key go by the order of the whole container. |
| `btree_map` | `MCBTree`, `MCBTreeMap.cfg` | `Verified`, `ImplementsMultimap` | A map of up to 7 of eight keys on nodes of four values, where erasure may leave nodes underfull: it stays in order and refuses the keys it has. |

### Bounds, and why they are enough

- `storage`: two tables (they share no file, but share the maps and the
  loader; symmetric), two schemas (a key the short row does not reach; a plain
  column as wide as the placeholder of an empty file), rows that fit, are too
  short and too long, numbers and texts in the key column, and `NULL`, whose
  capital makes it look like a key. `MaxLines = 2` rows: an index needs two
  entries to have keys of mixed kind. `storage_two_keys` has two index files
  per insertion and three lines.
- `evaluator`: cells of one and two digits, texts whose second character is a
  digit or not, every pair of kinds of operands and every operator, each term
  of arithmetic; chains of up to three comparisons are the shortest in which
  grouping matters.
- `query`: an index join, hash joins either way round on texts and numbers,
  joins found behind other comparisons, one to three tables, products alone,
  refused queries; tables empty, with one row, two rows, equal rows. A count that
  was never set (`GarbageCounts`) is 0, 1 or 3: no row, no row but a header, and two
  blank rows; a larger one only prints more of these.
  The databases are those insertions leave (`EntriesFor`), which is
  `IndexCoversTable` and `IndexTuplesStored` of `Storage`. The queries are
  ones whose comparisons are conjunctive equalities where a join is taken;
  others are refuted below and included in `query_all`.
- `query_all`: also ill-typed and unchecked queries and queries without WHERE, on
  databases with the tuple of a refused insertion in the indexes, too short or too
  long, and with a number in an index of texts. The tuple that is too long is so by
  one, and the name read there is `"?"`, which is no column, or `"c"`, which is one:
  a name that is a column of the other table lengthens that column, any other
  adds one. `GarbageCounts` are 0 and 3, above and below the number of rows there are.
- `query_ends` has few databases, because the fairness condition makes TLC
  evaluate ENABLED of the whole next-state relation.
- `front_end`, tokens: every legal statement alone with one token missing, doubled or
  replaced, followed by a legal one; all triples of short statements; sessions
  whose DROP TABLEs fill the pool before, in and after a statement; WHERE
  clauses that just fit the pool or do not; parentheses as deep as the stack,
  and deeper. They visit each of the 147 states of the tables that the scanner's
  tokens can reach. `MaxNode` is 100 instead of 20000 (a value must not be
  mistaken for an operator, whose numbers end at 92); the stack starts at 4
  and ends at 24 instead of 200 and 10000, so that it grows three times, the
  last time by less than double, as in the code.
- `front_end`, characters: every text of up to three characters, one of each
  class that the automaton tells apart in more than one state; every other
  character alone; a statement cut off at any place; the statement with any
  character missing or any other put in, and another one after it; strings and unterminated strings that make the
  buffer grow up to three times, because it starts with 2 characters instead
  of 16384; words around the nine characters that are compared with keywords.
  Letters and keywords are few: the code treats all letters alike, and a
  keyword is one of one, two or eight letters.
- `btree_shapes`: a node holds three values, the least the code allows. With one
  key a hint may insert anywhere, so insertions and erasures reach every shape.
  15 values are the fewest with which internal nodes rebalance with a sibling
  in an insertion (13 in an erasure), on trees of three levels.
- `btree_two_keys`: two keys put their border at each place of each tree; 11
  values reach three levels and the split of an internal root.
- `btree_map`: nodes of four values, where half full (two) is more than one, so
  that erasure at the end of a node may leave it underfull.
- Node addresses are not compared by the code, so the view of `MCBTree` names
  nodes by their place in the tree.

### Fairness

`FairSpec` adds weak fairness of `Proceed`, the steps of the process itself:
it is sequential, waits for nothing and is scheduled by the operating system.
There is none for `Start`, `Kill` or the user's commands; nobody has to restart
the process or enter a statement. `FrontEnd` has weak fairness of its whole
next-state relation: the text is given, and reading it does not wait.

### Where the code departs from what is said of it

Two runs expect a violation and each shows one statement of the README or of a
comment that the code does not keep; `PROJECT.json` quotes the statements. Met
on the way, part of the model, and left without a run of their own:

- one comparison of an OR chain decides which rows are joined, so rows that
  satisfy only the other side are lost (`projectioninfo.cpp:629`), though
  `README.txt:24` lists `or`;
- a SELECT with HAVING or ORDER BY is parsed and then dropped without a word,
  because its root is not a projection (`HW4-parser.cpp:347`);
- the grammar has UPDATE, DESCRIBE and SHOW TABLES, but the scanner has no
  words for their keywords (`HW4-sql.x:4`), so they are syntax errors;
- each DROP TABLE leaves a node in the pool (`HW4-sql.tab.cpp:1395`), so that
  enough of them in a row make the next statement crash or vanish;
- the upper bound of `cvt_itoe` is one too high (`HW4-parser.cpp:108`), which
  no value reaches;
- when the parser's stack is exhausted the rest of the statement is parsed as
  statements of its own (`HW4-parser.cpp:64`);
- a difference in WHERE is always zero: `leftValue - leftValue`
  (`projectioninfo.cpp:781`), though `README.txt:63` lists `-`;
- without a WHERE clause the scan evaluates a null tree, or the one an earlier
  query left (`projectioninfo.cpp:699`);
- an INSERT may put a text key into an index that is loaded with float keys:
  `stof` throws then and at every later start (`indexinfo.cpp:95`);
- a comparison other than `=` between two indexed columns is joined as `=`
  (`projectioninfo.cpp:641`);
- the tuple of a refused INSERT takes part in joins: one with too few values
  shifts the cells of the rows behind it, and for one with too many the names of
  columns are read past the end of the header (`projectioninfo.cpp:334`, `:542`);
- a hash join that matches nothing writes an unset number of blank rows
  (`projectioninfo.cpp:261`), which are printed;
- every column of the final file is printed, whatever SELECT lists
  (`projectioninfo.cpp:700`), though `README.txt:64` says that the output header
  is respected, and columns of WHERE are not checked
  (`projectioninfo.cpp:89`);
- one-digit numbers, and texts whose second character is a digit, are not
  compared with other cells (`projectioninfo.cpp:1062`);
- a column inside arithmetic is read as an operator (`projectioninfo.cpp:774`);
- CREATE TABLE of an existing table empties its index files
  (`HW4-parser.cpp:379`);
- an INSERT into an unknown table is answered "too many values"
  (`insertrowinfo.cpp:66`).

## 4. What is proved

`StorageProofs` proves eight theorems about `Storage`, for every set of
tables, cells, schemas and rows that satisfies the module's assumptions
(`CellAssumption`, `InputAssumption`, `BoundAssumption`, `NoTableAssumption`),
which TLC evaluates in the storage runs. Each invariant that TLC checks is
proved from a stronger one that is inductive:

| Theorem | Invariant it rests on |
|---|---|
| `TypeCorrect` | `TypeOK` itself |
| `RowsAlwaysFitHeader`, `CatalogAlwaysMatchesDisk`, `TablesOnlyGrow` | `CatalogInv`: once the catalog is loaded, missing tables are unknown and every other table is known by its header or, if its header was never written, by a one-cell placeholder; a file being created is empty; a value list is not empty |
| `IndexTuplesAlwaysStored` | `TuplesInv`: a table without header has no tuples; the header an insertion read is the table's; a row of the right width is in the table before any index file is touched |
| `RunningAlwaysLoadable`, `MemoryAlwaysMatchesIndexFiles` | `LoadedInv`: while no insertion and no start-up is under way the files load, and each map entry is that of its file unless the file was emptied |
| `IndexAlwaysCoversTable` | `CoverInv`: a row of a table that is not excused is indexed in every key column, or it is the last row, the command's own, and the loop has not come to the column |

`RowsFitHeader` alone is not inductive: that an inserted row is as wide as the
header follows only because the catalog, against which its width was tested,
agrees with the file. The placeholder of an unwritten table makes this subtle:
its one cell lets a one-cell row in, which then becomes the header.

`QueryProofs` proves six theorems about `Query`, for every catalog, database,
set of queries and garbage that satisfies the assumptions of the module and of
`Relational`:

| Theorem | Invariant it rests on | Further hypotheses |
|---|---|---|
| `LastFileAlwaysWritten`, `JoinFilesAlwaysRemoved` | `FilesInv` | |
| `QueryTypes` | `TypeOK` with `SearchInv` | (tuples in an index may be shorter or longer than the header) |
| `EntriesAlwaysStayLoaded` | `EntriesStayLoaded` itself | |
| `IndexesAlwaysStayLoaded` | `LoadedInv` | `KeysOfOneKind` |
| `EveryTableAlwaysJoinedOnce` | `JoinedInv` | `ColumnsOfFrom`, `FullTuples`, no table has the name of a join file, `NoColumn` is no column |

The further hypotheses are needed, because the code departs from the properties
without them (section 3, and the hazards at `projectioninfo.cpp:330` and `:458`);
TLC evaluates them for the databases and queries of the run that checks these
properties. The first two theorems depend on the order of the steps only,
whatever the joins compute. `FilesInv` joins the two properties to what they need of the other
steps: a query begins with every table of FROM still to join, the process has
no last file at the prompt and when it is down (so that files a kill left are
never taken for results), and a new process starts without a reply to a query.
Each join is then a step that writes a file and names it (`JoinKeepsFiles`,
`CopyProductKeepsFiles`), and `ClearLeavesTemp` says what `Clear` leaves.

The others need what the joins compute. Lists are collected place by place,
by selection, by dropping repetitions or by concatenation: `Takes` is the
recursion these share, `TakenAt` gives the values it collects and when they are
distinct, and `Flattened` does it for concatenation. `PushedTaken` and
`JoiningsCollect` say what a join collects from the cells it pushes, whatever names
lie past a header: columns or garbage names, with cells only. `IndexPushesPairs`
and `HashPushesPairs` say that what is pushed are the cells of pairs of tuples, one
from each side, `EntriesAreEntries` that the index maps have such tuples, and
`FullTuplesJoined` that nothing but the columns of the two tables is collected when
the tuples are as wide as their headers. `IndexJoinCollects` and `HashJoinCollects`
put this together,
`WrittenRelation` that what is written of them is a relation, `ProductRelation` the
same of a product, and `FindsColumns`, `FindsTables` and `FindsIndexes` what the
search for a join finds in a comparison.

- `SearchInv`: the query in execution is a valid one and the tables still to
  join are among those of FROM; when a join comes, the indexes it reads were
  found, and a hash join finds the table of its index among the two it joins.
- `EntriesStayLoaded` says what the index maps give when they are asked: the
  entries of the index files and nothing else. A look-up of an index that is not
  there enters an empty one, which changes no answer (`EnteringKeepsEntries`).
- `LoadedInv` says that none is entered: the comparisons still to be looked at
  are the query's, and if the keys a comparison names are of one kind, the
  second index is in the map in which the first was found (`BothInOneMap`).
- `JoinedInv` is about the header at every step: the columns the last file
  names (`Complete`) and those of the tables still on the list do not overlap, are
  named once each, and add up to those of FROM, unless a hash join matched
  nothing. The tables are taken off the list by the names of files, so the
  argument needs `FilesInv` and that no table has the name of a join file.

`FrontEndProofs` first proves `StackAlwaysFits` about `Parser` from `DepthAssumption`
alone, for every input, pool and stack size: `StackInv` adds to `StackFits` that
`yyss` is a stack and its size is not zero. The argument is that a push happens
only after the room was looked at in the same state (`PushFits`), and that a
reduction pops a number of states that is never negative before it pushes one
(`RuleLengths`, `PopStack`, `ReplaceFits`). It does not need the tables to be
right, only that `yyr2` holds natural numbers.

It then proves four more theorems about `Parser`, for every input
and every size of pool and stack that satisfies `InputsAssumption`,
`PoolAssumption` and `DepthAssumption`:

| Theorem | Invariant it rests on |
|---|---|
| `ParserTypes`, `ParserHoldsLiveNodes`, `ParserCrashesWhenFull` | `ParserInv`: the stack of states is linked, each state following the one below; each value fits the symbol of its state; a word read ahead is in the pool; none is read ahead where a statement ends; a crash means a full pool |
| `StatementsBeginClean` | `DropInv`: `ParserInv`, and in the seven states through which a DROP TABLE passes the pool holds the names dropped before and perhaps the word just read, and the last tokens are those the state stands for |

`ValuesAreLive` and `TypeOK` are far from inductive: that `$3` of a rule is a
node follows only because the parser is in a state where the rule's symbols
have been read, and bison's tables do not say what a state has read.
`ParserItems` does, one entry for each state, rule and place before the dot
where something has been read; it is worked out from the grammar and trusted
for nothing. Lemmas prove, entry by entry, that shifts, gotos and
default gotos of the compressed tables lead only to states that follow
(`ShiftFollows`, `GotoFollows`), that a reduction is decided only where all
its symbols have been read (`DefaultCompletes`, `ActionCompletes`), and hence
that the symbols of a rule are on top of the stack when it is reduced and that
its left side may begin below (`HandleOnStack`). The values follow from there:
`DollarIsLive` says that the places of a rule that `makeexpr` and `compile`
use hold nodes, `makeexprMakes` and `setnameMakes` that the pool stays well
formed,
`ReplaceKeepsStacks` that the left side gets what its symbol asks for. The one
place where nodes disappear is the end of a statement, where the semicolon
is decided without a lookahead (`SemicolonDecides`), so that no word read ahead
is lost, and nothing below the statement on the stack holds a node. `ParserInv`
and `DropInv` were checked by TLC on the parser's sessions before they were
proved.

`FrontEndHoldsLiveNodes` carries the first three theorems over to the parser
that runs with the scanner, whose input grows: the pool may hold more words
then, and nothing it holds is disturbed (`TokensKeepParser`).

Of `Scanner` it proves `ScannerStaysInBuffer`, for every text,
alphabet, table of keywords and first size of the buffer that satisfy
`CharsAssumption`, `TextsAssumption` and `BufferAssumption`. `ScannerInv` says where the
pointers are at each label. What makes it inductive is `Reach`: the automaton
is at most at the first end-of-buffer character, or one further in the state
that stands for it (state 3). That follows from facts about the tables
(`EndOfBufferEnds`: a zero byte leads to state 3 from everywhere, nothing else
does, and from there any character ends the lexeme; `StartAccepts`: one
character always makes a lexeme, so that backing up has somewhere to go), which
SMT checks entry by entry. `RefillFits` is the arithmetic of
`yy_get_next_buffer`: after the buffer was grown, what is moved, the character
read and both end-of-buffer characters fit. `FrontEndStaysInside` joins this to
`StackAlwaysFits` for parser and scanner together, since neither touches what
the other's invariant is about.

`EvaluatorProofs` proves `ChainsGetTheirMeaning` about `WhereChain`, for every
set of rows and of comparisons that satisfies `ComparisonsAssumption` (what the
grammar and the lexer make) and `EvaluatorCells`, and for chains of any length.
Here a value is defined by recursion, and what it is takes induction. The
library's induction theorems take an operator and cannot be used; `LeastNumber`
gets it from the well-foundedness of the natural numbers in the form of a set,
`StepUp` makes an induction over an interval of it and `Unfolding` the existence
of functions defined by recursion. `ComparesByOrder` says that the cross
products the code compares are in the order of the numbers for all six
operators, which needs that denominators are never negative;
`ComputesTheNumber` that an operand without a difference has the value it
means; `DecidesAComparison` goes through the kinds of operands; `OneMoreHolds`
says what one more comparison does to "some comparison starts a run of ANDs
that all hold", and `DecidesAChain` joins this to what the code combines.

`BTreeProofs` proves `RoomIsAlwaysMade` and `TreeStaysBalanced` about `BTree`,
for maps and multimaps, every set of values, every bound of the size and every
number of values per node from three on (`KeyOfAssumption`,
`NodeValuesAssumption`, `UniqueAssumption`, `MaxSizeAssumption`; the code
makes no smaller nodes, glibs/btree.h:495, and with two values a split could leave
a node without any).
Neither is inductive, and the invariant under both, `IInv`, is about every step of a
call, in the middle of which a node may be empty and the root may have a single
child:

| Part of `IInv` | What it says | Why it is needed |
|---|---|---|
| `Standing` | the nodes form a `Tree`; while room is made, the frames of the recursion form a `Chain` | below |
| `Ended` | the field of an internal root that names the rightmost node names a leaf | `end()` is a place to insert at |
| `Nonempty` | a node without values is the one the call works on | the value that replaces an erased one of an internal node exists; a sibling can always fill a node that lost its last |
| `Called`, `At` | the arguments of the call, and where its iterator is at each step | splits and shifts stay inside their nodes |
| `Enough` | no more values are left to erase than there are | a key is erased value by value, and the iterator must not run past the end |

`Tree` says what a tree is without recursion: there are numbers `lv`, zero on leaves
and one more on a parent than on its children, each node other than the root
is the child its `parent` and `position` say, and a set `S` of nodes leads from
the root along first children to the leaf that is kept as the root's parent. That
nodes cannot form a cycle, that all leaves are at one depth and that every node
hangs on the root follow from `lv`. `Chain` says that the frames are about
full nodes of `NodeValues` values, from some level down to a leaf, each the child
of the one above that its position names. Splitting the uppermost then
disturbs none below it (`LowerKept`, `RestKept`).

An operation changes nodes in two or three steps between which there is no tree,
so `BTreeNodeProofs` reasons about `Loose` trees, in which the children
of some nodes and the places of others are unfinished (`FillLoose`,
`RevaluedLoose`, `FreeLoose`); `SplitIs`, `MergeIs`, `ShareIs`, `NewAboveIs`,
`NewBelowIs`, `SunkIs` and `LeafRootIs` put the steps together. What a walk finds
(`Nodes`, `Slots`, the leaf a search ends in) is defined by recursion;
`Recursion` says that a function exists whose value at a place depends on places
of lower rank only, and `RankInduction` shows what it does. So `NodesAre` and
`SlotsAre` prove that clearing and copying visit each node and each value once, and
the `Weight` of a tree, the number of its values, follows from counting
places: no merge, shift or change of the root loses one (`WeightMerged`,
`WeightShared`, `WeightMoved`), and an erasure loses one (`WeightLess`). There is
one lemma for each action (`SplitNodeKeeps`, `MergeKeeps` and so on).
TLC checked `IInv`, with the levels and the spine computed, on the small
instances before it was proved.

`BTreeOrderProofs` proves `TreeAlwaysVerified`, `IteratorsAlwaysWalk`,
`SearchesAlwaysAgree` and `TreeImplementsMultimap` from the same assumptions. They
need the order of the values, which `IInv` says nothing about. The invariant is
`IInv /\ OInv` (`OrderInvariant`; its parts and what follows of one state are in
`BTreeContentsProofs`): in every state, also in the middle of a call, there are
contents `C`, numbers `lo[n]` and `hi[n]` for each node and a place `x` with

| Part of `OInv` | What it says | Why it is needed |
|---|---|---|
| `Kept` | the tree `Holds` `C`: what is below node `n` is `C` from `lo[n]` to before `hi[n]`, a leaf has a stretch of `C`, and an internal node has each value between the stretches of two children; an internal root knows the size and the last leaf | the order of the whole container is that of one sequence, told node by node |
| `Works` | the step in progress is at the place `x` of `C`: the iterator, the innermost frame of the recursion, or the place an erasure goes on from | splits, merges and shifts move the place to other nodes, but not in `C` |
| `Meant` | `C` is ordered; a value to insert fits at `x`, behind all of its key in a multimap, or where the hint says; what is still to erase stands behind `x` | a value put in or taken out leaves the order |

`Holds` is told by numbers, so no recursion is needed to state it: `ContentsHeld`
proves that the walk through the tree finds `C`. The operations on nodes either
move the borders between siblings (`ShareHolds`, `MergeHolds`, `SplitHolds`),
change the root (`RaisedHolds`, `LoweredHolds`, `SunkHolds`), or shift all
numbers behind the place that changes (`InsertHolds`, `RemoveHolds`); they treat the
values and children of one or two nodes as a `Row`. `SlotsStretch` says that the
walk meets the places in the order of their numbers, `AfterNumber` and
`BeforeNumber` that `++` and `--` climb to the next and the last number, and
`KeysCut` that the keys below a bound are the first ones, so that a search that
goes down one path ends at their border. Again there is one lemma for each
action (`SplitNodeOrders`, `MergeOrders` and so on).

`TreeImplementsMultimap` is the refinement: `BTree` implements `Multimap`, whose
`entries` are what the walk through the tree finds, with what a copy has still to
copy. By `HeldIs` and `HeldNext` the mapped state before and after a step is told by
`C`, `x` and the answer alone; `CallInv` adds that there is a call whenever the
container is not idle. `StepMeans` then has one case for each kind of step:

- Steps that make or use up room (`OnNodesStutters`) leave the contents as they are
  and the answer unknown, so they are stutters.
- `PutInMeans`: the step that puts the value into its leaf is the abstract insertion. In
  a multimap the place is behind the last value of the key, or where the hint says
  (`FitsWhere`, `FitsOnce`, `FitsLast`); in a map it is the only place of a new key.
  `FoundMeans` says that a key that is there is answered with its place.
- `RemoveFromLeafMeans`: the step that takes a value out of its leaf is the abstract
  erasure, also when it came from an internal node and the one before it was put in
  its place (`ReplaceAndRemove`). `DueKey` says that what is still to erase of a key
  is the first value that has it. The merges that follow are stutters, and
  `AdvanceMeans` says that the place returned is that of the value erased.
- `ClearMeans`, `CopyEndMeans`, `AskMeans` and `ReturnMeans` for the others.

What stays with TLC:

- Liveness (`CommandsEnd`, `QueriesEnd`, `SessionEnds`).
- Of `BTree`, `TypeOK`, which bounds the size by `MaxSize`, a fact about the
  number of values and of nodes.
- Of `Query`, the refinement of `Answers`. It is about how often each row is
  there: that the rows a join writes, the products with the other tables and the
  selection by the WHERE clause add up to the bag of the answer takes
  counting in every loop, by induction over its rows.
- `ExecutesTheGrammar`, `RefusalsReported` and `ScansTheLexemes`, which compare a
  whole session with operators that read it by recursion.
- `AnswersAtOnce`, about the last character read when a statement is carried out,
  and `OnlyDropsLeaveNodes`, of the parser with its scanner: `StatementsBeginClean`
  proves the latter for `Parser`, whose input is known from the start.

## 5. What is not modelled

- Printing; `HW4-sql.ypp.tab.c`, a stale copy of the parser that nothing
  includes; a `malloc` that fails; the scanner's functions that nobody calls
  (`yyunput`, `yyinput`, its stacks of buffers and start states), a buffer
  larger than an `int` can say, and the character that is overwritten at the
  end of `yytext` and put back.
- The precision of `float`; disk errors while appending to a file that is open.
- Tabs and line ends inside quoted strings, which would be separators in the
  files.
- Two processes on one data directory; the program has no locking and its
  README describes one interactive process.
- `safe_btree` (not used by the program), tests and benchmarks.

## 6. Plan

1. Done: `Storage`, `Evaluator`, `Query` with its refinement of `Answers`,
   `BTree` with its refinement of `Multimap`; `Parser`, its tables and the
   expression pool, checked against `Grammar`; `Scanner`, checked against
   `Lexemes`; both composed in `FrontEnd`.
2. Done: proofs of all properties of `Storage`, of what the parser and the scanner
   do to their memory and to the pool, of what a chain of comparisons means, and of
   the shape of the B-tree.
3. Done: proofs of all invariants of `Query`. Left is the refinement of
   `Answers`, by counting the rows of each file.
4. Done: proofs about the order of the values in the B-tree and of its
   refinement of `Multimap`.
5. `OnlyDropsLeaveNodes` for the parser with its scanner.
6. `Database`: `Storage` and `Query` composed over the same files and maps,
   so that queries run on what insertions, kills and restarts leave.
