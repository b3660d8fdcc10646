------------------------------- MODULE Query -------------------------------
(***************************************************************************)
(* ProjectionInfo: how the program answers a SELECT statement.             *)
(*                                                                         *)
(* Of the comparisons of the WHERE clause, taken from the last to the      *)
(* first, the first one that involves columns of two tables and an index   *)
(* becomes an index join (both columns have an index) or a hash join (one  *)
(* has); the tables that remain are multiplied in, one nested loop join    *)
(* each; then the WHERE clause is evaluated on every row of the result.    *)
(* Every join writes its result to a file that the next step reads.        *)
(*                                                                         *)
(* The process is sequential, but it can be killed at any time, and it     *)
(* keeps its fields and the index maps from one query to the next.         *)
(***************************************************************************)
EXTENDS Relational

CONSTANTS
    Garbage,       \* what a read past the end of a vector of cells can yield
    GarbageNames,  \* what one past the end of a vector of names can yield
    GarbageCounts, \* what an int that was never set can hold (bound)
    ColumnOrder,   \* all these names and all columns in their order in a map
    KeyOrder       \* the keys of the indexes in their order in the trees

ASSUME GarbageAssumption ==
    /\ Garbage \subseteq Cells
    /\ GarbageNames \subseteq STRING
    /\ GarbageCounts \subseteq Nat

ASSUME ColumnOrderAssumption ==
    /\ ColumnOrder \in Seq(Columns \cup GarbageNames)
    /\ IsInjective(ColumnOrder)
    /\ Range(ColumnOrder) = Columns \cup GarbageNames

ASSUME KeyOrderAssumption ==
    /\ KeyOrder \in Seq(Cells)
    /\ IsInjective(KeyOrder)
    /\ \A d \in Databases, c \in Keys : \A n \in DOMAIN d.entries[c] :
          d.entries[c][n].key \in Range(KeyOrder)

VARIABLES
    db,                 \* the table and index files
    stringIndexTable,   \* indexInfo.stringIndexTable, entries in tree order
    floatIndexTable,    \* indexInfo.floatIndexTable
    joinFiles,          \* the .JOIN files that exist
    pc,                 \* what the process does next; "down": no process
    query,              \* the last SELECT statement
    reply,              \* how it ended
    tableNames,         \* the tables of FROM that are not joined yet
    selectSubTree,      \* the WHERE clause of the last query that had one
    subTrees,           \* the comparisons the join search has yet to see
    whereClauseColumns, \* the columns of the comparison it looks at
    joinedTables,       \* the tables these belong to
    indexOne, indexTwo, \* the indexes found for them
    lastJoinFile,       \* the file the next step reads
    line,               \* the next row of it to evaluate
    printed             \* the rows printed so far

indexes == <<stringIndexTable, floatIndexTable>>

fields == <<tableNames, selectSubTree, subTrees, whereClauseColumns,
            joinedTables, indexOne, indexTwo, lastJoinFile, line>>

vars == <<db, indexes, joinFiles, pc, query, reply, fields, printed>>

NoIndex == [column |-> "", kind |-> "none"]

NoFile == <<"", "">>

TableFile(t) == <<t, "tbl">>

JoinFile(name) == <<name, "JOIN">>

JoinNames == {"index", "hash", "nestedloop", "temp"}

\* The column of a file whose header is an empty line.
NoColumn == ""

Names == Columns \cup GarbageNames \cup {NoColumn}

Relation == [header : Seq(Names), rows : Seq(Tuple)]

TypeOK ==
    /\ db \in Databases
    /\ DOMAIN stringIndexTable \cup DOMAIN floatIndexTable \subseteq Keys
    /\ \A c \in DOMAIN stringIndexTable : stringIndexTable[c] \in Seq(IndexEntry)
    /\ \A c \in DOMAIN floatIndexTable : floatIndexTable[c] \in Seq(IndexEntry)
    /\ DOMAIN joinFiles \subseteq JoinNames
    /\ \A f \in DOMAIN joinFiles : joinFiles[f] \in Relation
    /\ pc \in {"down", "prompt", "execute", "index_join", "hash_join",
               "product", "copy", "scan"}
    /\ query \in Queries \cup {NoQuery}
    /\ reply \in {"none", "refused", "answered", "crashed"}
    /\ tableNames \in Seq(Tables)
    /\ joinedTables \in Seq(Range(Catalog))
    /\ pc \in {"index_join", "hash_join"} =>
          Len(joinedTables) = 2 /\ Len(whereClauseColumns) >= 2
    /\ {indexOne, indexTwo} \subseteq
          [column : Keys, kind : {"string", "float"}] \cup {NoIndex}
    /\ lastJoinFile \in {NoFile} \cup {TableFile(t) : t \in Tables}
                            \cup {JoinFile(name) : name \in JoinNames}
    /\ line \in Nat
    /\ IsABag(printed)

(***************************************************************************)
(* Sequences.  The first one is SelectSeq, in terms proofs can expand.     *)
(***************************************************************************)

\* The values that pass the test, in their order.
Selected(s, Test(_)) ==
    LET taken[n \in 0..Len(s)] ==
            IF n = 0 THEN <<>>
            ELSE IF Test(s[n]) THEN Append(taken[n - 1], s[n]) ELSE taken[n - 1]
    IN  taken[Len(s)]

\* Each value once: push_back of what find does not find.
Distinct(s) ==
    LET taken[n \in 0..Len(s)] ==
            IF n = 0 THEN <<>>
            ELSE IF \E m \in 1..(n - 1) : s[m] = s[n] THEN taken[n - 1]
            ELSE Append(taken[n - 1], s[n])
    IN  taken[Len(s)]

(***************************************************************************)
(* Start-up, Clear() and the end of the process.                           *)
(***************************************************************************)

HasFloatKeys(entries) == entries # <<>> /\ entries[1].key \in Numeric

HasStringKeys(entries) == entries # <<>> /\ entries[1].key \notin Numeric

LoadedFloatIndexes ==
    [c \in {k \in Keys : HasFloatKeys(db.entries[k])} |-> db.entries[c]]

LoadedStringIndexes ==
    [c \in {k \in Keys : HasStringKeys(db.entries[k])} |-> db.entries[c]]

NoIndexes == [c \in {} |-> <<>>]

\* Mutant: the result of a hash join is not removed.
ScratchFilesButHash == {"index", "nestedloop"}

\* The files Clear() removes.
ScratchFiles == {"hash", "index", "nestedloop"}

\* Mutant: the name of the last file is kept for the next query.
ClearButLastJoinFile ==
    /\ tableNames' = <<>>
    /\ subTrees' = <<>>
    /\ whereClauseColumns' = <<>>
    /\ joinedTables' = <<>>
    /\ indexOne' = NoIndex
    /\ indexTwo' = NoIndex
    /\ line' = 0
    /\ joinFiles' = Restrict(joinFiles, DOMAIN joinFiles \ ScratchFiles)
    /\ UNCHANGED lastJoinFile

\* Clear().  It leaves selectSubTree alone, and temp.JOIN.
Clear ==
    /\ tableNames' = <<>>
    /\ subTrees' = <<>>
    /\ whereClauseColumns' = <<>>
    /\ joinedTables' = <<>>
    /\ indexOne' = NoIndex
    /\ indexTwo' = NoIndex
    /\ lastJoinFile' = NoFile
    /\ line' = 0
    /\ joinFiles' = Restrict(joinFiles, DOMAIN joinFiles \ ScratchFiles)

Init ==
    /\ db \in Databases
    /\ stringIndexTable = NoIndexes
    /\ floatIndexTable = NoIndexes
    /\ joinFiles = [f \in {} |-> <<>>]
    /\ pc = "down"
    /\ query = NoQuery
    /\ reply = "none"
    /\ tableNames = <<>>
    /\ selectSubTree = <<>>
    /\ subTrees = <<>>
    /\ whereClauseColumns = <<>>
    /\ joinedTables = <<>>
    /\ indexOne = NoIndex
    /\ indexTwo = NoIndex
    /\ lastJoinFile = NoFile
    /\ line = 0
    /\ printed = EmptyBag

\* main(): the catalog and the indexes are loaded before the first prompt.
Start ==
    /\ pc = "down"
    /\ pc' = "prompt"
    /\ stringIndexTable' = LoadedStringIndexes
    /\ floatIndexTable' = LoadedFloatIndexes
    /\ UNCHANGED <<db, joinFiles, query, reply, fields, printed>>

\* The process is gone, and with it everything but the files.
LoseProcess ==
    /\ pc' = "down"
    /\ stringIndexTable' = NoIndexes
    /\ floatIndexTable' = NoIndexes
    /\ query' = NoQuery
    /\ tableNames' = <<>>
    /\ selectSubTree' = <<>>
    /\ subTrees' = <<>>
    /\ whereClauseColumns' = <<>>
    /\ joinedTables' = <<>>
    /\ indexOne' = NoIndex
    /\ indexTwo' = NoIndex
    /\ lastJoinFile' = NoFile
    /\ line' = 0
    /\ printed' = EmptyBag
    /\ UNCHANGED <<db, joinFiles>>

Kill ==
    /\ pc # "down"
    /\ reply' = "none"
    /\ LoseProcess

\* The process ends by an exception or a bad access of its own.
Crash ==
    /\ reply' = "crashed"
    /\ LoseProcess

(***************************************************************************)
(* Parse and isValidQuery.                                                 *)
(***************************************************************************)

\* A query that is refused leaves the fields cleared, but selectSubTree set.
\* The columns of WHERE are looked up in whereClauseColumns, which nobody has
\* filled by then, so that isValidQuery accepts every WHERE clause.
Parse(q) ==
    /\ pc = "prompt"
    /\ query' = q
    /\ printed' = EmptyBag
    /\ selectSubTree' = IF q.where = <<>> THEN selectSubTree ELSE q.where
    /\ IF Valid(q)
       THEN /\ pc' = "execute"
            /\ reply' = "none"
            /\ tableNames' = q.from
            /\ subTrees' = Reverse(q.where)
            /\ UNCHANGED <<whereClauseColumns, joinedTables, indexOne,
                           indexTwo, lastJoinFile, line, joinFiles>>
       ELSE /\ pc' = "prompt"
            /\ reply' = "refused"
            /\ Clear
    /\ UNCHANGED <<db, indexes>>

(***************************************************************************)
(* The search for a join: one round of the loop over subTrees.             *)
(***************************************************************************)

\* GetWhereColumns on one comparison.
ComparisonColumns(c) ==
    Distinct(whereClauseColumns
                \o OperandColumns(c.left) \o OperandColumns(c.right))

\* The first half of CheckForJoinType, over the whole catalog: a table counts
\* whether the query names it or not.
TablesOf(columns) ==
    LET Owners(c) == Selected(Catalog, LAMBDA t : c \in Range(ColumnsOf[t]))
    IN  Distinct(joinedTables
                    \o FlattenSeq([n \in DOMAIN columns |-> Owners(columns[n])]))

\* The second half: the indexes of the columns, string indexes first.
IndexesOf(columns) ==
    LET Entered(c, table, kind) ==
            IF c \in DOMAIN table THEN <<[column |-> c, kind |-> kind]>> ELSE <<>>
        Found(c) == Entered(c, stringIndexTable, "string")
                       \o Entered(c, floatIndexTable, "float")
    IN  FlattenSeq([n \in DOMAIN columns |-> Found(columns[n])])

\* A query over one table reads the table file as it is.
ExecuteOnOneTable ==
    /\ pc = "execute"
    /\ Len(query.from) = 1
    /\ lastJoinFile' = TableFile(query.from[1])
    /\ line' = 1
    /\ pc' = "scan"
    /\ UNCHANGED <<db, indexes, joinFiles, query, reply, tableNames,
                   selectSubTree, subTrees, whereClauseColumns, joinedTables,
                   indexOne, indexTwo, printed>>

\* Mutant: an index is looked for whatever the columns belong to.
JoinsAnyTables(tables) == TRUE

JoinsTwoTables(tables) == Len(tables) = 2

TryComparison ==
    /\ pc = "execute"
    /\ Len(query.from) > 1
    /\ subTrees # <<>>
    /\ LET columns == ComparisonColumns(Head(subTrees))
           tables  == TablesOf(columns)
           found   == IF JoinsTwoTables(tables) THEN IndexesOf(columns)
                                                  ELSE <<>>
       IN  IF found = <<>>
           THEN /\ whereClauseColumns' = <<>>
                /\ joinedTables' = <<>>
                /\ UNCHANGED <<pc, indexOne, indexTwo>>
           ELSE /\ whereClauseColumns' = columns
                /\ joinedTables' = tables
                /\ indexOne' = found[1]
                /\ indexTwo' = IF Len(found) > 1 THEN found[2] ELSE NoIndex
                /\ pc' = IF Len(found) > 1 THEN "index_join" ELSE "hash_join"
    /\ subTrees' = Tail(subTrees)
    /\ UNCHANGED <<db, indexes, joinFiles, query, reply, tableNames,
                   selectSubTree, lastJoinFile, line, printed>>

NoJoinFound ==
    /\ pc = "execute"
    /\ Len(query.from) > 1
    /\ subTrees = <<>>
    /\ pc' = "product"
    /\ UNCHANGED <<db, indexes, joinFiles, query, reply, fields, printed>>

(***************************************************************************)
(* Index join and hash join.  Both push the cells of the tuples they match *)
(* into one column each and write the columns out row by row.              *)
(***************************************************************************)

RemoveTables(names) ==
    tableNames' = Selected(tableNames, LAMBDA t : t \notin names)

\* The cells of a tuple, each to be pushed into the column of table t whose
\* place it has.
Pushes(t, tuple) ==
    [n \in DOMAIN tuple |-> [table |-> t, place |-> n, cell |-> tuple[n]]]

\* The places past the end of a header that these pushes read: those of
\* tuples of refused rows with too many values.
PastHeader(pushes) ==
    {<<p.table, p.place>> : p \in {p \in Range(pushes) :
                                    p.place \notin DOMAIN ColumnsOf[p.table]}}

\* stray is what lies at those places.
PushedColumn(p, stray) ==
    IF p.place \in DOMAIN ColumnsOf[p.table] THEN ColumnsOf[p.table][p.place]
                                             ELSE stray[<<p.table, p.place>>]

PushedInto(c, pushes, stray) ==
    Selected(pushes, LAMBDA p : PushedColumn(p, stray) = c)

\* The columns that were entered before or get a cell, and their cells.
JoinedRows(entered, pushes, stray) ==
    [c \in entered \cup {PushedColumn(p, stray) : p \in Range(pushes)} |->
        LET into == PushedInto(c, pushes, stray)
        IN  [n \in DOMAIN into |-> into[n].cell]]

\* What may have been collected when all cells are pushed.
Joinings(entered, pushes) ==
    {JoinedRows(entered, pushes, stray) :
        stray \in [PastHeader(pushes) -> GarbageNames]}

\* writeResultsToJoinFile: the number of rows is the length of the column
\* before the last, and it is never set when there is no such column; a
\* column that is shorter than that is read past its end.
JoinedColumns(joined) == Selected(ColumnOrder, LAMBDA c : c \in DOMAIN joined)

RowAmounts(joined) ==
    LET columns == JoinedColumns(joined)
    IN  IF Len(columns) < 2 THEN GarbageCounts
                            ELSE {Len(joined[columns[Len(columns) - 1]])}

ReadsPastEnd(joined, amount) ==
    \E c \in DOMAIN joined : Len(joined[c]) < amount

\* Without any column the file is just so many empty lines, and its readers
\* take the first one for its header.
WrittenFile(joined, amount, garbage) ==
    LET columns == JoinedColumns(joined)
        Cell(c, n) == IF n <= Len(joined[c]) THEN joined[c][n] ELSE garbage
    IN  IF columns = <<>>
        THEN [header |-> <<NoColumn>>,
              rows   |-> [n \in 1..(amount - 1) |-> <<EmptyCell>>]]
        ELSE [header |-> columns,
              rows   |-> [n \in 1..amount |->
                            [m \in DOMAIN columns |-> Cell(columns[m], n)]]]

Write(file, content) ==
    joinFiles' = [f \in DOMAIN joinFiles \cup {file} |->
                    IF f = file THEN content ELSE joinFiles[f]]

\* The file a join leaves, when it does not end the process.
WriteResultsToJoinFile(file, joinings) ==
    /\ \E joined \in joinings : \E amount \in RowAmounts(joined) :
          \E garbage \in IF ReadsPastEnd(joined, amount) THEN Garbage
                                                        ELSE {EmptyCell} :
              Write(file, WrittenFile(joined, amount, garbage))
    /\ lastJoinFile' = JoinFile(file)
    /\ pc' = "product"

\* Reading a string that is not there may end the process as well: a name when
\* the cells are collected, a cell when they are written.
JoinCrashes(pushes, joinings) ==
    /\ \/ PastHeader(pushes) # {}
       \/ \E joined \in joinings : \E amount \in RowAmounts(joined) :
             ReadsPastEnd(joined, amount)
    /\ Crash

\* All pairs of a member of one sequence and a member of the other.
Pairs(s, t) ==
    FlattenSeq([n \in DOMAIN s |-> [m \in DOMAIN t |-> <<s[n], t[m]>>]])

IndexTable(kind) ==
    IF kind = "string" THEN stringIndexTable ELSE floatIndexTable

EntriesOf(table, c) == IF c \in DOMAIN table THEN table[c] ELSE <<>>

WithKey(entries, key) == Selected(entries, LAMBDA e : e.key = key)

(***************************************************************************)
(* IndexJoin.  For each key of the first index, the entries of both with   *)
(* that key are paired.  The kind of the first index selects the map in    *)
(* which both are looked up.                                               *)
(***************************************************************************)

IndexPairs ==
    LET one == EntriesOf(IndexTable(indexOne.kind), indexOne.column)
        two == EntriesOf(IndexTable(indexOne.kind), indexTwo.column)
    IN  FlattenSeq([n \in DOMAIN KeyOrder |->
                        Pairs(WithKey(one, KeyOrder[n]),
                              WithKey(two, KeyOrder[n]))])

IndexTables == <<TableOf(indexOne.column), TableOf(indexTwo.column)>>

\* When both indexes are of one table its columns get both tuples.
IndexPushes ==
    LET pairs == IndexPairs
    IN  FlattenSeq([n \in DOMAIN pairs |->
                        Pushes(IndexTables[1], pairs[n][1].tuple)
                            \o Pushes(IndexTables[2], pairs[n][2].tuple)])

\* The header names every column of both tables, filled or not.
IndexJoinings == Joinings(FromColumns(IndexTables), IndexPushes)

\* Mutant: the index that is looked up is entered anew.
EnterIndexAnew(table, c) ==
    [k \in DOMAIN table \cup {c} |-> IF k = c THEN <<>> ELSE table[k]]

\* operator[] enters an index it does not find, with no entries.
EnterIndex(table, c) ==
    [k \in DOMAIN table \cup {c} |-> IF k \in DOMAIN table THEN table[k] ELSE <<>>]

\* Mutant: the second index is looked up in the maps of both kinds.
LookUpIndexTwoTwice ==
    IF EntriesOf(IndexTable(indexOne.kind), indexOne.column) = <<>>
    THEN UNCHANGED indexes
    ELSE /\ stringIndexTable' = EnterIndex(stringIndexTable, indexTwo.column)
         /\ floatIndexTable' = EnterIndex(floatIndexTable, indexTwo.column)

\* The second index is looked up once the first one has yielded a key.
LookUpIndexTwo ==
    IF EntriesOf(IndexTable(indexOne.kind), indexOne.column) = <<>>
    THEN UNCHANGED indexes
    ELSE IF indexOne.kind = "string"
    THEN /\ stringIndexTable' = EnterIndex(stringIndexTable, indexTwo.column)
         /\ UNCHANGED floatIndexTable
    ELSE /\ floatIndexTable' = EnterIndex(floatIndexTable, indexTwo.column)
         /\ UNCHANGED stringIndexTable

IndexJoin ==
    /\ pc = "index_join"
    /\ LookUpIndexTwo
    /\ RemoveTables(Range(IndexTables))
    /\ WriteResultsToJoinFile("index", IndexJoinings)
    /\ UNCHANGED <<db, query, reply, selectSubTree, subTrees,
                   whereClauseColumns, joinedTables, indexOne, indexTwo, line,
                   printed>>

IndexJoinCrash ==
    /\ pc = "index_join"
    /\ JoinCrashes(IndexPushes, IndexJoinings)

(***************************************************************************)
(* HashJoin.  The rows of the table without the index are read from its    *)
(* file, and each is paired with the index entries that have its key.      *)
(***************************************************************************)

IndexedTable == TableOf(indexOne.column)

\* Mutant: the table with the index is the one that is read.
InputTableSwapped ==
    IF joinedTables[1] = IndexedTable THEN joinedTables[1] ELSE joinedTables[2]

InputTable ==
    IF joinedTables[1] = IndexedTable THEN joinedTables[2] ELSE joinedTables[1]

\* The place of the first column of the input table among the first two that
\* the comparison names.  It is never set when both are of the other table,
\* which takes arithmetic with columns.
CheckedColumns ==
    LET header == ColumnsOf[InputTable]
        named  == {n \in DOMAIN header :
                    header[n] \in {whereClauseColumns[1], whereClauseColumns[2]}}
    IN  IF named = {} THEN {number + 1 : number \in GarbageCounts}
        ELSE {n \in named : \A m \in named : n <= m}

InputRows == db.rows[InputTable]

\* What is there in place of the checked cells, when there is no such column.
MissingKeys(place) ==
    IF \E n \in DOMAIN InputRows : place \notin DOMAIN InputRows[n]
    THEN Garbage ELSE {EmptyCell}

CheckedCell(row, place, garbage) ==
    IF place \in DOMAIN row THEN row[place] ELSE garbage

HashPairs(place, garbage) ==
    LET entries == EntriesOf(IndexTable(indexOne.kind), indexOne.column)
        Matches(row) ==
            Pairs(<<row>>, WithKey(entries, CheckedCell(row, place, garbage)))
    IN  FlattenSeq([n \in DOMAIN InputRows |-> Matches(InputRows[n])])

HashPushes(place, garbage) ==
    LET pairs == HashPairs(place, garbage)
    IN  FlattenSeq([n \in DOMAIN pairs |->
                        Pushes(InputTable, pairs[n][1])
                            \o Pushes(IndexedTable, pairs[n][2].tuple)])

\* Columns enter the result when a cell is pushed into them.
HashJoinings(place, garbage) == Joinings({}, HashPushes(place, garbage))

\* stof of a cell of the input table that is no number throws.
KeyConversionThrows(place, garbage) ==
    /\ indexOne.kind = "float"
    /\ \E n \in DOMAIN InputRows :
          CheckedCell(InputRows[n], place, garbage) \notin Numeric

HashJoin ==
    /\ pc = "hash_join"
    /\ \E place \in CheckedColumns : \E garbage \in MissingKeys(place) :
          /\ ~KeyConversionThrows(place, garbage)
          /\ WriteResultsToJoinFile("hash", HashJoinings(place, garbage))
    /\ RemoveTables(Range(joinedTables))
    /\ UNCHANGED <<db, indexes, query, reply, selectSubTree, subTrees,
                   whereClauseColumns, joinedTables, indexOne, indexTwo, line,
                   printed>>

HashJoinCrash ==
    /\ pc = "hash_join"
    /\ \E place \in CheckedColumns :
          \/ /\ \E n \in DOMAIN InputRows : place \notin DOMAIN InputRows[n]
             /\ Crash
          \/ \E garbage \in MissingKeys(place) :
                IF KeyConversionThrows(place, garbage)
                THEN Crash
                ELSE JoinCrashes(HashPushes(place, garbage),
                                 HashJoinings(place, garbage))

(***************************************************************************)
(* NestedLoopJoin: the product of what is there so far with one more       *)
(* table, by way of a temporary file.                                      *)
(***************************************************************************)

Content(file) ==
    IF file[2] = "tbl"
    THEN [header |-> ColumnsOf[file[1]], rows |-> db.rows[file[1]]]
    ELSE joinFiles[file[1]]

\* The two files the next product is made of.
TableOne == IF lastJoinFile = NoFile THEN TableFile(tableNames[1])
                                     ELSE lastJoinFile

TableTwo == TableFile(tableNames[IF lastJoinFile = NoFile THEN 2 ELSE 1])

WriteProduct ==
    /\ pc = "product"
    /\ tableNames # <<>>
    /\ LET one == Content(TableOne)
           two == Content(TableTwo)
           lines == Pairs(one.rows, two.rows)
       IN  Write("temp",
                 [header |-> one.header \o two.header,
                  rows   |-> [n \in DOMAIN lines |->
                                lines[n][1] \o lines[n][2]]])
    /\ pc' = "copy"
    /\ UNCHANGED <<db, indexes, query, reply, fields, printed>>

\* Mutant: only the second of the two tables is taken off the list.
ProductTablesSecond == {TableTwo[1]}

\* Tables are taken off the list by the names of the files without suffix.
ProductTables == {TableOne[1], TableTwo[1]}

CopyProduct ==
    /\ pc = "copy"
    /\ joinFiles' = [f \in (DOMAIN joinFiles \ {"temp"}) \cup {"nestedloop"} |->
                        IF f = "nestedloop" THEN joinFiles["temp"]
                                            ELSE joinFiles[f]]
    /\ RemoveTables(ProductTables)
    /\ lastJoinFile' = JoinFile("nestedloop")
    /\ pc' = "product"
    /\ UNCHANGED <<db, indexes, query, reply, selectSubTree, subTrees,
                   whereClauseColumns, joinedTables, indexOne, indexTwo, line,
                   printed>>

AllJoined ==
    /\ pc = "product"
    /\ tableNames = <<>>
    /\ line' = 1
    /\ pc' = "scan"
    /\ UNCHANGED <<db, indexes, joinFiles, query, reply, tableNames,
                   selectSubTree, subTrees, whereClauseColumns, joinedTables,
                   indexOne, indexTwo, lastJoinFile, printed>>

(***************************************************************************)
(* The rows of the last file are evaluated and printed.                    *)
(***************************************************************************)

FinalTable == Content(lastJoinFile)

\* Splitting a line takes adjacent separators for one: an empty cell between
\* two others, which only a read past the end writes, disappears.
Split(cells) ==
    LET Kept(n) == cells[n] # EmptyCell \/ n \in {1, Len(cells)}
    IN  FlattenSeq([n \in DOMAIN cells |-> IF Kept(n) THEN <<cells[n]>> ELSE <<>>])

\* What the cells are that the row at hand lacks, if it lacks any.
MissingCells ==
    IF Len(Split(FinalTable.rows[line])) < Len(FinalTable.header)
    THEN Garbage ELSE {EmptyCell}

\* Of two columns with one name the last one counts.
FinalRow(garbage) ==
    LET cells == Split(FinalTable.rows[line])
        header == FinalTable.header
        Cell(n) == IF n <= Len(cells) THEN cells[n] ELSE garbage
    IN  [c \in Range(header) |-> Cell(SelectLastInSeq(header, LAMBDA h : h = c))]

\* selectSubTree points at the tree of the WHERE clause.  Without one it is
\* what it was: null at first, later a node of the expression pool that the
\* query at hand has overwritten.
Verdicts(row) ==
    CASE query.where # <<>> -> EvaluateInequalityExpression(selectSubTree, row)
      [] query.where = <<>> /\ selectSubTree = <<>> -> {"crash"}
      [] OTHER -> Undefined

\* Mutant: the same row is read again.
SameLine == line

NextLine == line + 1

ScanRow ==
    /\ pc = "scan"
    /\ line <= Len(FinalTable.rows)
    /\ \E garbage \in MissingCells :
          LET row == FinalRow(garbage)
          IN  \E verdict \in Verdicts(row) \ {"crash"} :
                 printed' = IF verdict = "true" THEN printed (+) SetToBag({row})
                                                ELSE printed
    /\ line' = NextLine
    /\ UNCHANGED <<db, indexes, joinFiles, pc, query, reply, tableNames,
                   selectSubTree, subTrees, whereClauseColumns, joinedTables,
                   indexOne, indexTwo, lastJoinFile>>

ScanCrash ==
    /\ pc = "scan"
    /\ line <= Len(FinalTable.rows)
    /\ \/ Len(Split(FinalTable.rows[line])) < Len(FinalTable.header)
       \/ \E garbage \in MissingCells : "crash" \in Verdicts(FinalRow(garbage))
    /\ Crash

ScanDone ==
    /\ pc = "scan"
    /\ line > Len(FinalTable.rows)
    /\ pc' = "prompt"
    /\ reply' = "answered"
    /\ Clear
    /\ UNCHANGED <<db, indexes, query, selectSubTree, printed>>

(***************************************************************************)
(* Specification                                                           *)
(***************************************************************************)

\* The process answering a query.
Proceed ==
    \/ ExecuteOnOneTable
    \/ TryComparison
    \/ NoJoinFound
    \/ IndexJoin
    \/ IndexJoinCrash
    \/ HashJoin
    \/ HashJoinCrash
    \/ WriteProduct
    \/ CopyProduct
    \/ AllJoined
    \/ ScanRow
    \/ ScanCrash
    \/ ScanDone

\* A statement is read at the prompt.  (The guard of Parse stands here as well,
\* or TLC would make an action of each query.)
Next ==
    \/ Start
    \/ Kill
    \/ pc = "prompt" /\ \E q \in Queries : Parse(q)
    \/ Proceed

Spec == Init /\ [][Next]_vars

\* A process that is running goes on running: nothing it executes waits.
FairSpec == Spec /\ WF_vars(Proceed)

(***************************************************************************)
(* What must hold.                                                         *)
(***************************************************************************)

\* A hash join that finds nothing writes no column, and as many empty lines as
\* an int holds that was never set.  Rows made of these lack columns of FROM.
Blank(row) == NoColumn \in DOMAIN row

\* The rows printed, but for blank ones where nothing is to be printed at all.
RowsPrinted ==
    IF (\E row \in BagToSet(printed) : Blank(row)) /\ Answer(db, query) = EmptyBag
    THEN [row \in {r \in BagToSet(printed) : ~Blank(r)} |-> printed[row]]
    ELSE printed

\* The program gives the answers module Answers promises: nothing that is no
\* part of the answer is printed, nothing is left out, no row is printed too
\* often or too rarely, and only a kill ends the process.  Blank rows are the
\* one exception, and only when the answer is that there is no row: any number
\* of them may come then.  A row printed has all columns of its tables, whatever
\* columns the query lists.
Promised == INSTANCE Answers WITH
    phase   <- CASE pc = "down"   -> "down"
                 [] pc = "prompt" -> "prompt"
                 [] OTHER         -> "answering",
    printed <- RowsPrinted

GivesTheAnswer == Promised!Spec

\* However the tables of FROM were joined, the file that is evaluated has
\* each of their columns once and no others.  (The file of a hash join that
\* found nothing has no column of the two tables it joined.)
EveryTableJoinedOnce ==
    pc = "scan" =>
        /\ IsInjective(FinalTable.header)
        /\ \/ Range(FinalTable.header) = FromColumns(query.from)
           \/ NoColumn \in Range(FinalTable.header)

\* After a query, answered or refused, no join file is left behind; only the
\* product that a kill interrupted may be, and nothing reads that one.
JoinFilesRemoved ==
    pc = "prompt" /\ reply \in {"answered", "refused"} => DOMAIN joinFiles \subseteq {"temp"}

\* A step reads a file only after a step of the same query has written it:
\* a query begins without a last file, so what a killed process left is not
\* taken for a result; from then on the last file is there, and so is the
\* product that is to be copied.  Only a query of two tables or more comes to
\* its first product without a last file, so that both names it takes from
\* the list are there.
LastFileWritten ==
    /\ pc \in {"execute", "index_join", "hash_join"} => lastJoinFile = NoFile
    /\ pc = "copy" => "temp" \in DOMAIN joinFiles
    /\ lastJoinFile[2] = "JOIN" => lastJoinFile[1] \in DOMAIN joinFiles
    /\ pc = "product" /\ lastJoinFile = NoFile => Len(tableNames) > 1

\* Answering queries leaves the index maps as the loader made them.
IndexesStayLoaded ==
    pc # "down" =>
        /\ stringIndexTable = LoadedStringIndexes
        /\ floatIndexTable = LoadedFloatIndexes

\* Whatever is compared with whatever, and with tuples of refused rows in the
\* indexes: no query changes an index or adds to one; at worst an index join
\* enters an empty one.
EntriesStayLoaded ==
    pc # "down" => \A c \in Keys :
        /\ EntriesOf(stringIndexTable, c) = EntriesOf(LoadedStringIndexes, c)
        /\ EntriesOf(floatIndexTable, c) = EntriesOf(LoadedFloatIndexes, c)

\* Every query ends: the user gets the prompt back or the process is gone.
QueriesEnd == pc \notin {"down", "prompt"} ~> pc \in {"down", "prompt"}

(***************************************************************************)
(* What the documentation of the program says, which the code does not do  *)
(* (refuted by a run of its own).                                          *)
(***************************************************************************)

\* README.txt:16-21: a comparison of two tables in WHERE has the effects of
\* a join on it.
WhereJoins ==
    reply = "answered" /\ MeaningfulQuery(db, query) =>
        printed = Answer(db, query)
=============================================================================
