------------------------------ MODULE Storage ------------------------------
(***************************************************************************)
(* The storage side of the SQL program: the table files (./data/T.tbl),    *)
(* the index files (./data/T.COL.idx), the catalog and the index maps the  *)
(* process keeps in memory, and the CREATE TABLE and INSERT commands that  *)
(* keep the four in step.                                                  *)
(*                                                                         *)
(* The program is one sequential process, but each command writes several  *)
(* files one after the other, the process can be killed between any two of *)
(* those writes, and an exception that escapes from the index loader ends  *)
(* it.  So a command is a sequence of steps, one per file it touches.      *)
(*                                                                         *)
(* A file is the sequence of its lines and a line the sequence of its      *)
(* tab-separated cells.  The program never looks inside a cell except at   *)
(* its first character, which decides two things: a column whose name      *)
(* starts with an upper-case letter has an index, and an index file whose  *)
(* first line starts with a digit or '-' is loaded with float keys.        *)
(***************************************************************************)
EXTENDS Naturals, Sequences, Functions

CONSTANTS
    Tables,      \* table names
    NoTable,     \* what tableName holds between commands
    Cells,       \* everything a cell of a file can hold
    EmptyCell,   \* the empty string: what splitting an empty line yields
    Upper,       \* cells whose first character is an upper-case letter
    Numeric,     \* cells whose first character is a digit or '-'
    Capitalised, \* a column name with its first letter made upper-case
    AllCaps,     \* a column name with every letter made upper-case
    Schemas,     \* the column definitions of the CREATE TABLE commands
    Rows,        \* the value lists of the INSERT commands
    Garbage,     \* what a read past the end of columnValues can yield
    MaxLines     \* bound: a table takes no more rows beyond this length

ASSUME CellAssumption ==
    /\ EmptyCell \in Cells
    /\ Upper \subseteq Cells
    /\ Numeric \subseteq Cells
    /\ Garbage \subseteq Cells
    /\ EmptyCell \notin Upper \cup Numeric
    /\ Capitalised \in [Cells -> Cells]
    /\ AllCaps \in [Cells -> Cells]
    /\ Upper \cap Numeric = {}

Lines == Seq(Cells)

ColumnKinds == {"plain", "key", "primary_key"}

ColumnDefs == [name : Cells, kind : ColumnKinds]

\* The grammar has no empty column list and no empty value list.
ASSUME InputAssumption ==
    /\ Schemas \subseteq Seq(ColumnDefs) \ {<<>>}
    /\ Rows \subseteq Lines \ {<<>>}

ASSUME BoundAssumption == MaxLines \in Nat

ASSUME NoTableAssumption == NoTable \notin Tables

IndexKeys == Tables \X Cells

(***************************************************************************)
(* State.  A table that is not in the catalog maps to the empty sequence,  *)
(* which is what operator[] of the catalog's map would make of it; an      *)
(* index file that does not exist is not told from an empty one, because   *)
(* no reader in the program tells them apart.                              *)
(***************************************************************************)
VARIABLES
    tblFiles,          \* the .tbl files that exist
    tbl,               \* their lines; the first one is the header
    idx,               \* the lines of each .idx file: key cell, then the row
    tableInfo,         \* CreateTableInfo::tableInfo, the catalog in memory
    stringIndexTable,  \* IndexInfo::stringIndexTable, entries in file order
    floatIndexTable,   \* IndexInfo::floatIndexTable, entries in file order
    pc,                \* what the process does next; "down": no process runs
    tableName,         \* the table of the command being executed
    columns,           \* its column list (CREATE) or value list (INSERT)
    headers,           \* the header AddIndex read back from the table file
    i,                 \* the column the per-column loop is at
    reply,             \* what the command in progress told the user
    excused            \* history: tables whose index may miss rows

vars == <<tblFiles, tbl, idx, tableInfo, stringIndexTable, floatIndexTable,
          pc, tableName, columns, headers, i, reply, excused>>

disk    == <<tblFiles, tbl, idx>>
memory  == <<tableInfo, stringIndexTable, floatIndexTable>>
command == <<tableName, columns, headers, i, reply>>

Steps == {"create_table", "write_header", "create_index",
          "insert_row", "add_index", "load_tables", "load_index"}

Replies == {"none", "exists", "cannot_create", "created",
            "too_few", "too_many", "not_found", "inserted"}

TypeOK ==
    /\ tblFiles \subseteq Tables
    /\ tbl \in [Tables -> Seq(Lines)]
    /\ idx \in [IndexKeys -> Seq(Lines)]
    /\ tableInfo \in [Tables -> Lines]
    /\ stringIndexTable \in [IndexKeys -> Seq(Lines)]
    /\ floatIndexTable \in [IndexKeys -> Seq(Lines)]
    /\ pc \in Steps \cup {"prompt", "down"}
    /\ tableName \in Tables \cup {NoTable}
    /\ pc \in Steps \ {"load_tables", "load_index"} => tableName \in Tables
    /\ columns \in Lines
    /\ headers \in Lines
    /\ i \in Nat \ {0}
    /\ reply \in Replies
    /\ excused \subseteq Tables

(***************************************************************************)
(* What the readers of the files make of them.                             *)
(***************************************************************************)

\* isupper(name[0]): the column is a KEY or the PRIMARY KEY.
IsKeyColumn(c) == c \in Upper

\* getline on a missing or empty file leaves the empty string, and splitting
\* that yields one empty cell.
ParseTableHeader(file) == IF file = <<>> THEN <<EmptyCell>> ELSE file[1]

Header(t) == ParseTableHeader(tbl[t])

IndexLine(key, row) == <<key>> \o row

\* An index file is loaded into the float map when its first key starts like
\* a number; an empty file is skipped.
IsFloatIndex(file)  == file # <<>> /\ file[1][1] \in Numeric
IsStringIndex(file) == file # <<>> /\ file[1][1] \notin Numeric

\* stof accepts every key of the file.
AllKeysNumeric(file) == \A n \in DOMAIN file : file[n][1] \in Numeric

\* No exception escapes from LoadIndexFiles.
Loadable == \A k \in IndexKeys : IsFloatIndex(idx[k]) => AllKeysNumeric(idx[k])

FloatIndexOf(files) ==
    [k \in IndexKeys |-> IF IsFloatIndex(files[k]) THEN files[k] ELSE <<>>]

StringIndexOf(files) ==
    [k \in IndexKeys |-> IF IsStringIndex(files[k]) THEN files[k] ELSE <<>>]

(***************************************************************************)
(* Initial state: an empty data directory and no process.                  *)
(***************************************************************************)
Init ==
    /\ tblFiles = {}
    /\ tbl = [t \in Tables |-> <<>>]
    /\ idx = [k \in IndexKeys |-> <<>>]
    /\ tableInfo = [t \in Tables |-> <<>>]
    /\ stringIndexTable = [k \in IndexKeys |-> <<>>]
    /\ floatIndexTable = [k \in IndexKeys |-> <<>>]
    /\ pc = "down"
    /\ tableName = NoTable
    /\ columns = <<>>
    /\ headers = <<>>
    /\ i = 1
    /\ reply = "none"
    /\ excused = {}

\* Mutant: the column counter restarts before the first column.
ForgetCommandCountsFromZero ==
    /\ tableName' = NoTable
    /\ columns' = <<>>
    /\ headers' = <<>>
    /\ i' = 0
    /\ reply' = "none"

\* Clear(): the command object forgets its table and its columns.
ForgetCommand ==
    /\ tableName' = NoTable
    /\ columns' = <<>>
    /\ headers' = <<>>
    /\ i' = 1
    /\ reply' = "none"

(***************************************************************************)
(* Start-up and death of the process.                                      *)
(***************************************************************************)

\* main(): the process starts and loads the catalog, then the indexes.
Start ==
    /\ pc = "down"
    /\ pc' = "load_tables"
    /\ UNCHANGED <<disk, memory, command, excused>>

LoadTables ==
    /\ pc = "load_tables"
    /\ tableInfo' = [t \in Tables |->
                        IF t \in tblFiles THEN Header(t) ELSE <<>>]
    /\ pc' = "load_index"
    /\ UNCHANGED <<disk, stringIndexTable, floatIndexTable, command, excused>>

\* The memory of a process that is gone.
LoseMemory ==
    /\ tableInfo' = [t \in Tables |-> <<>>]
    /\ stringIndexTable' = [k \in IndexKeys |-> <<>>]
    /\ floatIndexTable' = [k \in IndexKeys |-> <<>>]
    /\ ForgetCommand

\* LoadIndexFiles, which main calls after LoadTables and AddIndex calls last.
\* It rebuilds both maps from the files; stof throws on the first key of a
\* float index that is no number, nobody catches it, and the process ends.
LoadIndexFiles ==
    /\ pc = "load_index"
    /\ IF Loadable
       THEN /\ pc' = "prompt"
            /\ stringIndexTable' = StringIndexOf(idx)
            /\ floatIndexTable' = FloatIndexOf(idx)
            /\ ForgetCommand
            /\ UNCHANGED tableInfo
       ELSE /\ pc' = "down"
            /\ LoseMemory
    /\ UNCHANGED <<disk, excused>>

\* The row of the command is in the table but not yet in every index file.
RowHalfIndexed == pc = "add_index" /\ reply = "inserted"

\* The process is killed from outside between two file writes.
Kill ==
    /\ pc # "down"
    /\ pc' = "down"
    /\ LoseMemory
    /\ excused' = IF RowHalfIndexed THEN excused \cup {tableName} ELSE excused
    /\ UNCHANGED disk

(***************************************************************************)
(* CREATE TABLE                                                            *)
(***************************************************************************)

\* CreateTableInfo::Parse marks a key by capitalising its name and a primary
\* key by spelling it in capitals; nothing else records that it is one.
ColumnName(def) ==
    CASE def.kind = "key"         -> Capitalised[def.name]
      [] def.kind = "primary_key" -> AllCaps[def.name]
      [] OTHER                    -> def.name

ColumnNames(schema) == [n \in DOMAIN schema |-> ColumnName(schema[n])]

CreateTable(t, schema) ==
    /\ pc = "prompt"
    /\ pc' = "create_table"
    /\ tableName' = t
    /\ columns' = ColumnNames(schema)
    /\ UNCHANGED <<disk, memory, headers, i, reply, excused>>

\* Mutant: the table file is opened without asking whether it exists.
CreateExecuteUnchecked ==
    /\ pc = "create_table"
    /\ tblFiles' = tblFiles \cup {tableName}
    /\ tbl' = [tbl EXCEPT ![tableName] = <<>>]
    /\ pc' = "write_header"
    /\ UNCHANGED <<idx, memory, command, excused>>

\* CreateTableInfo::Execute up to the point where the file is open.  A table
\* file that cannot be opened leaves everything as it was.
CreateExecute ==
    /\ pc = "create_table"
    /\ \/ /\ tableName \in tblFiles
          /\ reply' = "exists"
          /\ pc' = "create_index"
          /\ UNCHANGED <<tblFiles, tbl>>
       \/ /\ tableName \notin tblFiles
          /\ reply' = "cannot_create"
          /\ pc' = "create_index"
          /\ UNCHANGED <<tblFiles, tbl>>
       \/ /\ tableName \notin tblFiles
          /\ tblFiles' = tblFiles \cup {tableName}
          /\ tbl' = [tbl EXCEPT ![tableName] = <<>>]
          /\ pc' = "write_header"
          /\ UNCHANGED reply
    /\ UNCHANGED <<idx, memory, tableName, columns, headers, i, excused>>

\* Mutant: the new table is not entered in the catalog.
WriteHeaderOnly ==
    /\ pc = "write_header"
    /\ tbl' = [tbl EXCEPT ![tableName] = <<columns>>]
    /\ reply' = "created"
    /\ pc' = "create_index"
    /\ UNCHANGED <<tblFiles, idx, memory, tableName, columns, headers, i,
                   excused>>

\* The header line reaches the file with the endl after its last column.
WriteHeader ==
    /\ pc = "write_header"
    /\ tbl' = [tbl EXCEPT ![tableName] = <<columns>>]
    /\ tableInfo' = [tableInfo EXCEPT ![tableName] = columns]
    /\ reply' = "created"
    /\ pc' = "create_index"
    /\ UNCHANGED <<tblFiles, idx, stringIndexTable, floatIndexTable,
                   tableName, columns, headers, i, excused>>

\* Mutant: the loop over the columns does not advance.
CreateIndexFileStuck ==
    /\ pc = "create_index"
    /\ i <= Len(columns)
    /\ idx' = [idx EXCEPT ![<<tableName, columns[i]>>] = <<>>]
    /\ UNCHANGED <<tblFiles, tbl, memory, command, pc, excused>>

\* CreateIndexFile, called whatever Execute did: opening a file for output
\* truncates it.
CreateIndexFile ==
    /\ pc = "create_index"
    /\ i <= Len(columns)
    /\ LET k == <<tableName, columns[i]>>
       IN  IF IsKeyColumn(columns[i])
           THEN /\ idx' = [idx EXCEPT ![k] = <<>>]
                /\ excused' = IF idx[k] # <<>>
                              THEN excused \cup {tableName} ELSE excused
           ELSE UNCHANGED <<idx, excused>>
    /\ i' = i + 1
    /\ UNCHANGED <<tblFiles, tbl, memory, pc, tableName, columns, headers,
                   reply>>

CreateDone ==
    /\ pc = "create_index"
    /\ i > Len(columns)
    /\ pc' = "prompt"
    /\ ForgetCommand
    /\ UNCHANGED <<disk, memory, excused>>

(***************************************************************************)
(* INSERT INTO ... VALUES                                                  *)
(***************************************************************************)

\* Every file of the table still has room (the model's bound).
HasRoom(t) ==
    /\ Len(tbl[t]) <= MaxLines
    /\ \A c \in Cells : Len(idx[<<t, c>>]) < MaxLines

Insert(t, values) ==
    /\ pc = "prompt"
    /\ HasRoom(t)
    /\ pc' = "insert_row"
    /\ tableName' = t
    /\ columns' = values
    /\ UNCHANGED <<disk, memory, headers, i, reply, excused>>

\* Mutant: the number of values is not compared with that of the columns.
RefusalNever == "inserted"

\* The catalog is passed by value and read with operator[], which gives an
\* unknown table no columns, so the count test comes out before the lookup.
Refusal ==
    CASE Len(columns) < Len(tableInfo[tableName]) -> "too_few"
      [] Len(columns) > Len(tableInfo[tableName]) -> "too_many"
      [] OTHER -> "inserted"

\* InsertRowInfo::Execute, then the first line of AddIndex, which reads the
\* header back from the file, also when the row was refused.
InsertExecute ==
    /\ pc = "insert_row"
    /\ reply' = Refusal
    /\ IF Refusal = "inserted"
       THEN /\ tbl' = [tbl EXCEPT ![tableName] = Append(@, columns)]
            /\ tblFiles' = tblFiles \cup {tableName}
       ELSE UNCHANGED <<tbl, tblFiles>>
    /\ headers' = ParseTableHeader(tbl'[tableName])
    /\ pc' = "add_index"
    /\ UNCHANGED <<idx, memory, tableName, columns, i, excused>>

\* One round of AddIndex's loop over the header.
AddIndex ==
    /\ pc = "add_index"
    /\ i <= Len(headers)
    /\ IsKeyColumn(headers[i]) => i <= Len(columns)
    /\ idx' = IF IsKeyColumn(headers[i])
              THEN [idx EXCEPT ![<<tableName, headers[i]>>] =
                        Append(@, IndexLine(columns[i], columns))]
              ELSE idx
    /\ i' = i + 1
    /\ UNCHANGED <<tblFiles, tbl, memory, pc, tableName, columns, headers,
                   reply, excused>>

\* The same round when the row is shorter than the header: columnValues[i]
\* reads past the end, which yields some cell or ends the process.
AddIndexPastEnd ==
    /\ pc = "add_index"
    /\ i <= Len(headers)
    /\ IsKeyColumn(headers[i])
    /\ i > Len(columns)
    /\ \/ \E g \in Garbage :
            /\ idx' = [idx EXCEPT ![<<tableName, headers[i]>>] =
                            Append(@, IndexLine(g, columns))]
            /\ i' = i + 1
            /\ UNCHANGED <<tblFiles, tbl, memory, pc, tableName, columns,
                           headers, reply, excused>>
       \/ /\ pc' = "down"
          /\ LoseMemory
          /\ UNCHANGED <<disk, excused>>

\* Mutant: the loop over the header stops before its last column.
AddIndexDoneEarly ==
    /\ pc = "add_index"
    /\ i >= Len(headers)
    /\ pc' = "load_index"
    /\ UNCHANGED <<disk, memory, command, excused>>

\* Mutant: the indexes are not loaded again after an insertion.
AddIndexDoneNoReload ==
    /\ pc = "add_index"
    /\ i > Len(headers)
    /\ pc' = "prompt"
    /\ ForgetCommand
    /\ UNCHANGED <<disk, memory, excused>>

AddIndexDone ==
    /\ pc = "add_index"
    /\ i > Len(headers)
    /\ pc' = "load_index"
    /\ UNCHANGED <<disk, memory, command, excused>>

(***************************************************************************)
(* Specification                                                           *)
(***************************************************************************)

Command ==
    \E t \in Tables :
        \/ \E schema \in Schemas : CreateTable(t, schema)
        \/ \E values \in Rows : Insert(t, values)

\* The process executing a command or its start-up code.
Proceed ==
    \/ LoadTables
    \/ LoadIndexFiles
    \/ CreateExecute
    \/ WriteHeader
    \/ CreateIndexFile
    \/ CreateDone
    \/ InsertExecute
    \/ AddIndex
    \/ AddIndexPastEnd
    \/ AddIndexDone

Next == Start \/ Kill \/ Command \/ Proceed

Spec == Init /\ [][Next]_vars

\* A process that is running goes on running: nothing it executes waits.
FairSpec == Spec /\ WF_vars(Proceed)

(***************************************************************************)
(* What must hold.                                                         *)
(***************************************************************************)

\* Every line of a table file has as many cells as its header: the readers
\* of table files index the cells of a row by the position of the header.
\* It has to survive refused inserts, kills between opening a new table file
\* and writing its header, and the restarts after them.
RowsFitHeader ==
    \A t \in Tables : \A n \in DOMAIN tbl[t] : Len(tbl[t][n]) = Len(tbl[t][1])

\* The catalog the process works with is the one it would load if it were
\* restarted now.  Only a table whose creation was interrupted before its
\* header was written is known by a placeholder of the same width.
CatalogMatchesDisk ==
    pc = "prompt" =>
        \A t \in Tables :
            \/ t \notin tblFiles /\ tableInfo[t] = <<>>
            \/ t \in tblFiles /\ tableInfo[t] = Header(t)
            \/ /\ t \in tblFiles
               /\ tableInfo[t] = <<EmptyCell>>
               /\ Len(Header(t)) = 1

\* An index tuple that is as wide as the table is a line of the table: the
\* row reaches the table file before any index file, so no kill in between
\* leaves an index entry whose row was never stored.
IndexTuplesStored ==
    \A t \in Tables, c \in Cells : \A n \in DOMAIN idx[<<t, c>>] :
        LET tuple == Tail(idx[<<t, c>>][n])
        IN  Len(tuple) = Len(Header(t)) => tuple \in Range(tbl[t])

\* Whenever no insertion is under way every stored row has its entry in the
\* index file of every key column, unless the table went through a kill in
\* the middle of an insertion or a CREATE TABLE that emptied an index file.
IndexCoversTable ==
    \A t \in Tables \ excused : ~(pc = "add_index" /\ tableName = t) =>
        \A col \in DOMAIN Header(t) : \A n \in 2..Len(tbl[t]) :
            IsKeyColumn(tbl[t][1][col]) =>
                IndexLine(tbl[t][n][col], tbl[t][n])
                    \in Range(idx[<<t, tbl[t][1][col]>>])

\* Outside an insertion and start-up the index files load: a process killed
\* at the prompt or during a CREATE TABLE comes up again.
RunningImpliesLoadable ==
    pc \notin {"add_index", "load_tables", "load_index", "down"} => Loadable

\* The maps in memory hold what the index files hold, except for files that
\* a CREATE TABLE has emptied since they were loaded.
MemoryMatchesIndexFiles ==
    pc = "prompt" =>
        \A k \in IndexKeys :
            \/ idx[k] = <<>>
            \/ /\ stringIndexTable[k] = StringIndexOf(idx)[k]
               /\ floatIndexTable[k] = FloatIndexOf(idx)[k]

\* No line of a table file is changed or lost by any command, refused,
\* failed, interrupted or not, nor by a kill or a restart.
TablesAppendOnly ==
    [][\A t \in Tables :
          /\ t \in tblFiles => t \in tblFiles'
          /\ Len(tbl[t]) <= Len(tbl'[t])
          /\ \A n \in DOMAIN tbl[t] : tbl'[t][n] = tbl[t][n]]_vars

\* Every command ends: the user gets the prompt back or the process is gone.
CommandsEnd == pc \in Steps ~> pc \in {"prompt", "down"}

(***************************************************************************)
(* What a comment of the program says, which the code does not do (refuted *)
(* by a run of its own).                                                   *)
(***************************************************************************)

\* indexinfo.cpp:27: the values of an index are the tuples of its table.
IndexTuplesOfTable ==
    pc = "prompt" =>
        \A t \in Tables, c \in Cells : \A n \in DOMAIN idx[<<t, c>>] :
            Tail(idx[<<t, c>>][n]) \in Range(tbl[t])
=============================================================================
