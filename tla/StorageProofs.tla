--------------------------- MODULE StorageProofs ---------------------------
(***************************************************************************)
(* Theorems about Storage, for every set of tables, cells, schemas and     *)
(* rows, and every bound on the length of the files.                       *)
(***************************************************************************)
EXTENDS Storage, SequenceTheorems, TLAPS

(***************************************************************************)
(* Facts about lines and files.                                            *)
(***************************************************************************)

\* The header of a table is a line, also when the file has none.
LEMMA HeaderIsLine ==
    ASSUME NEW file \in Seq(Lines)
    PROVE  ParseTableHeader(file) \in Lines
<1>1. CASE file = <<>>
    BY <1>1, CellAssumption DEF ParseTableHeader, Lines
<1>2. CASE file # <<>>
    <2>1. 1 \in 1..Len(file)
        BY <1>2, EmptySeq
    <2>2. QED
        BY <1>2, <2>1, ElementOfSeq DEF ParseTableHeader
<1>3. QED
    BY <1>1, <1>2

\* The tuple of an index line is the row it was made from.
LEMMA IndexLineProperties ==
    ASSUME NEW key \in Cells, NEW row \in Lines
    PROVE  /\ IndexLine(key, row) \in Lines
           /\ IndexLine(key, row)[1] = key
           /\ Tail(IndexLine(key, row)) = row
<1> DEFINE line == IndexLine(key, row)
<1>1. <<key>> \in Seq(Cells) /\ Len(<<key>>) = 1 /\ <<key>>[1] = key
    OBVIOUS
<1>2. /\ line \in Seq(Cells)
      /\ Len(line) = 1 + Len(row)
      /\ \A n \in 1 .. 1 + Len(row) :
            line[n] = IF n <= 1 THEN <<key>>[n] ELSE row[n - 1]
    BY <1>1, ConcatProperties DEF IndexLine, Lines
<1>3. Len(row) \in Nat /\ row \in Seq(Cells)
    BY LenProperties DEF Lines
<1>4. line # <<>> /\ line[1] = key
    BY <1>1, <1>2, <1>3, EmptySeq
<1>5. /\ Tail(line) \in Seq(Cells)
      /\ Len(Tail(line)) = Len(row)
      /\ \A n \in 1..Len(row) : Tail(line)[n] = line[n + 1]
    <2>1. /\ Tail(line) \in Seq(Cells)
          /\ Len(Tail(line)) = Len(line) - 1
          /\ \A n \in 1..Len(Tail(line)) : Tail(line)[n] = line[n + 1]
        BY <1>2, <1>4, HeadTailProperties
    <2>2. QED
        BY <2>1, <1>2, <1>3
<1>6. \A n \in 1..Len(row) : Tail(line)[n] = row[n]
    <2>1. ASSUME NEW n \in 1..Len(row)
          PROVE  line[n + 1] = row[n]
        <3>1. n + 1 \in 1 .. 1 + Len(row) /\ ~(n + 1 <= 1) /\ n + 1 - 1 = n
            BY <1>3
        <3>2. QED
            BY <3>1, <1>2
    <2>2. QED
        BY <2>1, <1>5
<1>7. Tail(line) = row
    BY <1>3, <1>5, <1>6, SeqEqual
<1>8. QED
    BY <1>2, <1>4, <1>7 DEF Lines

(***************************************************************************)
(* Type correctness                                                        *)
(***************************************************************************)

LEMMA EmptyIsLine == <<>> \in Lines
BY EmptySeq DEF Lines

LEMMA EmptyIsFile == <<>> \in Seq(Lines)
BY EmptySeq

LEMMA LoadedIndexTypes ==
    ASSUME NEW files \in [IndexKeys -> Seq(Lines)]
    PROVE  /\ FloatIndexOf(files) \in [IndexKeys -> Seq(Lines)]
           /\ StringIndexOf(files) \in [IndexKeys -> Seq(Lines)]
BY EmptySeq DEF FloatIndexOf, StringIndexOf

\* A process that is gone leaves empty maps and no command.
LEMMA LoseMemoryTypes ==
    ASSUME LoseMemory
    PROVE  /\ tableInfo' \in [Tables -> Lines]
           /\ stringIndexTable' \in [IndexKeys -> Seq(Lines)]
           /\ floatIndexTable' \in [IndexKeys -> Seq(Lines)]
           /\ tableName' \in Tables \cup {NoTable}
           /\ columns' \in Lines
           /\ headers' \in Lines
           /\ i' \in Nat \ {0}
           /\ reply' \in Replies
BY EmptyIsLine, EmptySeq DEF LoseMemory, ForgetCommand, Replies

LEMMA ForgetCommandTypes ==
    ASSUME ForgetCommand
    PROVE  /\ tableName' \in Tables \cup {NoTable}
           /\ columns' \in Lines
           /\ headers' \in Lines
           /\ i' \in Nat \ {0}
           /\ reply' \in Replies
BY EmptyIsLine DEF ForgetCommand, Replies

LEMMA ColumnNamesIsLine ==
    ASSUME NEW schema \in Schemas
    PROVE  ColumnNames(schema) \in Lines /\ ColumnNames(schema) # <<>>
<1>1. schema \in Seq(ColumnDefs) /\ schema # <<>>
    BY InputAssumption
<1>2. PICK n \in Nat : schema \in [1..n -> ColumnDefs] /\ DOMAIN schema = 1..n
    BY <1>1, LenProperties
<1>3. \A k \in 1..n : ColumnName(schema[k]) \in Cells
    BY <1>2, CellAssumption DEF ColumnName, ColumnDefs, ColumnKinds
<1>4. ColumnNames(schema) \in [1..n -> Cells]
    BY <1>2, <1>3 DEF ColumnNames
<1>5. ColumnNames(schema) \in Lines
    BY <1>4 DEF Lines
<1>6. n = Len(schema) /\ n # 0
    BY <1>1, <1>2, EmptySeq, LenProperties
<1>7. ColumnNames(schema) # <<>>
    BY <1>4, <1>5, <1>6
<1>8. QED
    BY <1>5, <1>7

\* Appending a line to an index file, of a column or not, keeps it a file.
LEMMA AppendedIndexType ==
    ASSUME idx \in [IndexKeys -> Seq(Lines)],
           NEW k, NEW line \in Lines
    PROVE  [idx EXCEPT ![k] = Append(@, line)] \in [IndexKeys -> Seq(Lines)]
<1>1. CASE k \in IndexKeys
    BY <1>1, AppendProperties
<1>2. CASE k \notin IndexKeys
    BY <1>2
<1>3. QED
    BY <1>1, <1>2

LEMMA TypeInit == Init => TypeOK
BY EmptyIsLine, EmptySeq DEF Init, TypeOK, ForgetCommand, Replies, Steps

LEMMA TypeStep == TypeOK /\ [Next]_vars => TypeOK'
<1> SUFFICES ASSUME TypeOK, [Next]_vars
             PROVE  TypeOK'
    OBVIOUS
<1> USE DEF TypeOK, disk, memory, command, Steps, Replies
<1>1. CASE Start
    BY <1>1 DEF Start
<1>2. CASE Kill
    BY <1>2, LoseMemoryTypes DEF Kill, RowHalfIndexed
<1>3. ASSUME NEW t \in Tables, NEW schema \in Schemas, CreateTable(t, schema)
      PROVE  TypeOK'
    BY <1>3, ColumnNamesIsLine DEF CreateTable
<1>4. ASSUME NEW t \in Tables, NEW values \in Rows, Insert(t, values)
      PROVE  TypeOK'
    BY <1>4, InputAssumption DEF Insert
<1>5. CASE LoadTables
    <2>1. \A t \in Tables : Header(t) \in Lines
        BY HeaderIsLine DEF Header
    <2>2. tableInfo' \in [Tables -> Lines]
        BY <1>5, <2>1, EmptyIsLine DEF LoadTables
    <2>3. QED
        BY <1>5, <2>2 DEF LoadTables
<1>6. CASE LoadIndexFiles
    BY <1>6, LoadedIndexTypes, LoseMemoryTypes, ForgetCommandTypes
       DEF LoadIndexFiles
<1>7. CASE CreateExecute
    <2>1. tableName \in Tables
        BY <1>7 DEF CreateExecute
    <2>2. tbl' \in [Tables -> Seq(Lines)] /\ tblFiles' \subseteq Tables
        BY <1>7, <2>1, EmptyIsFile DEF CreateExecute
    <2>3. /\ reply' \in Replies
          /\ pc' \in {"create_index", "write_header"}
          /\ UNCHANGED <<idx, memory, tableName, columns, headers, i, excused>>
        BY <1>7 DEF CreateExecute
    <2>4. QED
        BY <2>1, <2>2, <2>3
<1>8. CASE WriteHeader
    <2>1. <<columns>> \in Seq(Lines)
        OBVIOUS
    <2>2. tableName \in Tables
        BY <1>8 DEF WriteHeader
    <2>3. /\ tbl' \in [Tables -> Seq(Lines)]
          /\ tableInfo' \in [Tables -> Lines]
        BY <1>8, <2>1, <2>2 DEF WriteHeader
    <2>4. /\ pc' = "create_index"
          /\ reply' = "created"
          /\ UNCHANGED <<tblFiles, idx, stringIndexTable, floatIndexTable,
                         tableName, columns, headers, i, excused>>
        BY <1>8 DEF WriteHeader
    <2>5. QED
        BY <2>2, <2>3, <2>4
<1>9. CASE CreateIndexFile
    <2>1. tableName \in Tables
        BY <1>9 DEF CreateIndexFile
    <2>2. idx' \in [IndexKeys -> Seq(Lines)] /\ excused' \subseteq Tables
        BY <1>9, <2>1, EmptyIsFile DEF CreateIndexFile
    <2>3. /\ i' = i + 1
          /\ UNCHANGED <<tblFiles, tbl, memory, pc, tableName, columns,
                         headers, reply>>
        BY <1>9 DEF CreateIndexFile
    <2>4. QED
        BY <2>1, <2>2, <2>3
<1>10. CASE CreateDone
    BY <1>10, ForgetCommandTypes DEF CreateDone
<1>11. CASE InsertExecute
    <2>1. tableName \in Tables
        BY <1>11 DEF InsertExecute
    <2>2. Append(tbl[tableName], columns) \in Seq(Lines)
        BY <2>1, AppendProperties
    <2>3. tbl' \in [Tables -> Seq(Lines)] /\ tblFiles' \subseteq Tables
        BY <1>11, <2>1, <2>2 DEF InsertExecute
    <2>4. headers' \in Lines
        BY <1>11, <2>1, <2>3, HeaderIsLine DEF InsertExecute
    <2>5. /\ reply' \in Replies
          /\ pc' = "add_index"
          /\ UNCHANGED <<idx, memory, tableName, columns, i, excused>>
        BY <1>11 DEF InsertExecute, Refusal
    <2>6. QED
        BY <2>1, <2>3, <2>4, <2>5
<1>12. CASE AddIndex
    <2>1. tableName \in Tables
        BY <1>12 DEF AddIndex
    <2>2. ASSUME i <= Len(columns)
          PROVE  IndexLine(columns[i], columns) \in Lines
        <3>1. i \in 1..Len(columns)
            BY <2>2, LenProperties DEF Lines
        <3>2. columns[i] \in Cells
            BY <3>1, ElementOfSeq DEF Lines
        <3>3. QED
            BY <3>2, IndexLineProperties
    <2>3. idx' \in [IndexKeys -> Seq(Lines)]
        <3>1. CASE IsKeyColumn(headers[i])
            <4>1. IndexLine(columns[i], columns) \in Lines
                BY <1>12, <2>2, <3>1 DEF AddIndex
            <4>2. idx' = [idx EXCEPT ![<<tableName, headers[i]>>] =
                                Append(@, IndexLine(columns[i], columns))]
                BY <1>12, <3>1 DEF AddIndex
            <4>3. QED
                BY <4>1, <4>2, AppendedIndexType
        <3>2. CASE ~IsKeyColumn(headers[i])
            BY <1>12, <3>2 DEF AddIndex
        <3>3. QED
            BY <3>1, <3>2
    <2>4. /\ i' = i + 1
          /\ UNCHANGED <<tblFiles, tbl, memory, pc, tableName, columns,
                         headers, reply, excused>>
        BY <1>12 DEF AddIndex
    <2>5. QED
        BY <2>1, <2>3, <2>4
<1>13. CASE AddIndexPastEnd
    <2>1. tableName \in Tables
        BY <1>13 DEF AddIndexPastEnd
    <2>2. ASSUME NEW g \in Garbage,
                 idx' = [idx EXCEPT ![<<tableName, headers[i]>>] =
                                Append(@, IndexLine(g, columns))]
          PROVE  idx' \in [IndexKeys -> Seq(Lines)]
        BY <2>2, CellAssumption, IndexLineProperties, AppendedIndexType
    <2>3. CASE /\ idx' \in [IndexKeys -> Seq(Lines)]
               /\ i' = i + 1
               /\ UNCHANGED <<tblFiles, tbl, memory, pc, tableName, columns,
                              headers, reply, excused>>
        BY <2>1, <2>3
    <2>4. CASE pc' = "down" /\ LoseMemory /\ UNCHANGED <<disk, excused>>
        BY <2>4, LoseMemoryTypes
    <2>5. QED
        BY <1>13, <2>2, <2>3, <2>4 DEF AddIndexPastEnd
<1>14. CASE AddIndexDone
    BY <1>14 DEF AddIndexDone
<1>15. CASE UNCHANGED vars
    BY <1>15 DEF vars
<1>16. QED
    BY <1>1, <1>2, <1>3, <1>4, <1>5, <1>6, <1>7, <1>8, <1>9, <1>10, <1>11,
       <1>12, <1>13, <1>14, <1>15 DEF Next, Command, Proceed

\* Every file, map and command the program builds is of the expected form.
THEOREM TypeCorrect == Spec => []TypeOK
<1>1. QED
    BY TypeInit, TypeStep, PTL DEF Spec

(***************************************************************************)
(* The catalog and the table files.  A row is let in by its number of      *)
(* values, which the catalog knows and not the file, so the width of the   *)
(* rows needs an invariant that ties the two, through failed creations,    *)
(* kills and restarts.                                                     *)
(***************************************************************************)

\* The start-up code has read the table files.
CatalogLoaded == pc \notin {"down", "load_tables"}

\* The file of table t is open and its header is not yet written.
BeingCreated(t) == pc = "write_header" /\ t = tableName

MissingTablesUnknown ==
    \A t \in Tables \ tblFiles :
        tbl[t] = <<>> /\ (CatalogLoaded => tableInfo[t] = <<>>)

CatalogAgrees(t) ==
    \/ tableInfo[t] = Header(t)
    \/ tableInfo[t] = <<EmptyCell>> /\ Len(Header(t)) = 1

CatalogFollowsFiles ==
    CatalogLoaded =>
        \A t \in tblFiles : ~BeingCreated(t) => CatalogAgrees(t)

NewFileEmpty ==
    pc = "write_header" => tableName \in tblFiles /\ tbl[tableName] = <<>>

ValuesGiven == pc = "insert_row" => columns # <<>>

CatalogInv ==
    /\ MissingTablesUnknown
    /\ CatalogFollowsFiles
    /\ NewFileEmpty
    /\ ValuesGiven
    /\ RowsFitHeader


\* A file that takes one more row.
LEMMA AppendedRow ==
    ASSUME NEW file \in Seq(Lines), NEW row \in Lines
    PROVE  LET grown == Append(file, row) IN
           /\ Len(file) <= Len(grown)
           /\ \A n \in DOMAIN file : n \in DOMAIN grown /\ grown[n] = file[n]
           /\ \A n \in DOMAIN grown : n \in DOMAIN file \/ grown[n] = row
           /\ \E n \in DOMAIN grown : grown[n] = row
           /\ ParseTableHeader(grown) =
                  IF file = <<>> THEN row ELSE ParseTableHeader(file)
           /\ grown # <<>>
           /\ 1 \in DOMAIN grown
<1> DEFINE grown == Append(file, row)
<1>1. /\ grown \in Seq(Lines)
      /\ grown # <<>>
      /\ Len(grown) = Len(file) + 1
      /\ \A n \in 1..Len(file) : grown[n] = file[n]
      /\ grown[Len(file) + 1] = row
    BY AppendProperties
<1>2. /\ Len(file) \in Nat
      /\ DOMAIN file = 1..Len(file)
      /\ DOMAIN grown = 1..Len(grown)
    BY <1>1, LenProperties
<1>3. \A n \in DOMAIN grown : n \in DOMAIN file \/ grown[n] = row
    BY <1>1, <1>2
<1>4. ParseTableHeader(grown) =
          IF file = <<>> THEN row ELSE ParseTableHeader(file)
    <2>1. CASE file = <<>>
        <3>1. Len(file) = 0
            BY <2>1, EmptySeq
        <3>2. QED
            BY <1>1, <2>1, <3>1 DEF ParseTableHeader
    <2>2. CASE file # <<>>
        <3>1. 1 \in 1..Len(file)
            BY <1>2, <2>2, EmptySeq
        <3>2. QED
            BY <1>1, <2>2, <3>1 DEF ParseTableHeader
    <2>3. QED
        BY <2>1, <2>2
<1> HIDE DEF grown
<1>5. QED
    <2>1. 1 \in DOMAIN grown /\ Len(file) + 1 \in DOMAIN grown
        BY <1>1, <1>2
    <2>2. \A n \in DOMAIN file : n \in DOMAIN grown
        BY <1>1, <1>2
    <2>3. QED
        BY <1>1, <1>2, <1>3, <1>4, <2>1, <2>2 DEF grown

LEMMA CatalogInit == Init => CatalogInv
<1> SUFFICES ASSUME Init
             PROVE  CatalogInv
    OBVIOUS
<1>1. RowsFitHeader
    BY DEF Init, RowsFitHeader
<1>2. QED
    BY <1>1 DEF Init, CatalogInv, MissingTablesUnknown, CatalogFollowsFiles,
                CatalogLoaded, NewFileEmpty, ValuesGiven

\* The steps that touch neither a table file nor the catalog.
LEMMA CatalogUntouched ==
    ASSUME CatalogInv,
           UNCHANGED <<tblFiles, tbl>>,
           \/ UNCHANGED tableInfo /\ (CatalogLoaded' => CatalogLoaded)
           \/ ~CatalogLoaded',
           pc # "write_header" \/ pc' = "down", pc' # "write_header",
           pc' = "insert_row" => columns' # <<>>
    PROVE  CatalogInv'
<1>1. RowsFitHeader'
    BY DEF CatalogInv, RowsFitHeader
<1>2. QED
    BY <1>1 DEF CatalogInv, MissingTablesUnknown, CatalogFollowsFiles,
                CatalogAgrees, BeingCreated, Header, NewFileEmpty, ValuesGiven,
                CatalogLoaded

LEMMA CatalogLoadTables ==
    ASSUME TypeOK, CatalogInv, LoadTables
    PROVE  CatalogInv'
<1>1. RowsFitHeader'
    BY DEF CatalogInv, RowsFitHeader, LoadTables, disk
<1>2. \A t \in Tables :
          tableInfo'[t] = IF t \in tblFiles THEN Header(t) ELSE <<>>
    BY DEF LoadTables
<1>3. QED
    BY <1>1, <1>2 DEF TypeOK, CatalogInv, MissingTablesUnknown,
       CatalogFollowsFiles, CatalogAgrees, Header, NewFileEmpty, ValuesGiven,
       LoadTables, disk

LEMMA CatalogCreateExecute ==
    ASSUME TypeOK, CatalogInv, CreateExecute
    PROVE  CatalogInv'
<1>1. UNCHANGED <<tableInfo, tableName, columns>> /\ pc = "create_table"
    BY DEF CreateExecute, memory
<1>2. CASE pc' = "create_index" /\ UNCHANGED <<tblFiles, tbl>>
    BY <1>1, <1>2, CatalogUntouched DEF CatalogLoaded
<1>3. CASE /\ pc' = "write_header"
           /\ tableName \notin tblFiles
           /\ tblFiles' = tblFiles \cup {tableName}
           /\ tbl' = [tbl EXCEPT ![tableName] = <<>>]
    <2>1. tbl' = tbl /\ tableName \in Tables /\ tbl[tableName] = <<>>
        BY <1>1, <1>3 DEF TypeOK, CatalogInv, MissingTablesUnknown, Steps
    <2>2. RowsFitHeader'
        BY <2>1 DEF CatalogInv, RowsFitHeader
    <2>3. MissingTablesUnknown' /\ NewFileEmpty' /\ ValuesGiven'
        BY <1>1, <1>3, <2>1 DEF CatalogInv, MissingTablesUnknown,
           CatalogLoaded, NewFileEmpty, ValuesGiven
    <2>4. CatalogFollowsFiles'
        BY <1>1, <1>3, <2>1 DEF CatalogInv, CatalogFollowsFiles,
           CatalogLoaded, BeingCreated, CatalogAgrees, Header
    <2>5. QED
        BY <2>2, <2>3, <2>4 DEF CatalogInv
<1>4. QED
    BY <1>2, <1>3 DEF CreateExecute

LEMMA CatalogWriteHeader ==
    ASSUME TypeOK, CatalogInv, WriteHeader
    PROVE  CatalogInv'
<1>1. /\ pc = "write_header" /\ pc' = "create_index"
      /\ tableName \in tblFiles /\ tableName \in Tables
      /\ UNCHANGED <<tblFiles, columns>>
    BY DEF WriteHeader, TypeOK, CatalogInv, NewFileEmpty
<1>2. /\ tbl'[tableName] = <<columns>> /\ tableInfo'[tableName] = columns
      /\ \A t \in Tables : t # tableName =>
            tbl'[t] = tbl[t] /\ tableInfo'[t] = tableInfo[t]
    BY <1>1 DEF WriteHeader, TypeOK
<1>3. /\ DOMAIN <<columns>> = {1} /\ <<columns>>[1] = columns
      /\ <<columns>> # <<>>
    OBVIOUS
<1>4. RowsFitHeader'
    <2>1. ASSUME NEW t \in Tables, NEW n \in DOMAIN tbl'[t]
          PROVE  Len(tbl'[t][n]) = Len(tbl'[t][1])
        <3>1. CASE t = tableName
            BY <1>2, <1>3, <2>1, <3>1
        <3>2. CASE t # tableName
            BY <1>2, <2>1, <3>2 DEF CatalogInv, RowsFitHeader
        <3>3. QED
            BY <3>1, <3>2
    <2>2. QED
        BY <2>1 DEF RowsFitHeader
<1>5. MissingTablesUnknown' /\ NewFileEmpty' /\ ValuesGiven'
    BY <1>1, <1>2 DEF CatalogInv, MissingTablesUnknown, CatalogLoaded,
                      NewFileEmpty, ValuesGiven
<1>6. CatalogFollowsFiles'
    <2>1. ASSUME NEW t \in tblFiles
          PROVE  CatalogAgrees(t)'
        <3>1. CASE t = tableName
            BY <1>2, <1>3, <3>1 DEF CatalogAgrees, Header, ParseTableHeader
        <3>2. CASE t # tableName
            BY <1>1, <1>2, <3>2 DEF CatalogAgrees, Header, CatalogInv, TypeOK,
               CatalogFollowsFiles, CatalogLoaded, BeingCreated
        <3>3. QED
            BY <3>1, <3>2
    <2>2. QED
        BY <1>1, <2>1 DEF CatalogFollowsFiles
<1>7. QED
    BY <1>4, <1>5, <1>6 DEF CatalogInv

\* A row that is let in belongs to a table that has a file, and is as wide
\* as the header of the file.
LEMMA InsertedRowFits ==
    ASSUME TypeOK, CatalogInv, InsertExecute, Refusal = "inserted"
    PROVE  /\ tableName \in tblFiles
           /\ CatalogAgrees(tableName)
           /\ Len(columns) = Len(tableInfo[tableName])
           /\ Len(columns) = Len(Header(tableName))
<1>1. /\ pc = "insert_row" /\ tableName \in Tables /\ columns # <<>>
      /\ columns \in Lines /\ tableInfo[tableName] \in Lines
      /\ tbl[tableName] \in Seq(Lines)
    BY DEF InsertExecute, TypeOK, Steps, CatalogInv, ValuesGiven
<1>2. Len(columns) \in Nat \ {0} /\ Len(tableInfo[tableName]) \in Nat
    BY <1>1, EmptySeq, LenProperties DEF Lines
<1>3. Len(columns) = Len(tableInfo[tableName])
    BY <1>2 DEF Refusal
<1>4. tableName \in tblFiles
    BY <1>1, <1>2, <1>3, EmptySeq
       DEF CatalogInv, MissingTablesUnknown, CatalogLoaded
<1>5. CatalogAgrees(tableName)
    BY <1>1, <1>4 DEF CatalogInv, CatalogFollowsFiles, CatalogLoaded,
                      BeingCreated
<1>6. Len(tableInfo[tableName]) = Len(Header(tableName))
    BY <1>5 DEF CatalogAgrees
<1>7. QED
    BY <1>3, <1>4, <1>5, <1>6

LEMMA CatalogInsertExecute ==
    ASSUME TypeOK, CatalogInv, InsertExecute
    PROVE  CatalogInv'
<1>1. /\ pc = "insert_row" /\ pc' = "add_index" /\ tableName \in Tables
      /\ UNCHANGED <<tableInfo, tableName, columns>>
      /\ columns \in Lines /\ tbl[tableName] \in Seq(Lines)
    BY DEF InsertExecute, TypeOK, Steps, memory
<1>2. CASE Refusal # "inserted"
    <2>1. UNCHANGED <<tblFiles, tbl>>
        BY <1>2 DEF InsertExecute
    <2>2. QED
        BY <1>1, <2>1, CatalogUntouched DEF CatalogLoaded
<1>3. CASE Refusal = "inserted"
    <2> DEFINE file  == tbl[tableName]
               grown == Append(file, columns)
    <2>1. /\ tableName \in tblFiles
          /\ CatalogAgrees(tableName)
          /\ Len(columns) = Len(tableInfo[tableName])
          /\ Len(columns) = Len(Header(tableName))
        BY <1>3, InsertedRowFits
    <2>2. /\ tbl'[tableName] = grown
          /\ \A t \in Tables : t # tableName => tbl'[t] = tbl[t]
          /\ tblFiles' = tblFiles
        BY <1>1, <1>3, <2>1 DEF InsertExecute, TypeOK
    <2>3. /\ \A n \in DOMAIN grown : n \in DOMAIN file \/ grown[n] = columns
          /\ \A n \in DOMAIN file : n \in DOMAIN grown /\ grown[n] = file[n]
          /\ ParseTableHeader(grown) =
                 IF file = <<>> THEN columns ELSE ParseTableHeader(file)
          /\ grown # <<>>
        BY <1>1, AppendedRow
    <2> HIDE DEF file, grown
    <2>4. Len(grown[1]) = Len(columns)
        BY <2>1, <2>2, <2>3 DEF file, Header, ParseTableHeader
    <2>5. RowsFitHeader'
        <3>1. ASSUME NEW n \in DOMAIN grown
              PROVE  Len(grown[n]) = Len(grown[1])
            <4>1. CASE n \in DOMAIN file
                <5>1. file # <<>> /\ Len(file[n]) = Len(file[1])
                    BY <1>1, <4>1 DEF CatalogInv, RowsFitHeader, file
                <5>2. QED
                    BY <2>3, <4>1, <5>1 DEF ParseTableHeader
            <4>2. CASE grown[n] = columns
                BY <2>4, <4>2
            <4>3. QED
                BY <2>3, <4>1, <4>2
        <3>2. QED
            BY <2>2, <3>1 DEF CatalogInv, RowsFitHeader
    <2>6. MissingTablesUnknown' /\ NewFileEmpty' /\ ValuesGiven'
        BY <1>1, <2>1, <2>2 DEF CatalogInv, MissingTablesUnknown,
                                CatalogLoaded, NewFileEmpty, ValuesGiven
    <2>7. CatalogAgrees(tableName)'
        <3>1. CASE file = <<>>
            <4>1. Header(tableName) = <<EmptyCell>> /\ Len(<<EmptyCell>>) = 1
                BY <3>1 DEF file, Header, ParseTableHeader
            <4>2. Header(tableName)' = columns
                BY <1>1, <2>2, <2>3, <3>1 DEF Header
            <4>3. tableInfo[tableName] = <<EmptyCell>>
                BY <2>1, <4>1 DEF CatalogAgrees
            <4>4. QED
                BY <1>1, <2>1, <4>1, <4>2, <4>3 DEF CatalogAgrees
        <3>2. CASE file # <<>>
            <4>1. Header(tableName)' = Header(tableName)
                BY <1>1, <2>2, <2>3, <3>2 DEF Header, file
            <4>2. QED
                BY <1>1, <2>1, <4>1 DEF CatalogAgrees
        <3>3. QED
            BY <3>1, <3>2
    <2>8. CatalogFollowsFiles'
        <3>1. ASSUME NEW t \in tblFiles, t # tableName
              PROVE  CatalogAgrees(t)'
            BY <1>1, <2>2, <3>1 DEF CatalogInv, CatalogFollowsFiles, TypeOK,
               CatalogLoaded, BeingCreated, CatalogAgrees, Header
        <3>2. QED
            BY <1>1, <2>2, <2>7, <3>1 DEF CatalogFollowsFiles
    <2>9. QED
        BY <2>5, <2>6, <2>8 DEF CatalogInv
<1>4. QED
    BY <1>2, <1>3

LEMMA CatalogStep == TypeOK /\ CatalogInv /\ [Next]_vars => CatalogInv'
<1> SUFFICES ASSUME TypeOK, CatalogInv, [Next]_vars
             PROVE  CatalogInv'
    OBVIOUS
<1> USE DEF disk, memory, command, CatalogLoaded
<1>1. CASE Start
    BY <1>1, CatalogUntouched DEF Start
<1>2. CASE Kill
    BY <1>2, CatalogUntouched DEF Kill
<1>3. ASSUME NEW t \in Tables, NEW schema \in Schemas, CreateTable(t, schema)
      PROVE  CatalogInv'
    BY <1>3, CatalogUntouched DEF CreateTable
<1>4. ASSUME NEW t \in Tables, NEW values \in Rows, Insert(t, values)
      PROVE  CatalogInv'
    <2>1. columns' # <<>>
        BY <1>4, InputAssumption DEF Insert
    <2>2. QED
        BY <1>4, <2>1, CatalogUntouched DEF Insert
<1>5. CASE LoadTables
    BY <1>5, CatalogLoadTables
<1>6. CASE LoadIndexFiles
    BY <1>6, CatalogUntouched DEF LoadIndexFiles
<1>7. CASE CreateExecute
    BY <1>7, CatalogCreateExecute
<1>8. CASE WriteHeader
    BY <1>8, CatalogWriteHeader
<1>9. CASE CreateIndexFile
    BY <1>9, CatalogUntouched DEF CreateIndexFile
<1>10. CASE CreateDone
    BY <1>10, CatalogUntouched DEF CreateDone
<1>11. CASE InsertExecute
    BY <1>11, CatalogInsertExecute
<1>12. CASE AddIndex
    BY <1>12, CatalogUntouched DEF AddIndex
<1>13. CASE AddIndexPastEnd
    BY <1>13, CatalogUntouched DEF AddIndexPastEnd
<1>14. CASE AddIndexDone
    BY <1>14, CatalogUntouched DEF AddIndexDone
<1>15. CASE UNCHANGED vars
    BY <1>15 DEF vars, CatalogInv, MissingTablesUnknown, CatalogFollowsFiles,
       CatalogAgrees, BeingCreated, Header, NewFileEmpty, ValuesGiven,
       RowsFitHeader
<1>16. QED
    BY <1>1, <1>2, <1>3, <1>4, <1>5, <1>6, <1>7, <1>8, <1>9, <1>10, <1>11,
       <1>12, <1>13, <1>14, <1>15 DEF Next, Command, Proceed

LEMMA CatalogInvariant == Spec => []CatalogInv
<1>1. QED
    BY TypeCorrect, CatalogInit, CatalogStep, PTL DEF Spec

\* Every row of every table file is as wide as the header of the file,
\* whatever was refused, failed or was killed on the way.
THEOREM RowsAlwaysFitHeader == Spec => []RowsFitHeader
<1>1. CatalogInv => RowsFitHeader
    BY DEF CatalogInv
<1>2. QED
    BY <1>1, CatalogInvariant, PTL

\* At the prompt the catalog in memory is the one on disk.
THEOREM CatalogAlwaysMatchesDisk == Spec => []CatalogMatchesDisk
<1>1. TypeOK /\ CatalogInv => CatalogMatchesDisk
    BY DEF TypeOK, CatalogInv, CatalogMatchesDisk, MissingTablesUnknown,
           CatalogFollowsFiles, CatalogLoaded, BeingCreated, CatalogAgrees
<1>2. QED
    BY <1>1, TypeCorrect, CatalogInvariant, PTL

\* No command and no kill changes or loses a line of a table file.
THEOREM TablesOnlyGrow == Spec => TablesAppendOnly
<1> DEFINE Kept == \A t \in Tables :
                      /\ t \in tblFiles => t \in tblFiles'
                      /\ Len(tbl[t]) <= Len(tbl'[t])
                      /\ \A n \in DOMAIN tbl[t] : tbl'[t][n] = tbl[t][n]
<1>1. TypeOK /\ CatalogInv /\ [Next]_vars => [Kept]_vars
    <2> SUFFICES ASSUME TypeOK, CatalogInv, Next
                 PROVE  Kept
        OBVIOUS
    <2>1. \A t \in Tables : tbl[t] \in Seq(Lines) /\ Len(tbl[t]) \in Nat
        BY LenProperties DEF TypeOK
    <2>2. CASE UNCHANGED <<tblFiles, tbl>>
        BY <2>1, <2>2
    <2>3. CASE CreateExecute
        <3>1. tbl' = tbl /\ tblFiles \subseteq tblFiles'
            BY <2>3 DEF CreateExecute, TypeOK, Steps, CatalogInv,
                        MissingTablesUnknown
        <3>2. QED
            BY <2>1, <3>1
    <2>4. CASE WriteHeader
        <3>1. /\ tableName \in Tables /\ tbl[tableName] = <<>>
              /\ tbl' = [tbl EXCEPT ![tableName] = <<columns>>]
              /\ tblFiles' = tblFiles
            BY <2>4 DEF WriteHeader, TypeOK, Steps, CatalogInv, NewFileEmpty
        <3>2. Len(<<>>) = 0 /\ DOMAIN <<>> = {} /\ Len(<<columns>>) = 1
            OBVIOUS
        <3>3. ASSUME NEW t \in Tables
              PROVE  /\ Len(tbl[t]) <= Len(tbl'[t])
                     /\ \A n \in DOMAIN tbl[t] : tbl'[t][n] = tbl[t][n]
            <4>1. CASE t = tableName
                BY <3>1, <3>2, <4>1 DEF TypeOK
            <4>2. CASE t # tableName
                BY <2>1, <3>1, <4>2 DEF TypeOK
            <4>3. QED
                BY <4>1, <4>2
        <3>4. QED
            BY <3>1, <3>3
    <2>5. CASE InsertExecute
        <3>1. CASE Refusal # "inserted"
            BY <2>2, <2>5, <3>1 DEF InsertExecute
        <3>2. CASE Refusal = "inserted"
            <4>1. /\ tableName \in Tables /\ columns \in Lines
                  /\ tbl' = [tbl EXCEPT ![tableName] =
                                            Append(@, columns)]
                  /\ tblFiles \subseteq tblFiles'
                BY <2>5, <3>2 DEF InsertExecute, TypeOK, Steps
            <4>2. ASSUME NEW t \in Tables
                  PROVE  /\ Len(tbl[t]) <= Len(tbl'[t])
                         /\ \A n \in DOMAIN tbl[t] : tbl'[t][n] = tbl[t][n]
                <5>1. CASE t = tableName
                    <6>1. tbl'[t] = Append(tbl[t], columns)
                        BY <4>1, <5>1 DEF TypeOK
                    <6>2. QED
                        BY <2>1, <4>1, <6>1, AppendedRow
                <5>2. CASE t # tableName
                    BY <2>1, <4>1, <5>2 DEF TypeOK
                <5>3. QED
                    BY <5>1, <5>2
            <4>3. QED
                BY <4>1, <4>2
        <3>3. QED
            BY <3>1, <3>2
    <2>6. CASE Start \/ Kill \/ Command
        BY <2>2, <2>6 DEF Start, Kill, Command, CreateTable, Insert, disk
    <2>7. CASE Proceed /\ ~CreateExecute /\ ~WriteHeader /\ ~InsertExecute
        BY <2>2, <2>7 DEF Proceed, LoadTables, LoadIndexFiles,
           CreateIndexFile, CreateDone, AddIndex, AddIndexPastEnd,
           AddIndexDone, disk
    <2>8. QED
        BY <2>3, <2>4, <2>5, <2>6, <2>7 DEF Next
<1>2. QED
    BY <1>1, TypeCorrect, CatalogInvariant, PTL DEF Spec, TablesAppendOnly

(***************************************************************************)
(* The index files.  A refused row reaches them too; that its tuple cannot *)
(* pass for a row of the table rests on the width it was refused for.      *)
(***************************************************************************)

\* Without a header there is no key column, so no index tuple either.
NoHeaderNoTuples ==
    \A t \in Tables, c \in Cells : tbl[t] = <<>> => idx[<<t, c>>] = <<>>

HeadersRead == pc = "add_index" => headers = Header(tableName)

RowStoredFirst ==
    pc = "add_index" /\ tbl[tableName] # <<>>
        /\ Len(columns) = Len(Header(tableName))
    => columns \in Range(tbl[tableName])

TuplesInv ==
    /\ NoHeaderNoTuples
    /\ HeadersRead
    /\ RowStoredFirst
    /\ IndexTuplesStored

\* The tuples of an index file that are as wide as the header are stored.
TuplesStored(t, c) ==
    \A n \in DOMAIN idx[<<t, c>>] :
        LET tuple == Tail(idx[<<t, c>>][n])
        IN  Len(tuple) = Len(Header(t)) => tuple \in Range(tbl[t])

LEMMA TuplesInit == Init => TuplesInv
BY DEF Init, TuplesInv, NoHeaderNoTuples, HeadersRead, RowStoredFirst,
       IndexTuplesStored, IndexKeys

\* Steps that leave the files alone, and do not begin to write index files.
LEMMA TuplesUntouched ==
    ASSUME TuplesInv, UNCHANGED <<tbl, idx>>,
           \/ pc' # "add_index"
           \/ pc = "add_index" /\ UNCHANGED <<tableName, headers, columns>>
    PROVE  TuplesInv'
<1>1. IndexTuplesStored' /\ NoHeaderNoTuples'
    BY DEF TuplesInv, IndexTuplesStored, NoHeaderNoTuples, Header
<1>2. HeadersRead' /\ RowStoredFirst'
    BY DEF TuplesInv, HeadersRead, RowStoredFirst, Header
<1>3. QED
    BY <1>1, <1>2 DEF TuplesInv

\* Steps that change no index file and grow table files or leave them alone.
LEMMA TuplesGrownTable ==
    ASSUME TypeOK, TuplesInv, UNCHANGED idx,
           \A t \in Tables : \/ tbl'[t] = tbl[t]
                             \/ tbl[t] = <<>>
                             \/ /\ Header(t)' = Header(t)
                                /\ Range(tbl[t]) \subseteq Range(tbl'[t]),
           \A t \in Tables : tbl'[t] = <<>> => tbl[t] = <<>>
    PROVE  NoHeaderNoTuples' /\ IndexTuplesStored'
<1>1. NoHeaderNoTuples'
    BY DEF TuplesInv, NoHeaderNoTuples
<1>2. ASSUME NEW t \in Tables, NEW c \in Cells
      PROVE  TuplesStored(t, c)'
    <2>1. TuplesStored(t, c)
        BY DEF TuplesInv, IndexTuplesStored, TuplesStored
    <2>2. CASE tbl'[t] = tbl[t]
        BY <2>1, <2>2 DEF TuplesStored, Header
    <2>3. CASE tbl[t] = <<>>
        BY <2>3 DEF TuplesInv, NoHeaderNoTuples, TuplesStored
    <2>4. CASE /\ Header(t)' = Header(t)
               /\ Range(tbl[t]) \subseteq Range(tbl'[t])
        BY <2>1, <2>4 DEF TuplesStored
    <2>5. QED
        BY <2>2, <2>3, <2>4
<1>3. IndexTuplesStored'
    BY <1>2 DEF TuplesStored, IndexTuplesStored
<1>4. QED
    BY <1>1, <1>3

\* One line more, whose tuple is stored if it is as wide as the header.
LEMMA TuplesGrownIndex ==
    ASSUME TypeOK, TuplesInv, pc = "add_index",
           UNCHANGED <<tbl, pc, tableName, headers, columns>>,
           i \in 1..Len(headers), IsKeyColumn(headers[i]),
           NEW key \in Cells,
           idx' = [idx EXCEPT ![<<tableName, headers[i]>>] =
                        Append(@, IndexLine(key, columns))]
    PROVE  TuplesInv'
<1> DEFINE line == IndexLine(key, columns)
<1>1. tableName \in Tables /\ headers \in Seq(Cells) /\ columns \in Lines
    BY DEF TypeOK, Steps, Lines
<1>2. headers[i] \in Cells /\ <<tableName, headers[i]>> \in IndexKeys
    BY <1>1, ElementOfSeq DEF IndexKeys
<1>3. line \in Lines /\ Tail(line) = columns
    BY <1>1, IndexLineProperties
<1>4. tbl[tableName] # <<>>
    <2>1. SUFFICES ASSUME tbl[tableName] = <<>>
                   PROVE  FALSE
        OBVIOUS
    <2>2. headers = <<EmptyCell>>
        BY <2>1 DEF TuplesInv, HeadersRead, Header, ParseTableHeader
    <2>3. i = 1 /\ headers[i] = EmptyCell
        BY <2>2
    <2>4. QED
        BY <2>3, CellAssumption DEF IsKeyColumn
<1>5. HeadersRead' /\ RowStoredFirst'
    BY DEF TuplesInv, HeadersRead, RowStoredFirst, Header
<1>6. ASSUME NEW t \in Tables, NEW c \in Cells
      PROVE  TuplesStored(t, c)' /\ (tbl'[t] = <<>> => idx'[<<t, c>>] = <<>>)
    <2>1. /\ TuplesStored(t, c)
          /\ tbl[t] = <<>> => idx[<<t, c>>] = <<>>
          /\ <<t, c>> \in IndexKeys
          /\ Header(t)' = Header(t)
        BY DEF TuplesInv, IndexTuplesStored, TuplesStored, NoHeaderNoTuples,
               IndexKeys, Header
    <2>2. CASE <<t, c>> # <<tableName, headers[i]>>
        <3>1. idx'[<<t, c>>] = idx[<<t, c>>]
            BY <2>1, <2>2 DEF TypeOK
        <3>2. QED
            BY <2>1, <3>1 DEF TuplesStored
    <2>3. CASE <<t, c>> = <<tableName, headers[i]>>
        <3>1. /\ idx'[<<t, c>>] = Append(idx[<<t, c>>], line)
              /\ idx[<<t, c>>] \in Seq(Lines)
            BY <1>2, <2>1, <2>3 DEF TypeOK
        <3>2. ASSUME NEW n \in DOMAIN idx'[<<t, c>>]
              PROVE  LET tuple == Tail(idx'[<<t, c>>][n])
                     IN  Len(tuple) = Len(Header(t))
                            => tuple \in Range(tbl[t])
            <4>1. \/ idx'[<<t, c>>][n] = line
                  \/ /\ n \in DOMAIN idx[<<t, c>>]
                     /\ idx'[<<t, c>>][n] = idx[<<t, c>>][n]
                <5> DEFINE file == idx[<<t, c>>]
                <5>1. file \in Seq(Lines) /\ line \in Lines
                    BY <1>3, <3>1
                <5> HIDE DEF file, line
                <5>2. \A m \in DOMAIN Append(file, line) :
                          m \in DOMAIN file \/ Append(file, line)[m] = line
                    BY <5>1, AppendedRow
                <5>3. \A m \in DOMAIN file : Append(file, line)[m] = file[m]
                    BY <5>1, AppendedRow
                <5>4. QED
                    BY <3>1, <3>2, <5>2, <5>3 DEF file
            <4>2. Len(columns) = Len(Header(t)) => columns \in Range(tbl[t])
                BY <1>4, <2>3 DEF TuplesInv, RowStoredFirst
            <4>3. QED
                <5>1. CASE idx'[<<t, c>>][n] = line
                    BY <1>3, <4>2, <5>1
                <5>2. CASE /\ n \in DOMAIN idx[<<t, c>>]
                           /\ idx'[<<t, c>>][n] = idx[<<t, c>>][n]
                    BY <2>1, <5>2 DEF TuplesStored
                <5>3. QED
                    BY <4>1, <5>1, <5>2
        <3>3. QED
            BY <1>4, <2>1, <2>3, <3>2 DEF TuplesStored
    <2>4. QED
        BY <2>2, <2>3
<1>7. QED
    BY <1>5, <1>6 DEF TuplesInv, TuplesStored, IndexTuplesStored,
                      NoHeaderNoTuples

LEMMA TuplesCreateExecute ==
    ASSUME TypeOK, CatalogInv, TuplesInv, CreateExecute
    PROVE  TuplesInv'
<1>1. UNCHANGED <<tbl, idx>> /\ pc' # "add_index"
    BY DEF CreateExecute, TypeOK, Steps, CatalogInv, MissingTablesUnknown
<1>2. QED
    BY <1>1, TuplesUntouched

LEMMA TuplesWriteHeader ==
    ASSUME TypeOK, CatalogInv, TuplesInv, WriteHeader
    PROVE  TuplesInv'
<1>1. tableName \in Tables /\ tbl[tableName] = <<>>
    BY DEF WriteHeader, TypeOK, Steps, CatalogInv, NewFileEmpty
<1>2. /\ \A t \in Tables : tbl'[t] = tbl[t] \/ tbl[t] = <<>>
      /\ \A t \in Tables : tbl'[t] = <<>> => tbl[t] = <<>>
    BY <1>1 DEF WriteHeader, TypeOK
<1>3. UNCHANGED idx /\ pc' = "create_index"
    BY DEF WriteHeader
<1>4. NoHeaderNoTuples' /\ IndexTuplesStored'
    BY <1>2, <1>3, TuplesGrownTable
<1>5. QED
    BY <1>3, <1>4 DEF TuplesInv, HeadersRead, RowStoredFirst

LEMMA TuplesCreateIndexFile ==
    ASSUME TypeOK, TuplesInv, CreateIndexFile
    PROVE  TuplesInv'
<1>1. pc = "create_index" /\ UNCHANGED <<tbl, pc>>
    BY DEF CreateIndexFile
<1>2. ASSUME NEW t \in Tables, NEW c \in Cells
      PROVE  idx'[<<t, c>>] = idx[<<t, c>>] \/ idx'[<<t, c>>] = <<>>
    BY DEF CreateIndexFile, TypeOK, IndexKeys
<1>3. IndexTuplesStored'
    <2>1. ASSUME NEW t \in Tables, NEW c \in Cells
          PROVE  TuplesStored(t, c)'
        <3>1. Header(t)' = Header(t)
            BY <1>1 DEF Header
        <3>2. TuplesStored(t, c)
            BY DEF TuplesInv, IndexTuplesStored, TuplesStored
        <3>3. CASE idx'[<<t, c>>] = idx[<<t, c>>]
            BY <1>1, <3>1, <3>2, <3>3 DEF TuplesStored
        <3>4. CASE idx'[<<t, c>>] = <<>>
            BY <3>4 DEF TuplesStored
        <3>5. QED
            BY <1>2, <3>3, <3>4
    <2>2. QED
        BY <2>1 DEF IndexTuplesStored, TuplesStored
<1>4. NoHeaderNoTuples'
    BY <1>1, <1>2 DEF TuplesInv, NoHeaderNoTuples
<1>5. QED
    BY <1>1, <1>3, <1>4 DEF TuplesInv, HeadersRead, RowStoredFirst

LEMMA TuplesInsertExecute ==
    ASSUME TypeOK, CatalogInv, TuplesInv, InsertExecute
    PROVE  TuplesInv'
<1>1. /\ pc = "insert_row" /\ tableName \in Tables /\ columns \in Lines
      /\ tbl[tableName] \in Seq(Lines)
      /\ UNCHANGED <<idx, tableName, columns>>
    BY DEF InsertExecute, TypeOK, Steps
<1>2. HeadersRead'
    BY <1>1 DEF InsertExecute, HeadersRead, Header
<1>3. CASE Refusal # "inserted"
    <2>1. UNCHANGED tbl
        BY <1>3 DEF InsertExecute
    <2>2. NoHeaderNoTuples' /\ IndexTuplesStored'
        BY <1>1, <2>1, TuplesGrownTable
    <2>3. ASSUME tbl[tableName] # <<>>
          PROVE  Len(columns) # Len(Header(tableName))
        <3>1. tableName \in tblFiles
            BY <1>1, <2>3 DEF CatalogInv, MissingTablesUnknown
        <3>2. CatalogAgrees(tableName)
            BY <1>1, <3>1 DEF CatalogInv, CatalogFollowsFiles, CatalogLoaded,
                              BeingCreated
        <3>3. Len(tableInfo[tableName]) = Len(Header(tableName))
            BY <3>2 DEF CatalogAgrees
        <3>4. Len(columns) # Len(tableInfo[tableName])
            <4>1. /\ Len(columns) \in Nat
                  /\ tableInfo[tableName] \in Lines
                  /\ Len(tableInfo[tableName]) \in Nat
                BY <1>1, LenProperties DEF TypeOK, Lines
            <4>2. QED
                BY <1>3, <4>1 DEF Refusal
        <3>5. QED
            BY <3>3, <3>4
    <2>4. RowStoredFirst'
        BY <1>1, <2>1, <2>3 DEF RowStoredFirst, Header
    <2>5. QED
        BY <1>2, <2>2, <2>4 DEF TuplesInv
<1>4. CASE Refusal = "inserted"
    <2> DEFINE file == tbl[tableName]
    <2>1. /\ tbl'[tableName] = Append(file, columns)
          /\ \A t \in Tables : t # tableName => tbl'[t] = tbl[t]
        BY <1>1, <1>4 DEF InsertExecute, TypeOK
    <2>2. /\ \A n \in DOMAIN file : n \in DOMAIN tbl'[tableName]
                                    /\ tbl'[tableName][n] = file[n]
          /\ \E n \in DOMAIN tbl'[tableName] : tbl'[tableName][n] = columns
          /\ tbl'[tableName] # <<>>
          /\ file # <<>> =>
                ParseTableHeader(tbl'[tableName]) = ParseTableHeader(file)
        BY <1>1, <2>1, AppendedRow
    <2>3. /\ Range(file) \subseteq Range(tbl'[tableName])
          /\ columns \in Range(tbl'[tableName])
        BY <2>2 DEF Range
    <2>4. NoHeaderNoTuples' /\ IndexTuplesStored'
        BY <1>1, <2>1, <2>2, <2>3, TuplesGrownTable DEF Header
    <2>5. RowStoredFirst'
        BY <1>1, <2>3 DEF RowStoredFirst
    <2>6. QED
        BY <1>2, <2>4, <2>5 DEF TuplesInv
<1>5. QED
    BY <1>3, <1>4

LEMMA TuplesAddIndex ==
    ASSUME TypeOK, TuplesInv, AddIndex
    PROVE  TuplesInv'
<1>1. /\ pc = "add_index"
      /\ UNCHANGED <<tbl, pc, tableName, headers, columns>>
    BY DEF AddIndex
<1>2. i \in 1..Len(headers)
    BY LenProperties DEF AddIndex, TypeOK, Lines
<1>3. CASE IsKeyColumn(headers[i])
    <2>1. i \in 1..Len(columns)
        BY <1>3, LenProperties DEF AddIndex, TypeOK, Lines
    <2>2. columns[i] \in Cells
        BY <2>1, ElementOfSeq DEF TypeOK, Lines
    <2>3. QED
        BY <1>1, <1>2, <1>3, <2>2, TuplesGrownIndex DEF AddIndex
<1>4. CASE ~IsKeyColumn(headers[i])
    BY <1>1, <1>4, TuplesUntouched DEF AddIndex
<1>5. QED
    BY <1>3, <1>4

LEMMA TuplesAddIndexPastEnd ==
    ASSUME TypeOK, TuplesInv, AddIndexPastEnd
    PROVE  TuplesInv'
<1>1. /\ pc = "add_index" /\ IsKeyColumn(headers[i])
      /\ UNCHANGED tbl
      /\ i \in 1..Len(headers)
    BY LenProperties DEF AddIndexPastEnd, TypeOK, Lines, disk
<1>2. CASE pc' = "down" /\ UNCHANGED idx
    BY <1>1, <1>2, TuplesUntouched
<1>3. ASSUME NEW g \in Garbage,
             idx' = [idx EXCEPT ![<<tableName, headers[i]>>] =
                            Append(@, IndexLine(g, columns))],
             UNCHANGED <<pc, tableName, headers, columns>>
      PROVE  TuplesInv'
    <2>1. g \in Cells
        BY CellAssumption
    <2>2. QED
        BY <1>1, <1>3, <2>1, TuplesGrownIndex
<1>4. QED
    BY <1>2, <1>3 DEF AddIndexPastEnd, disk

LEMMA TuplesStep ==
    TypeOK /\ CatalogInv /\ TuplesInv /\ [Next]_vars => TuplesInv'
<1> SUFFICES ASSUME TypeOK, CatalogInv, TuplesInv, [Next]_vars
             PROVE  TuplesInv'
    OBVIOUS
<1>1. CASE CreateExecute
    BY <1>1, TuplesCreateExecute
<1>2. CASE WriteHeader
    BY <1>2, TuplesWriteHeader
<1>3. CASE CreateIndexFile
    BY <1>3, TuplesCreateIndexFile
<1>4. CASE InsertExecute
    BY <1>4, TuplesInsertExecute
<1>5. CASE AddIndex
    BY <1>5, TuplesAddIndex
<1>6. CASE AddIndexPastEnd
    BY <1>6, TuplesAddIndexPastEnd
<1>7. CASE Start \/ Kill \/ Command
    BY <1>7, TuplesUntouched
       DEF Start, Kill, Command, CreateTable, Insert, disk
<1>8. CASE LoadTables \/ LoadIndexFiles \/ CreateDone \/ AddIndexDone
    BY <1>8, TuplesUntouched
       DEF LoadTables, LoadIndexFiles, CreateDone, AddIndexDone, disk
<1>9. CASE UNCHANGED vars
    BY <1>9, TuplesUntouched DEF vars
<1>10. QED
    BY <1>1, <1>2, <1>3, <1>4, <1>5, <1>6, <1>7, <1>8, <1>9
       DEF Next, Proceed

\* An index tuple as wide as its table is a row of the table: neither a kill
\* between the table file and the index files nor a refused row, which is
\* indexed all the same, makes the index claim a row that is not there.
THEOREM IndexTuplesAlwaysStored == Spec => []IndexTuplesStored
<1>1. TuplesInv => IndexTuplesStored
    BY DEF TuplesInv
<1>2. QED
    BY <1>1, TypeCorrect, CatalogInvariant, TuplesInit, TuplesStep, PTL
       DEF Spec

(***************************************************************************)
(* The index maps in memory                                                *)
(***************************************************************************)

\* The process runs and has loaded every line it has written to index files.
IndexesLoaded == pc \notin {"add_index", "load_tables", "load_index", "down"}

\* The maps hold the file of key k, unless it has been emptied since.
HoldsIndexFile(k) ==
    \/ idx[k] = <<>>
    \/ /\ stringIndexTable[k] = StringIndexOf(idx)[k]
       /\ floatIndexTable[k] = FloatIndexOf(idx)[k]

LoadedInv ==
    IndexesLoaded => Loadable /\ \A k \in IndexKeys : HoldsIndexFile(k)

LEMMA LoadedCreateIndexFile ==
    ASSUME TypeOK, LoadedInv, CreateIndexFile
    PROVE  LoadedInv'
<1>1. /\ pc = "create_index" /\ IndexesLoaded
      /\ UNCHANGED <<stringIndexTable, floatIndexTable>>
    BY DEF CreateIndexFile, IndexesLoaded, memory
<1>2. \A k \in IndexKeys : idx'[k] = idx[k] \/ idx'[k] = <<>>
    BY DEF CreateIndexFile, TypeOK
<1>3. Loadable'
    <2>1. ASSUME NEW k \in IndexKeys, IsFloatIndex(idx'[k])
          PROVE  AllKeysNumeric(idx'[k])
        <3>1. idx'[k] = idx[k]
            BY <1>2, <2>1 DEF IsFloatIndex
        <3>2. QED
            BY <1>1, <2>1, <3>1 DEF LoadedInv, Loadable
    <2>2. QED
        BY <2>1 DEF Loadable
<1>4. ASSUME NEW k \in IndexKeys
      PROVE  HoldsIndexFile(k)'
    <2>1. CASE idx'[k] = <<>>
        BY <2>1 DEF HoldsIndexFile
    <2>2. CASE idx'[k] = idx[k] /\ idx[k] # <<>>
        BY <1>1, <2>2
           DEF LoadedInv, HoldsIndexFile, StringIndexOf, FloatIndexOf
    <2>3. QED
        BY <1>2, <2>1, <2>2
<1>5. QED
    BY <1>3, <1>4 DEF LoadedInv

LEMMA LoadedStep == TypeOK /\ LoadedInv /\ [Next]_vars => LoadedInv'
<1> SUFFICES ASSUME TypeOK, LoadedInv, [Next]_vars
             PROVE  LoadedInv'
    OBVIOUS
<1>1. CASE LoadIndexFiles
    <2>1. CASE pc' = "down"
        BY <2>1 DEF LoadedInv, IndexesLoaded
    <2>2. CASE /\ Loadable
               /\ UNCHANGED idx
               /\ stringIndexTable' = StringIndexOf(idx)
               /\ floatIndexTable' = FloatIndexOf(idx)
        BY <2>2 DEF LoadedInv, Loadable, HoldsIndexFile, StringIndexOf,
                    FloatIndexOf
    <2>3. QED
        BY <1>1, <2>1, <2>2 DEF LoadIndexFiles, disk
<1>2. CASE CreateIndexFile
    BY <1>2, LoadedCreateIndexFile
<1>3. CASE ~IndexesLoaded'
    BY <1>3 DEF LoadedInv
<1>4. CASE /\ IndexesLoaded
           /\ UNCHANGED <<idx, stringIndexTable, floatIndexTable>>
    BY <1>4 DEF LoadedInv, Loadable, HoldsIndexFile, StringIndexOf,
                FloatIndexOf
<1>5. CASE Start \/ Kill \/ LoadTables \/ InsertExecute
           \/ AddIndex \/ AddIndexPastEnd \/ AddIndexDone
    BY <1>3, <1>5 DEF Start, Kill, LoadTables, InsertExecute, AddIndex,
       AddIndexPastEnd, AddIndexDone, IndexesLoaded
<1>6. CASE Command \/ CreateExecute \/ WriteHeader \/ CreateDone
    BY <1>4, <1>6 DEF Command, CreateTable, Insert, CreateExecute,
       WriteHeader, CreateDone, IndexesLoaded, disk, memory
<1>7. CASE UNCHANGED vars
    BY <1>7 DEF vars, LoadedInv, IndexesLoaded, Loadable, HoldsIndexFile,
                StringIndexOf, FloatIndexOf
<1>8. QED
    BY <1>1, <1>2, <1>5, <1>6, <1>7 DEF Next, Proceed

LEMMA LoadedInvariant == Spec => []LoadedInv
<1>1. Init => LoadedInv
    BY DEF Init, LoadedInv, IndexesLoaded
<1>2. QED
    BY <1>1, TypeCorrect, LoadedStep, PTL DEF Spec

\* A process that waits for a command, or executes CREATE TABLE, leaves index
\* files behind that the next start can load, whenever it is killed.
THEOREM RunningAlwaysLoadable == Spec => []RunningImpliesLoadable
<1>1. LoadedInv => RunningImpliesLoadable
    BY DEF LoadedInv, IndexesLoaded, RunningImpliesLoadable
<1>2. QED
    BY <1>1, LoadedInvariant, PTL

\* At the prompt the index maps hold what is in the index files that are not
\* empty.
THEOREM MemoryAlwaysMatchesIndexFiles == Spec => []MemoryMatchesIndexFiles
<1>1. LoadedInv => MemoryMatchesIndexFiles
    BY DEF LoadedInv, IndexesLoaded, HoldsIndexFile, MemoryMatchesIndexFiles
<1>2. QED
    BY <1>1, LoadedInvariant, PTL

(***************************************************************************)
(* The index files cover the table.  While a row is being indexed it is    *)
(* covered up to the column the loop is at.                                *)
(***************************************************************************)

RowIndexed(t, n, col) ==
    IsKeyColumn(tbl[t][1][col]) =>
        IndexLine(tbl[t][n][col], tbl[t][n])
            \in Range(idx[<<t, tbl[t][1][col]>>])

\* AddIndex has yet to come to column col of the row it is indexing.
Pending(t, n, col) ==
    RowHalfIndexed /\ t = tableName /\ n = Len(tbl[t]) /\ col >= i

LastRowIsCommand ==
    RowHalfIndexed =>
        /\ tbl[tableName] # <<>>
        /\ tbl[tableName][Len(tbl[tableName])] = columns
        /\ Len(columns) = Len(headers)

RowsIndexed(t) ==
    \A col \in DOMAIN Header(t) : \A n \in 2..Len(tbl[t]) :
        Pending(t, n, col) \/ RowIndexed(t, n, col)

\* AddIndex starts at the first column.
CounterReset ==
    pc \notin {"create_index", "add_index", "load_index"} => i = 1

CoverInv ==
    /\ LastRowIsCommand
    /\ CounterReset
    /\ \A t \in Tables \ excused : RowsIndexed(t)

\* Rows stay indexed when the table keeps them and the index files grow.
LEMMA RowStaysIndexed ==
    ASSUME NEW t, NEW n, NEW col, RowIndexed(t, n, col),
           tbl'[t][n] = tbl[t][n], tbl'[t][1] = tbl[t][1],
           \A c \in Cells : Range(idx[<<t, c>>]) \subseteq Range(idx'[<<t, c>>])
    PROVE  RowIndexed(t, n, col)'
BY CellAssumption DEF RowIndexed, IsKeyColumn

LEMMA CoverCounter ==
    ASSUME TypeOK, CoverInv, Next
    PROVE  CounterReset'
<1> USE DEF CoverInv, CounterReset, command
<1>1. CASE Start \/ Kill \/ Command
    BY <1>1 DEF Start, Kill, LoseMemory, ForgetCommand, Command, CreateTable,
                Insert
<1>2. CASE Proceed
    BY <1>2 DEF Proceed, LoadTables, LoadIndexFiles, CreateExecute,
       WriteHeader, CreateIndexFile, CreateDone, InsertExecute, AddIndex,
       AddIndexPastEnd, AddIndexDone, LoseMemory, ForgetCommand
<1>3. QED
    BY <1>1, <1>2 DEF Next

\* Steps that leave the files alone, outside the indexing of a row.
LEMMA CoverUntouched ==
    ASSUME CoverInv, CounterReset', UNCHANGED <<tbl, idx>>,
           excused \subseteq excused',
           RowHalfIndexed => tableName \in excused',
           ~RowHalfIndexed'
    PROVE  CoverInv'
<1>1. ASSUME NEW t \in Tables \ excused',
             NEW col \in DOMAIN Header(t), NEW n \in 2..Len(tbl[t])
      PROVE  RowIndexed(t, n, col)'
    BY <1>1 DEF CoverInv, RowsIndexed, Pending, RowIndexed
<1>2. QED
    BY <1>1 DEF CoverInv, LastRowIsCommand, RowsIndexed, Header

LEMMA CoverWriteHeader ==
    ASSUME TypeOK, CoverInv, CounterReset', WriteHeader
    PROVE  CoverInv'
<1>1. /\ tableName \in Tables /\ ~RowHalfIndexed /\ ~RowHalfIndexed'
      /\ UNCHANGED <<idx, excused>>
    BY DEF WriteHeader, RowHalfIndexed, TypeOK, Steps
<1>2. ASSUME NEW t \in Tables \ excused
      PROVE  RowsIndexed(t)'
    <2>1. CASE t = tableName
        <3>1. tbl'[t] = <<columns>>
            BY <1>1, <2>1 DEF WriteHeader, TypeOK
        <3>2. 2..Len(tbl'[t]) = {}
            BY <3>1
        <3>3. QED
            BY <3>2 DEF RowsIndexed
    <2>2. CASE t # tableName
        <3>1. tbl'[t] = tbl[t]
            BY <2>2 DEF WriteHeader, TypeOK
        <3>2. QED
            BY <1>1, <1>2, <3>1
               DEF CoverInv, RowsIndexed, RowIndexed, Pending, Header
    <2>3. QED
        BY <2>1, <2>2
<1>3. QED
    BY <1>1, <1>2 DEF CoverInv, LastRowIsCommand

LEMMA CoverCreateIndexFile ==
    ASSUME TypeOK, CoverInv, CounterReset', CreateIndexFile
    PROVE  CoverInv'
<1>1. /\ ~RowHalfIndexed /\ ~RowHalfIndexed' /\ UNCHANGED tbl
      /\ excused \subseteq excused'
    BY DEF CreateIndexFile, RowHalfIndexed
<1>2. ASSUME NEW t \in Tables \ excused', NEW c \in Cells
      PROVE  idx'[<<t, c>>] = idx[<<t, c>>]
    BY <1>2 DEF CreateIndexFile, TypeOK, IndexKeys
<1>3. ASSUME NEW t \in Tables \ excused',
             NEW col \in DOMAIN Header(t), NEW n \in 2..Len(tbl[t])
      PROVE  RowIndexed(t, n, col)'
    <2>1. RowIndexed(t, n, col)
        BY <1>1, <1>3 DEF CoverInv, RowsIndexed, Pending
    <2>2. QED
        BY <1>1, <1>2, <2>1, RowStaysIndexed
<1>4. QED
    BY <1>1, <1>3 DEF CoverInv, LastRowIsCommand, RowsIndexed, Header

LEMMA CoverInsertExecute ==
    ASSUME TypeOK, CatalogInv, CoverInv, CounterReset', InsertExecute
    PROVE  CoverInv'
<1>1. /\ ~RowHalfIndexed /\ UNCHANGED <<idx, excused, tableName, columns, i>>
      /\ pc' = "add_index" /\ i = 1 /\ reply' = Refusal
      /\ tableName \in Tables /\ columns \in Lines
      /\ tbl[tableName] \in Seq(Lines)
    BY DEF InsertExecute, RowHalfIndexed, CoverInv, CounterReset, TypeOK, Steps
<1>2. CASE Refusal # "inserted"
    <2>1. UNCHANGED tbl /\ ~RowHalfIndexed'
        BY <1>1, <1>2 DEF InsertExecute, RowHalfIndexed
    <2>2. QED
        BY <1>1, <2>1, CoverUntouched
<1>3. CASE Refusal = "inserted"
    <2> DEFINE file  == tbl[tableName]
               grown == Append(file, columns)
    <2>1. /\ tbl'[tableName] = grown
          /\ \A t \in Tables : t # tableName => tbl'[t] = tbl[t]
        BY <1>1, <1>3 DEF InsertExecute, TypeOK
    <2>2. /\ Len(grown) = Len(file) + 1
          /\ \A n \in 1..Len(file) : grown[n] = file[n]
          /\ grown[Len(grown)] = columns
          /\ grown # <<>>
          /\ Len(file) \in Nat
        BY <1>1, AppendProperties, LenProperties
    <2>3. ParseTableHeader(grown) =
              IF file = <<>> THEN columns ELSE ParseTableHeader(file)
        BY <1>1, AppendedRow
    <2>4. Len(columns) = Len(Header(tableName))
        BY <1>3, InsertedRowFits
    <2> HIDE DEF file, grown
    <2>5. headers' = ParseTableHeader(grown)
        BY <2>1 DEF InsertExecute
    <2>6. Len(headers') = Len(columns)
        BY <2>3, <2>4, <2>5 DEF file, Header
    <2>7. LastRowIsCommand'
        BY <1>1, <2>1, <2>2, <2>6 DEF LastRowIsCommand
    <2>8. ASSUME NEW t \in Tables \ excused, t # tableName
          PROVE  RowsIndexed(t)'
        <3>1. tbl'[t] = tbl[t]
            BY <2>1, <2>8
        <3>2. QED
            BY <1>1, <2>8, <3>1
               DEF CoverInv, RowsIndexed, RowIndexed, Pending, Header
    <2>9. ASSUME tableName \notin excused
          PROVE  RowsIndexed(tableName)'
        <3>1. ASSUME NEW col \in DOMAIN ParseTableHeader(grown),
                     NEW n \in 2..Len(grown)
              PROVE  Pending(tableName, n, col)' \/ RowIndexed(tableName, n, col)'
            <4>1. CASE n = Len(grown)
                <5>1. col \in Nat \ {0}
                    <6>1. ParseTableHeader(grown) \in Lines
                        BY <1>1, <2>1, AppendProperties, HeaderIsLine DEF grown, file
                    <6>2. QED
                        BY <6>1, LenProperties DEF Lines
                <5>2. RowHalfIndexed'
                    BY <1>1, <1>3 DEF RowHalfIndexed
                <5>3. QED
                    BY <1>1, <2>1, <4>1, <5>1, <5>2 DEF Pending
            <4>2. CASE n # Len(grown)
                <5>1. /\ n \in 2..Len(file) /\ 1 \in 1..Len(file)
                      /\ n \in 1..Len(file)
                    BY <2>2, <3>1, <4>2
                <5>2. file # <<>>
                    BY <5>1, EmptySeq
                <5>3. col \in DOMAIN Header(tableName)
                    BY <2>3, <3>1, <5>2 DEF Header, file
                <5>4. RowIndexed(tableName, n, col)
                    BY <1>1, <2>9, <5>1, <5>3
                       DEF CoverInv, RowsIndexed, Pending, file
                <5>5. /\ tbl'[tableName][n] = tbl[tableName][n]
                      /\ tbl'[tableName][1] = tbl[tableName][1]
                    BY <2>1, <2>2, <5>1 DEF file
                <5>6. QED
                    BY <1>1, <5>4, <5>5, RowStaysIndexed
            <4>3. QED
                BY <4>1, <4>2
        <3>2. QED
            BY <1>1, <2>1, <3>1 DEF RowsIndexed, Header
    <2>10. QED
        BY <1>1, <2>7, <2>8, <2>9 DEF CoverInv
<1>4. QED
    BY <1>2, <1>3

\* A round of AddIndex that appends some line, or none, to an index file.
LEMMA IndexFilesGrow ==
    ASSUME TypeOK, NEW k, NEW line \in Lines,
           \/ idx' = [idx EXCEPT ![k] = Append(@, line)]
           \/ idx' = idx,
           NEW t \in Tables, NEW c \in Cells
    PROVE  Range(idx[<<t, c>>]) \subseteq Range(idx'[<<t, c>>])
<1>1. idx[<<t, c>>] \in Seq(Lines) /\ <<t, c>> \in IndexKeys
    BY DEF TypeOK, IndexKeys
<1>2. CASE idx'[<<t, c>>] = idx[<<t, c>>]
    BY <1>2
<1>3. CASE idx'[<<t, c>>] = Append(idx[<<t, c>>], line)
    <2> DEFINE file == idx[<<t, c>>]
    <2> HIDE DEF file
    <2>1. file \in Seq(Lines)
        BY <1>1 DEF file
    <2>2. \A n \in DOMAIN file : /\ n \in DOMAIN Append(file, line)
                                 /\ Append(file, line)[n] = file[n]
        BY <2>1, AppendedRow
    <2>3. QED
        BY <1>3, <2>2 DEF file, Range
<1>4. QED
    BY <1>1, <1>2, <1>3 DEF TypeOK

LEMMA CoverAddIndex ==
    ASSUME TypeOK, TuplesInv, CoverInv, CounterReset', AddIndex
    PROVE  CoverInv'
<1>1. /\ pc = "add_index" /\ i <= Len(headers) /\ i' = i + 1 /\ i \in Nat \ {0}
      /\ IsKeyColumn(headers[i]) => i <= Len(columns)
      /\ UNCHANGED <<tbl, pc, tableName, columns, headers, reply, excused>>
      /\ tableName \in Tables /\ headers = Header(tableName)
      /\ headers \in Lines /\ columns \in Lines
    BY DEF AddIndex, TypeOK, Steps, TuplesInv, HeadersRead
<1>2. i \in 1..Len(headers) /\ headers[i] \in Cells
    <2>1. i \in 1..Len(headers)
        BY <1>1, LenProperties DEF Lines
    <2>2. QED
        BY <1>1, <2>1, ElementOfSeq DEF Lines
<1>3. ASSUME IsKeyColumn(headers[i])
      PROVE  IndexLine(columns[i], columns) \in Lines
    <2>1. i \in 1..Len(columns)
        BY <1>1, <1>3, LenProperties DEF Lines
    <2>2. columns[i] \in Cells
        BY <1>1, <2>1, ElementOfSeq DEF Lines
    <2>3. QED
        BY <1>1, <2>2, IndexLineProperties
<1>4. ASSUME NEW t \in Tables, NEW c \in Cells
      PROVE  Range(idx[<<t, c>>]) \subseteq Range(idx'[<<t, c>>])
    <2>1. CASE IsKeyColumn(headers[i])
        <3>1. idx' = [idx EXCEPT ![<<tableName, headers[i]>>] =
                            Append(@, IndexLine(columns[i], columns))]
            BY <2>1 DEF AddIndex
        <3>2. QED
            BY <1>3, <2>1, <3>1, IndexFilesGrow
    <2>2. CASE ~IsKeyColumn(headers[i])
        BY <2>2 DEF AddIndex
    <2>3. QED
        BY <2>1, <2>2
<1>5. LastRowIsCommand'
    BY <1>1 DEF CoverInv, LastRowIsCommand, RowHalfIndexed
<1>6. ASSUME NEW t \in Tables \ excused,
             NEW col \in DOMAIN Header(t), NEW n \in 2..Len(tbl[t])
      PROVE  Pending(t, n, col)' \/ RowIndexed(t, n, col)'
    <2>1. CASE RowIndexed(t, n, col)
        BY <1>1, <1>4, <2>1, RowStaysIndexed
    <2>2. CASE Pending(t, n, col) /\ col # i
        <3>1. col \in Nat
            BY <1>1, <1>6, <2>2, LenProperties DEF Pending, Lines
        <3>2. col >= i'
            BY <1>1, <2>2, <3>1 DEF Pending
        <3>3. QED
            BY <1>1, <2>2, <3>2 DEF Pending, RowHalfIndexed
    <2>3. CASE Pending(t, n, col) /\ col = i
        <3>1. /\ t = tableName /\ tbl[t][n] = columns
              /\ tbl[t] # <<>> /\ tbl[t][1] = headers
            BY <1>1, <2>3 DEF Pending, CoverInv, LastRowIsCommand, Header,
                              ParseTableHeader
        <3>2. CASE IsKeyColumn(headers[i])
            <4> DEFINE file == idx[<<tableName, headers[i]>>]
                       line == IndexLine(columns[i], columns)
            <4>1. idx' = [idx EXCEPT ![<<tableName, headers[i]>>] =
                                Append(@, line)]
                BY <3>2 DEF AddIndex
            <4>2. <<tableName, headers[i]>> \in IndexKeys
                BY <1>1, <1>2 DEF IndexKeys
            <4>3. idx'[<<tableName, headers[i]>>] = Append(file, line)
                BY <4>1, <4>2 DEF TypeOK
            <4>4. file \in Seq(Lines) /\ line \in Lines
                BY <1>3, <3>2, <4>2 DEF TypeOK
            <4> HIDE DEF file, line
            <4>5. line \in Range(Append(file, line))
                BY <4>4, AppendedRow DEF Range
            <4>6. QED
                BY <1>1, <2>3, <3>1, <4>3, <4>5 DEF RowIndexed, line
        <3>3. CASE ~IsKeyColumn(headers[i])
            BY <1>1, <2>3, <3>1, <3>3 DEF RowIndexed
        <3>4. QED
            BY <3>2, <3>3
    <2>4. Pending(t, n, col) \/ RowIndexed(t, n, col)
        BY <1>6 DEF CoverInv, RowsIndexed
    <2>5. QED
        BY <2>1, <2>2, <2>3, <2>4
<1>7. QED
    BY <1>1, <1>5, <1>6 DEF CoverInv, RowsIndexed, Header

LEMMA CoverAddIndexPastEnd ==
    ASSUME TypeOK, CoverInv, CounterReset', AddIndexPastEnd
    PROVE  CoverInv'
<1>1. /\ pc = "add_index" /\ UNCHANGED <<tbl, excused>>
    BY DEF AddIndexPastEnd, disk
<1>2. ~RowHalfIndexed
    <2>1. i <= Len(headers) /\ i > Len(columns) /\ i \in Nat
          /\ Len(headers) \in Nat /\ Len(columns) \in Nat
        BY LenProperties DEF AddIndexPastEnd, TypeOK, Lines
    <2>2. QED
        BY <2>1 DEF CoverInv, LastRowIsCommand
<1>3. ~RowHalfIndexed'
    BY <1>1, <1>2 DEF AddIndexPastEnd, RowHalfIndexed
<1>4. CASE UNCHANGED idx
    BY <1>1, <1>2, <1>3, <1>4, CoverUntouched
<1>5. ASSUME NEW g \in Garbage,
             idx' = [idx EXCEPT ![<<tableName, headers[i]>>] =
                            Append(@, IndexLine(g, columns))]
      PROVE  CoverInv'
    <2>1. IndexLine(g, columns) \in Lines
        BY CellAssumption, IndexLineProperties DEF TypeOK
    <2>2. ASSUME NEW t \in Tables, NEW c \in Cells
          PROVE  Range(idx[<<t, c>>]) \subseteq Range(idx'[<<t, c>>])
        BY <1>5, <2>1, IndexFilesGrow
    <2>3. ASSUME NEW t \in Tables \ excused,
                 NEW col \in DOMAIN Header(t), NEW n \in 2..Len(tbl[t])
          PROVE  RowIndexed(t, n, col)'
        <3>1. RowIndexed(t, n, col)
            BY <1>2, <2>3 DEF CoverInv, RowsIndexed, Pending
        <3>2. QED
            BY <1>1, <2>2, <3>1, RowStaysIndexed
    <2>4. QED
        BY <1>1, <1>3, <2>3 DEF CoverInv, LastRowIsCommand, RowsIndexed, Header
<1>6. QED
    BY <1>4, <1>5 DEF AddIndexPastEnd, disk

LEMMA CoverAddIndexDone ==
    ASSUME TypeOK, TuplesInv, CoverInv, CounterReset', AddIndexDone
    PROVE  CoverInv'
<1>1. /\ UNCHANGED <<tbl, idx, excused>> /\ ~RowHalfIndexed'
      /\ pc = "add_index" /\ i > Len(headers) /\ i \in Nat
      /\ headers \in Lines /\ headers = Header(tableName)
    BY DEF AddIndexDone, RowHalfIndexed, disk, TypeOK, TuplesInv, HeadersRead
<1>2. ASSUME NEW t \in Tables \ excused,
             NEW col \in DOMAIN Header(t), NEW n \in 2..Len(tbl[t])
      PROVE  RowIndexed(t, n, col)
    <2>1. ~Pending(t, n, col)
        <3>1. SUFFICES ASSUME Pending(t, n, col)
                       PROVE  FALSE
            OBVIOUS
        <3>2. col \in 1..Len(headers) /\ col >= i /\ Len(headers) \in Nat
            BY <1>1, <1>2, <3>1, LenProperties DEF Pending, Lines
        <3>3. QED
            BY <1>1, <3>2
    <2>2. QED
        BY <1>2, <2>1 DEF CoverInv, RowsIndexed
<1>3. QED
    BY <1>1, <1>2 DEF CoverInv, LastRowIsCommand, RowsIndexed, RowIndexed,
                      Header

LEMMA CoverStep ==
    TypeOK /\ CatalogInv /\ TuplesInv /\ CoverInv /\ [Next]_vars => CoverInv'
<1> SUFFICES ASSUME TypeOK, CatalogInv, TuplesInv, CoverInv, [Next]_vars
             PROVE  CoverInv'
    OBVIOUS
<1>1. CASE UNCHANGED vars
    BY <1>1 DEF vars, CoverInv, LastRowIsCommand, CounterReset, RowsIndexed,
                RowIndexed, Pending, RowHalfIndexed, Header
<1>2. CASE Next
    <2>1. CounterReset'
        BY <1>2, CoverCounter
    <2>2. CASE CreateExecute
        <3>1. UNCHANGED <<tbl, idx, excused>> /\ ~RowHalfIndexed
              /\ ~RowHalfIndexed'
            BY <2>2 DEF CreateExecute, RowHalfIndexed, TypeOK, Steps,
                        CatalogInv, MissingTablesUnknown
        <3>2. QED
            BY <2>1, <3>1, CoverUntouched
    <2>3. CASE WriteHeader
        BY <2>1, <2>3, CoverWriteHeader
    <2>4. CASE CreateIndexFile
        BY <2>1, <2>4, CoverCreateIndexFile
    <2>5. CASE InsertExecute
        BY <2>1, <2>5, CoverInsertExecute
    <2>6. CASE AddIndex
        BY <2>1, <2>6, CoverAddIndex
    <2>7. CASE AddIndexPastEnd
        BY <2>1, <2>7, CoverAddIndexPastEnd
    <2>8. CASE AddIndexDone
        BY <2>1, <2>8, CoverAddIndexDone
    <2>9. CASE Start \/ Kill \/ Command
        BY <2>1, <2>9, CoverUntouched DEF Start, Kill, Command, CreateTable,
           Insert, disk, RowHalfIndexed
    <2>10. CASE LoadTables \/ LoadIndexFiles \/ CreateDone
        BY <2>1, <2>10, CoverUntouched
           DEF LoadTables, LoadIndexFiles, CreateDone, disk, RowHalfIndexed
    <2>11. QED
        BY <1>2, <2>2, <2>3, <2>4, <2>5, <2>6, <2>7, <2>8, <2>9, <2>10
           DEF Next, Proceed
<1>3. QED
    BY <1>1, <1>2

\* Every stored row is in the index file of every key column once its
\* insertion is over, except in tables that went through a kill in the middle
\* of an insertion or a CREATE TABLE that emptied one of their index files.
THEOREM IndexAlwaysCoversTable == Spec => []IndexCoversTable
<1>1. Init => CoverInv
    BY DEF Init, CoverInv, LastRowIsCommand, CounterReset, RowsIndexed,
           RowHalfIndexed
<1>2. CoverInv => IndexCoversTable
    BY DEF CoverInv, RowsIndexed, RowIndexed, Pending, RowHalfIndexed,
           IndexCoversTable
<1>3. QED
    BY <1>1, <1>2, TypeCorrect, CatalogInvariant, TuplesInit, TuplesStep,
       CoverStep, PTL DEF Spec
=============================================================================
