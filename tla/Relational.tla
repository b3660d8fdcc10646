----------------------------- MODULE Relational -----------------------------
(***************************************************************************)
(* What the SELECT statements of the program are about: tables, their      *)
(* rows, the index entries stored beside them, queries, and the answer a   *)
(* query has.                                                              *)
(*                                                                         *)
(* Column names differ from table to table (CheckForJoinType assumes it,   *)
(* "because dot operator won't be supported"), so a column names its table *)
(* and a row of a product is a function from columns to cells.  The        *)
(* spelling of a column name only says whether the column is a key; here   *)
(* the set Keys does, and a name is the same in a header and in a query.   *)
(***************************************************************************)
EXTENDS Evaluator, FiniteSets, Bags

CONSTANTS
    Tables,        \* the names of all tables, also of those not created
    Catalog,       \* the tables there are, in the order of the catalog map
    ColumnsOf,     \* the header of each of them
    Keys,          \* the columns with an index file
    Databases,     \* the contents the table and index files may have
    Queries        \* the SELECT statements the user may enter

Columns == UNION {Range(ColumnsOf[t]) : t \in DOMAIN ColumnsOf}

ASSUME TablesAssumption ==
    /\ Catalog \in Seq(Tables)
    /\ IsInjective(Catalog)
    /\ ColumnsOf \in [Range(Catalog) -> Seq(Columns) \ {<<>>}]

\* projectioninfo.cpp:256
ASSUME UniqueColumnNames ==
    \A t, u \in DOMAIN ColumnsOf :
        /\ IsInjective(ColumnsOf[t])
        /\ t # u => Range(ColumnsOf[t]) \cap Range(ColumnsOf[u]) = {}

ASSUME KeysAssumption == Keys \subseteq Columns

TableOf(c) == CHOOSE t \in DOMAIN ColumnsOf : c \in Range(ColumnsOf[t])

\* The place of a value in a sequence that holds it.
PositionOf(v, s) == CHOOSE n \in DOMAIN s : s[n] = v

\* Lines of a table file; a line of an index file is a key and a line.
Tuple == Seq(Cells)

IndexEntry == [key : Cells, tuple : Tuple]

Database == [rows : [Range(Catalog) -> Seq(Tuple)],
             entries : [Keys -> Seq(IndexEntry)]]

\* A row fits its header (RowsFitHeader of module Storage).  The tuple of an
\* index entry need not: INSERT indexes the rows it refuses, too short or too
\* long.  An index that begins with a number has numbers only, or the process
\* would not have come up; one that begins with a text may have anything.
WellFormed(db) ==
    /\ \A t \in Range(Catalog) : \A n \in DOMAIN db.rows[t] :
          Len(db.rows[t][n]) = Len(ColumnsOf[t])
    /\ \A c \in Keys : \A n \in DOMAIN db.entries[c] :
          /\ db.entries[c][n].tuple # <<>>
          /\ db.entries[c][1].key \in Numeric => db.entries[c][n].key \in Numeric

ASSUME DatabasesAssumption ==
    \A db \in Databases : db \in Database /\ WellFormed(db)

\* The index entries that insertions of these rows, and nothing else, leave.
EntriesFor(rows) ==
    [c \in Keys |->
        LET t == TableOf(c)
        IN  [n \in DOMAIN rows[t] |->
                [key   |-> rows[t][n][PositionOf(c, ColumnsOf[t])],
                 tuple |-> rows[t][n]]]]

(***************************************************************************)
(* Queries: the columns after SELECT, the tables after FROM, the chain of  *)
(* comparisons after WHERE, which is empty when there is no WHERE clause.  *)
(***************************************************************************)
ASSUME QueriesAssumption ==
    \A q \in Queries :
        /\ q.select \subseteq STRING
        /\ q.from \in Seq(Tables) \ {<<>>} /\ IsInjective(q.from)
        /\ q.where \in Seq(Range(q.where))

NoQuery == [select |-> {}, from |-> <<>>, where |-> <<>>]

\* GetWhereColumns on one side of a comparison.
OperandColumns(operand) ==
    CASE operand.kind = "column"            -> <<operand.name>>
      [] operand.kind = "column_arithmetic" -> <<operand.left, operand.right>>
      [] OTHER                              -> <<>>

\* GetWhereColumns on a comparison.
NamedColumns(c) == Range(OperandColumns(c.left)) \cup Range(OperandColumns(c.right))

WhereColumns(where) == UNION {NamedColumns(where[n]) : n \in DOMAIN where}

FromColumns(from) == UNION {Range(ColumnsOf[t]) : t \in Range(from)}

\* What isValidQuery checks.
Valid(q) ==
    /\ Range(q.from) \subseteq Range(Catalog)
    /\ q.select \subseteq FromColumns(q.from)

(***************************************************************************)
(* The answer of a query: the rows of the product of its tables that       *)
(* satisfy its WHERE clause, each as often as there are combinations of    *)
(* stored rows that make it up.                                            *)
(***************************************************************************)

\* The choices of one line number of each table.
Combinations(db, tables) ==
    {choice \in [tables -> 1..Max({Len(db.rows[t]) : t \in tables})] :
        \A t \in tables : choice[t] \in DOMAIN db.rows[t]}

CombinedRow(db, choice) ==
    [c \in UNION {Range(ColumnsOf[t]) : t \in DOMAIN choice} |->
        LET t == TableOf(c)
        IN  db.rows[t][choice[t]][PositionOf(c, ColumnsOf[t])]]

Answer(db, q) ==
    LET matching == {choice \in Combinations(db, Range(q.from)) :
                        q.where = <<>>
                        \/ Satisfies(q.where, CombinedRow(db, choice))}
        Row(choice) == CombinedRow(db, choice)
    IN  [row \in {Row(choice) : choice \in matching} |->
            Cardinality({choice \in matching : Row(choice) = row})]

\* Every comparison has a meaning on every row it may be evaluated on.
MeaningfulQuery(db, q) ==
    /\ Valid(q)
    /\ WhereColumns(q.where) \subseteq FromColumns(q.from)
    /\ \A choice \in Combinations(db, Range(q.from)) : \A n \in DOMAIN q.where :
          Meaningful(q.where[n], CombinedRow(db, choice))

(***************************************************************************)
(* What a table, an index or a query may be is wider than what users mean. *)
(* These narrow it down for the properties that hold only then.            *)
(***************************************************************************)

\* The keys that one comparison names are all numbers or all texts.
KeysOfOneKind(databases, queries) ==
    \A d \in databases, q \in queries : \A n \in DOMAIN q.where :
        \A c, k \in Keys \cap NamedColumns(q.where[n]) :
            d.entries[c] # <<>> /\ d.entries[k] # <<>> =>
                (d.entries[c][1].key \in Numeric <=> d.entries[k][1].key \in Numeric)

\* WHERE names columns of the tables of FROM.
ColumnsOfFrom(queries) ==
    \A q \in queries : Valid(q) => WhereColumns(q.where) \subseteq FromColumns(q.from)

\* The indexes have no tuple of a row that was refused for its length.
FullTuples(databases) ==
    \A d \in databases, c \in Keys : \A n \in DOMAIN d.entries[c] :
        Len(d.entries[c][n].tuple) = Len(ColumnsOf[TableOf(c)])
=============================================================================
