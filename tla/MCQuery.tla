------------------------------ MODULE MCQuery ------------------------------
(***************************************************************************)
(* Three tables for TLC: "one" with the text key "a" and the number "p",   *)
(* "two" with the text key "b" and the number key "q", "three" with the    *)
(* plain text column "c".                                                  *)
(***************************************************************************)
EXTENDS Query

MCCells == {"", "7", "12", "30", "'x'", "'y'"}

MCNumeric == {"7", "12", "30"}

MCSecondDigit == {"12", "30"}

MCNumberOf == [c \in MCNumeric |->
                CASE c = "7" -> 7 [] c = "12" -> 12 [] c = "30" -> 30]

MCTables == {"one", "two", "three", "nowhere"}

\* In the order of a map of strings.
MCCatalog == <<"one", "three", "two">>

MCColumnsOf ==
    [t \in {"one", "two", "three"} |->
        CASE t = "one" -> <<"a", "p">>
          [] t = "two" -> <<"b", "q">>
          [] t = "three" -> <<"c">>]

\* Keys are capitalised, and capital letters come first.
MCColumnOrder == <<"a", "b", "q", "c", "p">>

\* With a name that is no column's, which comes before all of them.
MCNameOrder == <<"?">> \o MCColumnOrder

MCKeys == {"a", "b", "q"}

MCKeyOrder == <<"'x'", "'y'", "12", "30">>

MCGarbage == {""}

\* Every combination of these contents of the three tables.
RowChoices(ones, twos, threes) ==
    {[t \in {"one", "two", "three"} |->
        CASE t = "one" -> one [] t = "two" -> two [] t = "three" -> three] :
        one \in ones, two \in twos, three \in threes}

A(c) == IF c = "x" THEN <<"'x'", "12">> ELSE <<"'y'", "30">>

B(c) == IF c = "x" THEN <<"'x'", "12">> ELSE <<"'y'", "12">>

C(c) == IF c = "x" THEN <<"'x'">> ELSE <<"'y'">>

\* Empty tables, single rows, different rows, and a row that is there twice.
LargeRows == RowChoices(
    {<<>>, <<A("x")>>, <<A("x"), A("y")>>, <<A("y"), A("y")>>},
    {<<>>, <<B("y")>>, <<B("y"), B("x")>>, <<B("x"), B("x")>>},
    {<<>>, <<C("x")>>, <<C("y"), C("x")>>})

SmallRows == RowChoices({<<>>, <<A("x")>>, <<A("y")>>},
                        {<<>>, <<B("x")>>, <<B("y")>>},
                        {<<>>, <<C("x")>>, <<C("y")>>})

\* The tables, and the entries the insertions of their rows leave.
InStep(rows) == [rows |-> rows, entries |-> EntriesFor(rows)]

MCDatabases == {InStep(rows) : rows \in LargeRows}

MCSmallDatabases == {InStep(rows) : rows \in SmallRows}

\* The same after an insertion of these values was refused: the indexes of
\* table t have a tuple that is too short or too long, the table file does not.
AfterRefusal(rows, t, tuple) ==
    [rows |-> rows,
     entries |-> [c \in MCKeys |->
        IF c \in Range(MCColumnsOf[t])
        THEN Append(EntriesFor(rows)[c],
                    [key   |-> tuple[PositionOf(c, MCColumnsOf[t])],
                     tuple |-> tuple])
        ELSE EntriesFor(rows)[c]]]

TooShort == <<"'x'">>

TooLong == <<"'x'", "12", "30">>

FewRows == RowChoices({<<>>, <<A("x"), A("y")>>}, {<<>>, <<B("x")>>}, {<<C("x")>>})

\* A number in the text key of table one, behind a text.
MixedKeys == RowChoices({<<A("x"), <<"12", "12">>>>}, {<<B("x")>>}, {<<C("x")>>})

MCFewDatabases ==
    {InStep(rows) : rows \in FewRows \cup MixedKeys}
        \cup {AfterRefusal(rows, "one", tuple) :
                rows \in FewRows, tuple \in {TooShort, TooLong}}
        \cup {AfterRefusal(rows, "two", TooLong) : rows \in FewRows}

\* With and without rows in every table.
MCTwoDatabases ==
    {InStep(rows) : rows \in RowChoices({<<>>, <<A("x")>>}, {<<B("x")>>}, {<<C("y")>>})}

(***************************************************************************)
(* Queries                                                                 *)
(***************************************************************************)

Col(c) == [kind |-> "column", name |-> c]

Str(s) == [kind |-> "string", cell |-> s]

Num(n) == [kind |-> "arithmetic", first |-> n, rest |-> <<>>]

Comparison(left, op, right) ==
    [connective |-> "and", left |-> left, op |-> op, right |-> right]

Or(c) == [c EXCEPT !.connective = "or"]

Select(columns, from, where) ==
    [select |-> columns, from |-> from, where |-> where]

Equal(c, k) == Comparison(Col(c), "=", Col(k))

Sum(left, right) ==
    [kind |-> "column_arithmetic", left |-> left, op |-> "+", right |-> right]

\* One table; an index join; hash joins either way round, over text and over
\* numbers; joins found behind other comparisons, and followed by products;
\* products alone; queries that are refused.
AnsweredQueries == {
    Select({"a"}, <<"one">>, <<Comparison(Col("p"), "<", Num(20))>>),
    Select({"a"}, <<"one">>, <<Comparison(Col("a"), "=", Str("'x'")),
                               Or(Comparison(Col("p"), ">=", Num(30)))>>),
    Select({"a", "b"}, <<"one", "two">>, <<Equal("a", "b")>>),
    Select({"a", "c"}, <<"one", "three">>,
           <<Equal("a", "c")>>),
    Select({"a", "c"}, <<"three", "one">>,
           <<Equal("c", "a"),
             Comparison(Col("a"), "<>", Str("'y'"))>>),
    Select({"a", "b"}, <<"two", "one">>,
           <<Equal("p", "q")>>),
    Select({"a", "b"}, <<"one", "two", "three">>,
           <<Equal("a", "b"), Equal("b", "c")>>),
    Select({"a", "c"}, <<"three", "one", "two">>,
           <<Equal("a", "b"), Comparison(Col("c"), "=", Str("'x'"))>>),
    Select({"b", "c"}, <<"three", "two">>,
           <<Comparison(Col("c"), "=", Str("'x'")),
             Or(Comparison(Col("q"), ">", Num(20)))>>),
    Select({"a"}, <<"one", "nowhere">>, <<Equal("a", "b")>>),
    Select({"a", "c"}, <<"one", "two">>, <<Equal("a", "b")>>)}

\* What the theorems about index maps and joined tables ask.
ASSUME AnsweredAsMeant ==
    /\ KeysOfOneKind(MCDatabases, AnsweredQueries)
    /\ ColumnsOfFrom(AnsweredQueries)
    /\ FullTuples(MCDatabases)
    /\ Tables \cap JoinNames = {} /\ NoColumn \notin Columns

\* Queries the program accepts and treats otherwise: an index of texts with
\* one of numbers, texts hashed into numbers, sums of columns one or both of
\* which have an index, no WHERE clause, columns of a table that FROM does not
\* name, or of none.
OtherQueries == {
    Select({"a"}, <<"one", "two">>, <<Comparison(Col("a"), "<>", Col("q"))>>),
    Select({"b"}, <<"two", "three">>, <<Equal("q", "c")>>),
    Select({"p"}, <<"one", "two">>, <<Equal("p", "q")>>),
    Select({"p"}, <<"one", "three">>, <<Comparison(Sum("a", "p"), "=", Col("c"))>>),
    Select({"q"}, <<"two", "three">>, <<Comparison(Sum("b", "q"), "=", Col("c"))>>),
    Select({"c"}, <<"three">>, <<>>),
    Select({"c"}, <<"three", "one">>, <<Equal("a", "b")>>),
    Select({"a"}, <<"one">>, <<Comparison(Col("z"), "=", Str("'x'"))>>)}

AllQueries == AnsweredQueries \cup OtherQueries

\* An index join, a hash join and no join before the products; no WHERE.
EndingQueries ==
    {q \in AnsweredQueries : Len(q.from) = 3} \cup {q \in OtherQueries : q.where = <<>>}

\* The first query is accepted, joins nothing and prints nothing; the second
\* is a hash join over the index the first one has looked up.
IllTypedThenEqual == {
    Select({"a"}, <<"one", "two">>, <<Equal("a", "q")>>),
    Select({"p"}, <<"one", "two">>, <<Equal("p", "q")>>)}
=============================================================================
