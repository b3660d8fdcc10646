---------------------------- MODULE MCEvaluator ----------------------------
(***************************************************************************)
(* Every row of two columns, every comparison of their cells, texts and    *)
(* numbers, and chains of up to MaxComparisons of them.                    *)
(***************************************************************************)
EXTENDS WhereChain, TLC

(***************************************************************************)
(* Constants for TLC.  Cells are spelled as the lexer hands them over, with *)
(* the quotes of a string literal kept.                                    *)
(***************************************************************************)

MCCells == {"", "7", "12", "30", "'ab'", "'x'", "'3z'"}

MCNumeric == {"7", "12", "30"}

MCSecondDigit == {"12", "30", "'3z'"}

MCNumberOf == [c \in MCNumeric |->
                CASE c = "7" -> 7 [] c = "12" -> 12 [] c = "30" -> 30]

MCRows == [{"a", "b"} -> MCCells \ {""}]

Col(c) == [kind |-> "column", name |-> c]

Str(s) == [kind |-> "string", cell |-> s]

Num(n, rest) == [kind |-> "arithmetic", first |-> n, rest |-> rest]

Term(op, n) == [op |-> op, num |-> n]

ColumnSum == [kind |-> "column_arithmetic", left |-> "a", op |-> "+",
              right |-> "b"]

Comparison(connective, left, op, right) ==
    [connective |-> connective, left |-> left, op |-> op, right |-> right]

MCOperands ==
    {Col("a"), Col("b"), Col("none"), Str("'ab'"), Str("'3z'"), ColumnSum,
     Num(12, <<>>),
     Num(24, <<Term("/", 2)>>),
     Num(2, <<Term("+", 4), Term("*", 5)>>),
     Num(20, <<Term("-", 8)>>),
     Num(7, <<Term("/", 0)>>)}

MCComparisons ==
    {Comparison("and", l, op, r) :
        l \in MCOperands, op \in Operators, r \in MCOperands}

MCMoreComparisons ==
    {Comparison(connective, Col("b"), op[1], op[2]) :
        connective \in {"and", "or"},
        op \in {<<"=", Str("'x'")>>, <<"<", Num(13, <<>>)>>,
                <<"<>", Col("a")>>}}
=============================================================================
