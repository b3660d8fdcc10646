----------------------------- MODULE MCStorage -----------------------------
(* Instances of Storage for TLC.  The cells are two column names in lower    *)
(* case and their capitalised forms, a number, a quoted string and NULL,     *)
(* whose first letter makes it look like a key column.                       *)
EXTENDS Storage, TLC

CONSTANTS a, b, UpperA, UpperB, Num, Str, Null

MCCells   == {EmptyCell, a, b, UpperA, UpperB, Num, Str, Null}
MCUpper   == {UpperA, UpperB, Null}
MCNumeric == {Num}

MCToUpper == [c \in MCCells |-> CASE c = a -> UpperA
                                  [] c = b -> UpperB
                                  [] OTHER -> c]

\* What lies past the end of a vector<string>: an empty string, as a rule.
MCGarbage == {EmptyCell}

Column(name, kind) == [name |-> name, kind |-> kind]

\* Two keys; a key in second place, which a short row does not reach; one
\* plain column, whose header is as wide as that of an unwritten table file.
TwoKeys   == <<Column(a, "primary_key"), Column(b, "key")>>
SecondKey == <<Column(a, "plain"), Column(b, "key")>>
OneColumn == <<Column(a, "plain")>>

MCSchemas     == {SecondKey, OneColumn}
TwoKeySchemas == {TwoKeys}

MCRows == {<<Num, Str>>, <<Str, Num>>, <<Null>>, <<Str, Str, Num>>}

\* No command tells one table from another.
TableSymmetry == Permutations(Tables)
=============================================================================
