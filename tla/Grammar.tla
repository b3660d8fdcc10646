------------------------------ MODULE Grammar -------------------------------
(***************************************************************************)
(* What the grammar says a statement is and which tree it means, told by   *)
(* taking a statement apart from the outside: a list falls apart at its    *)
(* commas, an expression at its last operator, a SELECT at its keywords.   *)
(* The parser works from left to right with tables instead.  A statement   *)
(* is a span i..j of the tokens w; a tree is a term as Parser!Tree makes.  *)
(***************************************************************************)
EXTENDS Integers, Sequences, SequencesExt, FiniteSetsExt

CONSTANT Code    \* the operators of HW4-expr.h

Refused == <<-1>>    \* not a sentence of the grammar
Nothing == <<>>      \* what is left out

Node2(func, left, right) ==
    IF left = Refused \/ right = Refused THEN Refused ELSE <<func, left, right>>

\* Parentheses opened and not closed again from i up to but not including k.
Depth(w, i, k) ==
    Cardinality({m \in i..(k - 1) : w[m] = "("})
        - Cardinality({m \in i..(k - 1) : w[m] = ")"})

\* The tokens of a span that are in a set and in no parentheses.
Outside(w, i, j, tokens) ==
    {k \in i..j : w[k] \in tokens /\ Depth(w, i, k) = 0}

\* The items between the commas of a span, combined from the first on.
Listed(w, i, j, Item(_, _, _), Join(_, _), first) ==
    LET commas == SetToSortSeq(Outside(w, i, j, {","}), <)
        Begin(n) == IF n = 1 THEN i ELSE commas[n - 1] + 1
        End(n) == IF n > Len(commas) THEN j ELSE commas[n] - 1
        items == [n \in 1..(Len(commas) + 1) |-> Item(w, Begin(n), End(n))]
    IN  FoldLeft(Join, first, items)

Chain(list, item) == Node2(Code.RLIST, item, list)

List(w, i, j, Item(_, _, _)) == Listed(w, i, j, Item, Chain, Nothing)

Leaf(w, i, j, token, func) ==
    IF i = j /\ w[i] = token THEN <<func, i>> ELSE Refused

Name(w, i, j) == Leaf(w, i, j, "IDENT", Code.COLNAME)
Table(w, i, j) == Leaf(w, i, j, "IDENT", Code.TABLENAME)
Number(w, i, j) == Leaf(w, i, j, "NUMBER", Code.NUMBER)
Text(w, i, j) == Leaf(w, i, j, "STRING", Code.STRING)

FirstOf(candidates) ==
    LET good == SelectSeq(candidates, LAMBDA t : t # Refused)
    IN  IF good = <<>> THEN Refused ELSE Head(good)

Value(w, i, j) == FirstOf(<<Name(w, i, j), Number(w, i, j), Text(w, i, j)>>)

-----------------------------------------------------------------------------
(***************************************************************************)
(* Expressions and SELECT                                                  *)
(***************************************************************************)
OperatorOf ==
    [NOTEQ |-> Code.NOTEQ, GEQ |-> Code.GEQ, LEQ |-> Code.LEQ,
     AND |-> Code.AND, OR |-> Code.OR]

Signs == <<"=", ">", "<", "+", "-", "*", "/">>
SignOf == <<Code.EQUAL, Code.GT, Code.LT, Code.PLUS, Code.BMINUS, Code.TIMES,
            Code.DIVIDE>>

Operators == DOMAIN OperatorOf \cup ToSet(Signs)

Operator(token) ==
    IF token \in DOMAIN OperatorOf
    THEN OperatorOf[token]
    ELSE SignOf[CHOOSE n \in DOMAIN Signs : Signs[n] = token]

RECURSIVE Expression(_, _, _), Select(_, _, _)

\* What may stand to the right of an operator.
Operand(w, i, j) ==
    IF i < j /\ w[i] = "(" /\ w[j] = ")"
    THEN FirstOf(<<Select(w, i + 1, j - 1), Expression(w, i + 1, j - 1)>>)
    ELSE Value(w, i, j)

Call(w, i, j) ==
    IF i + 2 <= j /\ w[i] = "IDENT" /\ w[i + 1] = "(" /\ w[j] = ")"
    THEN Node2(Code.FCALL, <<Code.FNAME, i>>,
               IF i + 2 = j THEN Nothing ELSE List(w, i + 2, j - 1, Expression))
    ELSE Refused

\* Operators have no precedence: the last one is applied last.
Expression(w, i, j) ==
    LET operators == Outside(w, i, j, Operators)
        k == Max(operators)
    IN  IF operators = {}
        THEN FirstOf(<<Call(w, i, j), Operand(w, i, j)>>)
        ELSE Node2(Operator(w[k]), Expression(w, i, k - 1), Operand(w, k + 1, j))

Outcol(w, i, j) ==
    LET as == Outside(w, i, j, {"AS"})
        k == Max(as)
    IN  IF as = {}
        THEN Node2(Code.OUTCOLNAME, Name(w, i, j), Name(w, i, j))
        ELSE Node2(Code.OUTCOLNAME, Expression(w, i, k - 1), Name(w, k + 1, j))

OrderSpec(w, i, j) ==
    LET Key(k) == FirstOf(<<Number(w, i, k), Name(w, i, k)>>)
    IN  IF i < j /\ w[j] \in {"ASC", "DESC"}
        THEN Node2(Code.SORTSPEC, Key(j - 1),
                   IF w[j] = "DESC" THEN <<Code.NULL>> ELSE Nothing)
        ELSE Node2(Code.SORTSPEC, Key(j), Nothing)

\* The clauses of a SELECT, in the order they must come in.
ClauseWords == <<"SELECT", "FROM", "WHERE", "GROUP", "HAVING", "ORDER">>

Wrapped(func, tree, clause) ==
    IF clause = Nothing THEN tree ELSE Node2(func, tree, clause)

Product(left, right) ==
    IF left = Nothing THEN right ELSE Node2(Code.PRODUCT, left, right)

Select(w, i, j) ==
    LET places == [n \in 1..6 |-> Outside(w, i, j, {ClauseWords[n]})]
        present == {n \in 1..6 : places[n] # {}}
        start == [n \in present |-> Min(places[n])]
        inOrder ==
          /\ {1, 2} \subseteq present /\ start[1] = i
          /\ \A n \in present : Cardinality(places[n]) = 1
          /\ \A m, n \in present : m < n => start[m] < start[n]
          /\ \A n \in present \cap {4, 6} : start[n] < j /\ w[start[n] + 1] = "BY"
        from == [n \in present |-> start[n] + IF n \in {4, 6} THEN 2 ELSE 1]
        to == [n \in present |-> Min({start[m] - 1 : m \in {k \in present : k > n}}
                                        \cup {j})]
        Clause(n, Part(_, _, _)) ==
          IF n \in present THEN Part(w, from[n], to[n]) ELSE Nothing
        outcols == List(w, from[1], to[1], Outcol)
        tables == Listed(w, from[2], to[2], Table, Product, Nothing)
        groups(v, a, b) == List(v, a, b, Name)
        orders(v, a, b) == List(v, a, b, OrderSpec)
        filtered == Wrapped(Code.SELECTION, tables, Clause(3, Expression))
        grouped == Wrapped(Code.GROUP, filtered, Clause(4, groups))
        projected == Node2(Code.PROJECTION, grouped, outcols)
    IN  IF i > j \/ ~inOrder
        THEN Refused
        ELSE Wrapped(Code.SORT,
                     Wrapped(Code.SELECTION, projected, Clause(5, Expression)),
                     Clause(6, orders))

-----------------------------------------------------------------------------
(***************************************************************************)
(* Statements                                                              *)
(***************************************************************************)
Datum(w, i, j) ==
    FirstOf(<<Number(w, i, j), Text(w, i, j),
              IF i = j /\ w[i] = "NUL" THEN <<Code.NULL>> ELSE Refused>>)

\* A column of CREATE TABLE with its kind of key.
ColumnDecl(w, i, j) ==
    LET kind == CASE j = i -> 0
                  [] j = i + 1 /\ w[j] = "KEY" -> 1
                  [] j = i + 2 /\ w[j] = "KEY" /\ w[i + 1] = "PRIMARY" -> 3
                  [] OTHER -> -1
    IN  IF kind = -1 \/ Name(w, i, i) = Refused
        THEN Refused
        ELSE <<Code.COLUMNDEF, Name(w, i, i), kind>>

\* Whether a span begins with some tokens.
Begins(w, i, j, tokens) ==
    i + Len(tokens) <= j + 1 /\ SubSeq(w, i, i + Len(tokens) - 1) = tokens

\* The statements that do not build a tree of their own.
WithoutTree(w, i, j) ==
    \/ SubSeq(w, i, j) \in {<<"DROP", "TABLE", "IDENT">>, <<"QUIT">>}
    \/ /\ Begins(w, i, j, <<"DELETE", "FROM", "IDENT", "WHERE">>)
       /\ Expression(w, i + 4, j) # Refused
    \/ /\ Begins(w, i, j, <<"INSERT", "INTO", "IDENT", "SELECT">>)
       /\ Select(w, i + 3, j) # Refused

\* The tree a statement means: Nothing for those without one.
Meaning(w, i, j) ==
    CASE Begins(w, i, j, <<"INSERT", "INTO", "IDENT", "VALUES", "(">>)
            /\ w[j] = ")" ->
           Node2(Code.INSERTROW, Table(w, i + 2, i + 2),
                 List(w, i + 5, j - 1, Datum))
      [] Begins(w, i, j, <<"CREATE", "TABLE", "IDENT", "(">>) /\ w[j] = ")" ->
           Node2(Code.CREATETABLE, Table(w, i + 2, i + 2),
                 List(w, i + 4, j - 1, ColumnDecl))
      [] Begins(w, i, j, <<"SELECT">>) -> Select(w, i, j)
      [] WithoutTree(w, i, j) -> Nothing
      [] OTHER -> Refused

=============================================================================
