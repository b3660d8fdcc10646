----------------------------- MODULE Evaluator -----------------------------
(***************************************************************************)
(* How ProjectionInfo decides whether a row satisfies a WHERE clause.      *)
(*                                                                         *)
(* The grammar makes a WHERE clause a chain of parenthesised comparisons,  *)
(* combined from left to right with AND and OR; here it is the sequence of *)
(* its comparisons.  An operand is a column, a quoted string or a chain of *)
(* numbers and arithmetic operators.  A row maps its columns to cells.     *)
(*                                                                         *)
(* The evaluator looks at the first two characters of a cell and at the    *)
(* number stof makes of it, so a cell is known by just these.  Several     *)
(* paths reach the end of a bool function without a return; what they      *)
(* yield is up to the compiler, and the evaluator is a set of outcomes.    *)
(***************************************************************************)
EXTENDS Integers, SequencesExt

CONSTANTS
    Cells,         \* what a cell of a row can hold
    EmptyCell,     \* the empty string
    Numeric,       \* cells that start with a digit: the numbers
    SecondDigit,   \* cells whose second character is a digit
    NumberOf       \* the number stof makes of a numeric cell

ASSUME EvaluatorCells ==
    /\ EmptyCell \in Cells
    /\ Numeric \subseteq Cells \ {EmptyCell}
    /\ SecondDigit \subseteq Cells \ {EmptyCell}
    /\ NumberOf \in [Numeric -> Int]

\* What evaluating a comparison can lead to; "crash" ends the process.
Outcomes == {"true", "false", "crash"}

\* The end of EvaluateInequalityExpression, reached without a return.  The
\* makefile builds without optimisation: the caller takes what it finds.
NoReturn == {"true", "false"}

\* A union read through the wrong member, or a pointer to what is not there.
Undefined == Outcomes

Truth(b) == {IF b THEN "true" ELSE "false"}

(***************************************************************************)
(* Operands.  The four kinds, by the fields they have:                     *)
(*   [kind |-> "column", name |-> c]                                       *)
(*   [kind |-> "string", cell |-> s]                                       *)
(*   [kind |-> "arithmetic", first |-> n, rest |-> <<[op, num], ...>>]     *)
(*   [kind |-> "column_arithmetic", left |-> c, op |-> o, right |-> d]     *)
(* A chain of numbers is grouped from the left whatever its operators are: *)
(* the grammar gives all operators the same precedence.                    *)
(***************************************************************************)

\* getEvaluationType
EvaluationType(operand) ==
    IF operand.kind \in {"column", "string"} THEN "string" ELSE "arithmetic"

\* EvaluateStringExpression.  Looking up a column that the row does not have
\* with operator[] yields the empty string.
StringValue(operand, row) ==
    CASE operand.kind = "string"     -> operand.cell
      [] operand.kind = "column"     ->
            IF operand.name \in DOMAIN row THEN row[operand.name]
                                           ELSE EmptyCell

\* A quotient of integers, kept with a positive denominator.
Fraction(n, d) == IF d < 0 THEN [num |-> -n, den |-> -d]
                           ELSE [num |-> n, den |-> d]

CellNumber(cell) == Fraction(NumberOf[cell], 1)

\* The switch of EvaluateArithmeticExpression.  It computes a difference as
\* leftValue - leftValue.  Dividing by zero leaves a denominator of zero: an
\* infinite number or, if the numerator is zero as well, none.
Apply(left, op, right) ==
    CASE op = "+" -> Fraction(left.num * right.den + right.num * left.den,
                              left.den * right.den)
      [] op = "-" -> Fraction(0, left.den * left.den)
      [] op = "*" -> Fraction(left.num * right.num, left.den * right.den)
      [] op = "/" -> Fraction(left.num * right.den, left.den * right.num)

\* EvaluateArithmeticExpression, for an operand without columns.
ArithmeticValue(operand) ==
    LET value[n \in 0..Len(operand.rest)] ==
            IF n = 0
            THEN Fraction(operand.first, 1)
            ELSE Apply(value[n - 1], operand.rest[n].op,
                       Fraction(operand.rest[n].num, 1))
    IN  value[Len(operand.rest)]

(***************************************************************************)
(* One comparison: EvaluateInequalityExpression at a comparison operator.  *)
(***************************************************************************)

Operators == {"<=", "<", ">=", ">", "=", "<>"}

\* Mutant: the two ordering operators that admit equality do not.
CompareNumbersStrictly(left, op, right) ==
    LET l == left.num * right.den
        r == right.num * left.den
    IN  CASE op \in {"<=", "<"} -> l < r
          [] op \in {">=", ">"} -> l > r
          [] op = "="           -> l = r
          [] op = "<>"          -> l # r

\* What is not a number differs from everything, also from itself.
CompareNumbers(left, op, right) ==
    LET l == left.num * right.den
        r == right.num * left.den
    IN  IF [num |-> 0, den |-> 0] \in {left, right}
        THEN op = "<>"
        ELSE CASE op = "<=" -> l <= r
               [] op = "<"  -> l < r
               [] op = ">=" -> l >= r
               [] op = ">"  -> l > r
               [] op = "="  -> l = r
               [] op = "<>" -> l # r

\* Both operands are strings.  Whether they are compared as numbers depends
\* on the first two characters of the left one; stof of a right one that is
\* no number throws, and nobody catches it.
CompareStrings(left, op, right) ==
    CASE left \in Numeric /\ left \in SecondDigit ->
            IF right \in Numeric
            THEN Truth(CompareNumbers(CellNumber(left), op, CellNumber(right)))
            ELSE {"crash"}
      [] left \notin Numeric /\ left \notin SecondDigit /\ op = "=" ->
            Truth(left = right)
      [] left \notin Numeric /\ left \notin SecondDigit /\ op = "<>" ->
            Truth(left # right)
      [] OTHER -> NoReturn

\* The operand kinds decide which of the four branches of an operator runs.
\* A column inside an arithmetic expression is taken for an operator node:
\* its name is followed as if it were a pointer to an operand.
EvaluateComparison(c, row) ==
    LET left  == EvaluationType(c.left)
        right == EvaluationType(c.right)
        Mixed(cell, holds) == IF cell \in Numeric THEN Truth(holds)
                                                  ELSE NoReturn
    IN  CASE "column_arithmetic" \in {c.left.kind, c.right.kind} -> Undefined
          [] left = "string" /\ right = "string" ->
                CompareStrings(StringValue(c.left, row), c.op,
                               StringValue(c.right, row))
          [] left = "string" /\ right = "arithmetic" ->
                LET cell == StringValue(c.left, row)
                IN  Mixed(cell, CompareNumbers(CellNumber(cell), c.op,
                                               ArithmeticValue(c.right)))
          [] left = "arithmetic" /\ right = "string" ->
                LET cell == StringValue(c.right, row)
                IN  Mixed(cell, CompareNumbers(ArithmeticValue(c.left), c.op,
                                               CellNumber(cell)))
          [] left = "arithmetic" /\ right = "arithmetic" ->
                Truth(CompareNumbers(ArithmeticValue(c.left), c.op,
                                     ArithmeticValue(c.right)))

(***************************************************************************)
(* The chain: EvaluateInequalityExpression at AND and OR, which evaluate   *)
(* both sides before they look at either.                                  *)
(***************************************************************************)

Combine(left, connective, right) ==
    CASE "crash" \in {left, right} -> "crash"
      [] connective = "and" -> IF "false" \in {left, right} THEN "false"
                                                            ELSE "true"
      [] connective = "or"  -> IF "true" \in {left, right} THEN "true"
                                                           ELSE "false"

\* What evaluating the chain "where" on "row" can lead to.
EvaluateInequalityExpression(where, row) ==
    LET outcomes[n \in 1..Len(where)] ==
            IF n = 1
            THEN EvaluateComparison(where[1], row)
            ELSE {Combine(l, where[n].connective, r) :
                    l \in outcomes[n - 1],
                    r \in EvaluateComparison(where[n], row)}
    IN  outcomes[Len(where)]

(***************************************************************************)
(* What the chain means.                                                   *)
(***************************************************************************)

\* The number an arithmetic operand stands for.
TrueApply(left, op, right) ==
    IF op = "-" THEN Fraction(left.num * right.den - right.num * left.den,
                              left.den * right.den)
                ELSE Apply(left, op, right)

TrueArithmeticValue(operand) ==
    LET value[n \in 0..Len(operand.rest)] ==
            IF n = 0
            THEN Fraction(operand.first, 1)
            ELSE TrueApply(value[n - 1], operand.rest[n].op,
                           Fraction(operand.rest[n].num, 1))
    IN  value[Len(operand.rest)]

NumberValue(operand, row) ==
    CASE operand.kind \in {"column", "string"} ->
            CellNumber(StringValue(operand, row))
      [] operand.kind = "arithmetic" -> TrueArithmeticValue(operand)
      [] operand.kind = "column_arithmetic" ->
            TrueApply(CellNumber(row[operand.left]), operand.op,
                      CellNumber(row[operand.right]))

\* Operands that stand for a number, and those that stand for a text.  There
\* is no number a division by zero stands for.
IsNumber(operand, row) ==
    CASE operand.kind \in {"column", "string"} ->
            StringValue(operand, row) \in Numeric
      [] operand.kind = "arithmetic" -> TrueArithmeticValue(operand).den # 0
      [] operand.kind = "column_arithmetic" ->
            /\ {row[operand.left], row[operand.right]} \subseteq Numeric
            /\ NumberValue(operand, row).den # 0

IsText(operand, row) ==
    /\ operand.kind \in {"column", "string"}
    /\ StringValue(operand, row) \notin Numeric

\* The order of two numbers, and the orders that satisfy an operator.
Order(left, right) ==
    LET difference == TrueApply(left, "-", right).num
    IN  CASE difference < 0 -> "below"
          [] difference = 0 -> "equal"
          [] difference > 0 -> "above"

Admits(op) ==
    CASE op = "<=" -> {"below", "equal"}
      [] op = "<"  -> {"below"}
      [] op = ">=" -> {"equal", "above"}
      [] op = ">"  -> {"above"}
      [] op = "="  -> {"equal"}
      [] op = "<>" -> {"below", "above"}

\* A comparison that has a meaning: two numbers, or the equality of two
\* texts.
Meaningful(c, row) ==
    \/ IsNumber(c.left, row) /\ IsNumber(c.right, row)
    \/ /\ IsText(c.left, row) /\ IsText(c.right, row)
       /\ c.op \in {"=", "<>"}

Means(c, row) ==
    IF IsNumber(c.left, row)
    THEN Order(NumberValue(c.left, row), NumberValue(c.right, row))
            \in Admits(c.op)
    ELSE (c.op = "=") <=> (StringValue(c.left, row) = StringValue(c.right, row))

\* A chain grouped from the left holds when one of its comparisons does that
\* starts it or follows an OR, and every AND after it holds as well.
Satisfies(where, row) ==
    \E n \in DOMAIN where :
        /\ n = 1 \/ where[n].connective = "or"
        /\ Means(where[n], row)
        /\ \A m \in n+1..Len(where) :
                where[m].connective = "and" => Means(where[m], row)

ComputesWithColumns(operand) == operand.kind = "column_arithmetic"

Subtracts(operand) ==
    /\ operand.kind = "arithmetic"
    /\ \E n \in DOMAIN operand.rest : operand.rest[n].op = "-"

\* The comparisons the evaluator is able to decide.
Decidable(c, row) ==
    /\ Meaningful(c, row)
    /\ \A operand \in {c.left, c.right} :
          ~ComputesWithColumns(operand) /\ ~Subtracts(operand)
    /\ EvaluationType(c.left) = "string" /\ EvaluationType(c.right) = "string"
          => (StringValue(c.left, row) \in Numeric
                <=> StringValue(c.left, row) \in SecondDigit)
=============================================================================
