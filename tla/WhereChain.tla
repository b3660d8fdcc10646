----------------------------- MODULE WhereChain -----------------------------
(***************************************************************************)
(* The chains of comparisons the grammar makes of WHERE clauses: a chain   *)
(* starts with a comparison and grows by one at a time, and the evaluator  *)
(* is asked about it, on the same row, whenever it has grown.              *)
(***************************************************************************)
EXTENDS Evaluator

CONSTANTS
    Rows,            \* the rows the chain is evaluated on
    Comparisons,     \* what a chain can start with
    MoreComparisons, \* what it can go on with
    MaxComparisons   \* bound: the length of the chain

\* What the lexer and the grammar make of an operand and of a comparison.
ArithmeticOps == {"+", "-", "*", "/"}

Terms == [op : ArithmeticOps, num : Int]

IsOperand(operand) ==
    \/ operand.kind \in {"column", "string", "column_arithmetic"}
    \/ /\ operand.kind = "arithmetic"
       /\ operand.first \in Int
       /\ operand.rest \in Seq(Terms)

IsComparison(c) ==
    /\ c.connective \in {"and", "or"}
    /\ c.op \in Operators
    /\ IsOperand(c.left) /\ IsOperand(c.right)

ASSUME ComparisonsAssumption ==
    \A c \in Comparisons \cup MoreComparisons : IsComparison(c)

VARIABLES row, where

chainVars == <<row, where>>

ChainInit ==
    /\ row \in Rows
    /\ where \in {<<c>> : c \in Comparisons}

AddComparison(c) ==
    /\ Len(where) < MaxComparisons
    /\ where' = Append(where, c)
    /\ UNCHANGED row

ChainNext == \E c \in MoreComparisons : AddComparison(c)

ChainSpec == ChainInit /\ [][ChainNext]_chainVars

(***************************************************************************)
(* What must hold.                                                         *)
(***************************************************************************)

\* A chain of comparisons that each have a meaning, and that the evaluator
\* can decide, gets exactly one answer, and it is what the chain means.
AnswersWhatTheChainMeans ==
    (\A n \in DOMAIN where : Decidable(where[n], row)) =>
        EvaluateInequalityExpression(where, row) = Truth(Satisfies(where, row))
=============================================================================
