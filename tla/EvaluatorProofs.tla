-------------------------- MODULE EvaluatorProofs --------------------------
(***************************************************************************)
(* That the evaluator gives a WHERE clause its meaning, for chains of any  *)
(* length over any rows, wherever Decidable says that it can.              *)
(*                                                                         *)
(* The values of a chain and of an arithmetic operand are functions that   *)
(* are defined by recursion on the place in a sequence.  What such a       *)
(* function is follows from Unfolding: the recursive equation has a        *)
(* solution, since the least place up to which it has none does not exist. *)
(***************************************************************************)
EXTENDS WhereChain, WellFoundedInduction, TLAPS

(***************************************************************************)
(* Induction and recursion over an interval of the integers.               *)
(***************************************************************************)

\* A set of natural numbers with a member has a least one.
LEMMA LeastNumber ==
    ASSUME NEW T, T \subseteq Nat, T # {}
    PROVE  \E x \in T : \A y \in T : x <= y
<1> DEFINE R == OpToRel(<, Nat)
<1>1. IsWellFoundedOn(R, Nat)
    BY NatLessThanWellFounded
<1>2. PICK x \in T : \A y \in T : ~(<<y, x>> \in R)
    BY <1>1, WFMin
<1>3. ASSUME NEW y \in T PROVE x <= y
    <2>1. ~(y < x)
        BY <1>2 DEF OpToRel
    <2>2. QED
        BY <2>1
<1>4. QED
    BY <1>2, <1>3

\* A set that holds the first number of an interval, and the successor in it
\* of every number it holds, holds them all.
LEMMA StepUp ==
    ASSUME NEW k \in Int, NEW n \in Int, NEW P,
           k \in P, \A i \in k+1..n : i - 1 \in P => i \in P
    PROVE  \A i \in k..n : i \in P
<1> DEFINE T == {d \in Nat : k + d \in k..n /\ k + d \notin P}
<1>1. CASE T = {}
    <2>1. ASSUME NEW i \in k..n PROVE i \in P
        <3>1. i - k \in Nat /\ k + (i - k) = i
            OBVIOUS
        <3>2. i - k \notin T
            BY <1>1
        <3>3. QED
            BY <3>1, <3>2
    <2>2. QED
        BY <2>1
<1>2. CASE T # {}
    <2>1. T \subseteq Nat
        OBVIOUS
    <2> HIDE DEF T
    <2>2. PICK d \in T : \A e \in T : d <= e
        BY <1>2, <2>1, LeastNumber
    <2>3. d \in Nat /\ k + d \in k..n /\ k + d \notin P
        BY <2>2 DEF T
    <2>4. d # 0
        BY <2>3
    <2>5. d - 1 \in Nat /\ k + (d - 1) \in k..n /\ k + d \in k+1..n
          /\ k + (d - 1) = (k + d) - 1
        BY <2>3, <2>4
    <2>6. d - 1 \notin T
        BY <2>2, <2>3
    <2>7. k + (d - 1) \in P
        BY <2>5, <2>6 DEF T
    <2>8. QED
        BY <2>3, <2>5, <2>7
<1>3. QED
    BY <1>1, <1>2

\* The steps of a recursion of length n over the values V, and what it is
\* that they define.
Steps(step, n, V) == step \in [1..n -> [V -> V]]

Solves(f, n, V, first, step) ==
    /\ f \in [0..n -> V]
    /\ f[0] = first
    /\ \A i \in 1..n : f[i] = step[i][f[i - 1]]

\* A recursive equation over an interval has a solution.
LEMMA Unfolding ==
    ASSUME NEW V, NEW n \in Nat, NEW first \in V, NEW step, Steps(step, n, V)
    PROVE  \E f : Solves(f, n, V, first, step)
<1> DEFINE P == {m \in 0..n : \E f : Solves(f, m, V, first, step)}
<1>1. 0 \in P
    <2>1. Solves([i \in 0..0 |-> first], 0, V, first, step)
        BY DEF Solves
    <2>2. 0 \in 0..n
        OBVIOUS
    <2>3. QED
        BY <2>1, <2>2
<1>2. ASSUME NEW m \in 1..n, m - 1 \in P PROVE m \in P
    <2>1. PICK f : Solves(f, m - 1, V, first, step)
        BY <1>2
    <2> DEFINE g == [i \in 0..m |-> IF i = m THEN step[m][f[m - 1]] ELSE f[i]]
    <2>2. m - 1 \in 0..(m - 1) /\ m \in Int /\ m # 0 /\ m \in 0..n /\ 0 \in 0..m
        OBVIOUS
    <2>3. f[m - 1] \in V /\ step[m] \in [V -> V]
        BY <2>1, <2>2 DEF Solves, Steps
    <2>4. step[m][f[m - 1]] \in V
        BY <2>3
    <2>5. ASSUME NEW i \in 0..m, i # m PROVE f[i] \in V
        <3>1. i \in 0..(m - 1)
            BY <2>2, <2>5
        <3>2. QED
            BY <2>1, <3>1 DEF Solves
    <2>6. g \in [0..m -> V]
        BY <2>4, <2>5
    <2>7. g[0] = first
        BY <2>1, <2>2 DEF Solves
    <2>8. ASSUME NEW i \in 1..m PROVE g[i] = step[i][g[i - 1]]
        <3>1. i - 1 \in 0..m /\ i - 1 # m /\ i \in 0..m
            BY <2>2
        <3>2. g[i - 1] = f[i - 1]
            BY <3>1
        <3>3. CASE i = m
            BY <3>1, <3>2, <3>3
        <3>4. CASE i # m
            <4>1. i \in 1..(m - 1)
                BY <2>2, <3>4
            <4>2. QED
                BY <2>1, <3>1, <3>2, <3>4, <4>1 DEF Solves
        <3>5. QED
            BY <3>3, <3>4
    <2> HIDE DEF g
    <2>9. Solves(g, m, V, first, step)
        BY <2>6, <2>7, <2>8 DEF Solves
    <2>10. QED
        BY <2>2, <2>9
<1>3. n \in P
    <2>1. n \in 0..n /\ 0 \in Int /\ n \in Int /\ 0 + 1 = 1
        OBVIOUS
    <2> HIDE DEF P
    <2>2. QED
        BY <1>1, <1>2, <2>1, StepUp
<1>4. QED
    BY <1>3

(***************************************************************************)
(* Numbers and arithmetic operands.                                        *)
(***************************************************************************)

Number == [num : Int, den : Nat]

\* The denominator of a fraction is never negative.
LEMMA FractionIsNumber ==
    ASSUME NEW n \in Int, NEW d \in Int
    PROVE  Fraction(n, d) \in Number
BY DEF Fraction, Number

LEMMA IntegerIsNumber ==
    ASSUME NEW n \in Int
    PROVE  Fraction(n, 1) = [num |-> n, den |-> 1] /\ Fraction(n, 1) \in Number
BY DEF Fraction, Number

\* What the code computes of two numbers is a number, and so is what the
\* operator means.
LEMMA AppliedIsNumber ==
    ASSUME NEW left \in Number, NEW right \in Number, NEW op \in ArithmeticOps
    PROVE  /\ Apply(left, op, right) \in Number
           /\ TrueApply(left, op, right) \in Number
<1>1. /\ left.num \in Int /\ left.den \in Int
      /\ right.num \in Int /\ right.den \in Int
    BY DEF Number
<1>2. /\ left.num * right.den \in Int
      /\ right.num * left.den \in Int
      /\ left.den * right.den \in Int
      /\ left.num * right.num \in Int
      /\ left.den * right.num \in Int
      /\ left.den * left.den \in Int
      /\ 0 \in Int
    BY <1>1
<1>3. left.num * right.den + right.num * left.den \in Int
      /\ left.num * right.den - right.num * left.den \in Int
    BY <1>2
<1>4. Apply(left, op, right) \in Number
    <2>1. CASE op = "+"
        BY <2>1, <1>2, <1>3, FractionIsNumber DEF Apply
    <2>2. CASE op = "-"
        BY <2>2, <1>2, FractionIsNumber DEF Apply
    <2>3. CASE op = "*"
        BY <2>3, <1>2, FractionIsNumber DEF Apply
    <2>4. CASE op = "/"
        BY <2>4, <1>2, FractionIsNumber DEF Apply
    <2>5. QED
        BY <2>1, <2>2, <2>3, <2>4 DEF ArithmeticOps
<1>5. QED
    BY <1>2, <1>3, <1>4, FractionIsNumber DEF TrueApply

\* Without a difference, the code computes the number an operand stands for.
LEMMA ComputesTheNumber ==
    ASSUME NEW operand, operand.kind = "arithmetic", IsOperand(operand)
    PROVE  /\ TrueArithmeticValue(operand) \in Number
           /\ ~Subtracts(operand) =>
                 ArithmeticValue(operand) = TrueArithmeticValue(operand)
<1> DEFINE rest == operand.rest
           n == Len(rest)
           first == Fraction(operand.first, 1)
           Term(i) == Fraction(rest[i].num, 1)
           IsCode(f) == f = [i \in 0..n |->
               IF i = 0 THEN first ELSE Apply(f[i - 1], rest[i].op, Term(i))]
           IsMeant(f) == f = [i \in 0..n |->
               IF i = 0 THEN first
                        ELSE TrueApply(f[i - 1], rest[i].op, Term(i))]
<1>1. operand.first \in Int /\ rest \in Seq(Terms)
    BY DEF IsOperand, rest
<1> HIDE DEF rest
<1>2. n \in Nat
    BY <1>1
<1>3. first \in Number
    BY <1>1, IntegerIsNumber
<1>4. \A i \in 1..n : rest[i].op \in ArithmeticOps /\ Term(i) \in Number
    <2>1. ASSUME NEW i \in 1..n
          PROVE  rest[i].op \in ArithmeticOps /\ rest[i].num \in Int
        <3>1. rest[i] \in Terms
            BY <1>1
        <3>2. QED
            BY <3>1 DEF Terms
    <2>2. QED
        BY <2>1, IntegerIsNumber
<1>5. TrueArithmeticValue(operand) = (CHOOSE f : IsMeant(f))[n]
    BY DEF TrueArithmeticValue, rest
<1>6. ArithmeticValue(operand) = (CHOOSE f : IsCode(f))[n]
    BY DEF ArithmeticValue, rest
<1> HIDE DEF n, first, Term
<1>7. \E f \in [0..n -> Number] : IsMeant(f)
    <2> DEFINE step == [i \in 1..n |->
                  [v \in Number |-> TrueApply(v, rest[i].op, Term(i))]]
    <2>1. Steps(step, n, Number)
        BY <1>4, AppliedIsNumber DEF Steps
    <2>2. \A i \in 1..n, v \in Number :
             step[i][v] = TrueApply(v, rest[i].op, Term(i))
        OBVIOUS
    <2> HIDE DEF step
    <2>3. PICK f : Solves(f, n, Number, first, step)
        BY <1>2, <1>3, <2>1, Unfolding
    <2>4. ASSUME NEW i \in 0..n, i # 0
          PROVE  f[i] = TrueApply(f[i - 1], rest[i].op, Term(i))
        <3>1. i \in 1..n /\ i - 1 \in 0..n
            BY <1>2, <2>4
        <3>2. f[i] = step[i][f[i - 1]] /\ f[i - 1] \in Number
            BY <2>3, <3>1 DEF Solves
        <3>3. QED
            BY <2>2, <3>1, <3>2
    <2>6. f \in [0..n -> Number] /\ IsMeant(f)
        BY <2>3, <2>4 DEF Solves
    <2>7. QED
        BY <2>6
<1>8. TrueArithmeticValue(operand) \in Number
    <2> DEFINE meant == CHOOSE f : IsMeant(f)
    <2>1. IsMeant(meant)
        <3> HIDE DEF IsMeant
        <3>1. QED
            BY <1>7
    <2> HIDE DEF meant
    <2> DEFINE P == {i \in 0..n : meant[i] \in Number}
    <2>2. 0 \in P
        BY <1>2, <1>3, <2>1
    <2>3. ASSUME NEW i \in 0+1..n, i - 1 \in P PROVE i \in P
        <3>1. meant[i] = TrueApply(meant[i - 1], rest[i].op, Term(i))
            BY <1>2, <2>1
        <3>2. meant[i] \in Number
            BY <1>4, <2>3, <3>1, AppliedIsNumber
        <3>3. QED
            BY <3>2
    <2>4. n \in P
        <3>1. 0 \in Int /\ n \in Int /\ n \in 0..n
            BY <1>2
        <3> HIDE DEF P
        <3>2. QED
            BY <2>2, <2>3, <3>1, StepUp
    <2>5. QED
        BY <1>5, <2>4 DEF meant
<1>9. ASSUME ~Subtracts(operand)
      PROVE  ArithmeticValue(operand) = TrueArithmeticValue(operand)
    <2>1. ASSUME NEW i \in 1..n, NEW v
          PROVE  Apply(v, rest[i].op, Term(i))
                    = TrueApply(v, rest[i].op, Term(i))
        <3>1. rest[i].op # "-"
            BY <1>1, <1>9, <2>1 DEF Subtracts, rest, n
        <3>2. QED
            BY <3>1 DEF TrueApply
    <2>2. ASSUME NEW f PROVE IsCode(f) <=> IsMeant(f)
        <3>1. ASSUME NEW i \in 0..n, i # 0
              PROVE  Apply(f[i - 1], rest[i].op, Term(i))
                        = TrueApply(f[i - 1], rest[i].op, Term(i))
            <4>1. i \in 1..n
                BY <1>2, <3>1
            <4>2. QED
                BY <2>1, <4>1
        <3>2. QED
            BY <3>1
    <2> HIDE DEF IsCode, IsMeant
    <2>3. (CHOOSE f : IsCode(f)) = (CHOOSE f : IsMeant(f))
        BY <2>2
    <2>4. QED
        BY <1>5, <1>6, <2>3
<1>10. QED
    BY <1>8, <1>9

(***************************************************************************)
(* One comparison.                                                         *)
(***************************************************************************)

\* Comparing products of numerators and denominators decides the order of
\* two numbers, for every operator.
LEMMA ComparesByOrder ==
    ASSUME NEW left \in Number, NEW right \in Number, NEW op \in Operators,
           left.den # 0, right.den # 0
    PROVE  CompareNumbers(left, op, right) = (Order(left, right) \in Admits(op))
<1> DEFINE l == left.num * right.den
           r == right.num * left.den
           d == left.den * right.den
<1>1. /\ left.num \in Int /\ left.den \in Nat
      /\ right.num \in Int /\ right.den \in Nat
    BY DEF Number
<1>2. l \in Int /\ r \in Int /\ d \in Nat
    BY <1>1
<1>3. ~([num |-> 0, den |-> 0] \in {left, right})
    OBVIOUS
<1>4. TrueApply(left, "-", right).num = l - r
    <2>1. TrueApply(left, "-", right) = Fraction(l - r, d)
        BY DEF TrueApply
    <2>2. ~(d < 0)
        BY <1>2
    <2>3. QED
        BY <2>1, <2>2 DEF Fraction
<1>5. CompareNumbers(left, op, right)
        = CASE op = "<=" -> l <= r
            [] op = "<"  -> l < r
            [] op = ">=" -> l >= r
            [] op = ">"  -> l > r
            [] op = "="  -> l = r
            [] op = "<>" -> l # r
    BY <1>3 DEF CompareNumbers
<1>6. Order(left, right) = CASE l - r < 0 -> "below"
                             [] l - r = 0 -> "equal"
                             [] l - r > 0 -> "above"
    BY <1>4 DEF Order
<1> HIDE DEF l, r
<1>7. CASE l < r
    <2>1. Order(left, right) = "below"
        BY <1>2, <1>6, <1>7
    <2>2. QED
        BY <1>2, <1>5, <1>7, <2>1 DEF Admits, Operators
<1>8. CASE l = r
    <2>1. Order(left, right) = "equal"
        BY <1>2, <1>6, <1>8
    <2>2. QED
        BY <1>2, <1>5, <1>8, <2>1 DEF Admits, Operators
<1>9. CASE l > r
    <2>1. Order(left, right) = "above"
        BY <1>2, <1>6, <1>9
    <2>2. QED
        BY <1>2, <1>5, <1>9, <2>1 DEF Admits, Operators
<1>10. QED
    BY <1>2, <1>7, <1>8, <1>9

\* The number a cell stands for.
LEMMA CellIsNumber ==
    ASSUME NEW cell \in Numeric
    PROVE  CellNumber(cell) \in Number /\ CellNumber(cell).den # 0
<1>1. NumberOf[cell] \in Int
    BY EvaluatorCells
<1>2. QED
    BY <1>1, IntegerIsNumber DEF CellNumber

\* The number an operand stands for, and what the evaluator takes it for.
LEMMA OperandIsNumber ==
    ASSUME NEW operand, NEW r, IsOperand(operand), IsNumber(operand, r),
           ~ComputesWithColumns(operand), ~Subtracts(operand)
    PROVE  /\ NumberValue(operand, r) \in Number
           /\ NumberValue(operand, r).den # 0
           /\ operand.kind = "arithmetic" =>
                 ArithmeticValue(operand) = NumberValue(operand, r)
           /\ operand.kind # "arithmetic" =>
                 /\ operand.kind \in {"column", "string"}
                 /\ StringValue(operand, r) \in Numeric
                 /\ CellNumber(StringValue(operand, r))
                        = NumberValue(operand, r)
<1>1. CASE operand.kind = "arithmetic"
    <2>1. NumberValue(operand, r) = TrueArithmeticValue(operand)
        BY <1>1 DEF NumberValue
    <2>2. TrueArithmeticValue(operand).den # 0
        BY <1>1 DEF IsNumber
    <2>3. QED
        BY <1>1, <2>1, <2>2, ComputesTheNumber
<1>2. CASE operand.kind \in {"column", "string"}
    <2>1. NumberValue(operand, r) = CellNumber(StringValue(operand, r))
        BY <1>2 DEF NumberValue
    <2>2. StringValue(operand, r) \in Numeric
        BY <1>2 DEF IsNumber
    <2>3. QED
        BY <1>2, <2>1, <2>2, CellIsNumber
<1>3. QED
    BY <1>1, <1>2 DEF IsOperand, ComputesWithColumns

\* A comparison the evaluator can decide gets the one outcome it means.
LEMMA DecidesAComparison ==
    ASSUME NEW c, NEW r, IsComparison(c), Decidable(c, r)
    PROVE  EvaluateComparison(c, r) = Truth(Means(c, r))
<1> DEFINE left == StringValue(c.left, r)
           right == StringValue(c.right, r)
<1>1. /\ c.op \in Operators /\ IsOperand(c.left) /\ IsOperand(c.right)
      /\ ~ComputesWithColumns(c.left) /\ ~Subtracts(c.left)
      /\ ~ComputesWithColumns(c.right) /\ ~Subtracts(c.right)
    BY DEF IsComparison, Decidable
<1>2. /\ c.left.kind \in {"column", "string", "arithmetic"}
      /\ c.right.kind \in {"column", "string", "arithmetic"}
    BY <1>1 DEF IsOperand, ComputesWithColumns
<1>3. CASE IsNumber(c.left, r) /\ IsNumber(c.right, r)
    <2> DEFINE l == NumberValue(c.left, r)
               v == NumberValue(c.right, r)
    <2>1. /\ l \in Number /\ l.den # 0
          /\ c.left.kind = "arithmetic" => ArithmeticValue(c.left) = l
          /\ c.left.kind # "arithmetic" =>
                left \in Numeric /\ CellNumber(left) = l
        BY <1>1, <1>3, OperandIsNumber
    <2>2. /\ v \in Number /\ v.den # 0
          /\ c.right.kind = "arithmetic" => ArithmeticValue(c.right) = v
          /\ c.right.kind # "arithmetic" =>
                right \in Numeric /\ CellNumber(right) = v
        BY <1>1, <1>3, OperandIsNumber
    <2>3. Means(c, r) = CompareNumbers(l, c.op, v)
        BY <1>1, <1>3, <2>1, <2>2, ComparesByOrder DEF Means
    <2> HIDE DEF left, right, l, v
    <2>4. CASE c.left.kind = "arithmetic" /\ c.right.kind = "arithmetic"
        BY <2>1, <2>2, <2>3, <2>4 DEF EvaluateComparison, EvaluationType
    <2>5. CASE c.left.kind # "arithmetic" /\ c.right.kind = "arithmetic"
        BY <1>2, <2>1, <2>2, <2>3, <2>5
            DEF EvaluateComparison, EvaluationType, left
    <2>6. CASE c.left.kind = "arithmetic" /\ c.right.kind # "arithmetic"
        BY <1>2, <2>1, <2>2, <2>3, <2>6
            DEF EvaluateComparison, EvaluationType, right
    <2>7. CASE c.left.kind # "arithmetic" /\ c.right.kind # "arithmetic"
        <3>1. EvaluateComparison(c, r) = CompareStrings(left, c.op, right)
            BY <1>2, <2>7 DEF EvaluateComparison, EvaluationType, left, right
        <3>2. left \in SecondDigit
            BY <1>2, <2>1, <2>7 DEF Decidable, EvaluationType, left
        <3>3. QED
            BY <2>1, <2>2, <2>3, <2>7, <3>1, <3>2 DEF CompareStrings
    <2>8. QED
        BY <2>4, <2>5, <2>6, <2>7
<1>4. CASE IsText(c.left, r) /\ IsText(c.right, r) /\ c.op \in {"=", "<>"}
    <2>1. /\ c.left.kind \in {"column", "string"}
          /\ c.right.kind \in {"column", "string"}
        BY <1>4 DEF IsText
    <2>2. left \notin Numeric /\ left \notin SecondDigit
        BY <1>4, <2>1 DEF IsText, Decidable, EvaluationType
    <2>3. EvaluateComparison(c, r) = CompareStrings(left, c.op, right)
        BY <2>1 DEF EvaluateComparison, EvaluationType
    <2>4. CompareStrings(left, c.op, right)
            = Truth((c.op = "=") <=> (left = right))
        BY <1>4, <2>2 DEF CompareStrings
    <2>5. ~IsNumber(c.left, r)
        BY <2>1, <2>2 DEF IsNumber
    <2>6. QED
        BY <2>3, <2>4, <2>5 DEF Means
<1>5. QED
    BY <1>3, <1>4 DEF Decidable, Meaningful

(***************************************************************************)
(* Chains.                                                                 *)
(***************************************************************************)

\* The first n comparisons of a chain hold.
Holds(chain, r, n) ==
    \E j \in 1..n :
        /\ j = 1 \/ chain[j].connective = "or"
        /\ Means(chain[j], r)
        /\ \A m \in j+1..n : chain[m].connective = "and" => Means(chain[m], r)

\* One comparison more: both sides are evaluated, and combined.
LEMMA OneMoreHolds ==
    ASSUME NEW chain, NEW r, NEW n \in Nat, n >= 2,
           chain[n].connective \in {"and", "or"}
    PROVE  Holds(chain, r, n)
              <=> IF chain[n].connective = "and"
                  THEN Holds(chain, r, n - 1) /\ Means(chain[n], r)
                  ELSE Holds(chain, r, n - 1) \/ Means(chain[n], r)
<1> DEFINE And(m) == chain[m].connective = "and"
           Starts(j) == j = 1 \/ chain[j].connective = "or"
           Run(j, k) == \A m \in j+1..k : And(m) => Means(chain[m], r)
           H(k) == \E j \in 1..k : Starts(j) /\ Means(chain[j], r) /\ Run(j, k)
<1>1. Starts(n) <=> ~And(n)
    OBVIOUS
<1>2. ASSUME NEW j \in 1..n-1
      PROVE  Run(j, n) <=> Run(j, n - 1) /\ (And(n) => Means(chain[n], r))
    <2>1. \A m \in Int : m \in j+1..n <=> m \in j+1..n-1 \/ m = n
        OBVIOUS
    <2> HIDE DEF And
    <2>2. QED
        BY <2>1
<1>3. Run(n, n)
    OBVIOUS
<1>4. \A j \in Int : j \in 1..n <=> j \in 1..n-1 \/ j = n
    OBVIOUS
<1> HIDE DEF And, Starts, Run
<1>5. H(n) <=> \/ \E j \in 1..n-1 : Starts(j) /\ Means(chain[j], r) /\ Run(j, n)
               \/ Starts(n) /\ Means(chain[n], r)
    BY <1>3, <1>4
<1>6. H(n) <=> IF And(n) THEN H(n - 1) /\ Means(chain[n], r)
                         ELSE H(n - 1) \/ Means(chain[n], r)
    BY <1>1, <1>2, <1>5
<1>7. \A k \in Nat : Holds(chain, r, k) <=> H(k)
    BY DEF Holds, And, Starts, Run
<1>8. n \in Nat /\ n - 1 \in Nat
    OBVIOUS
<1> HIDE DEF H
<1>9. QED
    BY <1>6, <1>7, <1>8 DEF And

\* A chain the evaluator can decide gets the one outcome it means.
LEMMA DecidesAChain ==
    ASSUME NEW S, NEW chain \in Seq(S), NEW r, chain # <<>>,
           \A n \in DOMAIN chain :
              IsComparison(chain[n]) /\ Decidable(chain[n], r)
    PROVE  EvaluateInequalityExpression(chain, r) = Truth(Satisfies(chain, r))
<1> DEFINE last == Len(chain)
           Step(f, n) == {Combine(x, chain[n].connective, y) :
                            x \in f[n - 1],
                            y \in EvaluateComparison(chain[n], r)}
           IsCode(f) == f = [n \in 1..last |->
               IF n = 1 THEN EvaluateComparison(chain[1], r) ELSE Step(f, n)]
           meant == [n \in 1..last |-> Truth(Holds(chain, r, n))]
           code == CHOOSE f : IsCode(f)
<1>1. last \in Nat /\ last >= 1 /\ DOMAIN chain = 1..last
    OBVIOUS
<1>2. EvaluateInequalityExpression(chain, r) = code[last]
    BY DEF EvaluateInequalityExpression
<1>3. Satisfies(chain, r) = Holds(chain, r, last)
    BY <1>1 DEF Satisfies, Holds
<1>4. ASSUME NEW n \in 1..last
      PROVE  EvaluateComparison(chain[n], r) = Truth(Means(chain[n], r))
    BY <1>1, DecidesAComparison
<1> HIDE DEF last
<1>5. EvaluateComparison(chain[1], r) = Truth(Holds(chain, r, 1))
    <2>1. \A j : j \in 1..1 <=> j = 1
        OBVIOUS
    <2>2. \A m : m \notin 1+1..1
        OBVIOUS
    <2>3. Holds(chain, r, 1) <=> Means(chain[1], r)
        BY <2>1, <2>2 DEF Holds
    <2>4. EvaluateComparison(chain[1], r) = Truth(Means(chain[1], r))
        BY <1>1, <1>4
    <2>5. QED
        BY <2>3, <2>4 DEF Truth
<1>6. ASSUME NEW f, NEW n \in 2..last, f[n - 1] = Truth(Holds(chain, r, n - 1))
      PROVE  Step(f, n) = Truth(Holds(chain, r, n))
    <2> DEFINE op == chain[n].connective
               x == IF Holds(chain, r, n - 1) THEN "true" ELSE "false"
               y == IF Means(chain[n], r) THEN "true" ELSE "false"
    <2>1. n \in Nat /\ n >= 2 /\ n \in 1..last /\ op \in {"and", "or"}
        BY <1>1 DEF IsComparison
    <2>2. Holds(chain, r, n)
            <=> IF op = "and" THEN Holds(chain, r, n - 1) /\ Means(chain[n], r)
                              ELSE Holds(chain, r, n - 1) \/ Means(chain[n], r)
        BY <2>1, OneMoreHolds
    <2>3. f[n - 1] = {x}
        BY <1>6 DEF Truth
    <2>4. EvaluateComparison(chain[n], r) = {y}
        BY <1>4, <2>1 DEF Truth
    <2>5. Combine(x, op, y) = IF Holds(chain, r, n) THEN "true" ELSE "false"
        BY <2>1, <2>2 DEF Combine
    <2> HIDE DEF x, y
    <2>6. Step(f, n) = {Combine(x, op, y)}
        BY <2>3, <2>4
    <2> HIDE DEF Step, op
    <2>7. QED
        BY <2>5, <2>6 DEF Truth
<1> HIDE DEF Step
<1>7. IsCode(meant)
    <2>1. ASSUME NEW n \in 1..last
          PROVE  meant[n] = IF n = 1 THEN EvaluateComparison(chain[1], r)
                                     ELSE Step(meant, n)
        <3>1. CASE n = 1
            BY <1>5, <3>1
        <3>2. CASE n # 1
            <4>1. n \in 2..last /\ n - 1 \in 1..last
                BY <1>1, <3>2
            <4>2. meant[n - 1] = Truth(Holds(chain, r, n - 1))
                BY <4>1
            <4>3. QED
                BY <1>6, <3>2, <4>1, <4>2
        <3>3. QED
            BY <3>1, <3>2
    <2> HIDE DEF meant
    <2>2. meant = [n \in 1..last |-> meant[n]]
        BY DEF meant
    <2>3. QED
        BY <2>1, <2>2
<1>8. IsCode(code)
    <2> HIDE DEF IsCode
    <2>1. QED
        BY <1>7
<1> HIDE DEF code
<1>9. code[last] = Truth(Holds(chain, r, last))
    <2> DEFINE P == {n \in 1..last : code[n] = Truth(Holds(chain, r, n))}
    <2>1. 1 \in P
        BY <1>1, <1>5, <1>8
    <2>2. ASSUME NEW n \in 1+1..last, n - 1 \in P PROVE n \in P
        <3>1. n \in 2..last /\ n \in 1..last /\ n # 1
            BY <1>1
        <3>2. code[n] = Step(code, n)
            BY <1>8, <3>1
        <3>3. QED
            BY <1>6, <2>2, <3>1, <3>2
    <2>3. 1 \in Int /\ last \in Int /\ last \in 1..last
        BY <1>1
    <2> HIDE DEF P
    <2>4. last \in P
        BY <2>1, <2>2, <2>3, StepUp
    <2>5. QED
        BY <2>4 DEF P
<1>10. QED
    BY <1>2, <1>3, <1>9

(***************************************************************************)
(* The chains of the specification.                                        *)
(***************************************************************************)

\* A chain consists of what the grammar makes of comparisons.
ChainsAreComparisons ==
    /\ where \in Seq(Comparisons \cup MoreComparisons)
    /\ where # <<>>

LEMMA ComparisonsStay == ChainSpec => []ChainsAreComparisons
<1>1. ChainInit => ChainsAreComparisons
    <2>1. ASSUME NEW c \in Comparisons, where = <<c>>
          PROVE  ChainsAreComparisons
        BY <2>1 DEF ChainsAreComparisons
    <2>2. QED
        BY <2>1 DEF ChainInit
<1>2. ChainsAreComparisons /\ [ChainNext]_chainVars => ChainsAreComparisons'
    <2>1. ASSUME ChainsAreComparisons,
                 NEW c \in MoreComparisons, AddComparison(c)
          PROVE  ChainsAreComparisons'
        BY <2>1 DEF ChainsAreComparisons, AddComparison
    <2>2. ASSUME ChainsAreComparisons, UNCHANGED chainVars
          PROVE  ChainsAreComparisons'
        BY <2>2 DEF ChainsAreComparisons, chainVars
    <2>3. QED
        BY <2>1, <2>2 DEF ChainNext
<1>3. QED
    BY <1>1, <1>2, PTL DEF ChainSpec

\* Whatever the rows, the texts and numbers, and the length of the chain: a
\* WHERE clause of comparisons the evaluator can decide gets the one answer
\* it means.
THEOREM ChainsGetTheirMeaning == ChainSpec => []AnswersWhatTheChainMeans
<1>1. ChainsAreComparisons => AnswersWhatTheChainMeans
    <2>1. SUFFICES ASSUME ChainsAreComparisons,
                          \A n \in DOMAIN where : Decidable(where[n], row)
                   PROVE  EvaluateInequalityExpression(where, row)
                            = Truth(Satisfies(where, row))
        BY DEF AnswersWhatTheChainMeans
    <2>2. \A n \in DOMAIN where : IsComparison(where[n])
        <3>1. ASSUME NEW n \in DOMAIN where
              PROVE  where[n] \in Comparisons \cup MoreComparisons
            BY <2>1 DEF ChainsAreComparisons
        <3>2. QED
            BY <3>1, ComparisonsAssumption
    <2>3. QED
        BY <2>1, <2>2, DecidesAChain DEF ChainsAreComparisons
<1>2. QED
    BY <1>1, ComparisonsStay, PTL
=============================================================================
