--------------------------- MODULE FrontEndProofs ---------------------------
(***************************************************************************)
(* Theorems about the parser and the scanner: about Parser for all inputs, *)
(* every size of the node pool and every first and last size of its stack, *)
(* about Scanner for all texts and every first size of its buffer, and     *)
(* about FrontEnd, where they run together.                                *)
(***************************************************************************)
EXTENDS FrontEnd, ParserItems, SequenceTheorems, TLAPS

(***************************************************************************)
(* Facts about stacks                                                      *)
(***************************************************************************)

\* A stack is a sequence of whatever it holds.
IsStack(s) == \E S : s \in Seq(S)

LEMMA PushStack ==
    ASSUME NEW s, IsStack(s), NEW e
    PROVE  /\ IsStack(Append(s, e))
           /\ Len(s) \in Nat
           /\ Len(Append(s, e)) = Len(s) + 1
<1>1. PICK S : s \in Seq(S)
    BY DEF IsStack
<1>2. s \in Seq(S \cup {e})
    BY <1>1, SeqMonotonic
<1>3. /\ Append(s, e) \in Seq(S \cup {e})
      /\ Len(Append(s, e)) = Len(s) + 1
    BY <1>2, AppendProperties
<1>4. Len(s) \in Nat
    BY <1>1, LenProperties
<1>5. QED
    BY <1>3, <1>4 DEF IsStack

\* What is left of a stack when n entries have left it.
LEMMA PopStack ==
    ASSUME NEW s, IsStack(s), NEW n \in Nat
    PROVE  LET below == SubSeq(s, 1, Len(s) - n)
           IN  /\ IsStack(below)
               /\ Len(below) \in Nat
               /\ Len(below) <= Len(s)
               /\ n > 0 /\ Len(s) > 0 => Len(below) < Len(s)
<1>1. PICK S : s \in Seq(S)
    BY DEF IsStack
<1>2. Len(s) \in Nat
    BY <1>1, LenProperties
<1> DEFINE k == Len(s) - n
<1>3. k \in Int /\ k <= Len(s)
    BY <1>2
<1>4. \A i \in 1..k : s[i] \in S
    BY <1>1, <1>2, <1>3, ElementOfSeq
<1>5. /\ SubSeq(s, 1, k) \in Seq(S)
      /\ Len(SubSeq(s, 1, k)) = IF 1 <= k THEN k - 1 + 1 ELSE 0
    BY <1>3, <1>4, SubSeqProperties
<1> DEFINE below == SubSeq(s, 1, k)
<1>6. IsStack(below)
    BY <1>5 DEF IsStack
<1>7. /\ Len(below) \in Nat
      /\ Len(below) <= Len(s)
      /\ n > 0 /\ Len(s) > 0 => Len(below) < Len(s)
    <2> HIDE DEF below
    <2>1. Len(below) = IF 1 <= k THEN k - 1 + 1 ELSE 0
        BY <1>5 DEF below
    <2>2. QED
        BY <1>2, <1>3, <2>1
<1>8. QED
    BY <1>6, <1>7

\* No rule has a negative length.
LEMMA RuleLengths == \A r \in 1..NRules : At(yyr2, r) \in Nat
<1>1. yyr2 \in Seq(Nat) /\ Len(yyr2) = 80
    BY DEF yyr2
<1>2. \A r \in 1..NRules : r + 1 \in 1..Len(yyr2)
    BY <1>1 DEF NRules
<1>3. QED
    BY <1>1, <1>2, ElementOfSeq DEF At

(***************************************************************************)
(* The stack                                                               *)
(***************************************************************************)

\* StackFits is inductive once the stack is known to be one and to have room
\* for something.
StackInv ==
    /\ IsStack(yyss)
    /\ yystacksize \in Nat \ {0}
    /\ StackFits

LEMMA InitialStack == Init => StackInv
<1>1. SUFFICES ASSUME Init PROVE StackInv
    OBVIOUS
<1>2. yyss \in Seq({0}) /\ Len(yyss) = 1
    BY <1>1 DEF Init
<1>3. IsStack(yyss)
    BY <1>2 DEF IsStack
<1>4. QED
    BY <1>1, <1>2, <1>3, DepthAssumption DEF Init, StackInv, StackFits

\* A state is pushed only where StackFits has made room for it.
LEMMA PushFits ==
    ASSUME StackInv, pc \in {"yybackup", "yyerrlab1"},
           NEW state, NEW value, Push(state, value)
    PROVE  StackInv'
<1>1. /\ IsStack(yyss')
      /\ Len(yyss) \in Nat
      /\ Len(yyss') = Len(yyss) + 1
    BY PushStack DEF StackInv, Push
<1>2. QED
    BY <1>1, DepthAssumption DEF StackInv, StackFits, Push

\* A reduction pops at least nothing and pushes one state.
LEMMA ReplaceFits ==
    ASSUME StackInv, Decided, Rule \in 1..NRules, NEW value, Replace(value)
    PROVE  StackInv'
<1> DEFINE n == At(yyr2, Rule)
           below == SubSeq(yyss, 1, Len(yyss) - n)
           state == GotoFor(Last(below), At(yyr1, Rule))
<1>1. n \in Nat
    BY RuleLengths
<1>2. IsStack(yyss) /\ Len(yyss) \in Nat
    BY PushStack DEF StackInv
<1>3. yyss' = Append(below, state)
    BY DEF Replace
<1> HIDE DEF n, state
<1>4. /\ IsStack(below)
      /\ Len(below) \in Nat
      /\ Len(below) <= Len(yyss)
    BY <1>1, <1>2, PopStack
<1> HIDE DEF below
<1>5. IsStack(yyss') /\ Len(yyss') = Len(below) + 1
    BY <1>3, <1>4, PushStack
<1>6. /\ pc = "yybackup"
      /\ pc' = "yynewstate"
      /\ yystacksize' = yystacksize
    BY DEF Decided, Replace
<1>7. QED
    BY <1>2, <1>4, <1>5, <1>6, DepthAssumption DEF StackInv, StackFits

\* Every reduction is one of a rule the tables have.
LEMMA ReduceReplaces ==
    ASSUME Reduce
    PROVE  Decided /\ Rule \in 1..NRules /\ \E value : Replace(value)
<1>1. ASSUME NEW rules, rules \subseteq 1..NRules, Reducing(rules)
      PROVE  Decided /\ Rule \in 1..NRules
    BY <1>1 DEF Reducing
<1>2. \A value : Give(value) => \E v : Replace(v)
    BY DEF Give
<1>3. \A made : Build(made) => \E v : Replace(v)
    BY DEF Build
<1>4. CASE ReduceUnit
    BY <1>1, <1>2, <1>4 DEF ReduceUnit, NRules
<1>5. CASE ReduceParentheses
    BY <1>1, <1>2, <1>5 DEF ReduceParentheses, NRules
<1>6. CASE ReduceProgram
    BY <1>1, <1>2, <1>6 DEF ReduceProgram, NRules
<1>7. CASE ReduceClause
    BY <1>1, <1>2, <1>7 DEF ReduceClause, NRules
<1>8. CASE ReduceName
    BY <1>1, <1>3, <1>8 DEF ReduceName, NRules
<1>9. CASE ReduceOperator
    BY <1>1, <1>2, <1>9 DEF ReduceOperator, NRules
<1>10. CASE ReduceExpression
    BY <1>1, <1>3, <1>10 DEF ReduceExpression, NRules
<1>11. CASE ReduceCall
    BY <1>1, <1>3, <1>11 DEF ReduceCall, NRules
<1>12. FirstItem \/ NextItem => \E v : Replace(v)
    BY <1>3 DEF FirstItem, NextItem
<1>13. CASE ReduceFncargs \/ ReduceGrouplist \/ ReduceOrderlist
    BY <1>1, <1>12, <1>13
       DEF ReduceFncargs, ReduceGrouplist, ReduceOrderlist, NRules
<1>14. CASE ReduceProjection \/ ReduceColumnDecls
    BY <1>1, <1>12, <1>14 DEF ReduceProjection, ReduceColumnDecls, NRules
<1>15. CASE ReduceDataList
    BY <1>1, <1>3, <1>12, <1>15 DEF ReduceDataList, NRules
<1>16. CASE ReduceSortSpec
    BY <1>1, <1>3, <1>16 DEF ReduceSortSpec, NRules
<1>17. CASE ReduceOutcol \/ ReduceJoin
    BY <1>1, <1>3, <1>17 DEF ReduceOutcol, ReduceJoin, NRules
<1>18. CASE ReduceColumnDecl
    BY <1>1, <1>3, <1>18 DEF ReduceColumnDecl, NRules
<1>19. CASE ReduceSelect
    BY <1>1, <1>3, <1>19 DEF ReduceSelect, NRules
<1>20. QED
    BY <1>4, <1>5, <1>6, <1>7, <1>8, <1>9, <1>10, <1>11, <1>13, <1>14,
       <1>15, <1>16, <1>17, <1>18, <1>19 DEF Reduce

\* So does a statement that is carried out or skipped; others leave the stack.
LEMMA StatementFits ==
    ASSUME StackInv, Statement
    PROVE  StackInv'
<1>1. ASSUME NEW rules, rules \subseteq 1..NRules, Reducing(rules)
      PROVE  Decided /\ Rule \in 1..NRules
    BY <1>1 DEF Reducing
<1>2. ASSUME UNCHANGED stacks, pc' \in {"crashed", "quit"}
      PROVE  StackInv'
    BY <1>2 DEF StackInv, StackFits, stacks
<1>3. ASSUME NEW rules, rules \subseteq 1..NRules, Reducing(rules),
             NEW made, NEW value, Execute(made, value)
      PROVE  StackInv'
    <2>1. CASE UNCHANGED stacks /\ pc' = "crashed"
        BY <1>2, <2>1
    <2>2. CASE Replace(value)
        BY <1>1, <1>3, <2>2, ReplaceFits
    <2>3. QED
        BY <1>3, <2>1, <2>2 DEF Execute
<1>4. CASE ExecuteInsert
    <2>1. {5} \subseteq 1..NRules
        BY DEF NRules
    <2>2. QED
        BY <1>3, <1>4, <2>1 DEF ExecuteInsert
<1>5. CASE ExecuteSelect
    <2>1. {7} \subseteq 1..NRules
        BY DEF NRules
    <2>2. QED
        BY <1>3, <1>5, <2>1 DEF ExecuteSelect
<1>6. CASE ExecuteCreate
    <2>1. {10} \subseteq 1..NRules
        BY DEF NRules
    <2>2. QED
        BY <1>3, <1>6, <2>1 DEF ExecuteCreate
<1>7. CASE SkipStatement
    <2>1. {6, 8, 9, 11, 12, 14} \subseteq 1..NRules
        BY DEF NRules
    <2>2. QED
        BY <1>1, <1>7, <2>1, ReplaceFits DEF SkipStatement
<1>8. CASE DropTable
    <2>1. {13} \subseteq 1..NRules
        BY DEF NRules
    <2>2. QED
        BY <1>1, <1>8, <2>1, ReplaceFits DEF DropTable, Give
<1>9. CASE Quit
    BY <1>2, <1>9 DEF Quit
<1>10. QED
    BY <1>4, <1>5, <1>6, <1>7, <1>8, <1>9 DEF Statement

\* Entering a state: the stack grows when it is full, and there is room for
\* one state more when the parser goes on.
LEMMA EnterFits ==
    ASSUME StackInv, Enter
    PROVE  StackInv'
<1>1. IsStack(yyss) /\ Len(yyss) \in Nat
    BY PushStack DEF StackInv
<1>2. CASE GrowStack
    BY <1>1, <1>2, DepthAssumption DEF GrowStack, StackInv, StackFits
<1>3. CASE StackExhausted
    BY <1>3 DEF StackExhausted, StackInv, StackFits, stacks
<1>4. CASE AcceptAtEnd
    BY <1>4 DEF AcceptAtEnd, StackInv, StackFits, stacks
<1>5. CASE Settle
    BY <1>1, <1>5 DEF Settle, StackFull, StackInv, StackFits, stacks
<1>6. QED
    BY <1>2, <1>3, <1>4, <1>5 DEF Enter

LEMMA RecoverFits ==
    ASSUME StackInv, Recover
    PROVE  StackInv'
<1>1. IsStack(yyss) /\ Len(yyss) \in Nat
    BY PushStack DEF StackInv
<1>2. CASE DetectError \/ DiscardToken \/ AbortAtEnd
    BY <1>2 DEF DetectError, DiscardToken, AbortAtEnd, Erring, Decided,
                StackInv, StackFits, stacks
<1>3. CASE PopState
    <2>1. CASE UNCHANGED yyss /\ pc' = "main"
        BY <1>3, <2>1 DEF PopState, StackInv, StackFits
    <2>2. CASE yyss' = Front(yyss) /\ UNCHANGED pc
        <3>1. IsStack(Front(yyss)) /\ Len(Front(yyss)) \in Nat
              /\ Len(Front(yyss)) <= Len(yyss)
            BY <1>1, PopStack DEF Front
        <3>2. QED
            BY <1>1, <1>3, <2>2, <3>1, DepthAssumption
               DEF PopState, StackInv, StackFits
    <2>3. QED
        BY <1>3, <2>1, <2>2 DEF PopState
<1>4. CASE ShiftError
    <2>1. pc \in {"yybackup", "yyerrlab1"}
        BY <1>4 DEF ShiftError
    <2>2. \E state : Push(state, yylval)
        BY <1>4 DEF ShiftError
    <2>3. QED
        BY <2>1, <2>2, PushFits
<1>5. QED
    BY <1>2, <1>3, <1>4 DEF Recover

LEMMA StepKeepsStack ==
    ASSUME StackInv, [Next]_vars
    PROVE  StackInv'
<1>1. CASE CallParser
    <2>1. yyss' \in Seq({0}) /\ Len(yyss') = 1
        BY <1>1 DEF CallParser
    <2>2. IsStack(yyss')
        BY <2>1 DEF IsStack
    <2>3. QED
        BY <1>1, <2>1, <2>2, DepthAssumption DEF CallParser, StackInv, StackFits
<1>2. CASE Scan
    BY <1>2 DEF Scan, ReadToken, ReadWord, ReadWordIntoFullPool, NeedsToken,
                TakeToken, StackInv, StackFits, stacks
<1>3. CASE Enter
    BY <1>3, EnterFits
<1>4. CASE Shift
    BY <1>4, PushFits DEF Shift, Decided
<1>5. CASE Reduce
    BY <1>5, ReduceReplaces, ReplaceFits
<1>6. CASE Statement
    BY <1>6, StatementFits
<1>7. CASE Recover
    BY <1>7, RecoverFits
<1>8. CASE UNCHANGED vars
    BY <1>8 DEF vars, stacks, StackInv, StackFits
<1>9. QED
    BY <1>1, <1>2, <1>3, <1>4, <1>5, <1>6, <1>7, <1>8 DEF Next

\* The parser's stacks are never written past their end, whatever is typed
\* and whatever the sizes are: yyparse tests the room before it decides.
THEOREM StackAlwaysFits == Spec => []StackFits
<1>1. Init => StackInv
    BY InitialStack
<1>2. StackInv /\ [Next]_vars => StackInv'
    BY StepKeepsStack
<1>3. StackInv => StackFits
    BY DEF StackInv
<1>4. QED
    BY <1>1, <1>2, <1>3, PTL DEF Spec

(***************************************************************************)
(* The parser's tables agree with the items: a state that is shifted or    *)
(* gone to follows the state below it, and a rule is reduced only where all *)
(* its symbols have been read.  So a reduction finds on the stack what its *)
(* rule says.                                                              *)
(***************************************************************************)

\* Entry j of the table is in the row of a state, under a token.
InRow(s, k, j) ==
    /\ At(yypact, s) # YYPACT_NINF
    /\ At(yypact, s) + k = j
    /\ At(yycheck, j) = k

\* What a row shifts a token to is a state whose symbol is the token.
LEMMA ShiftedState ==
    ASSUME NEW s \in States, NEW k \in 0..49, NEW j \in 0..YYLAST,
           InRow(s, k, j), At(yytable, j) > 0
    PROVE  At(yytable, j) \in States \ {0} /\ At(yystos, At(yytable, j)) = k
BY SMTT(100) DEF InRow, States, NStates, YYLAST, YYPACT_NINF, At, yypact,
                 yycheck, yytable, yystos

\* A rule that the shifted state has begun may begin in the state below.
LEMMA ShiftedBegins ==
    ASSUME NEW s \in States, NEW k \in 0..49, NEW j \in 0..YYLAST,
           InRow(s, k, j),
           NEW t \in States, At(yytable, j) = t,
           NEW r \in 1..NRules, Read(t, r, 1),
           NEW A \in 50..74, At(yyr1, r) = A
    PROVE  MayBegin(s, A)
BY SMTT(100) DEF InRow, States, NStates, NRules, YYLAST, YYPACT_NINF, At,
                 yypact, yycheck, yytable, yyr1, Items, Read, Beginnings,
                 MayBegin

\* A rule the shifted state is further into was read up to there below.
LEMMA ShiftedGoesOn ==
    ASSUME NEW s \in States, NEW k \in 0..49, NEW j \in 0..YYLAST,
           InRow(s, k, j),
           NEW t \in States, At(yytable, j) = t,
           NEW r \in 1..NRules, NEW d \in 2..9, Read(t, r, d)
    PROVE  Read(s, r, d - 1)
BY SMTT(100) DEF InRow, States, NStates, NRules, YYLAST, YYPACT_NINF, At,
                 yypact, yycheck, yytable, Items, Read

\* The left side of every rule is a nonterminal, and no rule is longer than
\* nine symbols.
LEMMA RuleShape ==
    ASSUME NEW r \in 1..NRules
    PROVE  /\ At(yyr1, r) \in 50..74
           /\ r # 1 => At(yyr1, r) \in 51..74
           /\ At(yyr2, r) \in 0..9
BY SMTT(30) DEF NRules, At, yyr1, yyr2

\* A state that is shifted follows the one it is shifted on, and is entered
\* by the token.
LEMMA ShiftFollows ==
    ASSUME NEW s \in States, ~IsDefault(s),
           NEW k \in 0..49, HasEntry(At(yypact, s), k),
           At(yytable, At(yypact, s) + k) > 0
    PROVE  LET t == At(yytable, At(yypact, s) + k)
           IN  /\ t \in States \ {0}
               /\ At(yystos, t) = k
               /\ Follows(s, t)
<1> DEFINE j == At(yypact, s) + k
           t == At(yytable, j)
<1>1. j \in 0..YYLAST /\ InRow(s, k, j)
    BY DEF HasEntry, InRow, IsDefault
<1> HIDE DEF j
<1>2. t \in States \ {0} /\ At(yystos, t) = k
    BY <1>1, ShiftedState DEF j
<1>3. ASSUME NEW r \in 1..NRules, NEW d \in 1..9, Read(t, r, d)
      PROVE  IF d = 1 THEN MayBegin(s, At(yyr1, r))
                      ELSE Read(s, r, d - 1)
    <2>1. CASE d = 1
        BY <1>1, <1>2, <1>3, <2>1, ShiftedBegins, RuleShape
    <2>2. CASE d # 1
        <3>1. d \in 2..9
            BY <2>2
        <3>2. QED
            BY <1>1, <1>2, <1>3, <2>2, <3>1, ShiftedGoesOn
    <2>3. QED
        BY <2>1, <2>2
<1>4. Follows(s, t)
    BY <1>3 DEF Follows
<1>5. QED
    BY <1>2, <1>4 DEF j

\* Where the column of a nonterminal in the table has no entry for a state,
\* the usual state is gone to.
InColumn(p, A, j) ==
    /\ At(yypgoto, A - YYNTOKENS) + p = j
    /\ At(yycheck, j) = p

\* The same three facts for an entry of the table of gotos.
LEMMA EnteredState ==
    ASSUME NEW p \in States, NEW A \in 51..74, MayBegin(p, A),
           NEW j \in 0..YYLAST, InColumn(p, A, j)
    PROVE  At(yytable, j) \in States \ {0} /\ At(yystos, At(yytable, j)) = A
BY SMTT(60) DEF InColumn, States, NStates, YYNTOKENS, YYLAST, At, yypgoto,
                yycheck, yytable, yystos, Beginnings, MayBegin

\* A rule begun by the left side may begin where the left side may.
LEMMA EnteredBegins ==
    ASSUME NEW p \in States, NEW A \in 51..74, MayBegin(p, A),
           NEW j \in 0..YYLAST, InColumn(p, A, j),
           NEW t \in States, At(yytable, j) = t,
           NEW r \in 1..NRules, Read(t, r, 1),
           NEW B \in 50..74, At(yyr1, r) = B
    PROVE  MayBegin(p, B)
BY SMTT(60) DEF InColumn, States, NStates, NRules, YYNTOKENS, YYLAST, At,
                yypgoto, yycheck, yytable, yyr1, Items, Read, Beginnings,
                MayBegin

\* A rule the state gone to is further into was read up to there below.
LEMMA EnteredGoesOn ==
    ASSUME NEW p \in States, NEW A \in 51..74, MayBegin(p, A),
           NEW j \in 0..YYLAST, InColumn(p, A, j),
           NEW t \in States, At(yytable, j) = t,
           NEW r \in 1..NRules, NEW d \in 2..9, Read(t, r, d)
    PROVE  Read(p, r, d - 1)
BY SMTT(60) DEF InColumn, States, NStates, NRules, YYNTOKENS, YYLAST, At,
                yypgoto, yycheck, yytable, Items, Read, Beginnings, MayBegin

Absent(p, A) ==
    LET j == At(yypgoto, A - YYNTOKENS) + p
    IN  j \notin 0..YYLAST \/ At(yycheck, j) # p

UsualState(A) == At(yydefgoto, A - YYNTOKENS)

\* The same three facts where the table of gotos has no entry.
LEMMA UsualIsEntered ==
    ASSUME NEW p \in States, NEW A \in 51..74, MayBegin(p, A),
           Absent(p, A)
    PROVE  UsualState(A) \in States \ {0} /\ At(yystos, UsualState(A)) = A
BY SMTT(60) DEF Absent, UsualState, States, NStates, YYNTOKENS, YYLAST, At,
                yypgoto, yycheck, yydefgoto, yystos, Beginnings, MayBegin

\* A rule begun in the usual state may begin in the state below.
LEMMA UsualBegins ==
    ASSUME NEW p \in States, NEW A \in 51..74, MayBegin(p, A),
           Absent(p, A),
           NEW t \in States, UsualState(A) = t,
           NEW r \in 1..NRules, Read(t, r, 1),
           NEW B \in 50..74, At(yyr1, r) = B
    PROVE  MayBegin(p, B)
BY SMTT(60) DEF Absent, UsualState, States, NStates, NRules, YYNTOKENS,
                YYLAST, At, yypgoto, yycheck, yydefgoto, yyr1, Items, Read,
                Beginnings, MayBegin

\* A rule the usual state is further into was read up to there below.
LEMMA UsualGoesOn ==
    ASSUME NEW p \in States, NEW A \in 51..74, MayBegin(p, A),
           Absent(p, A),
           NEW t \in States, UsualState(A) = t,
           NEW r \in 1..NRules, NEW d \in 2..9, Read(t, r, d)
    PROVE  Read(p, r, d - 1)
BY SMTT(60) DEF Absent, UsualState, States, NStates, NRules, YYNTOKENS,
                YYLAST, At, yypgoto, yycheck, yydefgoto, Items, Read,
                Beginnings, MayBegin

\* Follows, from its two halves.
LEMMA FollowsByItems ==
    ASSUME NEW p \in States, NEW t \in States,
           \A r \in 1..NRules : \A A \in 50..74 :
              Read(t, r, 1) /\ At(yyr1, r) = A
                 => MayBegin(p, A),
           \A r \in 1..NRules : \A d \in 2..9 :
              Read(t, r, d) => Read(p, r, d - 1)
    PROVE  Follows(p, t)
<1>1. SUFFICES ASSUME NEW r \in 1..NRules, NEW d \in 1..9,
                      Read(t, r, d)
               PROVE  IF d = 1 THEN MayBegin(p, At(yyr1, r))
                               ELSE Read(p, r, d - 1)
    BY DEF Follows
<1>2. CASE d = 1
    BY <1>1, <1>2, RuleShape
<1>3. CASE d # 1
    <2>1. d \in 2..9
        BY <1>3
    <2>2. QED
        BY <1>1, <1>3, <2>1
<1>4. QED
    BY <1>2, <1>3

\* The state after a nonterminal follows the one it begins in, and is entered
\* by it.
LEMMA GotoFollows ==
    ASSUME NEW p \in States, NEW A \in 51..74, MayBegin(p, A)
    PROVE  /\ GotoFor(p, A) \in States \ {0}
           /\ At(yystos, GotoFor(p, A)) = A
           /\ Follows(p, GotoFor(p, A))
<1> DEFINE j == At(yypgoto, A - YYNTOKENS) + p
<1>1. CASE j \in 0..YYLAST /\ At(yycheck, j) = p
    <2>1. InColumn(p, A, j)
        BY <1>1 DEF InColumn
    <2>2. GotoFor(p, A) = At(yytable, j)
        BY <1>1 DEF GotoFor
    <2> HIDE DEF j
    <2>3. At(yytable, j) \in States \ {0} /\ At(yystos, At(yytable, j)) = A
        BY <1>1, <2>1, EnteredState
    <2>4. Follows(p, At(yytable, j))
        BY <1>1, <2>1, <2>3, EnteredBegins, EnteredGoesOn, FollowsByItems
    <2>5. QED
        BY <2>2, <2>3, <2>4
<1>2. CASE ~(j \in 0..YYLAST /\ At(yycheck, j) = p)
    <2>1. Absent(p, A)
        BY <1>2 DEF Absent
    <2>2. GotoFor(p, A) = UsualState(A)
        BY <1>2 DEF GotoFor, UsualState
    <2>3. UsualState(A) \in States \ {0} /\ At(yystos, UsualState(A)) = A
        BY <2>1, UsualIsEntered
    <2>4. Follows(p, UsualState(A))
        BY <2>1, <2>3, UsualBegins, UsualGoesOn, FollowsByItems
    <2>5. QED
        BY <2>2, <2>3, <2>4
<1>3. QED
    BY <1>1, <1>2

-----------------------------------------------------------------------------
\* A rule may be reduced in a state: it has been read to its end there, or
\* there was nothing to read.
Completes(s, r) ==
    /\ r \in 2..NRules
    /\ IF At(yyr2, r) = 0
       THEN MayBegin(s, At(yyr1, r))
       ELSE Read(s, r, At(yyr2, r))

\* The default of a state is a rule, and only the final state's is the first.
LEMMA DefaultRule ==
    ASSUME NEW s \in States
    PROVE  At(yydefact, s) \in 0..NRules
           /\ (s # YYFINAL => At(yydefact, s) # 1)
BY SMTT(60) DEF States, NStates, NRules, YYFINAL, At, yydefact

\* A default reduction finds all the symbols of its rule read.
LEMMA DefaultRead ==
    ASSUME NEW s \in States, s # YYFINAL,
           NEW r \in 2..NRules, At(yydefact, s) = r,
           NEW n \in 1..9, At(yyr2, r) = n
    PROVE  Read(s, r, n)
BY SMTT(60) DEF States, NStates, NRules, YYFINAL, At, yydefact, yyr2, Items,
   Read

\* A default reduction of an empty rule may begin where it is done.
LEMMA DefaultBegins ==
    ASSUME NEW s \in States, s # YYFINAL,
           NEW r \in 2..NRules, At(yydefact, s) = r, At(yyr2, r) = 0,
           NEW A \in 50..74, At(yyr1, r) = A
    PROVE  MayBegin(s, A)
BY SMTT(60) DEF States, NStates, NRules, YYFINAL, At, yydefact, yyr1, yyr2,
                Beginnings, MayBegin

LEMMA DefaultCompletes ==
    ASSUME NEW s \in States, s # YYFINAL, At(yydefact, s) # 0
    PROVE  Completes(s, At(yydefact, s))
<1>1. At(yydefact, s) \in 2..NRules
    BY DefaultRule DEF NRules
<1>2. At(yydefact, s) \in 1..NRules
    BY <1>1
<1>3. PICK r \in 2..NRules : At(yydefact, s) = r
    BY <1>1
<1>4. CASE At(yyr2, r) = 0
    BY <1>2, <1>3, <1>4, RuleShape, DefaultBegins DEF Completes
<1>5. CASE At(yyr2, r) # 0
    <2>1. At(yyr2, r) \in 1..9
        BY <1>2, <1>3, <1>5, RuleShape
    <2>2. QED
        BY <1>3, <1>5, <2>1, DefaultRead DEF Completes
<1>6. QED
    BY <1>4, <1>5

\* The table itself holds only one rule: a name is the name of a column.
LEMMA OnlyRuleInTable ==
    ASSUME NEW j \in 0..YYLAST
    PROVE  At(yytable, j) \in Int
           /\ (At(yytable, j) < 0 => At(yytable, j) + 16 = 0)
BY SMTT(60) DEF YYLAST, At, yytable

\* Where the table reduces rule 16, a name has been read.
LEMMA NameIsRead ==
    ASSUME NEW s \in States, NEW k \in 0..49, NEW j \in 0..YYLAST,
           InRow(s, k, j), At(yytable, j) + 16 = 0
    PROVE  Read(s, 16, 1)
BY SMTT(60) DEF InRow, States, NStates, YYLAST, YYPACT_NINF, At, yypact,
                yycheck, yytable, Items, Read

\* Whatever the tables decide to reduce may be reduced.
LEMMA ActionCompletes ==
    ASSUME NEW s \in States, s # YYFINAL, ~IsDefault(s), NEW k \in 0..49,
           ActionFor(s, k) < 0
    PROVE  Completes(s, -ActionFor(s, k))
<1> DEFINE j == At(yypact, s) + k
<1>1. CASE HasEntry(At(yypact, s), k)
    <2>1. j \in 0..YYLAST /\ InRow(s, k, j) /\ ActionFor(s, k) = At(yytable, j)
        BY <1>1 DEF HasEntry, InRow, IsDefault, ActionFor
    <2> HIDE DEF j
    <2>2. At(yytable, j) + 16 = 0
        BY <2>1, OnlyRuleInTable
    <2>3. Read(s, 16, 1)
        BY <2>1, <2>2, NameIsRead
    <2>4. At(yyr2, 16) = 1
        BY DEF At, yyr2
    <2>5. -ActionFor(s, k) = 16
        <3>1. ActionFor(s, k) \in Int /\ ActionFor(s, k) + 16 = 0
            BY <2>1, <2>2, OnlyRuleInTable
        <3>2. QED
            BY <3>1
    <2>6. QED
        BY <2>3, <2>4, <2>5 DEF Completes, NRules
<1>2. CASE ~HasEntry(At(yypact, s), k)
    <2>1. ActionFor(s, k) = -At(yydefact, s)
        BY <1>2 DEF ActionFor
    <2>2. At(yydefact, s) \in Int
        BY DefaultRule DEF NRules
    <2>3. At(yydefact, s) # 0 /\ -ActionFor(s, k) = At(yydefact, s)
        BY <2>1, <2>2
    <2>4. QED
        BY <2>3, DefaultCompletes
<1>3. QED
    BY <1>1, <1>2

\* A decision to shift is in the table.
LEMMA ActionShifts ==
    ASSUME NEW s \in States, ~IsDefault(s), NEW k \in 0..49,
           ActionFor(s, k) > 0
    PROVE  /\ HasEntry(At(yypact, s), k)
           /\ ActionFor(s, k) = At(yytable, At(yypact, s) + k)
<1>1. At(yydefact, s) \in Nat
    BY DefaultRule DEF NRules
<1>2. QED
    BY <1>1 DEF ActionFor

-----------------------------------------------------------------------------
(***************************************************************************)
(* The stack of states                                                     *)
(***************************************************************************)

\* Each state follows the one below it, and only the lowest is the first.
Linked(ss) ==
    /\ ss \in Seq(States)
    /\ Len(ss) > 0
    /\ ss[1] = 0
    /\ \A i \in 2..Len(ss) : ss[i] # 0 /\ Follows(ss[i - 1], ss[i])

\* The first state has read nothing.
LEMMA NothingReadAtFirst ==
    ASSUME NEW r \in 1..NRules, NEW d \in 1..9
    PROVE  ~Read(0, r, d)
BY SMTT(30) DEF NRules, Items, Read

\* Pushing a state that follows the top keeps the stack linked.
LEMMA PushLinked ==
    ASSUME NEW ss, Linked(ss), NEW t \in States \ {0}, Follows(ss[Len(ss)], t)
    PROVE  Linked(Append(ss, t))
<1>1. /\ Append(ss, t) \in Seq(States)
      /\ Len(ss) \in Nat
      /\ Len(Append(ss, t)) = Len(ss) + 1
      /\ \A i \in 1..Len(ss) : Append(ss, t)[i] = ss[i]
      /\ Append(ss, t)[Len(ss) + 1] = t
    BY AppendProperties DEF Linked
<1>2. ASSUME NEW i \in 2..(Len(ss) + 1)
      PROVE  Append(ss, t)[i] # 0
             /\ Follows(Append(ss, t)[i - 1], Append(ss, t)[i])
    <2>1. CASE i <= Len(ss)
        <3>1. i \in 2..Len(ss) /\ i \in 1..Len(ss) /\ i - 1 \in 1..Len(ss)
            BY <1>1, <2>1
        <3>2. QED
            BY <1>1, <3>1 DEF Linked
    <2>2. CASE i = Len(ss) + 1
        <3>1. i - 1 = Len(ss) /\ Len(ss) \in 1..Len(ss)
            BY <1>1, <2>2 DEF Linked
        <3>2. QED
            BY <1>1, <2>2, <3>1
    <2>3. QED
        BY <1>1, <2>1, <2>2
<1>3. 1 \in 1..Len(ss)
    BY <1>1 DEF Linked
<1>4. QED
    BY <1>1, <1>2, <1>3 DEF Linked

\* So does popping, and what is left is unchanged.
LEMMA PopLinked ==
    ASSUME NEW ss, Linked(ss), NEW m \in 1..Len(ss)
    PROVE  /\ Linked(SubSeq(ss, 1, m))
           /\ Len(SubSeq(ss, 1, m)) = m
           /\ \A i \in 1..m : SubSeq(ss, 1, m)[i] = ss[i]
<1>1. /\ Len(ss) \in Nat
      /\ m \in Nat
      /\ m <= Len(ss)
      /\ \A i \in 1..m : ss[i] \in States
    BY ElementOfSeq DEF Linked
<1>2. /\ SubSeq(ss, 1, m) \in Seq(States)
      /\ Len(SubSeq(ss, 1, m)) = m
      /\ \A i \in 1..m : SubSeq(ss, 1, m)[i] = ss[i]
    BY <1>1, SubSeqProperties
<1>3. ASSUME NEW i \in 2..m
      PROVE  /\ SubSeq(ss, 1, m)[i] # 0
             /\ Follows(SubSeq(ss, 1, m)[i - 1], SubSeq(ss, 1, m)[i])
    <2>1. i \in 1..m /\ i - 1 \in 1..m /\ i \in 2..Len(ss)
        BY <1>1
    <2>2. QED
        BY <1>2, <2>1 DEF Linked
<1>4. 1 \in 1..m
    BY <1>1
<1>5. QED
    BY <1>1, <1>2, <1>3, <1>4 DEF Linked

\* When a rule may be reduced, its symbols are on the stack, each where it
\* was read, and its left side may begin below them.
LEMMA HandleOnStack ==
    ASSUME NEW ss, Linked(ss), NEW r, Completes(ss[Len(ss)], r)
    PROVE  LET n == At(yyr2, r)
           IN  /\ n \in 0..9
               /\ n < Len(ss)
               /\ \A k \in 1..n : Read(ss[Len(ss) - n + k], r, k)
               /\ MayBegin(ss[Len(ss) - n], At(yyr1, r))
<1> DEFINE n == At(yyr2, r)
           D(k) == /\ Len(ss) - n + k >= 2
                   /\ Read(ss[Len(ss) - n + k], r, k)
<1>1. r \in 1..NRules /\ n \in 0..9
    <2>1. r \in 1..NRules
        BY DEF Completes, NRules
    <2>2. QED
        BY <2>1, RuleShape
<1>2. /\ Len(ss) \in Nat
      /\ Len(ss) >= 1
      /\ \A i \in 1..Len(ss) : ss[i] \in States
    BY ElementOfSeq DEF Linked
<1>3. CASE n = 0
    BY <1>1, <1>2, <1>3 DEF Completes
<1>4. CASE n > 0
    <2> HIDE DEF n
    <2>1. \A i \in 1..Len(ss), d \in 1..9 : Read(ss[i], r, d) => i >= 2
        <3>1. SUFFICES ASSUME NEW i \in 1..Len(ss), NEW d \in 1..9, i = 1
                       PROVE  ~Read(ss[i], r, d)
            BY <1>2
        <3>2. ss[i] = 0
            BY <3>1 DEF Linked
        <3>3. QED
            BY <1>1, <3>2, NothingReadAtFirst
    <2>2. D(n)
        <3>1. Len(ss) - n + n = Len(ss)
            BY <1>1, <1>2
        <3>2. Read(ss[Len(ss)], r, n)
            BY <1>4 DEF Completes, n
        <3>3. Len(ss) \in 1..Len(ss) /\ n \in 1..9
            BY <1>1, <1>2, <1>4
        <3>4. QED
            BY <2>1, <3>1, <3>2, <3>3
    <2>3. ASSUME NEW k \in 1..8, k < n, D(k + 1)
          PROVE  D(k)
        <3>1. /\ Len(ss) - n + (k + 1) \in 2..Len(ss)
              /\ (Len(ss) - n + (k + 1)) - 1 = Len(ss) - n + k
              /\ Len(ss) - n + k \in 1..Len(ss)
              /\ k + 1 \in 1..9
              /\ k + 1 # 1
              /\ (k + 1) - 1 = k
              /\ k \in 1..9
            BY <1>1, <1>2, <2>3
        <3>2. Follows(ss[Len(ss) - n + k], ss[Len(ss) - n + (k + 1)])
            BY <3>1 DEF Linked
        <3>3. Read(ss[Len(ss) - n + k], r, k)
            BY <1>1, <2>3, <3>1, <3>2 DEF Follows
        <3>4. QED
            BY <2>1, <3>1, <3>3
    <2>4. \A k \in 1..n : D(k)
        <3> DEFINE P(k) == k <= n => D(k)
        <3>1. P(9)
            BY <1>1, <2>2
        <3>2. \A k \in 1..8 : P(k + 1) => P(k)
            <4>1. SUFFICES ASSUME NEW k \in 1..8, P(k + 1), k <= n PROVE D(k)
                OBVIOUS
            <4>2. CASE k = n
                BY <2>2, <4>2
            <4>3. CASE k < n
                <5>1. k + 1 <= n
                    BY <1>1, <4>3
                <5>2. D(k + 1)
                    BY <4>1, <5>1
                <5>3. QED
                    BY <2>3, <4>3, <5>2
            <4>4. QED
                BY <1>1, <4>1, <4>2, <4>3
        <3> HIDE DEF P
        <3>3. /\ P(8 + 1) => P(8)
              /\ P(7 + 1) => P(7)
              /\ P(6 + 1) => P(6)
              /\ P(5 + 1) => P(5)
              /\ P(4 + 1) => P(4)
              /\ P(3 + 1) => P(3)
              /\ P(2 + 1) => P(2)
              /\ P(1 + 1) => P(1)
            BY <3>2
        <3>4. \A k \in 1..9 : P(k)
            BY <3>1, <3>3
        <3>5. ASSUME NEW k \in 1..n
              PROVE  D(k)
            <4>1. k \in 1..9 /\ k <= n
                BY <1>1
            <4>2. P(k)
                BY <3>4, <4>1
            <4>3. QED
                BY <4>1, <4>2 DEF P
        <3>6. QED
            BY <3>5
    <2>5. 1 \in 1..n /\ Len(ss) - n + 1 \in 2..Len(ss)
        BY <1>1, <1>2, <1>4, <2>4
    <2>6. Read(ss[Len(ss) - n + 1], r, 1)
        BY <2>4, <2>5
    <2>7. (Len(ss) - n + 1) - 1 = Len(ss) - n
        BY <1>1, <1>2
    <2>8. Follows(ss[Len(ss) - n], ss[Len(ss) - n + 1])
        BY <2>5, <2>7 DEF Linked
    <2>9. MayBegin(ss[Len(ss) - n], At(yyr1, r))
        BY <1>1, <2>6, <2>8 DEF Follows
    <2>10. QED
        BY <1>1, <1>2, <2>4, <2>5, <2>9 DEF n
<1>5. QED
    BY <1>1, <1>3, <1>4

(***************************************************************************)
(* What the parser's values stand for: every value on the stack is that of *)
(* a node in the pool wherever its symbol asks for one.  First the symbols *)
(* and rules.                                                              *)
(***************************************************************************)

\* The symbols on the right of the rules whose values are used as nodes.
NodePlaces ==
  {
    <<5, 3>>, <<5, 6>>, <<7, 1>>, <<10, 3>>, <<10, 5>>, <<15, 1>>, <<16, 1>>,
    <<17, 1>>, <<18, 1>>, <<18, 3>>, <<19, 1>>, <<19, 4>>, <<20, 1>>,
    <<20, 4>>, <<21, 2>>, <<22, 2>>, <<23, 1>>, <<24, 1>>, <<24, 3>>,
    <<25, 1>>, <<26, 1>>, <<27, 1>>, <<27, 3>>, <<28, 1>>, <<29, 1>>,
    <<30, 1>>, <<31, 2>>, <<31, 4>>, <<33, 2>>, <<35, 2>>, <<37, 3>>,
    <<38, 1>>, <<39, 1>>, <<39, 3>>, <<40, 1>>, <<42, 3>>, <<43, 1>>,
    <<44, 1>>, <<44, 3>>, <<45, 1>>, <<46, 1>>, <<47, 1>>, <<48, 1>>,
    <<49, 1>>, <<50, 1>>, <<51, 1>>, <<52, 1>>, <<52, 3>>, <<53, 1>>,
    <<53, 3>>, <<54, 1>>, <<55, 1>>, <<56, 1>>, <<56, 3>>, <<57, 1>>,
    <<58, 1>>, <<60, 1>>, <<60, 3>>, <<61, 1>>, <<61, 3>>, <<62, 1>>,
    <<63, 1>>, <<64, 1>>, <<64, 3>>, <<65, 1>>, <<66, 1>>, <<67, 1>>
  }

NodeAt(r, k) == <<r, k>> \in NodePlaces

\* A place of a rule that holds a node is read by a symbol that is a node.
LEMMA PlacesHoldNodes ==
    ASSUME NEW s \in States, NEW r \in 1..NRules, NEW k \in 1..9,
           Read(s, r, k), NodeAt(r, k)
    PROVE  At(yystos, s) \in NodeSymbols \ Clauses
BY SMTT(60) DEF States, NStates, NRules, At, Read, Items, NodeAt, NodePlaces,
   yystos,
                NodeSymbols, Clauses

\* Such a place is among the symbols of its rule.
LEMMA PlacesInRules ==
    ASSUME NEW r \in 1..NRules, NEW k \in 1..9, NodeAt(r, k)
    PROVE  k \in 1..At(yyr2, r)
BY SMTT(60) DEF NRules, At, NodeAt, NodePlaces, yyr2

\* The clauses of a SELECT, and the operators of expressions.
LEMMA ClausesAndOperators ==
    ASSUME NEW s \in States
    PROVE  /\ \A k \in 5..8 : Read(s, 31, k) => At(yystos, s) \in Clauses
           /\ \A r \in 18..20 : Read(s, r, 2) => At(yystos, s) = 74
<1>1. \A k \in 5..8 : Read(s, 31, k) => At(yystos, s) \in Clauses
    BY SMTT(60) DEF States, NStates, At, Read, Items, yystos, Clauses
<1>2. \A r \in 18..20 : Read(s, r, 2) => At(yystos, s) = 74
    BY SMTT(60) DEF States, NStates, At, Read, Items, yystos
<1>3. QED
    BY <1>1, <1>2

\* A statement is reduced when its semicolon has been shifted, and then
\* no lookahead is needed.
LEMMA StatementEnds ==
    ASSUME NEW s \in States, NEW r \in 5..14, NEW n \in 1..9,
           At(yyr2, r) = n, Read(s, r, n)
    PROVE  At(yystos, s) = 39
BY SMTT(60) DEF States, NStates, At, Read, Items, yystos, yyr2

\* After a semicolon no token is needed to reduce.
LEMMA SemicolonDecides ==
    ASSUME NEW s \in States, At(yystos, s) = 39
    PROVE  IsDefault(s)
BY SMTT(60) DEF States, NStates, At, yystos, yypact, IsDefault, YYPACT_NINF

\* A statement begins in state 1, which is entered from the first state only.
LEMMA StatementBegins ==
    ASSUME NEW s \in States
    PROVE  /\ MayBegin(s, 52) => s = 1
           /\ Follows(s, 1) => s = 0
           /\ At(yystos, 1) = 51
<1>1. MayBegin(s, 52) => s = 1
    BY SMTT(60) DEF MayBegin, Beginnings
<1>2. Follows(s, 1) => s = 0
    <2>1. Read(1, 1, 1) /\ At(yyr1, 1) = 50
        BY SMTT(60) DEF Read, Items, At, yyr1
    <2>2. MayBegin(s, 50) => s = 0
        BY SMTT(60) DEF MayBegin, Beginnings
    <2>3. QED
        BY <2>1, <2>2 DEF Follows, NRules
<1>3. QED
    BY <1>1, <1>2 DEF At, yystos

\* What the rules reduce to.
LEMMA LeftSides ==
    ASSUME NEW r \in 2..NRules
    PROVE  /\ r \in 2..4 => At(yyr1, r) = 51
           /\ r \in 5..14 => At(yyr1, r) = 52
           /\ r \in 15..67 => At(yyr1, r) \in NodeSymbols
           /\ r \in {32, 34, 36, 41} => At(yyr1, r) \in Clauses
           /\ r \in 68..79 => At(yyr1, r) = 74
BY SMTT(60) DEF NRules, At, yyr1, NodeSymbols, Clauses

-----------------------------------------------------------------------------
(***************************************************************************)
(* The pool                                                                *)
(***************************************************************************)
Operators == {Op[o] : o \in DOMAIN Op}

\* Every operator's code is an operator; the fields of Op, listed.
LEMMA OperatorNames ==
    /\ \A o \in DOMAIN Op : Op[o] \in Operators
    /\ DOMAIN Op =
         {"SELECTION", "PROJECTION", "PRODUCT", "GROUP", "SORT", "SORTSPEC",
          "INSERTROW", "EQUAL", "NOTEQ", "LEQ", "GEQ", "LT", "GT", "PLUS",
          "BMINUS", "TIMES", "DIVIDE", "AND", "OR", "FCALL", "TABLENAME",
          "COLNAME", "OUTCOLNAME", "COLUMNDEF", "CREATETABLE", "FNAME",
          "RLIST", "STRING", "NUMBER", "NULL"}
<1>1. \A o \in DOMAIN Op : Op[o] \in Operators
    BY DEF Operators
<1>2. QED
    BY <1>1 DEF Op

\* Names, numbers and texts, and the operators between expressions.
LEMMA OperatorsOfWords ==
    /\ Leaves \subseteq Operators
    /\ \A w \in DOMAIN WordOp : WordOp[w] \in Leaves
    /\ DOMAIN WordOp = {"IDENT", "NUMBER", "STRING"}
<1>1. {Op.TABLENAME, Op.COLNAME, Op.FNAME, Op.NUMBER, Op.STRING}
         \subseteq Operators
    BY OperatorNames
<1>2. QED
    BY <1>1 DEF Leaves, WordOp

InputOK == input \in Seq(Tokens)

BinValues == 20..32

\* The codes of the binary operators are those of makeexpr.
LEMMA OperatorsOfExpressions ==
    /\ \A i \in 1..12 : BinOps[i] \in BinValues \cap Operators
<1>1. /\ Op.EQUAL \in Operators /\ Op.NOTEQ \in Operators
      /\ Op.GT \in Operators /\ Op.LT \in Operators
      /\ Op.GEQ \in Operators /\ Op.LEQ \in Operators
      /\ Op.PLUS \in Operators /\ Op.BMINUS \in Operators
      /\ Op.TIMES \in Operators /\ Op.DIVIDE \in Operators
      /\ Op.AND \in Operators /\ Op.OR \in Operators
    BY OperatorNames
<1>2. QED
    BY <1>1 DEF BinOps, Op, BinValues

\* The values the parser's stack may hold.
Values == -1..(2 * MaxNode - 1)

\* A value stands for a node of a pool, or it is the zero of a full one.
Live(pool, v) ==
    /\ v \in 0..(2 * MaxNode - 1)
    /\ cvt_itoe(v) \in 1..Len(pool) \/ (v = 0 /\ Len(pool) = MaxNode)

\* The fields of a node are nodes made before it.
FieldsBelow(node, n) ==
    node.func \notin Leaves =>
       node.values[1] < n /\ (node.func # Op.COLUMNDEF => node.values[2] < n)

WellFormed(pool) ==
    /\ pool \in Seq(Node)
    /\ Len(pool) <= MaxNode
    /\ \A n \in 1..Len(pool) : FieldsBelow(pool[n], n)

\* What a rule that makes nodes leaves behind: a pool with no node less, and
\* a value for its left side.
Made(pool, made) ==
    /\ WellFormed(made.pool)
    /\ Len(pool) <= Len(made.pool)
    /\ Live(made.pool, made.value)

\* A value that stands for a node keeps doing so when nodes are added.
LEMMA GrowingKeepsLive ==
    ASSUME NEW pool, WellFormed(pool), NEW larger, WellFormed(larger),
           Len(pool) <= Len(larger), NEW v, Live(pool, v)
    PROVE  Live(larger, v)
<1>1. Len(pool) \in Nat /\ Len(larger) \in Nat
    BY LenProperties DEF WellFormed
<1>2. QED
    BY <1>1, PoolAssumption DEF WellFormed, Live

\* What a node's field is made of is a node of the pool or none.
LEMMA FieldsInPool ==
    ASSUME NEW pool, WellFormed(pool), NEW v, Live(pool, v) \/ v = 0
    PROVE  cvt_itoe(v) \in 0..Len(pool)
<1>1. Len(pool) \in Nat
    BY LenProperties DEF WellFormed
<1>2. QED
    BY <1>1, PoolAssumption DEF Live, cvt_itoe

\* A node added to the pool.
LEMMA AddNode ==
    ASSUME NEW pool, WellFormed(pool), Len(pool) < MaxNode,
           NEW node \in Node, FieldsBelow(node, Len(pool) + 1)
    PROVE  /\ WellFormed(Append(pool, node))
           /\ Len(Append(pool, node)) = Len(pool) + 1
           /\ Live(Append(pool, node), Reference(Len(pool) + 1))
<1> DEFINE larger == Append(pool, node)
<1>1. /\ larger \in Seq(Node)
      /\ Len(pool) \in Nat
      /\ Len(larger) = Len(pool) + 1
      /\ \A n \in 1..Len(pool) : larger[n] = pool[n]
      /\ larger[Len(pool) + 1] = node
    BY AppendProperties DEF WellFormed
<1> HIDE DEF larger
<1>2. \A n \in 1..(Len(pool) + 1) : FieldsBelow(larger[n], n)
    <2>1. ASSUME NEW n \in 1..(Len(pool) + 1)
          PROVE  FieldsBelow(larger[n], n)
        <3>1. CASE n = Len(pool) + 1
            BY <1>1, <3>1
        <3>2. CASE n \in 1..Len(pool)
            BY <1>1, <3>2 DEF WellFormed
        <3>3. QED
            BY <1>1, <3>1, <3>2
    <2>2. QED
        BY <2>1
<1>3. Len(larger) <= MaxNode
    BY <1>1, PoolAssumption
<1>4. cvt_itoe(Reference(Len(pool) + 1)) = Len(pool) + 1
    BY <1>1, PoolAssumption DEF cvt_itoe, Reference
<1>5. Live(larger, Reference(Len(pool) + 1))
    BY <1>1, <1>4, PoolAssumption DEF Live, Reference
<1>6. QED
    BY <1>1, <1>2, <1>3, <1>5 DEF WellFormed, larger

\* makeexpr makes a node of values that stand for nodes.
LEMMA makeexprMakes ==
    ASSUME InputOK,
           NEW pool, WellFormed(pool), NEW op \in Operators,
           NEW a, Live(pool, a) \/ a = 0,
           NEW b, \/ op # Op.COLUMNDEF /\ (Live(pool, b) \/ b = 0)
                  \/ op = Op.COLUMNDEF /\ b \in 0..3
    PROVE  Made(pool, makeexpr(pool, op, a, b))
<1> DEFINE second == IF op = Op.COLUMNDEF THEN b ELSE cvt_itoe(b)
           node == [func |-> op, values |-> <<cvt_itoe(a), second>>]
           made == makeexpr(pool, op, a, b)
<1>1. Len(pool) \in 0..MaxNode
    BY LenProperties DEF WellFormed
<1>2. cvt_itoe(a) \in 0..Len(pool)
    BY FieldsInPool
<1>3. second \in 0..MaxNode /\ (op # Op.COLUMNDEF => second <= Len(pool))
    <2>1. CASE op # Op.COLUMNDEF
        BY <1>1, <2>1, FieldsInPool, PoolAssumption
    <2>2. CASE op = Op.COLUMNDEF
        BY <2>2, PoolAssumption
    <2>3. QED
        BY <2>1, <2>2
<1> HIDE DEF second
<1>4. node \in Node
    <2>1. cvt_itoe(a) \in 0..(MaxNode + Len(input))
          /\ second \in 0..(MaxNode + Len(input))
        BY <1>1, <1>2, <1>3, PoolAssumption DEF InputOK
    <2>2. <<cvt_itoe(a), second>> \in Seq(0..(MaxNode + Len(input)))
        BY <2>1
    <2>3. QED
        BY <2>2 DEF Node, Operators
<1>5. FieldsBelow(node, Len(pool) + 1)
    BY <1>1, <1>2, <1>3 DEF FieldsBelow
<1>6. CASE Len(pool) < MaxNode
    <2>1. made.pool = Append(pool, node)
          /\ made.value = Reference(Len(pool) + 1)
        BY <1>6 DEF makeexpr, second
    <2> HIDE DEF node, made
    <2>2. QED
        BY <1>1, <1>4, <1>5, <1>6, <2>1, AddNode DEF Made, made
<1>7. CASE Len(pool) = MaxNode
    <2>1. made.pool = pool /\ made.value = 0
        BY <1>7, PoolAssumption DEF makeexpr
    <2> HIDE DEF made
    <2>2. QED
        BY <1>1, <1>7, <2>1, PoolAssumption DEF Made, Live, made
<1>8. QED
    BY <1>1, <1>6, <1>7, PoolAssumption

\* Changing a node's operator keeps its fields.
LEMMA RenamedNode ==
    ASSUME NEW A, NEW B, NEW node \in [func : A, values : B], NEW op \in A
    PROVE  /\ [node EXCEPT !.func = op] \in [func : A, values : B]
           /\ [node EXCEPT !.func = op].func = op
           /\ [node EXCEPT !.func = op].values = node.values
OBVIOUS

\* setname gives a node that is there another name.
LEMMA setnameMakes ==
    ASSUME NEW pool, WellFormed(pool), NEW op \in Leaves,
           NEW i, Live(pool, i)
    PROVE  Made(pool, setname(pool, op, i))
<1> DEFINE n == cvt_itoe(i)
           made == setname(pool, op, i)
<1>1. Len(pool) \in 0..MaxNode
    BY LenProperties DEF WellFormed
<1>2. CASE n = 0
    <2>1. made.pool = pool /\ made.value = 0
        BY <1>2 DEF setname
    <2>2. Live(pool, 0)
        BY <1>1, <1>2, PoolAssumption DEF Live
    <2> HIDE DEF made
    <2>3. QED
        BY <1>1, <2>1, <2>2 DEF Made, made
<1>3. CASE n # 0
    <2> DEFINE renamed == [pool EXCEPT ![n].func = op]
    <2>1. made.pool = renamed /\ made.value = i
        BY <1>3 DEF setname
    <2>2. n \in 1..Len(pool)
        BY <1>1, <1>3, PoolAssumption DEF Live, cvt_itoe
    <2> HIDE DEF n
    <2>3. /\ renamed \in Seq(Node)
          /\ Len(renamed) = Len(pool)
          /\ renamed[n].func = op
          /\ \A m \in 1..Len(pool) : m # n => renamed[m] = pool[m]
        <3>1. op \in Operators
            BY OperatorsOfWords
        <3>2. pool[n] \in Node
            BY <2>2, ElementOfSeq DEF WellFormed
        <3>3. renamed = [pool EXCEPT ![n] = [pool[n] EXCEPT !.func = op]]
            OBVIOUS
        <3>4. /\ [pool[n] EXCEPT !.func = op] \in Node
              /\ [pool[n] EXCEPT !.func = op].func = op
            BY <3>1, <3>2, RenamedNode DEF Node, Operators
        <3>5. QED
            BY <2>2, <3>3, <3>4, ExceptSeq DEF WellFormed
    <2> HIDE DEF renamed
    <2>4. \A m \in 1..Len(pool) : FieldsBelow(renamed[m], m)
        BY <2>3 DEF WellFormed, FieldsBelow
    <2>5. Live(renamed, i)
        BY <2>3 DEF Live
    <2>6. WellFormed(renamed)
        BY <2>3, <2>4 DEF WellFormed
    <2> HIDE DEF made
    <2>7. QED
        BY <1>1, <2>1, <2>3, <2>5, <2>6 DEF Made, made
<1>4. QED
    BY <1>2, <1>3

-----------------------------------------------------------------------------
(***************************************************************************)
(* The invariant                                                           *)
(***************************************************************************)

\* A value fits the symbol it belongs to.
Holds(pool, A, v) ==
    /\ v \in Values
    /\ A \in NodeSymbols => Live(pool, v) \/ (v = 0 /\ A \in Clauses)
    /\ A = 74 => v \in BinValues \cap Operators

\* The two stacks: the states say what the values are.
Stacks(pool, ss, vs) ==
    /\ Linked(ss)
    /\ vs \in Seq(Values)
    /\ Len(ss) = Len(vs) + 1
    /\ \A i \in 1..Len(vs) : Holds(pool, At(yystos, ss[i + 1]), vs[i])

StacksOK == Stacks(ebuf, yyss, yyvs)

\* A word read ahead is in the pool.
LookaheadOK ==
    /\ yychar \in Tokens \cup {Empty, EndOfInput}
    /\ yylval \in 0..(2 * MaxNode - 1)
    /\ yychar \in DOMAIN WordOp => Live(ebuf, yylval)

\* No word has been read ahead when a statement ends, so that emptying the
\* pool loses none.
PlaceOK ==
    /\ pc \in {"main", "yynewstate", "yybackup", "yyerrlab1", "quit", "crashed"}
    /\ pc = "yybackup" => yyss[Len(yyss)] # YYFINAL
    /\ pc \in {"yynewstate", "yybackup"} /\ At(yystos, yyss[Len(yyss)]) = 39
         => yychar = Empty
    /\ pc = "crashed" => Len(ebuf) = MaxNode

CountersOK ==
    /\ pos \in 1..(Len(input) + 1)
    /\ yystacksize \in YYINITDEPTH..YYMAXDEPTH
    /\ yyerrstatus \in 0..3

ParserInv ==
    /\ InputOK
    /\ WellFormed(ebuf)
    /\ StacksOK
    /\ LookaheadOK
    /\ PlaceOK
    /\ CountersOK

\* What the parser and the invariant know at a step.
LEMMA StackShape ==
    ASSUME StacksOK
    PROVE  /\ Len(yyss) \in Nat
           /\ Len(yyss) > 0
           /\ Len(yyvs) \in Nat
           /\ Len(yyss) = Len(yyvs) + 1
           /\ \A i \in 1..Len(yyss) : yyss[i] \in States
           /\ Last(yyss) = yyss[Len(yyss)]
           /\ yyss[Len(yyss)] \in States
<1>1. /\ yyss \in Seq(States)
      /\ Len(yyss) > 0
      /\ Len(yyss) = Len(yyvs) + 1
      /\ Len(yyss) \in Nat
      /\ Len(yyvs) \in Nat
    BY LenProperties DEF StacksOK, Stacks, Linked
<1>2. \A i \in 1..Len(yyss) : yyss[i] \in States
    BY <1>1, ElementOfSeq
<1>3. Len(yyss) \in 1..Len(yyss)
    BY <1>1
<1>4. QED
    BY <1>1, <1>2, <1>3 DEF Last

\* A token's number is below 50, and the words are numbered 3, 4 and 5.
LEMMA TokenNumbers ==
    ASSUME NEW t \in Tokens \cup {EndOfInput}
    PROVE  /\ yytranslate[t] \in 0..49
           /\ At(yytname, yytranslate[t]) = t
           /\ yytranslate[t] \in {3, 4, 5} => t \in DOMAIN WordOp
<1>1. \E i \in 0..(YYNTOKENS - 1) : At(yytname, i) = t
    <2>1. CASE t = EndOfInput
        BY <2>1 DEF EndOfInput, YYNTOKENS, At, yytname
    <2>2. CASE t \in Tokens
        <3>1. PICK i \in 4..50 : yytname[i] = t
            BY <2>2 DEF Tokens
        <3>2. i - 1 \in 0..(YYNTOKENS - 1) /\ (i - 1) + 1 = i
            BY DEF YYNTOKENS
        <3>3. QED
            BY <3>1, <3>2 DEF At
    <2>3. QED
        BY <2>1, <2>2
<1>2. /\ yytranslate[t] \in 0..(YYNTOKENS - 1)
      /\ At(yytname, yytranslate[t]) = t
    BY <1>1 DEF yytranslate
<1>3. At(yytname, 3) = "IDENT" /\ At(yytname, 4) = "NUMBER"
      /\ At(yytname, 5) = "STRING"
    BY DEF At, yytname
<1>4. QED
    BY <1>2, <1>3, OperatorsOfWords DEF YYNTOKENS

\* What the parser decides is a number, and a rule it decides to reduce may
\* be reduced.
LEMMA DecidedRule ==
    ASSUME StacksOK, LookaheadOK, PlaceOK, Decided
    PROVE  /\ Decision \in Int
           /\ Decision < 0 => Completes(Last(yyss), Rule)
           /\ Decision > 0 =>
                /\ ~IsDefault(Last(yyss))
                /\ yychar \in Tokens \cup {EndOfInput}
                /\ Decision = ActionFor(Last(yyss), yytranslate[yychar])
<1> DEFINE s == Last(yyss)
           k == yytranslate[yychar]
<1>1. s \in States /\ s # YYFINAL
    BY StackShape DEF PlaceOK, Decided
<1>2. CASE IsDefault(s)
    <2>1. At(yydefact, s) \in 0..NRules /\ Decision = -At(yydefact, s)
        BY <1>1, <1>2, DefaultRule DEF Decision
    <2>2. Decision \in Int /\ ~(Decision > 0) /\ Rule = At(yydefact, s)
        BY <2>1 DEF Rule, NRules
    <2>3. ASSUME Decision < 0
          PROVE  Completes(s, Rule)
        <3>1. At(yydefact, s) # 0
            BY <2>1, <2>3 DEF NRules
        <3>2. QED
            BY <1>1, <2>2, <3>1, DefaultCompletes
    <2>4. QED
        BY <2>2, <2>3
<1>3. CASE ~IsDefault(s)
    <2>1. yychar \in Tokens \cup {EndOfInput}
        BY <1>3 DEF Decided, NeedsToken, LookaheadOK
    <2>2. k \in 0..49 /\ Decision = ActionFor(s, k)
        BY <1>3, <2>1, TokenNumbers DEF Decision
    <2> HIDE DEF k
    <2>3. ActionFor(s, k) \in Int
        <3>1. At(yydefact, s) \in Int
            BY <1>1, DefaultRule DEF NRules
        <3>2. CASE HasEntry(At(yypact, s), k)
            <4>1. At(yypact, s) + k \in 0..YYLAST
                BY <3>2 DEF HasEntry
            <4>2. QED
                BY <3>2, <4>1, OnlyRuleInTable DEF ActionFor
        <3>3. CASE ~HasEntry(At(yypact, s), k)
            BY <3>1, <3>3 DEF ActionFor
        <3>4. QED
            BY <3>2, <3>3
    <2>4. Decision < 0 => Completes(s, Rule)
        BY <1>1, <1>3, <2>2, ActionCompletes DEF Rule
    <2>5. QED
        BY <1>3, <2>1, <2>2, <2>3, <2>4 DEF k
<1>4. QED
    BY <1>2, <1>3

-----------------------------------------------------------------------------
(***************************************************************************)
(* Pushing, popping and growing                                            *)
(***************************************************************************)

\* What holds of a value in a pool holds in a larger one.
LEMMA GrowingKeepsHolds ==
    ASSUME NEW pool, WellFormed(pool), NEW larger, WellFormed(larger),
           Len(pool) <= Len(larger), NEW A, NEW v, Holds(pool, A, v)
    PROVE  Holds(larger, A, v)
BY GrowingKeepsLive DEF Holds

\* And so for the values on the stack.
LEMMA GrowingKeepsStacks ==
    ASSUME NEW pool, WellFormed(pool), NEW larger, WellFormed(larger),
           Len(pool) <= Len(larger), NEW ss, NEW vs, Stacks(pool, ss, vs)
    PROVE  Stacks(larger, ss, vs)
BY GrowingKeepsHolds DEF Stacks

\* Pushing a state that follows with a value that it may hold.
LEMMA PushStacks ==
    ASSUME NEW pool, NEW ss, NEW vs, Stacks(pool, ss, vs),
           NEW t \in States \ {0}, Follows(ss[Len(ss)], t),
           NEW v, Holds(pool, At(yystos, t), v)
    PROVE  Stacks(pool, Append(ss, t), Append(vs, v))
<1>1. Linked(Append(ss, t))
    BY PushLinked DEF Stacks
<1>2. /\ Append(vs, v) \in Seq(Values)
      /\ Len(vs) \in Nat
      /\ Len(Append(vs, v)) = Len(vs) + 1
      /\ \A i \in 1..Len(vs) : Append(vs, v)[i] = vs[i]
      /\ Append(vs, v)[Len(vs) + 1] = v
    BY AppendProperties DEF Stacks, Holds
<1>3. /\ Len(ss) \in Nat
      /\ Len(Append(ss, t)) = Len(ss) + 1
      /\ \A i \in 1..Len(ss) : Append(ss, t)[i] = ss[i]
      /\ Append(ss, t)[Len(ss) + 1] = t
    BY AppendProperties DEF Stacks, Linked
<1>4. Len(ss) = Len(vs) + 1
    BY DEF Stacks
<1>5. ASSUME NEW i \in 1..(Len(vs) + 1)
      PROVE  Holds(pool, At(yystos, Append(ss, t)[i + 1]), Append(vs, v)[i])
    <2>1. CASE i = Len(vs) + 1
        BY <1>2, <1>3, <1>4, <2>1
    <2>2. CASE i \in 1..Len(vs)
        <3>1. i + 1 \in 1..Len(ss)
            BY <1>2, <1>4, <2>2
        <3>2. QED
            BY <1>2, <1>3, <2>2, <3>1 DEF Stacks
    <2>3. i = Len(vs) + 1 \/ i \in 1..Len(vs)
        BY <1>2
    <2>4. QED
        BY <2>1, <2>2, <2>3
<1>6. QED
    BY <1>1, <1>2, <1>3, <1>4, <1>5 DEF Stacks

\* Popping both stacks to the same depth.
LEMMA PopStacks ==
    ASSUME NEW pool, NEW ss, NEW vs, Stacks(pool, ss, vs), NEW m \in 1..Len(ss)
    PROVE  /\ Stacks(pool, SubSeq(ss, 1, m), SubSeq(vs, 1, m - 1))
           /\ Len(SubSeq(ss, 1, m)) = m
           /\ SubSeq(ss, 1, m)[m] = ss[m]
<1>1. /\ Linked(SubSeq(ss, 1, m))
      /\ Len(SubSeq(ss, 1, m)) = m
      /\ \A i \in 1..m : SubSeq(ss, 1, m)[i] = ss[i]
    BY PopLinked DEF Stacks
<1>2. /\ Len(ss) \in Nat
      /\ Len(vs) \in Nat
      /\ Len(ss) = Len(vs) + 1
      /\ \A i \in 1..Len(vs) : vs[i] \in Values
    BY LenProperties, ElementOfSeq DEF Stacks, Linked
<1>3. m \in Nat /\ m >= 1 /\ m - 1 <= Len(vs) /\ m - 1 \in Nat
    BY <1>2
<1>4. /\ SubSeq(vs, 1, m - 1) \in Seq(Values)
      /\ Len(SubSeq(vs, 1, m - 1)) = m - 1
      /\ \A i \in 1..(m - 1) : SubSeq(vs, 1, m - 1)[i] = vs[i]
    BY <1>2, <1>3, SubSeqProperties
<1>5. ASSUME NEW i \in 1..(m - 1)
      PROVE  Holds(pool, At(yystos, SubSeq(ss, 1, m)[i + 1]),
                   SubSeq(vs, 1, m - 1)[i])
    <2>1. i + 1 \in 1..m /\ i \in 1..Len(vs)
        BY <1>2, <1>3
    <2>2. QED
        BY <1>1, <1>4, <2>1 DEF Stacks
<1>6. m \in 1..m
    BY <1>3
<1>7. QED
    BY <1>1, <1>3, <1>4, <1>5, <1>6 DEF Stacks

\* $k is the value of symbol k of the rule.
LEMMA DollarHolds ==
    ASSUME StacksOK, Completes(Last(yyss), Rule), NEW k \in 1..At(yyr2, Rule)
    PROVE  /\ k \in 1..9
           /\ Rule \in 1..NRules
           /\ \E s \in States :
                 Read(s, Rule, k) /\ Holds(ebuf, At(yystos, s), Dollar(k))
<1> DEFINE n == At(yyr2, Rule)
           i == Len(yyvs) - n + k
<1>1. /\ n \in 0..9
      /\ n < Len(yyss)
      /\ \A j \in 1..n : Read(yyss[Len(yyss) - n + j], Rule, j)
    BY StackShape, HandleOnStack DEF StacksOK, Stacks
<1> HIDE DEF n
<1>2. k \in 1..n /\ k \in 1..9
    BY <1>1 DEF n
<1>3. i \in 1..Len(yyvs) /\ i + 1 = Len(yyss) - n + k
    BY <1>1, <1>2, StackShape
<1>4. Holds(ebuf, At(yystos, yyss[i + 1]), yyvs[i])
    BY <1>3 DEF StacksOK, Stacks
<1>5. yyss[i + 1] \in States
    BY <1>3, StackShape
<1>6. Read(yyss[i + 1], Rule, k)
    BY <1>1, <1>2, <1>3
<1>7. Dollar(k) = yyvs[i]
    BY DEF Dollar, n
<1>8. Rule \in 1..NRules
    BY DEF Completes, NRules
<1>9. QED
    BY <1>2, <1>4, <1>5, <1>6, <1>7, <1>8

\* The values of a rule that are nodes are live when it is reduced.
LEMMA DollarIsLive ==
    ASSUME StacksOK, Completes(Last(yyss), Rule),
           NEW k \in 1..9, NodeAt(Rule, k)
    PROVE  Live(ebuf, Dollar(k))
<1>1. Rule \in 1..NRules
    BY DEF Completes, NRules
<1>2. k \in 1..At(yyr2, Rule)
    BY <1>1, PlacesInRules
<1>3. PICK s \in States : Read(s, Rule, k)
      /\ Holds(ebuf, At(yystos, s), Dollar(k))
    BY <1>2, DollarHolds
<1>4. At(yystos, s) \in NodeSymbols \ Clauses
    BY <1>1, <1>3, PlacesHoldNodes
<1>5. QED
    BY <1>3, <1>4 DEF Holds

-----------------------------------------------------------------------------
(***************************************************************************)
(* Reductions                                                              *)
(***************************************************************************)

\* The states and values below a rule, and where its left side goes.
LEMMA BelowRule ==
    ASSUME StacksOK, Completes(Last(yyss), Rule)
    PROVE  LET n == At(yyr2, Rule)
               m == Len(yyss) - n
           IN  /\ Rule \in 2..NRules
               /\ At(yyr1, Rule) \in 51..74
               /\ m \in 1..Len(yyss)
               /\ MayBegin(yyss[m], At(yyr1, Rule))
               /\ Len(yyvs) - n = m - 1
               /\ SubSeq(yyss, 1, m)[m] = yyss[m]
               /\ Last(SubSeq(yyss, 1, m)) = yyss[m]
               /\ Len(SubSeq(yyss, 1, m)) = m
               /\ yyss[m] \in States
<1> DEFINE n == At(yyr2, Rule)
           m == Len(yyss) - n
<1>1. /\ n \in 0..9
      /\ n < Len(yyss)
      /\ MayBegin(yyss[m], At(yyr1, Rule))
    BY StackShape, HandleOnStack DEF StacksOK, Stacks
<1>2. Rule \in 2..NRules /\ At(yyr1, Rule) \in 51..74
    <2>1. Rule \in 2..NRules /\ Rule \in 1..NRules /\ Rule # 1
        BY DEF Completes, NRules
    <2>2. QED
        BY <2>1, RuleShape
<1> HIDE DEF n
<1>3. m \in 1..Len(yyss) /\ Len(yyvs) - n = m - 1
    BY <1>1, StackShape
<1>4. yyss[m] \in States
    BY <1>3, StackShape
<1>5. SubSeq(yyss, 1, m)[m] = yyss[m] /\ Len(SubSeq(yyss, 1, m)) = m
    BY <1>3, PopStacks DEF StacksOK
<1>6. Last(SubSeq(yyss, 1, m)) = yyss[m]
    BY <1>5 DEF Last
<1>7. QED
    BY <1>1, <1>2, <1>3, <1>4, <1>5, <1>6 DEF n

\* Replacing a rule's symbols by its left side, in a pool no smaller.
LEMMA ReplaceKeepsStacks ==
    ASSUME StacksOK, Completes(Last(yyss), Rule), WellFormed(ebuf),
           NEW pool, WellFormed(pool), Len(ebuf) <= Len(pool),
           NEW value, Holds(pool, At(yyr1, Rule), value), Replace(value)
    PROVE  /\ Stacks(pool, yyss', yyvs')
           /\ At(yystos, yyss'[Len(yyss')]) = At(yyr1, Rule)
<1> DEFINE n == At(yyr2, Rule)
           A == At(yyr1, Rule)
           m == Len(yyss) - n
           below == SubSeq(yyss, 1, m)
           valuesBelow == SubSeq(yyvs, 1, m - 1)
           t == GotoFor(yyss[m], A)
<1>1. /\ A \in 51..74
      /\ m \in 1..Len(yyss)
      /\ MayBegin(yyss[m], A)
      /\ Len(yyvs) - n = m - 1
      /\ below[m] = yyss[m]
      /\ Last(below) = yyss[m]
      /\ Len(below) = m
      /\ yyss[m] \in States
    BY BelowRule
<1>2. t \in States \ {0} /\ At(yystos, t) = A /\ Follows(yyss[m], t)
    BY <1>1, GotoFollows
<1>3. yyss' = Append(below, t) /\ yyvs' = Append(valuesBelow, value)
    BY <1>1 DEF Replace
<1>4. Stacks(pool, below, valuesBelow)
    BY <1>1, PopStacks, GrowingKeepsStacks DEF StacksOK
<1> HIDE DEF below, valuesBelow, t, A, m
<1>5. Follows(below[Len(below)], t) /\ Holds(pool, At(yystos, t), value)
    BY <1>1, <1>2 DEF A
<1>6. Stacks(pool, yyss', yyvs')
    BY <1>2, <1>3, <1>4, <1>5, PushStacks
<1>7. /\ Len(Append(below, t)) = Len(below) + 1
      /\ Append(below, t)[Len(below) + 1] = t
    BY <1>2, <1>4, AppendProperties DEF Stacks, Linked
<1>8. QED
    BY <1>2, <1>3, <1>6, <1>7 DEF A

\* When a statement is reduced nothing is left on the stack that stands for
\* a node, so that the pool may be emptied.
LEMMA ReplaceAndEmpty ==
    ASSUME StacksOK, Completes(Last(yyss), Rule), Rule \in 5..14,
           NEW value \in Values, Replace(value)
    PROVE  /\ Stacks(<<>>, yyss', yyvs')
           /\ At(yystos, yyss'[Len(yyss')]) = 52
<1> DEFINE n == At(yyr2, Rule)
           m == Len(yyss) - n
           below == SubSeq(yyss, 1, m)
           valuesBelow == SubSeq(yyvs, 1, m - 1)
           t == GotoFor(yyss[m], 52)
<1>1. /\ Rule \in 2..NRules
      /\ At(yyr1, Rule) = 52
      /\ m \in 1..Len(yyss)
      /\ MayBegin(yyss[m], 52)
      /\ Len(yyvs) - n = m - 1
      /\ below[m] = yyss[m]
      /\ Last(below) = yyss[m]
      /\ Len(below) = m
      /\ yyss[m] \in States
    BY BelowRule, LeftSides
<1>2. t \in States \ {0} /\ At(yystos, t) = 52 /\ Follows(yyss[m], t)
    BY <1>1, GotoFollows
<1>3. yyss' = Append(below, t) /\ yyvs' = Append(valuesBelow, value)
    BY <1>1 DEF Replace
<1>4. Stacks(ebuf, below, valuesBelow)
    BY <1>1, PopStacks DEF StacksOK
<1> HIDE DEF t, m
<1>5. m = 2
    <2>1. yyss[m] = 1
        BY <1>1, StatementBegins
    <2>2. yyss[1] = 0
        BY DEF StacksOK, Stacks, Linked
    <2>3. m \in 2..Len(yyss) /\ m - 1 \in 1..Len(yyss)
        BY <1>1, <2>1, <2>2, StackShape
    <2>4. Follows(yyss[m - 1], yyss[m])
        BY <2>3 DEF StacksOK, Stacks, Linked
    <2>5. yyss[m - 1] = 0
        BY <2>1, <2>3, <2>4, StackShape, StatementBegins
    <2>6. ~(m - 1 \in 2..Len(yyss))
        BY <2>5 DEF StacksOK, Stacks, Linked
    <2>7. QED
        BY <2>3, <2>6, StackShape
<1>6. Stacks(<<>>, below, valuesBelow)
    <2>1. Len(below) = 2 /\ below[2] = 1 /\ Len(valuesBelow) = 1
        <3>1. Len(below) = Len(valuesBelow) + 1 /\ Len(valuesBelow) \in Nat
            BY <1>4, LenProperties DEF Stacks
        <3>2. QED
            BY <1>1, <1>5, <3>1, StatementBegins
    <2> HIDE DEF below, valuesBelow
    <2>2. Holds(<<>>, At(yystos, below[1 + 1]), valuesBelow[1])
        <3>1. valuesBelow[1] \in Values
            <4>1. valuesBelow \in Seq(Values) /\ 1 \in 1..Len(valuesBelow)
                BY <1>4, <2>1 DEF Stacks
            <4>2. QED
                BY <4>1, ElementOfSeq
        <3>2. At(yystos, below[1 + 1]) = 51
            BY <2>1, StatementBegins DEF States, NStates
        <3>3. QED
            BY <3>1, <3>2 DEF Holds, NodeSymbols
    <2>3. QED
        BY <1>4, <2>1, <2>2 DEF Stacks
<1> HIDE DEF below, valuesBelow
<1>7. Holds(<<>>, 52, value)
    BY DEF Holds, NodeSymbols
<1>8. Stacks(<<>>, yyss', yyvs')
    BY <1>1, <1>2, <1>3, <1>6, <1>7, PushStacks
<1>9. /\ Len(Append(below, t)) = Len(below) + 1
      /\ Append(below, t)[Len(below) + 1] = t
    BY <1>2, <1>4, AppendProperties DEF Stacks, Linked
<1>10. QED
    BY <1>2, <1>3, <1>8, <1>9

\* A rule that is reduced has been decided on, and may be reduced.
LEMMA ReducedRule ==
    ASSUME ParserInv, NEW rules, rules \subseteq 1..NRules, Reducing(rules)
    PROVE  /\ Decided
           /\ Rule \in rules
           /\ Rule \in 2..NRules
           /\ Completes(Last(yyss), Rule)
<1>1. Decided /\ Rule \in rules /\ Rule \in 1..NRules
    BY DEF Reducing
<1>2. Decision \in Int
    BY <1>1, DecidedRule DEF ParserInv
<1>3. Decision < 0
    BY <1>1, <1>2 DEF Rule, NRules
<1>4. Completes(Last(yyss), Rule)
    BY <1>1, <1>3, DecidedRule DEF ParserInv
<1>5. QED
    BY <1>1, <1>4 DEF Completes

\* A pool is well formed for what it holds and the length of the input.
LEMMA StillWellFormed ==
    ASSUME NEW pool, WellFormed(pool), UNCHANGED input
    PROVE  WellFormed(pool)'
BY DEF WellFormed, Node, FieldsBelow

\* A reduction keeps the invariant when its nodes and its value are right.
LEMMA ReplaceKeeps ==
    ASSUME ParserInv, NEW rules, rules \subseteq 1..NRules, Reducing(rules),
           NEW pool, WellFormed(pool), Len(ebuf) <= Len(pool), ebuf' = pool,
           NEW value, Holds(pool, At(yyr1, Rule), value), Replace(value),
           UNCHANGED <<scanner, yyerrstatus>>
    PROVE  ParserInv'
<1>1. Completes(Last(yyss), Rule) /\ Rule \in 2..NRules
    BY ReducedRule
<1>2. /\ Stacks(ebuf', yyss', yyvs')
      /\ At(yystos, yyss'[Len(yyss')]) = At(yyr1, Rule)
    BY <1>1, ReplaceKeepsStacks DEF ParserInv
<1>3. InputOK'
    BY DEF ParserInv, InputOK, scanner
<1>4. WellFormed(ebuf)'
    BY StillWellFormed DEF scanner, WellFormed, Node, FieldsBelow
<1>5. LookaheadOK'
    <2>1. yychar \in DOMAIN WordOp => Live(ebuf', yylval)
        BY GrowingKeepsLive DEF ParserInv, LookaheadOK
    <2>2. QED
        BY <2>1 DEF ParserInv, LookaheadOK, scanner
<1>6. PlaceOK'
    <2>1. \E A \in 51..74 : At(yyr1, Rule) = A
        BY <1>1, BelowRule DEF ParserInv
    <2>2. PICK A \in 51..74 : At(yyr1, Rule) = A
        BY <2>1
    <2>3. At(yystos, yyss'[Len(yyss')]) # 39
        BY <1>2, <2>2
    <2>4. pc' = "yynewstate"
        BY DEF Replace
    <2>5. QED
        BY <2>3, <2>4 DEF PlaceOK
<1>7. CountersOK'
    BY DEF ParserInv, CountersOK, scanner, Replace
<1>8. QED
    BY <1>2, <1>3, <1>4, <1>5, <1>6, <1>7 DEF ParserInv, StacksOK

\* A reduction that only gives a value its left side may hold.
LEMMA GiveKeeps ==
    ASSUME ParserInv, NEW rules, rules \subseteq 1..NRules, Reducing(rules),
           NEW value, Holds(ebuf, At(yyr1, Rule), value), Give(value)
    PROVE  ParserInv'
<1>1. Len(ebuf) <= Len(ebuf)
    BY LenProperties DEF ParserInv, WellFormed
<1>2. QED
    BY <1>1, ReplaceKeeps DEF Give, ParserInv

\* A live node may stand for every symbol that is a node.
LEMMA LiveHolds ==
    ASSUME NEW pool, NEW A \in NodeSymbols, NEW v, Live(pool, v)
    PROVE  Holds(pool, A, v)
<1>1. A # 74
    BY DEF NodeSymbols
<1>2. QED
    BY <1>1 DEF Holds, Live, Values

\* A reduction that builds nodes and gives one of them.
LEMMA BuildKeeps ==
    ASSUME ParserInv, NEW rules, rules \subseteq 15..67, Reducing(rules),
           NEW made, Made(ebuf, made), Build(made)
    PROVE  ParserInv'
<1>1. rules \subseteq 1..NRules
    BY DEF NRules
<1>2. At(yyr1, Rule) \in NodeSymbols
    BY <1>1, ReducedRule, LeftSides
<1>3. Holds(made.pool, At(yyr1, Rule), made.value)
    BY <1>2, LiveHolds DEF Made
<1>4. QED
    BY <1>1, <1>3, ReplaceKeeps DEF Build, Made

\* The value of a symbol: where it is used as a node, and anywhere.
LEMMA NodeValue ==
    ASSUME ParserInv, NEW rules, rules \subseteq 1..NRules, Reducing(rules),
           NEW k \in 1..9, \A r \in rules : NodeAt(r, k)
    PROVE  Live(ebuf, Dollar(k))
BY ReducedRule, DollarIsLive DEF ParserInv

\* Whatever a rule's symbols hold is a value.
LEMMA AnyValue ==
    ASSUME ParserInv, NEW rules, rules \subseteq 1..NRules, Reducing(rules),
           NEW k \in 1..9, \A r \in rules : k <= At(yyr2, r)
    PROVE  Dollar(k) \in Values
<1>1. Rule \in rules /\ Completes(Last(yyss), Rule) /\ Rule \in 1..NRules
    BY ReducedRule
<1>2. k \in 1..At(yyr2, Rule)
    BY <1>1, RuleShape
<1>3. QED
    BY <1>1, <1>2, DollarHolds DEF ParserInv, Holds

\* A node made of nodes for a left side.
NodeOperators == Operators \ {Op.COLUMNDEF}

\* The operators the reductions make nodes of.
LEMMA OperatorsOfNodes ==
    /\ NodeOperators \subseteq Operators
    /\ Op.COLUMNDEF \in Operators
    /\ {Op.RLIST, Op.NULL, Op.SORTSPEC, Op.OUTCOLNAME, Op.PRODUCT, Op.FCALL,
        Op.SELECTION, Op.GROUP, Op.PROJECTION, Op.SORT, Op.INSERTROW,
        Op.CREATETABLE} \subseteq NodeOperators
    /\ BinValues \cap Operators \subseteq NodeOperators
<1>1. /\ Op.RLIST \in Operators /\ Op.NULL \in Operators
      /\ Op.SORTSPEC \in Operators /\ Op.OUTCOLNAME \in Operators
      /\ Op.PRODUCT \in Operators /\ Op.FCALL \in Operators
      /\ Op.SELECTION \in Operators /\ Op.GROUP \in Operators
      /\ Op.PROJECTION \in Operators /\ Op.SORT \in Operators
      /\ Op.INSERTROW \in Operators /\ Op.CREATETABLE \in Operators
      /\ Op.COLUMNDEF \in Operators
    BY OperatorNames
<1>2. QED
    BY <1>1 DEF NodeOperators, BinValues, Op

\* makeexpr of live nodes makes a node of an operator with fields.
LEMMA NodeMakes ==
    ASSUME InputOK, NEW pool, WellFormed(pool), NEW op \in NodeOperators,
           NEW a, Live(pool, a) \/ a = 0, NEW b, Live(pool, b) \/ b = 0
    PROVE  Made(pool, makeexpr(pool, op, a, b))
BY makeexprMakes DEF NodeOperators

\* Two makings one after the other are a making.
LEMMA MadeTwice ==
    ASSUME NEW pool, WellFormed(pool), NEW first, Made(pool, first),
           NEW second, Made(first.pool, second)
    PROVE  Made(pool, second)
<1>1. Len(pool) \in Nat /\ Len(first.pool) \in Nat /\ Len(second.pool) \in Nat
    BY LenProperties DEF Made, WellFormed
<1>2. QED
    BY <1>1 DEF Made

\* A reduction that is one call of makeexpr on live nodes.
LEMMA MakeKeeps ==
    ASSUME ParserInv, NEW rules, rules \subseteq 15..67, Reducing(rules),
           NEW op \in NodeOperators,
           NEW a, Live(ebuf, a) \/ a = 0, NEW b, Live(ebuf, b) \/ b = 0,
           Build(makeexpr(ebuf, op, a, b))
    PROVE  ParserInv'
BY NodeMakes, BuildKeeps DEF ParserInv

\* The reduction that begins a list.
LEMMA FirstItemKeeps ==
    ASSUME ParserInv, NEW rules, rules \subseteq {26, 38, 43, 51, 57, 58, 63},
           Reducing(rules), FirstItem
    PROVE  ParserInv'
<1>1. rules \subseteq 15..67 /\ rules \subseteq 1..NRules
      /\ {1, 3} \subseteq 1..9
    BY DEF NRules
<1>2. \A r \in rules : NodeAt(r, 1)
    BY DEF NodeAt, NodePlaces
<1>3. Live(ebuf, Dollar(1))
    BY <1>1, <1>2, NodeValue
<1>4. QED
    BY <1>1, <1>3, MakeKeeps, OperatorsOfNodes DEF FirstItem

\* The reduction that puts an item before a list.
LEMMA NextItemKeeps ==
    ASSUME ParserInv, NEW rules, rules \subseteq {27, 39, 44, 52, 60, 61, 64},
           Reducing(rules), NextItem
    PROVE  ParserInv'
<1>1. rules \subseteq 15..67 /\ rules \subseteq 1..NRules
      /\ {1, 3} \subseteq 1..9
    BY DEF NRules
<1>2. \A r \in rules : NodeAt(r, 1) /\ NodeAt(r, 3)
    BY DEF NodeAt, NodePlaces
<1>3. Live(ebuf, Dollar(1)) /\ Live(ebuf, Dollar(3))
    BY <1>1, <1>2, NodeValue
<1>4. QED
    BY <1>1, <1>3, MakeKeeps, OperatorsOfNodes DEF NextItem

\* The five lists of the grammar.
LEMMA ListsKeep ==
    ASSUME ParserInv,
           \/ ReduceFncargs \/ ReduceGrouplist \/ ReduceOrderlist
           \/ ReduceProjection \/ ReduceColumnDecls
    PROVE  ParserInv'
<1>1. CASE \E rules \in SUBSET {26, 38, 43, 51, 63} :
              Reducing(rules) /\ FirstItem
    BY <1>1, FirstItemKeeps
<1>2. CASE \E rules \in SUBSET {27, 39, 44, 52, 64} :
              Reducing(rules) /\ NextItem
    BY <1>2, NextItemKeeps
<1>3. QED
    BY <1>1, <1>2 DEF ReduceFncargs, ReduceGrouplist, ReduceOrderlist,
                      ReduceProjection, ReduceColumnDecls

\* The reductions of one symbol to another, one lemma for each kind of rule
\* from here to ReduceKeeps: each keeps the invariant.
LEMMA UnitKeeps == ParserInv /\ ReduceUnit => ParserInv'
<1> SUFFICES ASSUME ParserInv, ReduceUnit PROVE ParserInv'
    OBVIOUS
<1> DEFINE rules == {3, 17, 23, 29, 30, 40, 55}
<1>1. Reducing(rules) /\ Give(Dollar(1)) /\ rules \subseteq 1..NRules
    BY DEF ReduceUnit, NRules
<1>2. 1 \in 1..9 /\ \A r \in rules : 1 <= At(yyr2, r)
    BY DEF At, yyr2
<1>3. \A r \in rules : r = 3 \/ NodeAt(r, 1)
    BY DEF NodeAt, NodePlaces
<1>4. \A r \in rules : r = 3 \/ r \in 15..67
    OBVIOUS
<1> HIDE DEF rules
<1>5. Rule \in rules /\ Completes(Last(yyss), Rule) /\ Rule \in 2..NRules
    BY <1>1, ReducedRule
<1>6. Dollar(1) \in Values
    BY <1>1, <1>2, AnyValue
<1>7. Holds(ebuf, At(yyr1, Rule), Dollar(1))
    <2>1. CASE Rule = 3
        <3>1. At(yyr1, Rule) = 51
            BY <1>5, <2>1, LeftSides
        <3>2. QED
            BY <1>6, <3>1 DEF Holds, NodeSymbols
    <2>2. CASE Rule # 3
        <3>1. NodeAt(Rule, 1) /\ Rule \in 15..67
            BY <1>3, <1>4, <1>5, <2>2
        <3>2. Live(ebuf, Dollar(1))
            BY <1>2, <1>5, <3>1, DollarIsLive DEF ParserInv
        <3>3. QED
            BY <1>5, <3>1, <3>2, LeftSides, LiveHolds
    <2>3. QED
        BY <2>1, <2>2
<1>8. QED
    BY <1>1, <1>7, GiveKeeps

\* A reduction that hands on the node at one of its places.
LEMMA GiveNodeKeeps ==
    ASSUME ParserInv, NEW rules, rules \subseteq 15..67, Reducing(rules),
           NEW k \in 1..9, \A r \in rules : NodeAt(r, k), Give(Dollar(k))
    PROVE  ParserInv'
<1>1. rules \subseteq 1..NRules
    BY DEF NRules
<1>2. Live(ebuf, Dollar(k))
    BY <1>1, NodeValue
<1>3. At(yyr1, Rule) \in NodeSymbols
    BY <1>1, ReducedRule, LeftSides
<1>4. QED
    BY <1>1, <1>2, <1>3, LiveHolds, GiveKeeps

LEMMA ParenthesesKeep == ParserInv /\ ReduceParentheses => ParserInv'
<1>1. 2 \in 1..9 /\ \A r \in {21, 22} : NodeAt(r, 2)
    BY DEF NodeAt, NodePlaces
<1>2. QED
    BY <1>1, GiveNodeKeeps DEF ReduceParentheses

LEMMA ProgramKeeps == ParserInv /\ ReduceProgram => ParserInv'
<1> SUFFICES ASSUME ParserInv, ReduceProgram PROVE ParserInv'
    OBVIOUS
<1>1. {2} \subseteq 1..NRules /\ Reducing({2}) /\ Give(Unset)
    BY DEF ReduceProgram, NRules
<1>2. At(yyr1, Rule) = 51
    BY <1>1, ReducedRule, LeftSides
<1>3. Holds(ebuf, 51, Unset)
    BY PoolAssumption DEF Holds, NodeSymbols, Unset, Values
<1>4. QED
    BY <1>1, <1>2, <1>3, GiveKeeps

LEMMA ClauseKeeps == ParserInv /\ ReduceClause => ParserInv'
<1> SUFFICES ASSUME ParserInv, ReduceClause PROVE ParserInv'
    OBVIOUS
<1>1. CASE Reducing({32, 34, 36, 41}) /\ Give(0)
    <2>1. {32, 34, 36, 41} \subseteq 1..NRules
        BY DEF NRules
    <2>2. At(yyr1, Rule) \in Clauses
        BY <1>1, <2>1, ReducedRule, LeftSides
    <2>3. \A A \in Clauses : Holds(ebuf, A, 0)
        BY PoolAssumption DEF Holds, Clauses, Values
    <2>4. QED
        BY <1>1, <2>1, <2>2, <2>3, GiveKeeps
<1>2. CASE Reducing({33, 35}) /\ Give(Dollar(2))
    <2>1. 2 \in 1..9 /\ \A r \in {33, 35} : NodeAt(r, 2)
        BY DEF NodeAt, NodePlaces
    <2>2. QED
        BY <1>2, <2>1, GiveNodeKeeps
<1>3. CASE Reducing({37, 42}) /\ Give(Dollar(3))
    <2>1. 3 \in 1..9 /\ \A r \in {37, 42} : NodeAt(r, 3)
        BY DEF NodeAt, NodePlaces
    <2>2. QED
        BY <1>3, <2>1, GiveNodeKeeps
<1>4. QED
    BY <1>1, <1>2, <1>3 DEF ReduceClause

LEMMA NameKeeps == ParserInv /\ ReduceName => ParserInv'
<1> SUFFICES ASSUME ParserInv, ReduceName PROVE ParserInv'
    OBVIOUS
<1>1. PICK rules \in SUBSET {15, 16, 28}, op \in Leaves :
         Reducing(rules) /\ Build(setname(ebuf, op, Dollar(1)))
    BY DEF ReduceName, Leaves
<1>2. 1 \in 1..9 /\ \A r \in {15, 16, 28} : NodeAt(r, 1)
    BY DEF NodeAt, NodePlaces
<1>3. rules \subseteq 15..67 /\ rules \subseteq 1..NRules
    BY DEF NRules
<1>4. Live(ebuf, Dollar(1))
    BY <1>1, <1>2, <1>3, NodeValue
<1>5. Made(ebuf, setname(ebuf, op, Dollar(1)))
    BY <1>4, setnameMakes DEF ParserInv
<1>6. QED
    BY <1>1, <1>3, <1>5, BuildKeeps

LEMMA OperatorKeeps == ParserInv /\ ReduceOperator => ParserInv'
<1> SUFFICES ASSUME ParserInv, ReduceOperator PROVE ParserInv'
    OBVIOUS
<1>1. 68..79 \subseteq 1..NRules /\ Reducing(68..79) /\ Give(BinOps[Rule - 67])
    BY DEF ReduceOperator, NRules
<1>2. Rule \in 68..79 /\ Rule \in 2..NRules
    BY <1>1, ReducedRule
<1>3. At(yyr1, Rule) = 74
    BY <1>2, LeftSides
<1>4. Rule - 67 \in 1..12
    BY <1>2
<1>5. BinOps[Rule - 67] \in BinValues \cap Operators
    BY <1>4, OperatorsOfExpressions
<1>6. \A v \in BinValues \cap Operators : Holds(ebuf, 74, v)
    BY PoolAssumption DEF Holds, NodeSymbols, Values, BinValues
<1>7. QED
    BY <1>1, <1>3, <1>5, <1>6, GiveKeeps

\* A binary operator's node, with the operands at places 1 and k.
LEMMA ExpressionNodeKeeps ==
    ASSUME ParserInv, NEW rules, rules \subseteq 18..20, Reducing(rules),
           NEW k \in 1..9, \A r \in rules : NodeAt(r, k),
           Build(makeexpr(ebuf, Dollar(2), Dollar(1), Dollar(k)))
    PROVE  ParserInv'
<1>1. rules \subseteq 15..67 /\ rules \subseteq 1..NRules
      /\ {1, 2} \subseteq 1..9
    BY DEF NRules
<1>2. \A r \in 18..20 : NodeAt(r, 1)
    BY DEF NodeAt, NodePlaces
<1>3. \A r \in rules : NodeAt(r, 1)
    BY <1>2
<1>4. Live(ebuf, Dollar(1)) /\ Live(ebuf, Dollar(k))
    BY <1>1, <1>3, NodeValue
<1>5. Dollar(2) \in NodeOperators
    <2>1. Rule \in 18..20 /\ Completes(Last(yyss), Rule)
        BY <1>1, ReducedRule
    <2>2. \A r \in 18..20 : 2 <= At(yyr2, r) /\ At(yyr2, r) \in Nat
        BY DEF At, yyr2
    <2>3. 2 \in 1..At(yyr2, Rule)
        BY <2>1, <2>2
    <2>4. PICK s \in States : Read(s, Rule, 2)
          /\ Holds(ebuf, At(yystos, s), Dollar(2))
        BY <2>1, <2>3, DollarHolds DEF ParserInv
    <2>5. At(yystos, s) = 74
        BY <2>1, <2>4, ClausesAndOperators
    <2>6. QED
        BY <2>4, <2>5, OperatorsOfNodes DEF Holds
<1>6. QED
    BY <1>1, <1>4, <1>5, MakeKeeps

LEMMA ExpressionKeeps == ParserInv /\ ReduceExpression => ParserInv'
<1>1. {3, 4} \subseteq 1..9 /\ {18} \subseteq 18..20
      /\ {19, 20} \subseteq 18..20
    OBVIOUS
<1>2. NodeAt(18, 3) /\ \A r \in {19, 20} : NodeAt(r, 4)
    BY DEF NodeAt, NodePlaces
<1>3. QED
    BY <1>1, <1>2, ExpressionNodeKeeps DEF ReduceExpression

LEMMA CallKeeps == ParserInv /\ ReduceCall => ParserInv'
<1> SUFFICES ASSUME ParserInv, ReduceCall PROVE ParserInv'
    OBVIOUS
<1> DEFINE name == setname(ebuf, Op.FNAME, Dollar(1))
<1>1. 24..25 \subseteq 15..67 /\ {24, 25} \subseteq 1..NRules
      /\ {1, 3} \subseteq 1..9
    BY DEF NRules
<1>2. NodeAt(24, 1) /\ NodeAt(24, 3) /\ NodeAt(25, 1)
    BY DEF NodeAt, NodePlaces
<1>3. ASSUME Live(ebuf, Dollar(1))
      PROVE  Made(ebuf, name)
    BY <1>3, setnameMakes DEF ParserInv, Leaves
<1> HIDE DEF name
<1>4. CASE /\ Reducing({24})
           /\ Build(makeexpr(name.pool, Op.FCALL, name.value, Dollar(3)))
    <2>1. Live(ebuf, Dollar(1)) /\ Live(ebuf, Dollar(3))
        BY <1>1, <1>2, <1>4, NodeValue
    <2>2. Made(ebuf, name)
        BY <1>3, <2>1
    <2>3. Live(name.pool, Dollar(3))
        BY <2>1, <2>2, GrowingKeepsLive DEF Made, ParserInv
    <2>4. Made(name.pool, makeexpr(name.pool, Op.FCALL, name.value, Dollar(3)))
        BY <2>2, <2>3, NodeMakes, OperatorsOfNodes DEF Made, ParserInv
    <2>5. Made(ebuf, makeexpr(name.pool, Op.FCALL, name.value, Dollar(3)))
        BY <2>2, <2>4, MadeTwice DEF ParserInv
    <2>6. {24} \subseteq 15..67
        OBVIOUS
    <2>7. QED
        BY <1>4, <2>5, <2>6, BuildKeeps
<1>5. CASE /\ Reducing({25})
           /\ Build(makeexpr(name.pool, Op.FCALL, name.value, 0))
    <2>1. Live(ebuf, Dollar(1))
        BY <1>1, <1>2, <1>5, NodeValue
    <2>2. Made(ebuf, name)
        BY <1>3, <2>1
    <2>3. Made(name.pool, makeexpr(name.pool, Op.FCALL, name.value, 0))
        BY <2>2, NodeMakes, OperatorsOfNodes DEF Made, ParserInv
    <2>4. Made(ebuf, makeexpr(name.pool, Op.FCALL, name.value, 0))
        BY <2>2, <2>3, MadeTwice DEF ParserInv
    <2>5. {25} \subseteq 15..67
        OBVIOUS
    <2>6. QED
        BY <1>5, <2>4, <2>5, BuildKeeps
<1>6. QED
    BY <1>4, <1>5 DEF ReduceCall, name

\* The node of NULL, made before the node that it is put in.
Null == makeexpr(ebuf, Op.NULL, 0, 0)

\* The node of a NULL is made, and the nodes before it stay live.
LEMMA NullMakes ==
    ASSUME ParserInv
    PROVE  /\ Made(ebuf, Null)
           /\ \A v : Live(ebuf, v) => Live(Null.pool, v)
<1>1. Made(ebuf, Null)
    BY NodeMakes, OperatorsOfNodes DEF Null, ParserInv
<1>2. QED
    BY <1>1, GrowingKeepsLive DEF Made, ParserInv

\* A reduction that makes a node after the node of a NULL.
LEMMA NullNodeKeeps ==
    ASSUME ParserInv, NEW rules, rules \subseteq 15..67, Reducing(rules),
           NEW op \in NodeOperators,
           NEW a, Live(Null.pool, a), NEW b, Live(Null.pool, b) \/ b = 0,
           Build(makeexpr(Null.pool, op, a, b))
    PROVE  ParserInv'
<1>1. Made(ebuf, Null)
    BY NullMakes
<1>2. Made(Null.pool, makeexpr(Null.pool, op, a, b))
    BY <1>1, NodeMakes DEF Made, ParserInv
<1>3. Made(ebuf, makeexpr(Null.pool, op, a, b))
    BY <1>1, <1>2, MadeTwice DEF ParserInv
<1>4. QED
    BY <1>3, BuildKeeps

LEMMA DataListKeeps == ParserInv /\ ReduceDataList => ParserInv'
<1> SUFFICES ASSUME ParserInv, ReduceDataList PROVE ParserInv'
    OBVIOUS
<1>1. CASE Reducing({57, 58}) /\ FirstItem
    BY <1>1, FirstItemKeeps
<1>2. CASE Reducing({60, 61}) /\ NextItem
    BY <1>2, NextItemKeeps
<1>3. CASE /\ Reducing({59})
           /\ Build(makeexpr(Null.pool, Op.RLIST, Null.value, 0))
    <2>1. {59} \subseteq 15..67
        OBVIOUS
    <2>2. Live(Null.pool, Null.value)
        BY NullMakes DEF Made
    <2>3. QED
        BY <1>3, <2>1, <2>2, NullNodeKeeps, OperatorsOfNodes
<1>4. CASE /\ Reducing({62})
           /\ Build(makeexpr(Null.pool, Op.RLIST, Null.value, Dollar(1)))
    <2>1. {62} \subseteq 15..67 /\ {62} \subseteq 1..NRules /\ 1 \in 1..9
        BY DEF NRules
    <2>2. NodeAt(62, 1)
        BY DEF NodeAt, NodePlaces
    <2>3. Live(Null.pool, Null.value)
        BY NullMakes DEF Made
    <2>4. Live(Null.pool, Dollar(1))
        BY <1>4, <2>1, <2>2, NodeValue, NullMakes
    <2>5. QED
        BY <1>4, <2>1, <2>3, <2>4, NullNodeKeeps, OperatorsOfNodes
<1>5. QED
    BY <1>1, <1>2, <1>3, <1>4 DEF ReduceDataList, Null

LEMMA SortSpecKeeps == ParserInv /\ ReduceSortSpec => ParserInv'
<1> SUFFICES ASSUME ParserInv, ReduceSortSpec PROVE ParserInv'
    OBVIOUS
<1>1. 45..50 \subseteq 15..67 /\ 45..50 \subseteq 1..NRules /\ 1 \in 1..9
    BY DEF NRules
<1>2. \A r \in 45..50 : NodeAt(r, 1)
    BY DEF NodeAt, NodePlaces
<1>3. CASE /\ Reducing({45, 46, 48, 49})
           /\ Build(makeexpr(ebuf, Op.SORTSPEC, Dollar(1), 0))
    <2>1. {45, 46, 48, 49} \subseteq 45..50
        OBVIOUS
    <2> DEFINE rules == {45, 46, 48, 49}
    <2> HIDE DEF rules
    <2>2. rules \subseteq 15..67 /\ rules \subseteq 1..NRules
          /\ Reducing(rules)
        BY <1>1, <1>3, <2>1 DEF rules
    <2>3. \A r \in rules : NodeAt(r, 1)
        BY <1>2, <2>1 DEF rules
    <2>4. Live(ebuf, Dollar(1))
        BY <1>1, <2>2, <2>3, NodeValue
    <2>5. QED
        BY <1>3, <2>2, <2>4, MakeKeeps, OperatorsOfNodes
<1>4. CASE /\ Reducing({47, 50})
           /\ Build(makeexpr(Null.pool, Op.SORTSPEC, Dollar(1), Null.value))
    <2>1. {47, 50} \subseteq 45..50
        OBVIOUS
    <2> DEFINE rules == {47, 50}
    <2> HIDE DEF rules
    <2>2. rules \subseteq 15..67 /\ rules \subseteq 1..NRules
          /\ Reducing(rules)
        BY <1>1, <1>4, <2>1 DEF rules
    <2>3. \A r \in rules : NodeAt(r, 1)
        BY <1>2, <2>1 DEF rules
    <2>4. Live(Null.pool, Dollar(1))
        BY <1>1, <2>2, <2>3, NodeValue, NullMakes
    <2>5. Live(Null.pool, Null.value)
        BY NullMakes DEF Made
    <2>6. QED
        BY <1>4, <2>2, <2>4, <2>5, NullNodeKeeps, OperatorsOfNodes
<1>5. QED
    BY <1>3, <1>4 DEF ReduceSortSpec, Null

LEMMA OutcolAndJoinKeep == ParserInv /\ (ReduceOutcol \/ ReduceJoin)
      => ParserInv'
<1> SUFFICES ASSUME ParserInv, ReduceOutcol \/ ReduceJoin PROVE ParserInv'
    OBVIOUS
<1>1. {53, 54, 56} \subseteq 15..67 /\ {53, 54, 56} \subseteq 1..NRules
      /\ {1, 3} \subseteq 1..9
    BY DEF NRules
<1>2. /\ \A r \in {53, 54, 56} : NodeAt(r, 1)
      /\ \A r \in {53, 56} : NodeAt(r, 3)
    BY DEF NodeAt, NodePlaces
<1>3. CASE /\ Reducing({53})
           /\ Build(makeexpr(ebuf, Op.OUTCOLNAME, Dollar(1), Dollar(3)))
    <2>1. Live(ebuf, Dollar(1)) /\ Live(ebuf, Dollar(3))
        BY <1>1, <1>2, <1>3, NodeValue
    <2>2. QED
        BY <1>1, <1>3, <2>1, MakeKeeps, OperatorsOfNodes
<1>4. CASE /\ Reducing({54})
           /\ Build(makeexpr(ebuf, Op.OUTCOLNAME, Dollar(1), Dollar(1)))
    <2>1. Live(ebuf, Dollar(1))
        BY <1>1, <1>2, <1>4, NodeValue
    <2>2. QED
        BY <1>1, <1>4, <2>1, MakeKeeps, OperatorsOfNodes
<1>5. CASE /\ Reducing({56})
           /\ Build(makeexpr(ebuf, Op.PRODUCT, Dollar(1), Dollar(3)))
    <2>1. Live(ebuf, Dollar(1)) /\ Live(ebuf, Dollar(3))
        BY <1>1, <1>2, <1>5, NodeValue
    <2>2. QED
        BY <1>1, <1>5, <2>1, MakeKeeps, OperatorsOfNodes
<1>6. QED
    BY <1>3, <1>4, <1>5 DEF ReduceOutcol, ReduceJoin

\* The second field of a column definition is the kind of its key.
LEMMA ColumnDeclKeeps == ParserInv /\ ReduceColumnDecl => ParserInv'
<1>1. ASSUME ParserInv, NEW rules, rules \subseteq 65..67, Reducing(rules),
             NEW kind \in 0..3,
             Build(makeexpr(ebuf, Op.COLUMNDEF, Dollar(1), kind))
      PROVE  ParserInv'
    <2>1. rules \subseteq 15..67 /\ rules \subseteq 1..NRules /\ 1 \in 1..9
        BY <1>1 DEF NRules
    <2>2. \A r \in 65..67 : NodeAt(r, 1)
        BY DEF NodeAt, NodePlaces
    <2>3. \A r \in rules : NodeAt(r, 1)
        BY <1>1, <2>2
    <2>4. Live(ebuf, Dollar(1))
        BY <1>1, <2>1, <2>3, NodeValue
    <2>5. Made(ebuf, makeexpr(ebuf, Op.COLUMNDEF, Dollar(1), kind))
        BY <1>1, <2>4, makeexprMakes, OperatorsOfNodes DEF ParserInv
    <2>6. QED
        BY <1>1, <2>1, <2>5, BuildKeeps
<1>2. {0, 1, 3} \subseteq 0..3
      /\ {65} \subseteq 65..67 /\ {66} \subseteq 65..67
            /\ {67} \subseteq 65..67
    OBVIOUS
<1>3. QED
    BY <1>1, <1>2 DEF ReduceColumnDecl

\* A clause wrapped around a tree that was made.
LEMMA WrapMakes ==
    ASSUME InputOK, NEW pool, WellFormed(pool), NEW made, Made(pool, made),
           NEW op \in NodeOperators, NEW clause,
           Live(pool, clause) \/ clause = 0
    PROVE  Made(pool, Wrap(made, op, clause))
<1>1. CASE clause = 0
    BY <1>1 DEF Wrap
<1>2. CASE clause # 0
    <2>1. Live(made.pool, clause)
        BY <1>2, GrowingKeepsLive DEF Made
    <2>2. Made(made.pool, makeexpr(made.pool, op, made.value, clause))
        BY <2>1, NodeMakes DEF Made
    <2>3. Made(pool, makeexpr(made.pool, op, made.value, clause))
        BY <2>2, MadeTwice
    <2>4. QED
        BY <1>2, <2>3 DEF Wrap
<1>3. QED
    BY <1>1, <1>2

\* The tree of a query is made of the clauses that are there.
LEMMA SelectMakes ==
    ASSUME ParserInv, Live(ebuf, Dollar(2)), Live(ebuf, Dollar(4)),
           \A k \in 5..8 : Live(ebuf, Dollar(k)) \/ Dollar(k) = 0
    PROVE  Made(ebuf, SelectTree)
<1> DEFINE tables == [pool |-> ebuf, value |-> Dollar(4)]
           chosen == Wrap(tables, Op.SELECTION, Dollar(5))
           grouped == Wrap(chosen, Op.GROUP, Dollar(6))
           projected == makeexpr(grouped.pool, Op.PROJECTION, grouped.value,
                                 Dollar(2))
           filtered == Wrap(projected, Op.SELECTION, Dollar(7))
<1>1. InputOK /\ WellFormed(ebuf) /\ Len(ebuf) <= Len(ebuf)
    BY LenProperties DEF ParserInv, WellFormed
<1>2. 5 \in 5..8 /\ 6 \in 5..8 /\ 7 \in 5..8 /\ 8 \in 5..8
    OBVIOUS
<1>3. Made(ebuf, tables)
    BY <1>1 DEF Made
<1> HIDE DEF tables
<1>4. Made(ebuf, chosen)
    BY <1>1, <1>2, <1>3, WrapMakes, OperatorsOfNodes
<1> HIDE DEF chosen
<1>5. Made(ebuf, grouped)
    BY <1>1, <1>2, <1>4, WrapMakes, OperatorsOfNodes
<1> HIDE DEF grouped
<1>6. Made(ebuf, projected)
    <2>1. Live(grouped.pool, Dollar(2))
        BY <1>1, <1>5, GrowingKeepsLive DEF Made
    <2>2. Made(grouped.pool, projected)
        BY <1>1, <1>5, <2>1, NodeMakes, OperatorsOfNodes DEF Made
    <2>3. QED
        BY <1>1, <1>5, <2>2, MadeTwice
<1> HIDE DEF projected
<1>7. Made(ebuf, filtered)
    BY <1>1, <1>2, <1>6, WrapMakes, OperatorsOfNodes
<1> HIDE DEF filtered
<1>8. Made(ebuf, Wrap(filtered, Op.SORT, Dollar(8)))
    BY <1>1, <1>2, <1>7, WrapMakes, OperatorsOfNodes
<1>9. QED
    BY <1>8 DEF SelectTree, tables, chosen, grouped, projected, filtered

LEMMA SelectKeeps == ParserInv /\ ReduceSelect => ParserInv'
<1> SUFFICES ASSUME ParserInv, ReduceSelect PROVE ParserInv'
    OBVIOUS
<1>1. {31} \subseteq 15..67 /\ {31} \subseteq 1..NRules
      /\ {2, 4} \subseteq 1..9
    BY DEF NRules
<1>2. Reducing({31}) /\ Build(SelectTree)
    BY DEF ReduceSelect
<1>3. NodeAt(31, 2) /\ NodeAt(31, 4)
    BY DEF NodeAt, NodePlaces
<1>4. Live(ebuf, Dollar(2)) /\ Live(ebuf, Dollar(4))
    BY <1>1, <1>2, <1>3, NodeValue
<1>5. ASSUME NEW k \in 5..8
      PROVE  Live(ebuf, Dollar(k)) \/ Dollar(k) = 0
    <2>1. Rule = 31 /\ Completes(Last(yyss), Rule)
        BY <1>1, <1>2, ReducedRule
    <2>2. At(yyr2, 31) = 8
        BY DEF At, yyr2
    <2>3. k \in 1..At(yyr2, Rule)
        BY <2>1, <2>2
    <2>4. PICK s \in States : Read(s, Rule, k)
          /\ Holds(ebuf, At(yystos, s), Dollar(k))
        BY <2>1, <2>3, DollarHolds DEF ParserInv
    <2>5. At(yystos, s) \in Clauses
        BY <2>1, <2>4, ClausesAndOperators
    <2>6. Clauses \subseteq NodeSymbols
        BY DEF Clauses, NodeSymbols
    <2>7. QED
        BY <2>4, <2>5, <2>6 DEF Holds
<1>6. Made(ebuf, SelectTree)
    BY <1>4, <1>5, SelectMakes
<1>7. QED
    BY <1>1, <1>2, <1>6, BuildKeeps

LEMMA ReduceKeeps == ParserInv /\ Reduce => ParserInv'
BY UnitKeeps, ParenthesesKeep, ProgramKeeps, ClauseKeeps, NameKeeps,
   OperatorKeeps, ExpressionKeeps, CallKeeps, ListsKeep, DataListKeeps,
   SortSpecKeeps, OutcolAndJoinKeep, ColumnDeclKeeps, SelectKeeps DEF Reduce

-----------------------------------------------------------------------------
(***************************************************************************)
(* Statements                                                              *)
(***************************************************************************)

\* The pool the statements leave behind is well formed.
LEMMA EmptyPool == WellFormed(<<>>) /\ Len(<<>>) = 0
BY PoolAssumption DEF WellFormed

\* When a statement is reduced its semicolon is on the stack, and nothing
\* has been read after it.
LEMMA NothingAhead ==
    ASSUME ParserInv, NEW rules, rules \subseteq 5..14, Reducing(rules)
    PROVE  yychar = Empty
<1>1. rules \subseteq 1..NRules
    BY DEF NRules
<1>2. Decided /\ Rule \in 5..14 /\ Completes(Last(yyss), Rule)
    BY <1>1, ReducedRule
<1>3. \A r \in 5..14 : At(yyr2, r) \in 1..9
    BY DEF At, yyr2
<1>4. PICK r \in 5..14, n \in 1..9 : r = Rule /\ At(yyr2, r) = n
    BY <1>2, <1>3
<1>5. Read(Last(yyss), r, n) /\ Last(yyss) \in States
    BY <1>2, <1>4, StackShape DEF Completes, ParserInv
<1>6. At(yystos, Last(yyss)) = 39
    BY <1>4, <1>5, StatementEnds
<1>7. QED
    BY <1>2, <1>6, StackShape DEF ParserInv, PlaceOK, Decided

\* The pool may be emptied with a statement.
LEMMA EmptyKeeps ==
    ASSUME ParserInv, NEW rules, rules \subseteq 5..14, Reducing(rules),
           NEW value \in Values, Replace(value), ebuf' = <<>>,
           UNCHANGED <<scanner, yyerrstatus>>
    PROVE  ParserInv'
<1>1. rules \subseteq 1..NRules
    BY DEF NRules
<1>2. Rule \in 5..14 /\ Completes(Last(yyss), Rule)
    BY <1>1, ReducedRule
<1>3. /\ Stacks(ebuf', yyss', yyvs')
      /\ At(yystos, yyss'[Len(yyss')]) = 52
    BY <1>2, ReplaceAndEmpty DEF ParserInv
<1>4. InputOK'
    BY DEF ParserInv, InputOK, scanner
<1>5. WellFormed(ebuf)'
    BY EmptyPool, StillWellFormed DEF scanner, WellFormed, Node, FieldsBelow
<1>6. LookaheadOK'
    <2>1. yychar = Empty
        BY NothingAhead
    <2>2. Empty \notin DOMAIN WordOp
        BY OperatorsOfWords DEF Empty
    <2>3. QED
        BY <2>1, <2>2 DEF ParserInv, LookaheadOK, scanner
<1>7. PlaceOK'
    <2>1. pc' = "yynewstate"
        BY DEF Replace
    <2>2. QED
        BY <1>3, <2>1 DEF PlaceOK
<1>8. CountersOK'
    BY DEF ParserInv, CountersOK, scanner, Replace
<1>9. QED
    BY <1>3, <1>4, <1>5, <1>6, <1>7, <1>8 DEF ParserInv, StacksOK

\* A statement that makes its tree, hands it to compile and clears the pool.
LEMMA ExecuteKeeps ==
    ASSUME ParserInv, NEW rules, rules \subseteq 5..14, Reducing(rules),
           NEW made, Made(ebuf, made), NEW value \in Values,
           Execute(made, value)
    PROVE  ParserInv'
<1>1. CASE /\ cvt_itoe(made.value) = 0
           /\ pc' = "crashed"
           /\ ebuf' = made.pool
           /\ UNCHANGED <<scanner, stacks, yyerrstatus, history>>
    <2>1. Len(made.pool) = MaxNode
        BY <1>1, LenProperties DEF Made, WellFormed, Live
    <2>2. StacksOK'
        BY <1>1, GrowingKeepsStacks DEF ParserInv, StacksOK, Made, stacks
    <2>3. InputOK'
        BY <1>1 DEF ParserInv, InputOK, scanner
    <2>4. WellFormed(ebuf)'
        BY <1>1, StillWellFormed DEF scanner, Made, WellFormed, Node,
           FieldsBelow
    <2>5. LookaheadOK'
        <3>1. yychar \in DOMAIN WordOp => Live(ebuf', yylval)
            BY <1>1, GrowingKeepsLive DEF ParserInv, LookaheadOK, Made
        <3>2. QED
            BY <1>1, <3>1 DEF ParserInv, LookaheadOK, scanner
    <2>6. PlaceOK'
        BY <1>1, <2>1 DEF PlaceOK
    <2>7. CountersOK'
        BY <1>1 DEF ParserInv, CountersOK, scanner, stacks
    <2>8. QED
        BY <2>2, <2>3, <2>4, <2>5, <2>6, <2>7 DEF ParserInv
<1>2. CASE cvt_itoe(made.value) # 0
    BY <1>2, EmptyKeeps DEF Execute
<1>3. QED
    BY <1>1, <1>2 DEF Execute

\* The statements, one lemma for each kind.
LEMMA InsertKeeps == ParserInv /\ ExecuteInsert => ParserInv'
<1> SUFFICES ASSUME ParserInv, ExecuteInsert PROVE ParserInv'
    OBVIOUS
<1>1. {5} \subseteq 5..14 /\ {5} \subseteq 1..NRules /\ {3, 6} \subseteq 1..9
    BY DEF NRules
<1>2. NodeAt(5, 3) /\ NodeAt(5, 6)
    BY DEF NodeAt, NodePlaces
<1>3. Reducing({5})
    BY DEF ExecuteInsert
<1>4. Live(ebuf, Dollar(3)) /\ Live(ebuf, Dollar(6))
    BY <1>1, <1>2, <1>3, NodeValue
<1>5. Made(ebuf, makeexpr(ebuf, Op.INSERTROW, Dollar(3), Dollar(6)))
    BY <1>4, NodeMakes, OperatorsOfNodes DEF ParserInv
<1>6. 0 \in Values
    BY PoolAssumption DEF Values
<1>7. QED
    BY <1>1, <1>3, <1>5, <1>6, ExecuteKeeps DEF ExecuteInsert

LEMMA CreateKeeps == ParserInv /\ ExecuteCreate => ParserInv'
<1> SUFFICES ASSUME ParserInv, ExecuteCreate PROVE ParserInv'
    OBVIOUS
<1>1. {10} \subseteq 5..14 /\ {10} \subseteq 1..NRules /\ {3, 5} \subseteq 1..9
    BY DEF NRules
<1>2. NodeAt(10, 3) /\ NodeAt(10, 5)
    BY DEF NodeAt, NodePlaces
<1>3. Reducing({10})
    BY DEF ExecuteCreate
<1>4. Live(ebuf, Dollar(3)) /\ Live(ebuf, Dollar(5))
    BY <1>1, <1>2, <1>3, NodeValue
<1>5. Made(ebuf, makeexpr(ebuf, Op.CREATETABLE, Dollar(3), Dollar(5)))
    BY <1>4, NodeMakes, OperatorsOfNodes DEF ParserInv
<1>6. 0 \in Values
    BY PoolAssumption DEF Values
<1>7. QED
    BY <1>1, <1>3, <1>5, <1>6, ExecuteKeeps DEF ExecuteCreate

LEMMA QueryKeeps == ParserInv /\ ExecuteSelect => ParserInv'
<1> SUFFICES ASSUME ParserInv, ExecuteSelect PROVE ParserInv'
    OBVIOUS
<1>1. {7} \subseteq 5..14 /\ {7} \subseteq 1..NRules /\ 1 \in 1..9
    BY DEF NRules
<1>2. NodeAt(7, 1)
    BY DEF NodeAt, NodePlaces
<1>3. Reducing({7})
    BY DEF ExecuteSelect
<1>4. Live(ebuf, Dollar(1))
    BY <1>1, <1>2, <1>3, NodeValue
<1>5. Made(ebuf, [pool |-> ebuf, value |-> Dollar(1)])
    BY <1>4, LenProperties DEF Made, ParserInv, WellFormed
<1>6. Dollar(1) \in Values
    BY <1>4 DEF Live, Values
<1>7. QED
    BY <1>1, <1>3, <1>5, <1>6, ExecuteKeeps DEF ExecuteSelect

LEMMA SkipKeeps == ParserInv /\ SkipStatement => ParserInv'
<1> SUFFICES ASSUME ParserInv, SkipStatement PROVE ParserInv'
    OBVIOUS
<1> DEFINE rules == {6, 8, 9, 11, 12, 14}
<1>1. rules \subseteq 5..14 /\ rules \subseteq 1..NRules /\ 1 \in 1..9
    BY DEF NRules
<1>2. \A r \in rules : 1 <= At(yyr2, r)
    BY DEF At, yyr2
<1>3. /\ Reducing(rules)
      /\ Replace(Dollar(1))
      /\ ebuf' = <<>>
      /\ UNCHANGED <<scanner, yyerrstatus>>
    BY DEF SkipStatement
<1> HIDE DEF rules
<1>4. Dollar(1) \in Values
    BY <1>1, <1>2, <1>3, AnyValue
<1>5. QED
    BY <1>1, <1>3, <1>4, EmptyKeeps

LEMMA DropKeeps == ParserInv /\ DropTable => ParserInv'
<1> SUFFICES ASSUME ParserInv, DropTable PROVE ParserInv'
    OBVIOUS
<1>1. {13} \subseteq 1..NRules /\ 1 \in 1..9 /\ 1 <= At(yyr2, 13)
    BY DEF NRules, At, yyr2
<1>2. Reducing({13}) /\ Give(Dollar(1))
    BY DEF DropTable
<1>3. Dollar(1) \in Values
    BY <1>1, <1>2, AnyValue
<1>4. At(yyr1, Rule) = 52
    BY <1>1, <1>2, ReducedRule, LeftSides
<1>5. Holds(ebuf, 52, Dollar(1))
    BY <1>3 DEF Holds, NodeSymbols
<1>6. QED
    BY <1>1, <1>2, <1>4, <1>5, GiveKeeps

LEMMA StatementKeeps == ParserInv /\ Statement => ParserInv'
<1>1. ParserInv /\ Quit => ParserInv'
    BY DEF Quit, ParserInv, InputOK, WellFormed, Node, FieldsBelow, StacksOK,
           LookaheadOK, PlaceOK, CountersOK, scanner, stacks
<1>2. QED
    BY <1>1, InsertKeeps, CreateKeeps, QueryKeeps, SkipKeeps, DropKeeps
       DEF Statement

-----------------------------------------------------------------------------
(***************************************************************************)
(* The other steps                                                         *)
(***************************************************************************)

\* The value set last goes with a token that is shifted.
LEMMA LookaheadHolds ==
    ASSUME ParserInv, NEW k \in 0..49, k \in {3, 4, 5} => Live(ebuf, yylval)
    PROVE  Holds(ebuf, k, yylval)
<1>1. k \in NodeSymbols => k \in {3, 4, 5}
    BY DEF NodeSymbols
<1>2. yylval \in Values
    BY PoolAssumption DEF ParserInv, LookaheadOK, Values
<1>3. QED
    BY <1>1, <1>2 DEF Holds

\* Pushing the state that follows with the token's value.
LEMMA PushKeeps ==
    ASSUME ParserInv, NEW k \in 0..49, k \in {3, 4, 5} => Live(ebuf, yylval),
           NEW t \in States \ {0}, At(yystos, t) = k, Follows(Last(yyss), t),
           Push(t, yylval),
           UNCHANGED <<input, pos, yylval, ebuf>>,
           yychar' = Empty \/ (yychar' = yychar /\ k # 39),
           yyerrstatus' \in 0..3
    PROVE  ParserInv'
<1>1. Last(yyss) = yyss[Len(yyss)] /\ Stacks(ebuf, yyss, yyvs)
    BY StackShape DEF ParserInv, StacksOK
<1>2. Holds(ebuf, k, yylval)
    BY LookaheadHolds
<1>3. yyss' = Append(yyss, t) /\ yyvs' = Append(yyvs, yylval)
      /\ pc' = "yynewstate"
    BY DEF Push
<1>4. Stacks(ebuf, yyss', yyvs')
    BY <1>1, <1>2, <1>3, PushStacks
<1>5. At(yystos, yyss'[Len(yyss')]) = k
    <2>1. /\ Len(Append(yyss, t)) = Len(yyss) + 1
          /\ Append(yyss, t)[Len(yyss) + 1] = t
        BY <1>1, AppendProperties DEF Stacks, Linked
    <2>2. QED
        BY <1>3, <2>1
<1>6. InputOK'
    BY DEF ParserInv, InputOK
<1>7. WellFormed(ebuf)'
    BY StillWellFormed DEF ParserInv, WellFormed, Node, FieldsBelow
<1>8. LookaheadOK'
    <2>1. Empty \notin DOMAIN WordOp
        BY OperatorsOfWords DEF Empty
    <2>2. QED
        BY <2>1 DEF ParserInv, LookaheadOK
<1>9. PlaceOK'
    BY <1>3, <1>5 DEF PlaceOK
<1>10. CountersOK'
    BY DEF ParserInv, CountersOK, Push
<1>11. QED
    BY <1>4, <1>6, <1>7, <1>8, <1>9, <1>10 DEF ParserInv, StacksOK

\* The other steps of the parser, one lemma for each kind.
LEMMA ShiftKeeps == ParserInv /\ Shift => ParserInv'
<1> SUFFICES ASSUME ParserInv, Shift PROVE ParserInv'
    OBVIOUS
<1> DEFINE s == Last(yyss)
           k == yytranslate[yychar]
<1>1. Decided /\ Decision > 0
    BY DEF Shift
<1>2. /\ ~IsDefault(s)
      /\ yychar \in Tokens \cup {EndOfInput}
      /\ Decision = ActionFor(s, k)
    BY <1>1, DecidedRule DEF ParserInv
<1>3. k \in 0..49 /\ (k \in {3, 4, 5} => yychar \in DOMAIN WordOp)
    BY <1>2, TokenNumbers
<1>4. s \in States
    BY StackShape DEF ParserInv
<1> HIDE DEF s, k
<1>5. Decision \in States \ {0} /\ At(yystos, Decision) = k
      /\ Follows(s, Decision)
    <2>1. /\ HasEntry(At(yypact, s), k)
          /\ Decision = At(yytable, At(yypact, s) + k)
        BY <1>1, <1>2, <1>3, <1>4, ActionShifts
    <2>2. At(yytable, At(yypact, s) + k) > 0
        BY <1>1, <2>1
    <2>3. QED
        BY <1>2, <1>3, <1>4, <2>1, <2>2, ShiftFollows
<1>6. k \in {3, 4, 5} => Live(ebuf, yylval)
    BY <1>3 DEF ParserInv, LookaheadOK
<1>7. yyerrstatus' \in 0..3
    BY DEF Shift, CountShift, ParserInv, CountersOK
<1>8. /\ Push(Decision, yylval)
      /\ UNCHANGED <<input, pos, yylval, ebuf>>
      /\ yychar' = Empty
    BY DEF Shift
<1>9. QED
    BY <1>3, <1>5, <1>6, <1>7, <1>8, PushKeeps DEF s

LEMMA ErrorKeeps == ParserInv /\ ShiftError => ParserInv'
<1> SUFFICES ASSUME ParserInv, ShiftError PROVE ParserInv'
    OBVIOUS
<1> DEFINE s == Last(yyss)
           t == At(yytable, At(yypact, s) + YYTERROR)
<1>1. s \in States
    BY StackShape DEF ParserInv
<1>2. /\ ShiftsError(s)
      /\ Push(t, yylval)
      /\ UNCHANGED <<input, pos, yychar, yylval, ebuf>>
      /\ yyerrstatus' \in 0..3
    BY DEF ShiftError, scanner, ParserInv, CountersOK
<1> HIDE DEF s
<1>3. 1 \in 0..49 /\ YYTERROR = 1
    BY DEF YYTERROR
<1>4. t \in States \ {0} /\ At(yystos, t) = 1 /\ Follows(s, t)
    BY <1>1, <1>2, <1>3, ShiftFollows DEF ShiftsError
<1> HIDE DEF t
<1>5. QED
    BY <1>2, <1>3, <1>4, PushKeeps DEF s

\* Steps that leave the stacks and the pool as they are.
LEMMA OtherKeeps ==
    ASSUME ParserInv, UNCHANGED <<input, yyss, yyvs, ebuf>>,
           LookaheadOK', PlaceOK', CountersOK'
    PROVE  ParserInv'
<1>1. InputOK' /\ StacksOK'
    BY DEF ParserInv, InputOK, StacksOK
<1>2. WellFormed(ebuf)'
    BY StillWellFormed DEF ParserInv, WellFormed, Node, FieldsBelow
<1>3. QED
    BY <1>1, <1>2 DEF ParserInv

LEMMA EnterKeeps == ParserInv /\ Enter => ParserInv'
<1> SUFFICES ASSUME ParserInv, Enter PROVE ParserInv'
    OBVIOUS
<1>1. /\ UNCHANGED <<input, pos, yychar, yylval, yyss, yyvs, yyerrstatus, ebuf>>
      /\ Last(yyss) = yyss[Len(yyss)]
    BY StackShape DEF Enter, GrowStack, StackExhausted, AcceptAtEnd, Settle,
                      scanner, stacks, history, ParserInv
<1>2. LookaheadOK'
    BY <1>1 DEF ParserInv, LookaheadOK
<1>3. PlaceOK'
    BY <1>1 DEF Enter, GrowStack, StackExhausted, AcceptAtEnd, Settle,
                ParserInv, PlaceOK
<1>4. CountersOK'
    BY <1>1, DepthAssumption
       DEF Enter, GrowStack, StackExhausted, AcceptAtEnd, Settle, stacks,
           ParserInv, CountersOK
<1>5. QED
    BY <1>1, <1>2, <1>3, <1>4, OtherKeeps

LEMMA PopKeeps == ParserInv /\ PopState => ParserInv'
<1> SUFFICES ASSUME ParserInv, PopState PROVE ParserInv'
    OBVIOUS
<1>1. /\ UNCHANGED <<scanner, yystacksize, yyerrstatus, ebuf>>
      /\ pc = "yyerrlab1" /\ pc' \in {"main", "yyerrlab1"}
    BY DEF PopState
<1>2. LookaheadOK' /\ PlaceOK' /\ CountersOK'
    BY <1>1 DEF ParserInv, LookaheadOK, PlaceOK, CountersOK, scanner
<1>3. CASE UNCHANGED <<yyss, yyvs>>
    BY <1>1, <1>2, <1>3, OtherKeeps DEF scanner
<1>4. CASE Len(yyss) # 1 /\ yyss' = Front(yyss) /\ yyvs' = Front(yyvs)
    <2>1. /\ Len(yyss) - 1 \in 1..Len(yyss)
          /\ Len(yyvs) - 1 = (Len(yyss) - 1) - 1
        BY <1>4, StackShape DEF ParserInv
    <2>2. /\ yyss' = SubSeq(yyss, 1, Len(yyss) - 1)
          /\ yyvs' = SubSeq(yyvs, 1, (Len(yyss) - 1) - 1)
        BY <1>4, <2>1 DEF Front
    <2>3. Stacks(ebuf, yyss', yyvs')
        BY <2>1, <2>2, PopStacks DEF ParserInv, StacksOK
    <2>4. InputOK'
        BY <1>1 DEF ParserInv, InputOK, scanner
    <2>5. WellFormed(ebuf)'
        BY <1>1, StillWellFormed DEF ParserInv, scanner, WellFormed, Node,
           FieldsBelow
    <2>6. QED
        BY <1>1, <1>2, <2>3, <2>4, <2>5 DEF ParserInv, StacksOK
<1>5. QED
    BY <1>3, <1>4 DEF PopState

LEMMA RecoverKeeps == ParserInv /\ Recover => ParserInv'
<1>1. ASSUME ParserInv, DetectError \/ DiscardToken \/ AbortAtEnd
      PROVE  ParserInv'
    <2>1. /\ UNCHANGED <<input, pos, yylval, yyss, yyvs, yystacksize, ebuf>>
          /\ yychar' = Empty \/ yychar' = yychar
          /\ yyerrstatus' \in 0..3
          /\ pc' \in {"yyerrlab1", "main"}
        BY <1>1 DEF DetectError, DiscardToken, AbortAtEnd, scanner, stacks,
                    ParserInv, CountersOK
    <2>2. Empty \notin DOMAIN WordOp
        BY OperatorsOfWords DEF Empty
    <2>3. LookaheadOK' /\ PlaceOK' /\ CountersOK'
        BY <1>1, <2>1, <2>2 DEF ParserInv, LookaheadOK, PlaceOK, CountersOK
    <2>4. QED
        BY <1>1, <2>1, <2>3, OtherKeeps
<1>2. QED
    BY <1>1, PopKeeps, ErrorKeeps DEF Recover

\* Every token read is one there is, and is read before it decides anything.
LEMMA TokenTaken ==
    ASSUME ParserInv, NeedsToken, TakeToken
    PROVE  /\ Token \in Tokens \cup {EndOfInput}
           /\ Token \in DOMAIN WordOp => pos \in 1..Len(input)
           /\ yychar' = Token
           /\ pc = "yybackup"
           /\ UNCHANGED <<input, yyss, yyvs>>
           /\ PlaceOK /\ At(yystos, yyss[Len(yyss)]) # 39
           /\ CountersOK'
<1>1. DOMAIN input = 1..Len(input) /\ Len(input) \in Nat
    BY LenProperties DEF ParserInv, InputOK
<1>2. Token \in Tokens \cup {EndOfInput}
    BY <1>1, ElementOfSeq DEF ParserInv, InputOK, Token
<1>3. Token \in DOMAIN WordOp => pos \in 1..Len(input)
    BY <1>1, OperatorsOfWords DEF Token, EndOfInput
<1>4. /\ yychar' = Token
      /\ UNCHANGED <<input, yyss, yyvs, yystacksize, yyerrstatus>>
      /\ pos' = IF pos \in DOMAIN input THEN pos + 1 ELSE pos
    BY DEF TakeToken, stacks
<1>5. CountersOK'
    BY <1>1, <1>4 DEF ParserInv, CountersOK
<1>6. pc = "yybackup" /\ ~IsDefault(Last(yyss))
    BY DEF NeedsToken
<1>7. At(yystos, yyss[Len(yyss)]) # 39
    BY <1>6, StackShape, SemicolonDecides DEF ParserInv
<1>8. QED
    BY <1>2, <1>3, <1>4, <1>5, <1>6, <1>7 DEF ParserInv

LEMMA TokenKeeps == ParserInv /\ (ReadToken \/ ReadWordIntoFullPool)
      => ParserInv'
<1> SUFFICES ASSUME ParserInv, ReadToken \/ ReadWordIntoFullPool
             PROVE  ParserInv'
    OBVIOUS
<1>1. NeedsToken /\ TakeToken
    BY DEF ReadToken, ReadWordIntoFullPool
<1>2. /\ Token \in Tokens \cup {EndOfInput}
      /\ yychar' = Token
      /\ pc = "yybackup"
      /\ UNCHANGED <<input, yyss, yyvs>>
      /\ PlaceOK /\ At(yystos, yyss[Len(yyss)]) # 39
      /\ CountersOK'
    BY <1>1, TokenTaken
<1>3. ebuf' = ebuf
    BY DEF ReadToken, ReadWordIntoFullPool
<1>4. CASE ReadToken
    <2>1. Token \notin DOMAIN WordOp /\ UNCHANGED <<yylval, pc>>
        BY <1>4 DEF ReadToken
    <2>2. LookaheadOK'
        BY <1>2, <2>1 DEF ParserInv, LookaheadOK
    <2>3. PlaceOK'
        BY <1>2, <1>3, <2>1 DEF PlaceOK
    <2>4. QED
        BY <1>2, <1>3, <2>2, <2>3, OtherKeeps
<1>5. CASE ReadWordIntoFullPool
    <2>1. /\ Len(ebuf) >= MaxNode
          /\ yylval' = 0
          /\ pc' \in {"yybackup", "crashed"}
        BY <1>5 DEF ReadWordIntoFullPool
    <2>2. Len(ebuf) = MaxNode
        BY <2>1, PoolAssumption, LenProperties DEF ParserInv, WellFormed
    <2>3. Live(ebuf', 0)
        BY <1>3, <2>2, PoolAssumption DEF Live
    <2>4. LookaheadOK'
        BY <1>2, <2>1, <2>3, PoolAssumption DEF LookaheadOK
    <2>5. PlaceOK'
        BY <1>2, <1>3, <2>1, <2>2 DEF PlaceOK
    <2>6. QED
        BY <1>2, <1>3, <2>4, <2>5, OtherKeeps
<1>6. QED
    BY <1>4, <1>5

LEMMA WordKeeps == ParserInv /\ ReadWord => ParserInv'
<1> SUFFICES ASSUME ParserInv, ReadWord PROVE ParserInv'
    OBVIOUS
<1> DEFINE node == [func |-> WordOp[Token], values |-> <<pos, 0>>]
<1>1. /\ NeedsToken
      /\ TakeToken
      /\ Token \in DOMAIN WordOp
      /\ Len(ebuf) < MaxNode
      /\ ebuf' = Append(ebuf, node)
      /\ yylval' = Reference(Len(ebuf) + 1)
      /\ UNCHANGED pc
    BY DEF ReadWord
<1>2. /\ Token \in Tokens \cup {EndOfInput}
      /\ pos \in 1..Len(input)
      /\ yychar' = Token
      /\ UNCHANGED <<input, yyss, yyvs>>
      /\ PlaceOK /\ At(yystos, yyss[Len(yyss)]) # 39
      /\ pc = "yybackup"
      /\ CountersOK'
    BY <1>1, TokenTaken
<1>3. WordOp[Token] \in Leaves /\ WordOp[Token] \in Operators
    BY <1>1, OperatorsOfWords
<1>4. node \in Node
    <2>1. {pos, 0} \subseteq 0..(MaxNode + Len(input))
        BY <1>2, PoolAssumption, LenProperties DEF ParserInv, InputOK
    <2>2. <<pos, 0>> \in Seq(0..(MaxNode + Len(input)))
        BY <2>1
    <2>3. QED
        BY <1>3, <2>2 DEF Node, Operators
<1>5. FieldsBelow(node, Len(ebuf) + 1)
    BY <1>3 DEF FieldsBelow
<1> HIDE DEF node
<1>6. /\ WellFormed(ebuf')
      /\ Len(ebuf') = Len(ebuf) + 1
      /\ Live(ebuf', yylval')
    BY <1>1, <1>4, <1>5, AddNode DEF ParserInv
<1>7. StacksOK'
    <2>1. Len(ebuf) <= Len(ebuf')
        BY <1>6, LenProperties DEF ParserInv, WellFormed
    <2>2. QED
        BY <1>2, <1>6, <2>1, GrowingKeepsStacks DEF ParserInv, StacksOK
<1>8. InputOK'
    BY <1>2 DEF ParserInv, InputOK
<1>9. WellFormed(ebuf)'
    BY <1>2, <1>6, StillWellFormed DEF WellFormed, Node, FieldsBelow
<1>10. LookaheadOK'
    BY <1>2, <1>6 DEF LookaheadOK, Live
<1>11. PlaceOK'
    BY <1>1, <1>2 DEF PlaceOK
<1>12. QED
    BY <1>2, <1>7, <1>8, <1>9, <1>10, <1>11 DEF ParserInv

\* The stacks a call of the parser begins with.
LEMMA FreshStacks ==
    ASSUME NEW pool
    PROVE  Stacks(pool, <<0>>, <<>>) /\ At(yystos, <<0>>[Len(<<0>>)]) = 0
<1>1. At(yystos, 0) = 0
    BY DEF At, yystos
<1>2. 0 \in States /\ Len(<<0>>) = 1 /\ <<0>> \in Seq(States) /\ <<0>>[1] = 0
    BY DEF States, NStates
<1>3. Linked(<<0>>)
    BY <1>2 DEF Linked
<1>4. QED
    BY <1>1, <1>2, <1>3 DEF Stacks

LEMMA CallKeepsParser == ParserInv /\ CallParser => ParserInv'
<1> SUFFICES ASSUME ParserInv, CallParser PROVE ParserInv'
    OBVIOUS
<1>1. /\ yyss' = <<0>> /\ yyvs' = <<>> /\ pc' = "yynewstate"
      /\ yystacksize' = YYINITDEPTH /\ yyerrstatus' = 0 /\ yychar' = Empty
      /\ UNCHANGED <<input, pos, yylval, ebuf>>
    BY DEF CallParser
<1>2. Stacks(ebuf, yyss', yyvs') /\ At(yystos, yyss'[Len(yyss')]) = 0
    BY <1>1, FreshStacks
<1>3. InputOK'
    BY <1>1 DEF ParserInv, InputOK
<1>4. WellFormed(ebuf)'
    BY <1>1, StillWellFormed DEF ParserInv, WellFormed, Node, FieldsBelow
<1>5. LookaheadOK'
    <2>1. Empty \notin DOMAIN WordOp
        BY OperatorsOfWords DEF Empty
    <2>2. QED
        BY <1>1, <2>1 DEF ParserInv, LookaheadOK
<1>6. PlaceOK' /\ CountersOK'
    BY <1>1, <1>2, DepthAssumption DEF ParserInv, PlaceOK, CountersOK
<1>7. QED
    BY <1>1, <1>2, <1>3, <1>4, <1>5, <1>6 DEF ParserInv, StacksOK

-----------------------------------------------------------------------------
(***************************************************************************)
(* The theorems about values                                               *)
(***************************************************************************)

\* The invariant holds at first.
LEMMA InitialParser == Init => ParserInv
<1> SUFFICES ASSUME Init PROVE ParserInv
    OBVIOUS
<1>1. InputOK /\ Len(input) \in Nat
    BY InputsAssumption, LenProperties DEF Init, InputOK
<1>2. Stacks(ebuf, yyss, yyvs) /\ At(yystos, yyss[Len(yyss)]) = 0
    BY FreshStacks DEF Init
<1>3. WellFormed(ebuf)
    BY EmptyPool DEF Init
<1>4. LookaheadOK
    <2>1. Empty \notin DOMAIN WordOp
        BY OperatorsOfWords DEF Empty
    <2>2. QED
        BY <2>1, PoolAssumption DEF Init, LookaheadOK
<1>5. PlaceOK /\ CountersOK
    BY <1>1, DepthAssumption DEF Init, PlaceOK, CountersOK
<1>6. QED
    BY <1>1, <1>2, <1>3, <1>4, <1>5 DEF ParserInv, StacksOK

\* Every step of the parser keeps the invariant.
LEMMA StepKeepsParser == ParserInv /\ [Next]_vars => ParserInv'
<1>1. ParserInv /\ UNCHANGED vars => ParserInv'
    <2> SUFFICES ASSUME ParserInv, UNCHANGED vars PROVE ParserInv'
        OBVIOUS
    <2>1. UNCHANGED <<input, pos, yychar, yylval, yyss, yyvs, yystacksize,
                      yyerrstatus, ebuf, pc>>
        BY DEF vars, scanner, stacks
    <2>2. LookaheadOK' /\ PlaceOK' /\ CountersOK'
        BY <2>1 DEF ParserInv, LookaheadOK, PlaceOK, CountersOK
    <2>3. QED
        BY <2>1, <2>2, OtherKeeps
<1>2. QED
    BY <1>1, CallKeepsParser, TokenKeeps, WordKeeps, EnterKeeps, ShiftKeeps,
       ReduceKeeps, StatementKeeps, RecoverKeeps DEF Next, Scan

\* The invariant gives the types of the variables.
LEMMA ParserInvTypes == ParserInv => TypeOK
<1> SUFFICES ASSUME ParserInv PROVE TypeOK
    OBVIOUS
<1>1. yyss \in Seq(0..(NStates - 1)) /\ Len(yyss) = Len(yyvs) + 1
    BY DEF ParserInv, StacksOK, Stacks, Linked, States
<1>2. yyvs \in Seq(-1..(2 * MaxNode - 1))
    BY DEF ParserInv, StacksOK, Stacks, Values
<1>3. QED
    BY <1>1, <1>2 DEF TypeOK, ParserInv, InputOK, WellFormed, LookaheadOK,
                      PlaceOK, CountersOK

\* The invariant makes the values on the stack live.
LEMMA ParserInvLive == ParserInv => ValuesAreLive
<1> SUFFICES ASSUME ParserInv PROVE ValuesAreLive
    OBVIOUS
<1>1. /\ DOMAIN ebuf = 1..Len(ebuf)
      /\ DOMAIN yyvs = 1..Len(yyvs)
    BY LenProperties DEF ParserInv, StacksOK, Stacks, WellFormed
<1>2. ASSUME NEW i \in DOMAIN yyvs, At(yystos, yyss[i + 1]) \in NodeSymbols
      PROVE  \/ cvt_itoe(yyvs[i]) \in DOMAIN ebuf
             \/ /\ yyvs[i] = 0
                /\ \/ At(yystos, yyss[i + 1]) \in Clauses
                   \/ Len(ebuf) = MaxNode
    <2>1. Holds(ebuf, At(yystos, yyss[i + 1]), yyvs[i])
        BY <1>1, <1>2 DEF ParserInv, StacksOK, Stacks
    <2>2. QED
        BY <1>1, <1>2, <2>1 DEF Holds, Live
<1>3. ASSUME NEW n \in DOMAIN ebuf
      PROVE  FieldsBelow(ebuf[n], n)
    BY <1>1 DEF ParserInv, WellFormed
<1>4. QED
    BY <1>2, <1>3 DEF ValuesAreLive, FieldsBelow

\* What the parser's variables hold is what the code's types have room for,
\* in every session: the tables never lead to a state that is not one, and
\* no value is past the end of the pool.
THEOREM ParserTypes == Spec => []TypeOK
<1>1. Init => ParserInv
    BY InitialParser
<1>2. ParserInv /\ [Next]_vars => ParserInv'
    BY StepKeepsParser
<1>3. ParserInv => TypeOK
    BY ParserInvTypes
<1>4. QED
    BY <1>1, <1>2, <1>3, PTL DEF Spec

\* Whatever is parsed, recovered from or given up in the middle: the values
\* on the stack that stand for nodes stand for nodes in the pool, although
\* every statement empties it.
THEOREM ParserHoldsLiveNodes == Spec => []ValuesAreLive
<1>1. Init => ParserInv
    BY InitialParser
<1>2. ParserInv /\ [Next]_vars => ParserInv'
    BY StepKeepsParser
<1>3. ParserInv => ValuesAreLive
    BY ParserInvLive
<1>4. QED
    BY <1>1, <1>2, <1>3, PTL DEF Spec

\* compile is never given a statement without a tree, and no word is written
\* outside the pool, unless the pool is full.
THEOREM ParserCrashesWhenFull == Spec => []OnlyAFullPoolCrashes
<1>1. Init => ParserInv
    BY InitialParser
<1>2. ParserInv /\ [Next]_vars => ParserInv'
    BY StepKeepsParser
<1>3. ParserInv => OnlyAFullPoolCrashes
    BY DEF ParserInv, PlaceOK, OnlyAFullPoolCrashes
<1>4. QED
    BY <1>1, <1>2, <1>3, PTL DEF Spec

-----------------------------------------------------------------------------
(***************************************************************************)
(* What a statement finds in the pool                                      *)
(***************************************************************************)

\* States of a statement that may be a DROP TABLE, and the tokens of it.
LEMMA DropStates ==
    ASSUME NEW s \in States
    PROVE  /\ Follows(s, 11) => s = 1
           /\ Follows(s, 33) => s = 11
           /\ Follows(s, 62) => s = 33
           /\ Follows(s, 81) => s = 62
<1>1. Read(11, 13, 1) /\ Read(33, 13, 2) /\ Read(62, 13, 3) /\ Read(81, 13, 4)
    BY SMTT(60) DEF Read, Items
<1>2. At(yyr1, 13) = 52
    BY DEF At, yyr1
<1>3. /\ Read(s, 13, 1) => s = 11
      /\ Read(s, 13, 2) => s = 33
      /\ Read(s, 13, 3) => s = 62
    BY SMTT(60) DEF States, NStates, Read, Items
<1>4. 13 \in 1..NRules /\ 4 - 1 = 3 /\ 3 - 1 = 2 /\ 2 - 1 = 1
      /\ {1, 2, 3, 4} \subseteq 1..9
    BY DEF NRules
<1>5. QED
    BY <1>1, <1>2, <1>3, <1>4, StatementBegins DEF Follows

\* The states in which the rules of DROP TABLE are reduced.
LEMMA DropRules ==
    ASSUME NEW s \in States
    PROVE  /\ Completes(s, 2) => s = 0
           /\ Completes(s, 3) => s = 13
           /\ Completes(s, 13) => s = 81
           /\ Completes(s, 15) => s = 27
<1>1. /\ MayBegin(s, 51) => s = 0
      /\ Read(s, 3, 2) => s = 13
      /\ Read(s, 13, 4) => s = 81
      /\ Read(s, 15, 1) => s = 27
    BY SMTT(60) DEF States, NStates, Read, Items, MayBegin, Beginnings
<1>2. /\ At(yyr2, 2) = 0 /\ At(yyr1, 2) = 51
      /\ At(yyr2, 3) = 2 /\ At(yyr2, 13) = 4 /\ At(yyr2, 15) = 1
    BY DEF At, yyr1, yyr2
<1>3. QED
    BY <1>1, <1>2 DEF Completes

\* Only state 1 shifts the error token.
LEMMA ErrorState ==
    ASSUME NEW s \in States
    PROVE  ShiftsError(s) <=> s = 1
BY SMTT(60) DEF States, NStates, ShiftsError, IsDefault, HasEntry, At, yypact,
   yycheck, yytable, YYPACT_NINF, YYLAST, YYTERROR

\* Only state 1 follows the first state.
LEMMA FirstStates ==
    ASSUME NEW t \in States \ {0}, Follows(0, t)
    PROVE  t = 1
<1>1. PICK r \in 1..NRules, d \in 1..9 : Read(t, r, d)
      /\ (t = 1 \/ d # 1 \/ r \notin 1..4)
    BY SMTT(60) DEF States, NStates, NRules, Read, Items
<1>2. IF d = 1 THEN MayBegin(0, At(yyr1, r)) ELSE Read(0, r, d - 1)
    BY <1>1 DEF Follows
<1>3. d = 1
    <2>1. CASE d # 1
        <3>1. d - 1 \in 1..9
            BY <2>1
        <3>2. QED
            BY <1>2, <2>1, <3>1, NothingReadAtFirst
    <2>2. QED
        BY <2>1
<1>4. r \in 1..4
    <2>1. PICK A \in 50..74 : At(yyr1, r) = A
        BY RuleShape
    <2>2. A \in 50..51
        BY <1>2, <1>3, <2>1, SMTT(60) DEF MayBegin, Beginnings
    <2>3. QED
        BY <2>1, <2>2 DEF NRules, At, yyr1
<1>5. QED
    BY <1>1, <1>3, <1>4

\* The token at a position of an input.
Typed(ws, word, p) == p \in 1..Len(ws) /\ ws[p] = word

Dropped(ws, node) ==
    /\ node.func = Op.TABLENAME
    /\ SubSeq(ws, node.values[1] - 2, node.values[1])
          = <<"DROP", "TABLE", "IDENT">>

OnlyDrops(ws, pool, n) == \A m \in 1..n : Dropped(ws, pool[m])

\* The word at a position is the last node, unless the pool was full.
EndsWithWord(ws, pool, value, p) ==
    \/ value = 0 /\ OnlyDrops(ws, pool, Len(pool))
    \/ /\ Len(pool) > 0
       /\ value = Reference(Len(pool))
       /\ pool[Len(pool)].values[1] = p
       /\ OnlyDrops(ws, pool, Len(pool) - 1)

\* The state on top, and those of a statement that may be a DROP TABLE.
Top == yyss[Len(yyss)]

DropTops == {0, 1, 11, 13, 33, 62, 81}

NameOfTable == Top = 27 /\ Len(yyss) > 1 /\ yyss[Len(yyss) - 1] = 33

\* The position of the token that was shifted last.
Here == IF yychar = Empty THEN pos - 1 ELSE pos - 2

Parsing == pc \in {"yynewstate", "yybackup"}

\* The lookahead is the token before the next one.
ReadOK ==
    /\ yychar = EndOfInput => pos > Len(input)
    /\ yychar \in Tokens => Typed(input, yychar, pos - 1)
    /\ pc = "yyerrlab1" => Len(yyss) > 1

\* As long as the statement may be a DROP TABLE the pool holds the names of
\* the tables dropped before, and perhaps a word just read.
Undisturbed == gaveUp = {} /\ pos <= Len(input)

PoolBetween ==
    IF yychar \in DOMAIN WordOp
    THEN EndsWithWord(input, ebuf, yylval, pos - 1)
    ELSE OnlyDrops(input, ebuf, Len(ebuf))

NameOK ==
    /\ yychar = Empty
    /\ EndsWithWord(input, ebuf, yyvs[Len(yyvs)], pos - 1)
    /\ Typed(input, "DROP", pos - 3)
    /\ Typed(input, "TABLE", pos - 2)
    /\ Typed(input, "IDENT", pos - 1)

DropsOK ==
    Undisturbed =>
       /\ pc = "main" => OnlyDrops(input, ebuf, Len(ebuf))
       /\ Parsing /\ Top \in DropTops => PoolBetween
       /\ Parsing /\ Top = 11 => Typed(input, "DROP", Here)
       /\ Parsing /\ Top = 33 => /\ Typed(input, "DROP", Here - 1)
                                 /\ Typed(input, "TABLE", Here)
       /\ Parsing /\ NameOfTable => NameOK

DropInv == ParserInv /\ ReadOK /\ DropsOK

\* A name with its DROP TABLE before it.
LEMMA DroppedName ==
    ASSUME InputOK, NEW p, Typed(input, "DROP", p - 2),
           Typed(input, "TABLE", p - 1), Typed(input, "IDENT", p), p \in Nat,
           NEW node, node.func = Op.TABLENAME, node.values[1] = p
    PROVE  Dropped(input, node)
<1>1. Len(input) \in Nat /\ p - 2 \in 1..Len(input) /\ p \in 1..Len(input)
    BY LenProperties DEF InputOK, Typed
<1>2. \A i \in (p - 2)..p : input[i] \in Tokens
    BY <1>1, ElementOfSeq DEF InputOK
<1> DEFINE w == SubSeq(input, p - 2, p)
<1>3. /\ w \in Seq(Tokens)
      /\ Len(w) = 3
      /\ \A i \in 1..3 : w[i] = input[(p - 2) + i - 1]
    <2>1. /\ w \in Seq(Tokens)
          /\ Len(w) = IF p - 2 <= p THEN p - (p - 2) + 1 ELSE 0
          /\ \A i \in 1..(p - (p - 2) + 1) : w[i] = input[(p - 2) + i - 1]
        BY <1>1, <1>2, SubSeqProperties
    <2>2. p - (p - 2) + 1 = 3 /\ p - 2 <= p
        OBVIOUS
    <2> HIDE DEF w
    <2>3. QED
        BY <2>1, <2>2
<1> HIDE DEF w
<1>4. w[1] = "DROP" /\ w[2] = "TABLE" /\ w[3] = "IDENT"
    <2>1. (p - 2) + 1 - 1 = p - 2 /\ (p - 2) + 2 - 1 = p - 1
          /\ (p - 2) + 3 - 1 = p
        OBVIOUS
    <2>2. 1 \in 1..3 /\ 2 \in 1..3 /\ 3 \in 1..3
        OBVIOUS
    <2>3. QED
        BY <1>3, <2>1, <2>2 DEF Typed
<1>5. w = <<"DROP", "TABLE", "IDENT">>
    BY <1>3, <1>4
<1>6. QED
    BY <1>5 DEF Dropped, w

\* After a reduction the state on top is one of its left side.
LEMMA ReplaceTop ==
    ASSUME StacksOK, Completes(Last(yyss), Rule), NEW value, Replace(value)
    PROVE  /\ At(yystos, Top') = At(yyr1, Rule)
           /\ Top' \in States
           /\ Follows(yyss[Len(yyss) - At(yyr2, Rule)], Top')
           /\ Len(yyss') = Len(yyss) - At(yyr2, Rule) + 1
           /\ pc' = "yynewstate"
<1> DEFINE m == Len(yyss) - At(yyr2, Rule)
           below == SubSeq(yyss, 1, m)
           A == At(yyr1, Rule)
           t == GotoFor(yyss[m], A)
<1>1. /\ A \in 51..74
      /\ MayBegin(yyss[m], A)
      /\ m \in 1..Len(yyss)
      /\ Last(below) = yyss[m]
      /\ Len(below) = m
      /\ yyss[m] \in States
    BY BelowRule
<1>2. t \in States /\ At(yystos, t) = A /\ Follows(yyss[m], t)
    BY <1>1, GotoFollows
<1>3. yyss' = Append(below, t) /\ pc' = "yynewstate"
    BY <1>1 DEF Replace
<1>4. below \in Seq(States)
    BY <1>1, PopStacks DEF StacksOK, Stacks, Linked
<1> HIDE DEF below, t
<1>5. Len(yyss') = Len(below) + 1 /\ yyss'[Len(below) + 1] = t
    BY <1>2, <1>3, <1>4, AppendProperties
<1>6. QED
    BY <1>1, <1>2, <1>3, <1>5 DEF Top

\* Rules of statements that cannot be a DROP TABLE.
LEMMA OtherRules ==
    ASSUME NEW r \in 16..79
    PROVE  At(yyr1, r) \in 54..74
BY SMTT(30) DEF At, yyr1

\* No left side but those of DROP TABLE leads to its states.
LEMMA OtherSymbols ==
    ASSUME NEW t \in States, At(yystos, t) \in 54..74
    PROVE  t \notin DropTops /\ t # 27
<1>1. \A u \in DropTops \cup {27} : At(yystos, u) \notin 54..74
    BY DEF At, yystos, DropTops
<1>2. QED
    BY <1>1

\* What a reduction may be.
LEMMA ReduceActs ==
    ASSUME Reduce
    PROVE  /\ Decided
           /\ Rule \in {2, 3} \cup 15..79
           /\ (\E v : Give(v)) \/ (\E m : Build(m))
           /\ Rule \in {2, 3} => \E v : Give(v)
           /\ Rule = 15 => Build(setname(ebuf, Op.TABLENAME, Dollar(1)))
<1>1. CASE ReduceUnit
    BY <1>1 DEF ReduceUnit, Reducing
<1>2. CASE ReduceParentheses \/ ReduceProgram
    BY <1>2 DEF ReduceParentheses, ReduceProgram, Reducing
<1>3. CASE ReduceClause
    BY <1>3 DEF ReduceClause, Reducing
<1>4. CASE ReduceName
    BY <1>4 DEF ReduceName, Reducing
<1>5. CASE ReduceOperator
    BY <1>5 DEF ReduceOperator, Reducing
<1>6. CASE ReduceExpression
    BY <1>6 DEF ReduceExpression, Reducing
<1>7. CASE ReduceCall
    BY <1>7 DEF ReduceCall, Reducing
<1>8. CASE ReduceFncargs \/ ReduceGrouplist \/ ReduceOrderlist
    BY <1>8 DEF ReduceFncargs, ReduceGrouplist, ReduceOrderlist, FirstItem,
                NextItem, Reducing
<1>9. CASE ReduceProjection \/ ReduceColumnDecls
    BY <1>9 DEF ReduceProjection, ReduceColumnDecls, FirstItem, NextItem,
       Reducing
<1>10. CASE ReduceDataList
    BY <1>10 DEF ReduceDataList, FirstItem, NextItem, Reducing
<1>11. CASE ReduceSortSpec \/ ReduceOutcol
    BY <1>11 DEF ReduceSortSpec, ReduceOutcol, Reducing
<1>12. CASE ReduceJoin \/ ReduceColumnDecl
    BY <1>12 DEF ReduceJoin, ReduceColumnDecl, Reducing
<1>13. CASE ReduceSelect
    BY <1>13 DEF ReduceSelect, Reducing
<1>14. QED
    BY <1>1, <1>2, <1>3, <1>4, <1>5, <1>6, <1>7, <1>8, <1>9, <1>10, <1>11,
       <1>12, <1>13 DEF Reduce

\* A reduction to a state that is not of a DROP TABLE asks nothing.
LEMMA NoDropOnTop ==
    ASSUME pc' \in {"yynewstate", "yybackup"}, Top' \notin DropTops, Top' # 27
    PROVE  DropsOK'
BY DEF DropsOK, DropTops, NameOfTable

\* One to a state that leaves the pool as it is asks what is known.
LEMMA NoDropChanged ==
    ASSUME DropsOK, Parsing, Top \in DropTops,
           UNCHANGED <<scanner, ebuf, history>>,
           pc' = "yynewstate", Top' \in {1, 13, 62}
    PROVE  DropsOK'
<1>1. PoolBetween' <=> PoolBetween
    BY DEF PoolBetween, scanner
<1>2. Undisturbed' <=> Undisturbed
    BY DEF Undisturbed, scanner, history
<1>3. QED
    BY <1>1, <1>2 DEF DropsOK, DropTops, NameOfTable

\* A step that reads nothing keeps what is known of the input.
LEMMA ReductionReads ==
    ASSUME ReadOK, UNCHANGED scanner, pc' = "yynewstate"
    PROVE  ReadOK'
BY DEF ReadOK, scanner

\* The name of the table that is dropped.
LEMMA NameKeepsDrops ==
    ASSUME DropInv, Decided, Rule = 15,
           Build(setname(ebuf, Op.TABLENAME, Dollar(1)))
    PROVE  DropsOK'
<1> DEFINE v == Dollar(1)
           made == setname(ebuf, Op.TABLENAME, v)
<1>1. 15 \in 1..NRules /\ {15} \subseteq 1..NRules /\ Reducing({15})
    BY DEF NRules, Reducing
<1>2. Completes(Last(yyss), Rule) /\ StacksOK
    BY <1>1, ReducedRule DEF DropInv, ParserInv
<1>3. At(yyr1, 15) = 53 /\ At(yyr2, 15) = 1
    BY DEF At, yyr1, yyr2
<1>4. Top = 27 /\ Parsing
    BY <1>2, StackShape, DropRules DEF Decided, Parsing, Top
<1>5. Replace(made.value) /\ ebuf' = made.pool
      /\ UNCHANGED <<scanner, history>>
    BY DEF Build
<1> HIDE DEF made
<1>6. /\ At(yystos, Top') = 53
      /\ Top' \in States
      /\ Follows(yyss[Len(yyss) - 1], Top')
      /\ pc' = "yynewstate"
    BY <1>2, <1>3, <1>5, ReplaceTop
<1>7. Len(yyss) - 1 \in 1..Len(yyss) /\ yyss[Len(yyss) - 1] \in States
    <2>1. Len(yyss) # 1
        BY <1>2, <1>4 DEF StacksOK, Stacks, Linked, Top
    <2>2. QED
        BY <1>2, <2>1, StackShape
<1>8. CASE Top' # 62
    <2>1. \A u \in DropTops \cup {27} : u = 62 \/ At(yystos, u) # 53
        BY DEF At, yystos, DropTops
    <2>2. Top' \notin DropTops /\ Top' # 27
        BY <1>6, <1>8, <2>1
    <2>3. QED
        BY <1>6, <2>2, NoDropOnTop
<1>9. CASE Top' = 62
    <2>1. NameOfTable
        <3>1. Follows(yyss[Len(yyss) - 1], 62)
            BY <1>6, <1>9
        <3>2. yyss[Len(yyss) - 1] = 33
            BY <1>7, <3>1, DropStates
        <3>3. Len(yyss) > 1
            BY <1>2, <1>7, StackShape
        <3>4. QED
            BY <1>4, <3>2, <3>3 DEF NameOfTable
    <2>2. SUFFICES ASSUME Undisturbed
                   PROVE OnlyDrops(input', ebuf', Len(ebuf')) /\ yychar' = Empty
        <3>1. Empty \notin DOMAIN WordOp
            BY OperatorsOfWords DEF Empty
        <3>2. Undisturbed' <=> Undisturbed
            BY <1>5 DEF Undisturbed, scanner, history
        <3>3. QED
            BY <1>6, <1>9, <3>1, <3>2 DEF DropsOK, NameOfTable, PoolBetween
    <2>3. NameOK
        BY <1>4, <2>1, <2>2 DEF DropInv, DropsOK
    <2>4. v = yyvs[Len(yyvs)]
        BY <1>2, <1>3, StackShape DEF Dollar
    <2> HIDE DEF v
    <2>5. input' = input /\ yychar' = Empty
        BY <1>5, <2>3 DEF scanner, NameOK
    <2>6. EndsWithWord(input, ebuf, v, pos - 1)
        BY <2>3, <2>4 DEF NameOK
    <2>7. Len(ebuf) \in 0..MaxNode
        BY LenProperties DEF DropInv, ParserInv, WellFormed
    <2>8. CASE v = 0 /\ OnlyDrops(input, ebuf, Len(ebuf))
        <3>1. made.pool = ebuf
            BY <2>8, PoolAssumption DEF made, setname, cvt_itoe
        <3>2. QED
            BY <1>5, <2>5, <2>8, <3>1
    <2>9. CASE /\ Len(ebuf) > 0
               /\ v = Reference(Len(ebuf))
               /\ ebuf[Len(ebuf)].values[1] = pos - 1
               /\ OnlyDrops(input, ebuf, Len(ebuf) - 1)
        <3> DEFINE n == Len(ebuf)
        <3>1. cvt_itoe(v) = n /\ n # 0 /\ n \in 1..n
            BY <2>7, <2>9, PoolAssumption DEF cvt_itoe, Reference
        <3>2. made.pool = [ebuf EXCEPT ![n].func = Op.TABLENAME]
            BY <3>1 DEF made, setname
        <3>3. /\ Len(ebuf') = n
              /\ ebuf'[n].func = Op.TABLENAME
              /\ ebuf'[n].values = ebuf[n].values
              /\ \A m \in 1..n : m # n => ebuf'[m] = ebuf[m]
            <4>1. ebuf \in Seq(Node)
                BY DEF DropInv, ParserInv, WellFormed
            <4>2. ebuf[n] \in Node
                BY <3>1, <4>1, ElementOfSeq
            <4> HIDE DEF n
            <4>3. ebuf' = [ebuf EXCEPT ![n] = [ebuf[n] EXCEPT !.func = Op.TABLENAME]]
                BY <1>5, <3>2
            <4>4. Op.TABLENAME \in Operators
                BY OperatorNames, OperatorsOfWords DEF Leaves
            <4> DEFINE node == [ebuf[n] EXCEPT !.func = Op.TABLENAME]
            <4>5. /\ node \in Node
                  /\ node.func = Op.TABLENAME
                  /\ node.values = ebuf[n].values
                BY <4>2, <4>4, RenamedNode DEF Node, Operators
            <4> HIDE DEF node
            <4>6. ebuf' = [ebuf EXCEPT ![n] = node]
                BY <4>3 DEF node
            <4>7. n \in 1..Len(ebuf) /\ n = Len(ebuf)
                BY <3>1 DEF n
            <4>8. QED
                BY <4>1, <4>5, <4>6, <4>7, ExceptSeq
        <3>4. Dropped(input, ebuf'[n])
            <4>1. pos - 1 \in Nat /\ pos - 1 - 2 = pos - 3
                  /\ pos - 1 - 1 = pos - 2
                BY DEF DropInv, ParserInv, CountersOK
            <4>2. InputOK
                BY DEF DropInv, ParserInv
            <4>3. QED
                BY <2>3, <2>9, <3>3, <4>1, <4>2, DroppedName DEF NameOK
        <3>5. \A m \in 1..n : m # n => Dropped(input, ebuf'[m])
            BY <2>7, <2>9, <3>3 DEF OnlyDrops
        <3>6. QED
            BY <2>5, <3>3, <3>4, <3>5 DEF OnlyDrops
    <2>10. QED
        BY <2>5, <2>6, <2>8, <2>9 DEF EndsWithWord
<1>10. QED
    BY <1>8, <1>9
\* What the pool holds between statements, one lemma for each kind of step.
LEMMA ReduceKeepsDrops == DropInv /\ Reduce => ReadOK' /\ DropsOK'
<1> SUFFICES ASSUME DropInv, Reduce PROVE ReadOK' /\ DropsOK'
    OBVIOUS
<1>1. /\ Decided
      /\ Rule \in {2, 3} \cup 15..79
      /\ (\E v : Give(v)) \/ (\E m : Build(m))
      /\ Rule \in {2, 3} => \E v : Give(v)
      /\ Rule = 15 => Build(setname(ebuf, Op.TABLENAME, Dollar(1)))
    BY ReduceActs
<1>2. Rule \in 1..NRules /\ {Rule} \subseteq 1..NRules /\ Reducing({Rule})
    BY <1>1 DEF NRules, Reducing
<1>3. Completes(Last(yyss), Rule) /\ StacksOK /\ Last(yyss) \in States
      /\ Top = Last(yyss)
    BY <1>2, ReducedRule, StackShape DEF DropInv, ParserInv, Top
<1>4. PICK value : Replace(value)
    BY <1>1 DEF Give, Build
<1>5. UNCHANGED <<scanner, history>>
    BY <1>1 DEF Give, Build
<1>6. /\ At(yystos, Top') = At(yyr1, Rule)
      /\ Top' \in States
      /\ pc' = "yynewstate"
    BY <1>3, <1>4, ReplaceTop
<1>7. ReadOK'
    BY <1>5, <1>6, ReductionReads DEF DropInv
<1>8. CASE Rule \in {2, 3}
    <2>1. ebuf' = ebuf
        BY <1>1, <1>8 DEF Give
    <2>2. Top \in DropTops /\ Parsing
        <3>1. Top \in {0, 13}
            BY <1>3, <1>8, DropRules
        <3>2. QED
            BY <1>1, <3>1 DEF DropTops, Decided, Parsing
    <2>3. At(yyr1, 2) = 51 /\ At(yyr1, 3) = 51
        BY DEF At, yyr1
    <2>4. At(yystos, Top') = 51
        BY <1>6, <1>8, <2>3
    <2>5. CASE Top' = 1
        BY <1>5, <1>6, <1>7, <2>1, <2>2, <2>5, NoDropChanged DEF DropInv
    <2>6. CASE Top' # 1
        <3>1. \A u \in DropTops \cup {27} : u = 1 \/ At(yystos, u) # 51
            BY DEF At, yystos, DropTops
        <3>2. Top' \notin DropTops /\ Top' # 27
            BY <2>4, <2>6, <3>1
        <3>3. QED
            BY <1>6, <1>7, <3>2, NoDropOnTop
    <2>7. QED
        BY <1>7, <2>5, <2>6
<1>9. CASE Rule = 15
    BY <1>1, <1>7, <1>9, NameKeepsDrops
<1>10. CASE Rule \in 16..79
    <2>1. At(yystos, Top') \in 54..74
        BY <1>6, <1>10, OtherRules
    <2>2. QED
        BY <1>6, <1>7, <2>1, OtherSymbols, NoDropOnTop
<1>11. QED
    BY <1>1, <1>8, <1>9, <1>10

\* What a statement may do.
LEMMA StatementActs ==
    ASSUME Statement
    PROVE  /\ UNCHANGED scanner
           /\ \/ pc' \in {"crashed", "quit"}
              \/ /\ Decided
                 /\ Rule \in 5..14
                 /\ \E value : Replace(value)
                 /\ gaveUp' = gaveUp
                 /\ \/ ebuf' = <<>>
                    \/ Rule = 13 /\ UNCHANGED <<ebuf, history>>
<1>1. CASE ExecuteInsert
    BY <1>1 DEF ExecuteInsert, Execute, Reducing
<1>2. CASE ExecuteSelect
    BY <1>2 DEF ExecuteSelect, Execute, Reducing
<1>3. CASE ExecuteCreate
    BY <1>3 DEF ExecuteCreate, Execute, Reducing
<1>4. CASE SkipStatement
    BY <1>4 DEF SkipStatement, Reducing, history
<1>5. CASE DropTable
    BY <1>5 DEF DropTable, Give, Reducing, history
<1>6. CASE Quit
    BY <1>6 DEF Quit
<1>7. QED
    BY <1>1, <1>2, <1>3, <1>4, <1>5, <1>6 DEF Statement

LEMMA StatementKeepsDrops == DropInv /\ Statement => ReadOK' /\ DropsOK'
<1> SUFFICES ASSUME DropInv, Statement PROVE ReadOK' /\ DropsOK'
    OBVIOUS
<1>1. UNCHANGED scanner
    BY StatementActs
<1>2. CASE pc' \in {"crashed", "quit"}
    BY <1>1, <1>2 DEF DropInv, ReadOK, DropsOK, Parsing, scanner
<1>3. CASE /\ Decided
           /\ Rule \in 5..14
           /\ \E value : Replace(value)
           /\ gaveUp' = gaveUp
           /\ \/ ebuf' = <<>>
              \/ Rule = 13 /\ UNCHANGED <<ebuf, history>>
    <2>1. /\ Rule \in 1..NRules /\ {Rule} \subseteq 1..NRules
          /\ Reducing({Rule}) /\ {Rule} \subseteq 5..14
        BY <1>3 DEF NRules, Reducing
    <2>2. Completes(Last(yyss), Rule) /\ StacksOK /\ Last(yyss) \in States
          /\ Top = Last(yyss)
        BY <2>1, ReducedRule, StackShape DEF DropInv, ParserInv, Top
    <2>3. At(yystos, Top') = 52 /\ Top' \in States /\ pc' = "yynewstate"
        <3>1. At(yyr1, Rule) = 52
            BY <2>1, LeftSides, ReducedRule DEF DropInv
        <3>2. QED
            BY <1>3, <2>2, <3>1, ReplaceTop
    <2>4. ReadOK'
        BY <1>1, <2>3, ReductionReads DEF DropInv
    <2>5. CASE Top' # 13
        <3>1. \A u \in DropTops \cup {27} : u = 13 \/ At(yystos, u) # 52
            BY DEF At, yystos, DropTops
        <3>2. Top' \notin DropTops /\ Top' # 27
            BY <2>3, <2>5, <3>1
        <3>3. QED
            BY <2>3, <2>4, <3>2, NoDropOnTop
    <2>6. CASE Top' = 13 /\ ebuf' = <<>>
        <3>1. yychar = Empty
            BY <2>1, NothingAhead DEF DropInv
        <3>2. Empty \notin DOMAIN WordOp
            BY OperatorsOfWords DEF Empty
        <3>3. PoolBetween'
            BY <1>1, <2>6, <3>1, <3>2, EmptyPool DEF PoolBetween, OnlyDrops,
               scanner
        <3>4. QED
            BY <2>3, <2>4, <2>6, <3>3 DEF DropsOK, NameOfTable
    <2>7. CASE Top' = 13 /\ Rule = 13 /\ UNCHANGED <<ebuf, history>>
        <3>1. Top = 81
            BY <2>2, <2>7, DropRules
        <3>2. Top \in DropTops /\ Parsing
            BY <1>3, <3>1 DEF DropTops, Decided, Parsing
        <3>3. QED
            BY <1>1, <2>3, <2>4, <2>7, <3>2, NoDropChanged DEF DropInv
    <2>8. QED
        BY <1>3, <2>5, <2>6, <2>7
<1>4. QED
    BY <1>2, <1>3, StatementActs

\* The marks of no token and of the end of input are no tokens.
LEMMA NoTokens ==
    /\ Empty \notin Tokens \cup {EndOfInput}
    /\ Empty \notin DOMAIN WordOp
    /\ EndOfInput \notin Tokens
<1>1. Empty \notin Tokens /\ EndOfInput \notin Tokens
    <2> DEFINE D(i) == yytname[i] # "YYEMPTY" /\ yytname[i] # "$end"
    <2>1. /\ D(4) /\ D(5) /\ D(6) /\ D(7) /\ D(8) /\ D(9) /\ D(10)
          /\ D(11) /\ D(12) /\ D(13) /\ D(14) /\ D(15) /\ D(16) /\ D(17)
          /\ D(18) /\ D(19) /\ D(20) /\ D(21) /\ D(22) /\ D(23) /\ D(24)
          /\ D(25) /\ D(26) /\ D(27) /\ D(28) /\ D(29) /\ D(30) /\ D(31)
          /\ D(32) /\ D(33) /\ D(34) /\ D(35) /\ D(36) /\ D(37) /\ D(38)
          /\ D(39) /\ D(40) /\ D(41) /\ D(42) /\ D(43) /\ D(44) /\ D(45)
          /\ D(46) /\ D(47) /\ D(48) /\ D(49) /\ D(50)
        BY DEF yytname
    <2> HIDE DEF D
    <2>2. \A i \in 4..50 : D(i)
        BY <2>1
    <2>3. QED
        BY <2>2 DEF D, Empty, EndOfInput, Tokens
<1>2. Empty # EndOfInput
    BY DEF Empty, EndOfInput
<1>3. QED
    BY <1>1, <1>2, OperatorsOfWords DEF Empty

\* What is on top of the stacks after a push.
LEMMA PushTop ==
    ASSUME StacksOK, NEW t \in States, NEW v \in Values, Push(t, v)
    PROVE  /\ Top' = t
           /\ Len(yyss') > 1
           /\ yyss'[Len(yyss') - 1] = Top
           /\ yyvs'[Len(yyvs')] = v
           /\ pc' = "yynewstate"
<1>1. yyss' = Append(yyss, t) /\ yyvs' = Append(yyvs, v) /\ pc' = "yynewstate"
    BY DEF Push
<1>2. yyss \in Seq(States) /\ yyvs \in Seq(Values)
    BY DEF StacksOK, Stacks, Linked
<1>3. Len(yyss) \in Nat /\ Len(yyss) > 0 /\ Len(yyss) \in 1..Len(yyss)
    BY StackShape
<1>4. /\ Len(yyss') = Len(yyss) + 1
      /\ yyss'[Len(yyss) + 1] = t
      /\ \A i \in 1..Len(yyss) : yyss'[i] = yyss[i]
    BY <1>1, <1>2, AppendProperties
<1>5. Len(yyvs') = Len(yyvs) + 1 /\ yyvs'[Len(yyvs) + 1] = v
    BY <1>1, <1>2, AppendProperties
<1>6. QED
    BY <1>1, <1>3, <1>4, <1>5 DEF Top

\* The tokens that lead to the states of DROP TABLE.
LEMMA ShiftedTops ==
    /\ \A u \in DropTops \cup {27} :
          At(yystos, u) \in 0..49 => u \in {0, 11, 27, 33, 81}
    /\ \A u \in DropTops \cup {27} : At(yystos, u) # 1
    /\ At(yystos, 11) = 28 /\ At(yystos, 27) = 3
    /\ At(yystos, 33) = 24 /\ At(yystos, 81) = 39
BY DEF At, yystos, DropTops

\* The names of those tokens.
LEMMA TokenNames ==
    /\ At(yytname, 28) = "DROP" /\ At(yytname, 24) = "TABLE"
    /\ At(yytname, 3) = "IDENT" /\ At(yytname, 39) = ";"
BY DEF At, yytname

LEMMA ShiftKeepsDrops == DropInv /\ Shift => ReadOK' /\ DropsOK'
<1> SUFFICES ASSUME DropInv, Shift PROVE ReadOK' /\ DropsOK'
    OBVIOUS
<1> DEFINE s == Last(yyss)
           k == yytranslate[yychar]
           t == Decision
<1>1. Decided /\ Decision > 0 /\ ParserInv /\ StacksOK
    BY DEF Shift, DropInv, ParserInv
<1>2. /\ ~IsDefault(s)
      /\ yychar \in Tokens \cup {EndOfInput}
      /\ t = ActionFor(s, k)
    BY <1>1, DecidedRule DEF ParserInv
<1>3. k \in 0..49 /\ At(yytname, k) = yychar
    BY <1>2, TokenNumbers
<1>4. s \in States /\ s = Top
    BY <1>1, StackShape DEF Top
<1> HIDE DEF s, k, t
<1>5. t \in States \ {0} /\ At(yystos, t) = k /\ Follows(s, t)
    <2>1. HasEntry(At(yypact, s), k) /\ t = At(yytable, At(yypact, s) + k)
        BY <1>1, <1>2, <1>3, <1>4, ActionShifts DEF t
    <2>2. At(yytable, At(yypact, s) + k) > 0
        BY <1>1, <2>1 DEF t
    <2>3. QED
        BY <1>2, <1>3, <1>4, <2>1, <2>2, ShiftFollows
<1>6. /\ UNCHANGED <<input, pos, ebuf, history>>
      /\ yychar' = Empty
      /\ Push(t, yylval)
    BY DEF Shift, t
<1>7. /\ Top' = t
      /\ Len(yyss') > 1
      /\ yyss'[Len(yyss') - 1] = s
      /\ yyvs'[Len(yyvs')] = yylval
      /\ pc' = "yynewstate"
    <2>1. yylval \in Values
        BY PoolAssumption DEF DropInv, ParserInv, LookaheadOK, Values
    <2>2. QED
        BY <1>1, <1>4, <1>5, <1>6, <2>1, PushTop
<1>8. ReadOK'
    BY <1>6, <1>7, NoTokens DEF ReadOK
<1>9. CASE t \notin {11, 27, 33, 81}
    <2>1. t \notin DropTops /\ t # 27
        BY <1>3, <1>5, <1>9, ShiftedTops
    <2>2. QED
        BY <1>7, <1>8, <2>1, NoDropOnTop
<1>10. CASE t \in {11, 27, 33, 81}
    <2>1. SUFFICES ASSUME Undisturbed
                   PROVE  DropsOK'
        <3>1. Undisturbed' <=> Undisturbed
            BY <1>6 DEF Undisturbed, history
        <3>2. QED
            BY <1>8, <2>1, <3>1 DEF DropsOK
    <2>2. yychar \in Tokens /\ Typed(input, yychar, pos - 1) /\ yychar # Empty
        BY <1>2, <2>1, NoTokens DEF DropInv, ReadOK, Undisturbed, ParserInv,
           CountersOK
    <2>3. Parsing /\ pos \in Int
        BY <1>1 DEF Decided, Parsing, ParserInv, CountersOK
    <2>4. Top \in DropTops => PoolBetween
        BY <2>1, <2>3 DEF DropInv, DropsOK
    <2>5. CASE t = 11
        <3>1. Top = 1 /\ yychar = "DROP"
            BY <1>3, <1>4, <1>5, <2>5, DropStates, ShiftedTops, TokenNames
        <3>2. OnlyDrops(input, ebuf, Len(ebuf))
            BY <2>4, <3>1, OperatorsOfWords DEF DropTops, PoolBetween
        <3>3. QED
            BY <1>6, <1>7, <2>2, <2>5, <3>1, <3>2, NoTokens
               DEF DropsOK, PoolBetween, Here, NameOfTable
    <2>6. CASE t = 33
        <3>1. Top = 11 /\ yychar = "TABLE"
            BY <1>3, <1>4, <1>5, <2>6, DropStates, ShiftedTops, TokenNames
        <3>2. OnlyDrops(input, ebuf, Len(ebuf))
            BY <2>4, <3>1, OperatorsOfWords DEF DropTops, PoolBetween
        <3>3. Typed(input, "DROP", pos - 2)
            BY <2>1, <2>2, <2>3, <3>1 DEF DropInv, DropsOK, Here
        <3>4. (pos - 1) - 1 = pos - 2
            BY <2>3
        <3>5. QED
            BY <1>6, <1>7, <2>2, <2>6, <3>1, <3>2, <3>3, <3>4, NoTokens
               DEF DropsOK, PoolBetween, Here, NameOfTable
    <2>7. CASE t = 81
        <3>1. Top = 62 /\ yychar = ";"
            BY <1>3, <1>4, <1>5, <2>7, DropStates, ShiftedTops, TokenNames
        <3>2. OnlyDrops(input, ebuf, Len(ebuf))
            BY <2>4, <3>1, OperatorsOfWords DEF DropTops, PoolBetween
        <3>3. QED
            BY <1>6, <1>7, <2>7, <3>2, NoTokens
               DEF DropsOK, PoolBetween, NameOfTable
    <2>8. CASE t = 27 /\ s # 33
        BY <1>7, <2>8 DEF DropsOK, NameOfTable, DropTops
    <2>9. CASE t = 27 /\ s = 33
        <3>1. Top = 33 /\ yychar = "IDENT"
            BY <1>3, <1>4, <1>5, <2>9, ShiftedTops, TokenNames
        <3>2. EndsWithWord(input, ebuf, yylval, pos - 1)
            BY <2>4, <3>1, OperatorsOfWords DEF DropTops, PoolBetween
        <3>3. /\ Typed(input, "DROP", (pos - 2) - 1)
              /\ Typed(input, "TABLE", pos - 2)
            BY <2>1, <2>2, <2>3, <3>1 DEF DropInv, DropsOK, Here
        <3>4. (pos - 2) - 1 = pos - 3
            BY <2>3
        <3>5. NameOK'
            BY <1>6, <1>7, <2>2, <3>1, <3>2, <3>3, <3>4 DEF NameOK
        <3>6. QED
            BY <1>7, <2>9, <3>5 DEF DropsOK, DropTops
    <2>10. QED
        BY <1>10, <2>5, <2>6, <2>7, <2>8, <2>9
<1>11. QED
    BY <1>8, <1>9, <1>10

\* A step that reads a token.
LEMMA TakenKeepsDrops ==
    ASSUME DropInv, NeedsToken, TakeToken, pc' \in {"yybackup", "crashed"},
           OnlyDrops(input, ebuf, Len(ebuf)) /\ pos \in 1..Len(input)
              => IF Token \in DOMAIN WordOp
                 THEN EndsWithWord(input, ebuf', yylval', pos)
                 ELSE OnlyDrops(input, ebuf', Len(ebuf'))
    PROVE  ReadOK' /\ DropsOK'
<1>1. /\ Token \in Tokens \cup {EndOfInput}
      /\ yychar' = Token
      /\ pc = "yybackup"
      /\ UNCHANGED <<input, yyss, yyvs>>
    BY TokenTaken DEF DropInv
<1>2. /\ DOMAIN input = 1..Len(input)
      /\ Len(input) \in Nat
      /\ pos \in 1..(Len(input) + 1)
    BY LenProperties DEF DropInv, ParserInv, InputOK, CountersOK
<1>3. yychar = Empty /\ ~IsDefault(Last(yyss)) /\ Top = Last(yyss)
    BY StackShape DEF NeedsToken, DropInv, ParserInv, Top
<1>4. Top # 27
    <2>1. IsDefault(27)
        BY DEF IsDefault, At, yypact, YYPACT_NINF
    <2>2. QED
        BY <1>3, <2>1
<1>5. pos' = (IF pos \in DOMAIN input THEN pos + 1 ELSE pos)
      /\ gaveUp' = gaveUp
    BY DEF TakeToken, history
<1>6. CASE pos \notin 1..Len(input)
    <2>1. pos = Len(input) + 1 /\ pos' = pos /\ Token = EndOfInput
        BY <1>2, <1>5, <1>6 DEF Token
    <2>2. ReadOK'
        BY <1>1, <1>2, <2>1, NoTokens DEF ReadOK
    <2>3. ~Undisturbed'
        BY <1>1, <1>2, <2>1 DEF Undisturbed
    <2>4. QED
        BY <2>2, <2>3 DEF DropsOK
<1>7. CASE pos \in 1..Len(input)
    <2>1. pos' = pos + 1 /\ Token = input[pos] /\ Token \in Tokens
        BY <1>2, <1>5, <1>7, ElementOfSeq DEF Token, DropInv, ParserInv,
           InputOK
    <2>2. pos' - 1 = pos /\ pos' - 2 = pos - 1 /\ (pos - 1) - 1 = pos - 2
        BY <1>2, <2>1
    <2>3. Typed(input, Token, pos)
        BY <1>7, <2>1 DEF Typed
    <2>4. ReadOK'
        BY <1>1, <2>1, <2>2, <2>3, NoTokens DEF ReadOK
    <2>5. SUFFICES ASSUME Undisturbed'
                   PROVE  DropsOK'
        BY <2>4 DEF DropsOK
    <2>6. Undisturbed
        BY <1>1, <1>2, <1>5, <2>1, <2>5 DEF Undisturbed
    <2>7. Parsing /\ Top' = Top
        BY <1>1 DEF Parsing, Top
    <2>8. Top \in DropTops => PoolBetween'
        <3>1. SUFFICES ASSUME Top \in DropTops PROVE PoolBetween'
            OBVIOUS
        <3>2. OnlyDrops(input, ebuf, Len(ebuf))
            BY <1>3, <2>6, <2>7, <3>1, NoTokens DEF DropInv, DropsOK,
               PoolBetween
        <3>3. QED
            BY <1>1, <1>7, <2>2, <3>2 DEF PoolBetween
    <2>9. Here' = Here
        BY <1>1, <1>3, <2>1, <2>2, NoTokens DEF Here
    <2>10. /\ Top = 11 => Typed(input, "DROP", Here)
           /\ Top = 33 => Typed(input, "DROP", Here - 1)
                 /\ Typed(input, "TABLE", Here)
        BY <2>6, <2>7 DEF DropInv, DropsOK
    <2>11. ~NameOfTable' /\ pc' # "main"
        BY <1>4, <2>7 DEF NameOfTable
    <2>12. QED
        BY <1>1, <2>7, <2>8, <2>9, <2>10, <2>11 DEF DropsOK
<1>8. QED
    BY <1>6, <1>7

LEMMA ScanKeepsDrops == DropInv /\ Scan => ReadOK' /\ DropsOK'
<1> SUFFICES ASSUME DropInv, Scan PROVE ReadOK' /\ DropsOK'
    OBVIOUS
<1>1. CASE ReadToken
    <2>1. /\ NeedsToken /\ TakeToken
          /\ Token \notin DOMAIN WordOp
          /\ UNCHANGED <<ebuf, pc>>
        BY <1>1 DEF ReadToken
    <2>2. pc' \in {"yybackup", "crashed"}
        BY <2>1 DEF NeedsToken
    <2>3. QED
        BY <2>1, <2>2, TakenKeepsDrops
<1>2. CASE ReadWordIntoFullPool
    <2>1. /\ NeedsToken /\ TakeToken
          /\ Token \in DOMAIN WordOp
          /\ yylval' = 0
          /\ pc' \in {"yybackup", "crashed"}
          /\ ebuf' = ebuf
        BY <1>2 DEF ReadWordIntoFullPool
    <2>2. OnlyDrops(input, ebuf, Len(ebuf))
             => EndsWithWord(input, ebuf', yylval', pos)
        BY <2>1 DEF EndsWithWord
    <2>3. QED
        BY <2>1, <2>2, TakenKeepsDrops
<1>3. CASE ReadWord
    <2> DEFINE node == [func |-> WordOp[Token], values |-> <<pos, 0>>]
    <2>1. /\ NeedsToken /\ TakeToken
          /\ Token \in DOMAIN WordOp
          /\ ebuf' = Append(ebuf, node)
          /\ yylval' = Reference(Len(ebuf) + 1)
          /\ pc' = pc
        BY <1>3 DEF ReadWord
    <2>2. node.values[1] = pos
        OBVIOUS
    <2> HIDE DEF node
    <2>3. pc' \in {"yybackup", "crashed"}
        BY <2>1 DEF NeedsToken
    <2>4. /\ Len(ebuf) \in Nat
          /\ Len(ebuf') = Len(ebuf) + 1
          /\ \A n \in 1..Len(ebuf) : ebuf'[n] = ebuf[n]
          /\ ebuf'[Len(ebuf) + 1] = node
        <3>1. ebuf \in Seq(Node)
            BY DEF DropInv, ParserInv, WellFormed
        <3>2. ebuf \in Seq(Node \cup {node}) /\ node \in Node \cup {node}
            BY <3>1, SeqMonotonic
        <3>3. QED
            BY <2>1, <3>2, AppendProperties
    <2>5. ASSUME OnlyDrops(input, ebuf, Len(ebuf))
          PROVE  EndsWithWord(input, ebuf', yylval', pos)
        <3>1. Len(ebuf') - 1 = Len(ebuf) /\ Len(ebuf') > 0
            BY <2>4
        <3>2. OnlyDrops(input, ebuf', Len(ebuf') - 1)
            BY <2>4, <2>5, <3>1 DEF OnlyDrops
        <3>3. QED
            BY <2>1, <2>2, <2>4, <3>1, <3>2 DEF EndsWithWord
    <2>6. QED
        BY <2>1, <2>3, <2>5, TakenKeepsDrops
<1>4. QED
    BY <1>1, <1>2, <1>3 DEF Scan

LEMMA EnterKeepsDrops == DropInv /\ Enter => ReadOK' /\ DropsOK'
<1> SUFFICES ASSUME DropInv, Enter PROVE ReadOK' /\ DropsOK'
    OBVIOUS
<1>1. /\ UNCHANGED <<input, pos, yychar, yylval, yyss, yyvs, ebuf>>
      /\ pc = "yynewstate"
      /\ \/ gaveUp' = gaveUp /\ pc' \in {"yynewstate", "yybackup", "quit"}
         \/ gaveUp' # {} /\ pc' = "main"
    BY DEF Enter, GrowStack, StackExhausted, AcceptAtEnd, Settle, scanner,
           stacks, history
<1>2. ReadOK'
    BY <1>1 DEF DropInv, ReadOK
<1>3. /\ Top' = Top /\ NameOfTable' = NameOfTable /\ Here' = Here
      /\ PoolBetween' = PoolBetween /\ NameOK' = NameOK
    BY <1>1 DEF Top, NameOfTable, Here, PoolBetween, NameOK
<1>4. CASE gaveUp' # {}
    BY <1>2, <1>4 DEF DropsOK, Undisturbed
<1>5. CASE gaveUp' = gaveUp /\ pc' \in {"yynewstate", "yybackup", "quit"}
    <2>1. (Undisturbed' => Undisturbed) /\ Parsing
        BY <1>1, <1>5 DEF Undisturbed, Parsing
    <2>2. QED
        BY <1>1, <1>2, <1>3, <1>5, <2>1 DEF DropInv, DropsOK
<1>6. QED
    BY <1>1, <1>4, <1>5

LEMMA CallKeepsDrops == DropInv /\ CallParser => ReadOK' /\ DropsOK'
<1> SUFFICES ASSUME DropInv, CallParser PROVE ReadOK' /\ DropsOK'
    OBVIOUS
<1>1. /\ yyss' = <<0>> /\ yychar' = Empty
      /\ pc = "main" /\ pc' = "yynewstate"
      /\ UNCHANGED <<input, pos, ebuf, history>>
    BY DEF CallParser
<1>2. Top' = 0
    BY <1>1 DEF Top
<1>3. Undisturbed' = Undisturbed
    BY <1>1 DEF Undisturbed, history
<1>4. Undisturbed => PoolBetween'
    BY <1>1, NoTokens DEF DropInv, DropsOK, PoolBetween
<1>5. ReadOK'
    BY <1>1, NoTokens DEF ReadOK
<1>6. QED
    BY <1>1, <1>2, <1>3, <1>4, <1>5 DEF DropsOK, NameOfTable

\* The first state decides without a token, and states above it can be
\* popped until the one that begins a statement is found.
LEMMA ErringAbove ==
    ASSUME DropInv, Erring
    PROVE  Len(yyss) > 1
<1>1. ParserInv /\ StacksOK /\ Decided /\ Decision = 0
    BY DEF Erring, DropInv, ParserInv
<1>2. CASE Len(yyss) = 1
    <2>1. Last(yyss) = 0
        BY <1>1, <1>2, StackShape DEF StacksOK, Stacks, Linked
    <2>2. IsDefault(0) /\ At(yydefact, 0) = 2
        BY DEF IsDefault, At, yypact, yydefact, YYPACT_NINF
    <2>3. Decision = -2
        BY <2>1, <2>2 DEF Decision
    <2>4. QED
        BY <1>1, <2>3
<1>3. QED
    BY <1>1, <1>2, StackShape

LEMMA PopKeepsDrops == DropInv /\ PopState => ReadOK' /\ DropsOK'
<1> SUFFICES ASSUME DropInv, PopState PROVE ReadOK' /\ DropsOK'
    OBVIOUS
<1>1. StacksOK /\ pc = "yyerrlab1" /\ ~ShiftsError(Last(yyss))
      /\ UNCHANGED scanner
    BY DEF DropInv, ParserInv, PopState
<1>2. Len(yyss) > 1 /\ Len(yyss) \in Nat
    BY <1>1, StackShape DEF DropInv, ReadOK
<1>3. yyss' = Front(yyss) /\ pc' = pc
    <2>1. ASSUME Len(yyss) = 1 PROVE FALSE
        <3>1. 1 > 1
            BY <1>2, <2>1
        <3>2. QED
            BY <3>1
    <2>2. IF Len(yyss) = 1
          THEN pc' = "main" /\ UNCHANGED <<yyss, yyvs>>
          ELSE yyss' = Front(yyss) /\ yyvs' = Front(yyvs) /\ UNCHANGED pc
        BY DEF PopState
    <2>3. QED
        BY <2>1, <2>2, Zenon
<1>4. Len(yyss) # 2
    <2>1. SUFFICES ASSUME Len(yyss) = 2 PROVE FALSE
        OBVIOUS
    <2>2. Last(yyss) = yyss[2] /\ yyss[2] \in States
        BY <1>1, <2>1, StackShape
    <2>3. yyss[1] = 0 /\ yyss[2] # 0 /\ Follows(yyss[2 - 1], yyss[2])
        <3>1. 2 \in 2..Len(yyss)
            BY <2>1
        <3>2. Linked(yyss)
            BY <1>1 DEF StacksOK, Stacks
        <3>3. QED
            BY <3>1, <3>2 DEF Linked
    <2>4. yyss[2] = 1
        BY <2>2, <2>3, FirstStates
    <2>5. QED
        BY <1>1, <2>2, <2>4, ErrorState
<1>5. Len(yyss') = Len(yyss) - 1
    <2>1. Len(yyss) - 1 \in 1..Len(yyss)
        BY <1>2
    <2>2. yyss' = SubSeq(yyss, 1, Len(yyss) - 1)
        BY <1>3 DEF Front
    <2>3. QED
        BY <1>1, <2>1, <2>2, PopStacks DEF StacksOK
<1>6. Len(yyss') > 1
    BY <1>2, <1>4, <1>5
<1>7. ReadOK'
    BY <1>1, <1>6 DEF DropInv, ReadOK, scanner
<1>8. QED
    BY <1>1, <1>3, <1>7 DEF DropsOK, Parsing

LEMMA RecoverKeepsDrops == DropInv /\ Recover => ReadOK' /\ DropsOK'
<1> SUFFICES ASSUME DropInv, Recover PROVE ReadOK' /\ DropsOK'
    OBVIOUS
<1>1. CASE DetectError \/ DiscardToken
    <2>1. /\ UNCHANGED <<input, pos, yyss>>
          /\ yychar' = Empty \/ yychar' = yychar
          /\ Erring /\ pc' = "yyerrlab1"
        BY <1>1 DEF DetectError, DiscardToken, scanner, stacks
    <2>2. ReadOK'
        BY <2>1, ErringAbove, NoTokens DEF DropInv, ReadOK
    <2>3. QED
        BY <2>1, <2>2 DEF DropsOK, Parsing
<1>2. CASE AbortAtEnd
    <2>1. /\ UNCHANGED <<input, pos, yychar, yyss>>
          /\ yychar = EndOfInput /\ pc' = "main"
        BY <1>2 DEF AbortAtEnd, scanner, stacks
    <2>2. pos > Len(input) /\ pos \in Nat /\ Len(input) \in Nat
        BY <2>1, LenProperties
           DEF DropInv, ReadOK, ParserInv, CountersOK, InputOK
    <2>3. ReadOK' /\ ~Undisturbed'
        BY <2>1, <2>2 DEF DropInv, ReadOK, Undisturbed
    <2>4. QED
        BY <2>3 DEF DropsOK
<1>3. CASE PopState
    BY <1>3, PopKeepsDrops
<1>4. CASE ShiftError
    <2> DEFINE s == Last(yyss)
               t == At(yytable, At(yypact, s) + YYTERROR)
    <2>1. /\ StacksOK /\ s \in States /\ ShiftsError(s)
          /\ Push(t, yylval) /\ UNCHANGED scanner
        BY <1>4, StackShape DEF ShiftError, DropInv, ParserInv
    <2> HIDE DEF s
    <2>2. 1 \in 0..49 /\ YYTERROR = 1
        BY DEF YYTERROR
    <2>3. t \in States /\ At(yystos, t) = 1
        BY <2>1, <2>2, ShiftFollows DEF ShiftsError
    <2> HIDE DEF t
    <2>4. yylval \in Values
        BY PoolAssumption DEF DropInv, ParserInv, LookaheadOK, Values
    <2>5. Top' = t /\ pc' = "yynewstate"
        BY <2>1, <2>3, <2>4, PushTop
    <2>6. t \notin DropTops /\ t # 27
        BY <2>3, ShiftedTops
    <2>7. QED
        BY <2>1, <2>5, <2>6, ReductionReads, NoDropOnTop DEF DropInv
<1>5. QED
    BY <1>1, <1>2, <1>3, <1>4 DEF Recover

\* Every step keeps what is known of the pool between statements.
LEMMA StepKeepsDrops == DropInv /\ [Next]_vars => DropInv'
<1> SUFFICES ASSUME DropInv, [Next]_vars PROVE DropInv'
    OBVIOUS
<1>1. ParserInv'
    BY StepKeepsParser DEF DropInv
<1>2. CASE Next
    BY <1>1, <1>2, CallKeepsDrops, ScanKeepsDrops, EnterKeepsDrops,
       ShiftKeepsDrops, ReduceKeepsDrops, StatementKeepsDrops,
       RecoverKeepsDrops DEF Next, DropInv
<1>3. CASE UNCHANGED vars
    <2>1. UNCHANGED <<input, pos, yychar, yylval, yyss, yyvs, ebuf, pc,
        gaveUp>>
        BY <1>3 DEF vars, scanner, stacks, history
    <2>2. ReadOK'
        BY <2>1 DEF DropInv, ReadOK
    <2>3. /\ Top' = Top /\ NameOfTable' = NameOfTable /\ Here' = Here
          /\ PoolBetween' = PoolBetween /\ NameOK' = NameOK
          /\ Undisturbed' = Undisturbed /\ Parsing' = Parsing
        BY <2>1 DEF Top, NameOfTable, Here, PoolBetween, NameOK, Undisturbed,
                    Parsing
    <2>4. DropsOK'
        BY <2>1, <2>3 DEF DropInv, DropsOK
    <2>5. QED
        BY <1>1, <2>2, <2>4 DEF DropInv
<1>4. QED
    BY <1>2, <1>3

\* It holds at first, with an empty pool.
LEMMA InitialDrops == Init => DropInv
<1> SUFFICES ASSUME Init PROVE DropInv
    OBVIOUS
<1>1. ParserInv
    BY InitialParser
<1>2. ReadOK
    BY NoTokens DEF Init, ReadOK
<1>3. DropsOK
    BY EmptyPool DEF Init, DropsOK, OnlyDrops, Parsing
<1>4. QED
    BY <1>1, <1>2, <1>3 DEF DropInv

\* At the start of a statement the pool holds the dropped names.
LEMMA DropInvBetween == DropInv => OnlyDropsLeaveNodes
<1> SUFFICES ASSUME DropInv, AtStart, gaveUp = {}, pos <= Len(input),
                    NEW n \in DOMAIN ebuf
             PROVE  Dropped(input, ebuf[n])
    BY DEF OnlyDropsLeaveNodes, Dropped
<1>1. Top = 1 /\ Parsing /\ Undisturbed /\ yychar = Empty
    BY DEF AtStart, Top, Parsing, Undisturbed
<1>2. OnlyDrops(input, ebuf, Len(ebuf))
    BY <1>1, NoTokens DEF DropInv, DropsOK, PoolBetween, DropTops
<1>3. n \in 1..Len(ebuf)
    BY LenProperties DEF DropInv, ParserInv, WellFormed
<1>4. QED
    BY <1>2, <1>3 DEF OnlyDrops

\* What a statement finds in the pool: nothing, except the name of the table
\* of each DROP TABLE before it, whatever was read and recovered from.
THEOREM StatementsBeginClean == Spec => []OnlyDropsLeaveNodes
<1>1. Init => DropInv
    BY InitialDrops
<1>2. DropInv /\ [Next]_vars => DropInv'
    BY StepKeepsDrops
<1>3. DropInv => OnlyDropsLeaveNodes
    BY DropInvBetween
<1>4. QED
    BY <1>1, <1>2, <1>3, PTL DEF Spec

-----------------------------------------------------------------------------
(***************************************************************************)
(* Facts about the automaton's tables                                      *)
(***************************************************************************)

LEMMA NextStateIs ==
    \A s \in 1..JamState, c \in 0..17 : NextState[s][c] = StateAfter(s, c)
BY DEF NextState

\* Every state has a next one.
LEMMA NextStateInRange ==
    \A s \in 1..JamState, c \in 0..17 : NextState[s][c] \in 1..JamState
<1>1. \A s \in 1..30 : At(yy_base, s) \in 0..33
    BY ONLY DEF At, yy_base
<1>2. \A i \in 1..50 : At(yy_nxt, i) \in 1..29
    BY ONLY DEF At, yy_nxt
<1>3. At(yy_chk, 0) = 0 /\ \A i \in 33..50 : At(yy_chk, i) = 29
    BY ONLY DEF At, yy_chk
<1>4. At(yy_base, 29) = 33
    BY ONLY DEF At, yy_base
<1>5. /\ \A s \in 1..28 : At(yy_def, s) \in {1, 29, 30}
      /\ At(yy_def, 1) = 29 /\ At(yy_def, 30) = 29
    BY ONLY DEF At, yy_def
<1>6. ASSUME NEW s \in 1..30, NEW c \in 0..17, HasRow(s, c) \/ s = 29
      PROVE  RowEntry(s, c) \in 1..29
    <2>1. PICK b \in 0..33 : b = At(yy_base, s)
        BY <1>1
    <2>2. PICK i \in 0..50 : i = b + c
        OBVIOUS
    <2>3. i # 0
        <3>1. CASE s = 29
            BY <1>4, <2>1, <2>2, <3>1
        <3>2. CASE HasRow(s, c)
            <4>1. At(yy_chk, i) = s
                BY <2>1, <2>2, <3>2 DEF HasRow
            <4>2. QED
                BY <1>3, <4>1
        <3>3. QED
            BY <1>6, <3>1, <3>2
    <2>4. QED
        BY <1>2, <2>1, <2>2, <2>3 DEF RowEntry
<1>7. \A c \in 0..17 : HasRow(29, c)
    <2>1. \A c \in 0..17 : 33 + c \in 33..50
        OBVIOUS
    <2>2. QED
        BY <1>3, <1>4, <2>1 DEF HasRow
<1>8. ASSUME NEW s \in 1..29, NEW c \in 0..17
      PROVE  StateAfter(s, c) \in 1..29
    <2>1. PICK d : d = At(yy_def, s)
        OBVIOUS
    <2>2. PICK a : a = IF d >= Templates THEN yy_meta(c) ELSE c
        OBVIOUS
    <2>3. a \in 0..17
        BY <2>2 DEF yy_meta
    <2>4. StateAfter(s, c) = IF HasRow(s, c) THEN RowEntry(s, c)
                             ELSE IF HasRow(d, a) THEN RowEntry(d, a)
                             ELSE RowEntry(At(yy_def, d), a)
        BY <2>1, <2>2 DEF StateAfter
    <2>5. CASE HasRow(s, c)
        BY <1>6, <2>4, <2>5
    <2>6. CASE ~HasRow(s, c)
        <3>1. d \in {1, 29, 30}
            BY <1>5, <1>7, <2>1, <2>6
        <3>2. CASE HasRow(d, a)
            <4>1. d \in 1..30
                BY <3>1
            <4>2. RowEntry(d, a) \in 1..29
                BY <1>6, <2>3, <3>2, <4>1
            <4>3. QED
                BY <2>4, <2>6, <3>2, <4>2
        <3>3. CASE ~HasRow(d, a)
            <4>1. At(yy_def, d) = 29
                BY <1>5, <1>7, <2>3, <3>1, <3>3
            <4>2. RowEntry(29, a) \in 1..29
                BY <1>6, <2>3
            <4>3. QED
                BY <2>4, <2>6, <3>3, <4>1, <4>2
        <3>4. QED
            BY <3>2, <3>3
    <2>7. QED
        BY <2>5, <2>6
<1>9. \A s \in 1..JamState, c \in 0..17 : StateAfter(s, c) \in 1..JamState
    BY <1>8 DEF JamState
<1>10. QED
    BY <1>9, NextStateIs

\* An end-of-buffer character leads to the state that stands for it, and
\* nothing else does; in that state any character ends the lexeme.
LEMMA EndOfBufferEnds ==
    /\ \A s \in 1..JamState : s # 3 => NextState[s][0] = 3
    /\ \A c \in 0..17 : NextState[3][c] = JamState
    /\ \A s \in 1..JamState, c \in 1..17 : NextState[s][c] # 3
<1>1. \A s \in 1..JamState : s # 3 => StateAfter(s, 0) = 3
    BY ONLY SMTT(60) DEF StateAfter, HasRow, RowEntry, yy_meta, At, yy_base, yy_def,
                    yy_nxt, yy_chk, JamState, Templates
<1>2. \A c \in 0..17 : StateAfter(3, c) = JamState
    BY ONLY SMTT(60) DEF StateAfter, HasRow, RowEntry, yy_meta, At, yy_base, yy_def,
                    yy_nxt, yy_chk, JamState, Templates
<1>3. \A s \in 1..JamState, c \in 1..17 : StateAfter(s, c) # 3
    BY ONLY SMTT(60) DEF StateAfter, HasRow, RowEntry, yy_meta, At, yy_base, yy_def,
                    yy_nxt, yy_chk, JamState, Templates
<1>4. /\ 3 \in 1..JamState /\ 0 \in 0..17
      /\ \A c \in 1..17 : c \in 0..17
    BY DEF JamState
<1>5. QED
    BY <1>1, <1>2, <1>3, <1>4, NextStateIs

\* Any first character makes a lexeme.
LEMMA StartAccepts ==
    \A c \in 0..17 : Accepts(NextState[yy_start][c])
<1>1. \A c \in 0..17 : At(yy_accept, StateAfter(1, c)) # 0
    BY ONLY SMTT(60) DEF StateAfter, HasRow, RowEntry, yy_meta, At, yy_base, yy_def,
                    yy_nxt, yy_chk, yy_accept, Templates
<1>2. 1 \in 1..JamState
    BY DEF JamState
<1>3. QED
    BY <1>1, <1>2, NextStateIs DEF Accepts, yy_start

\* Which states stop the automaton, and which accept.
LEMMA SpecialStates ==
    /\ ~Final(3) /\ Final(JamState) /\ ~Accepts(JamState)
    /\ ~Accepts(yy_start)
    /\ \A s \in 1..JamState : At(yy_accept, s) = YY_END_OF_BUFFER <=> s = 3
BY DEF Final, Accepts, At, yy_base, yy_accept, yy_start, JamState,
       YY_END_OF_BUFFER

\* Every character has a class, and only NUL that of the end of the buffer.
LEMMA Classes ==
    /\ "NUL" \in Chars
    /\ yy_ec["NUL"] = 0
    /\ \A c \in Chars : yy_ec[c] \in 0..17
<1>1. "NUL" \in Chars
    BY DEF Chars, Signs
<1>2. yy_ec["NUL"] = 0
    BY CharsAssumption DEF Chars, Signs, yy_ec
<1>3. \A c \in Chars : yy_ec[c] \in 0..17
    BY DEF yy_ec
<1>4. QED
    BY <1>1, <1>2, <1>3

(***************************************************************************)
(* The buffer                                                              *)
(***************************************************************************)
BufferOK ==
    /\ ch_buf \in Seq(Chars)
    /\ Len(ch_buf) >= 2
    /\ ch_buf[Len(ch_buf) - 1] = "NUL"
    /\ ch_buf[Len(ch_buf)] = "NUL"
    /\ yy_buf_size \in Nat \ {0}
    /\ yy_n_chars <= yy_buf_size
    /\ text \in Seq(Chars)
    /\ yyin \in 0..Len(text)

LEMMA TerminatedEnds ==
    ASSUME NEW s \in Seq(Chars)
    PROVE  /\ Terminated(s) \in Seq(Chars)
           /\ Len(Terminated(s)) = Len(s) + 2
           /\ Terminated(s)[Len(s) + 1] = "NUL"
           /\ Terminated(s)[Len(s) + 2] = "NUL"
<1>1. <<"NUL", "NUL">> \in Seq(Chars) /\ Len(<<"NUL", "NUL">>) = 2
    BY Classes
<1>2. Len(s) \in Nat
    BY LenProperties
<1>3. QED
    BY <1>1, <1>2, ConcatProperties DEF Terminated

\* The class of the character in front of the automaton: inside the text it is
\* a class, and where the text ends it is that of NUL.
LEMMA NextClassKnown ==
    ASSUME BufferOK, yy_cp \in Nat, yy_cp <= yy_n_chars + 1
    PROVE  /\ NextClass \in 0..17
           /\ yy_cp >= yy_n_chars => NextClass = 0
<1>1. Len(ch_buf) \in Nat
    BY LenProperties DEF BufferOK
<1>2. yy_cp + 1 \in 1..Len(ch_buf)
    BY <1>1 DEF yy_n_chars
<1>3. ch_buf[yy_cp + 1] \in Chars
    BY <1>2, ElementOfSeq DEF BufferOK
<1>4. ASSUME yy_cp >= yy_n_chars PROVE ch_buf[yy_cp + 1] = "NUL"
    <2>1. yy_cp + 1 = Len(ch_buf) - 1 \/ yy_cp + 1 = Len(ch_buf)
        BY <1>1, <1>2, <1>4 DEF yy_n_chars
    <2>2. QED
        BY <2>1 DEF BufferOK
<1>5. QED
    BY <1>3, <1>4, Classes DEF NextClass, At

(***************************************************************************)
(* The invariant                                                           *)
(***************************************************************************)
PointersOK ==
    /\ yytext_ptr \in Nat
    /\ yy_c_buf_p \in Nat
    /\ yy_cp \in Nat
    /\ yy_current_state \in 1..JamState

\* How far the automaton may be when it is in a state.
Reach(state) == IF state = 3 THEN yy_n_chars + 1 ELSE yy_n_chars

\* The state remembered is one of this lexeme.
Fresh ==
    /\ yy_last_accepting.state \in 1..JamState
    /\ yy_last_accepting.cpos \in Nat
    /\ Accepts(yy_last_accepting.state)
    /\ yytext_ptr < yy_last_accepting.cpos
    /\ yy_last_accepting.cpos <= Reach(yy_last_accepting.state)

\* Inside a lexeme: once a character was taken there is a state to accept.
InLexeme ==
    /\ yytext_ptr <= yy_cp
    /\ yy_cp = yytext_ptr => yy_current_state = yy_start
    /\ yy_cp > yytext_ptr => Accepts(yy_current_state) \/ Fresh

\* Where the pointers are at each label.
LabelOK ==
    /\ lex \in {"idle", "yylex", "yy_match", "yy_find_action", "do_action"}
               \cup Rescans
    /\ lex \in {"idle", "yylex"} => yy_c_buf_p <= yy_n_chars
    /\ lex = "yy_match" => InLexeme /\ yy_cp <= Reach(yy_current_state)
    /\ lex \in Rescans =>
          /\ InLexeme /\ yy_current_state # 3
          /\ yy_cp <= yy_c_buf_p
          /\ yy_c_buf_p <= yy_n_chars
          /\ lex = "rescan, act" => yytext_ptr < yy_c_buf_p
          /\ lex = "rescan, NUL" => yy_c_buf_p < yy_n_chars
    /\ lex = "yy_find_action" =>
          /\ yytext_ptr < yy_cp
          /\ Accepts(yy_current_state) => yy_cp <= Reach(yy_current_state)
          /\ ~Accepts(yy_current_state) => Fresh
    /\ lex = "do_action" =>
          /\ yytext_ptr < yy_c_buf_p
          /\ yy_c_buf_p <= Reach(yy_current_state)

ScannerInv == BufferOK /\ PointersOK /\ LabelOK

LEMMA InitialScanner == ScannerInit => ScannerInv
<1>1. SUFFICES ASSUME ScannerInit PROVE ScannerInv
    OBVIOUS
<1>2. <<>> \in Seq(Chars) /\ Len(<<>>) = 0
    BY EmptySeq
<1>3. /\ ch_buf \in Seq(Chars)
      /\ Len(ch_buf) = 2
      /\ ch_buf[1] = "NUL" /\ ch_buf[2] = "NUL"
    <2> DEFINE empty == Terminated(<<>>)
    <2>1. /\ empty \in Seq(Chars)
          /\ Len(empty) = Len(<<>>) + 2
          /\ empty[Len(<<>>) + 1] = "NUL"
          /\ empty[Len(<<>>) + 2] = "NUL"
        BY <1>2, TerminatedEnds
    <2>2. ch_buf = empty
        BY <1>1 DEF ScannerInit
    <2> HIDE DEF empty
    <2>3. QED
        BY <1>2, <2>1, <2>2
<1>4. BufferOK
    <2>1. text \in Seq(Chars)
        BY <1>1, TextsAssumption DEF ScannerInit
    <2>2. yyin \in 0..Len(text) /\ yy_buf_size = YY_BUF_SIZE
        BY <1>1, <2>1, LenProperties DEF ScannerInit
    <2>3. QED
        BY <1>3, <2>1, <2>2, BufferAssumption DEF BufferOK, yy_n_chars
<1>5. PointersOK
    BY <1>1 DEF ScannerInit, PointersOK, yy_start, JamState
<1>6. LabelOK
    BY <1>1, <1>3 DEF ScannerInit, LabelOK, Rescans, yy_n_chars
<1>7. QED
    BY <1>4, <1>5, <1>6 DEF ScannerInv

(***************************************************************************)
(* Steps of the automaton                                                  *)
(***************************************************************************)

\* What a character taken does to a lexeme, when the buffer stays as it is.
LEMMA TakeKeepsLexeme ==
    ASSUME BufferOK, PointersOK, InLexeme,
           yy_cp <= Reach(yy_current_state),
           NEW class \in 0..17, Take(class),
           UNCHANGED <<ch_buf, yytext_ptr>>
    PROVE  /\ yy_cp' = yy_cp + 1
           /\ yy_current_state' = NextState[yy_current_state][class]
           /\ yy_current_state' \in 1..JamState
           /\ InLexeme'
<1>1. /\ yy_cp' = yy_cp + 1
      /\ yy_current_state' = NextState[yy_current_state][class]
    BY DEF Take
<1>2. yy_current_state' \in 1..JamState
    BY <1>1, NextStateInRange DEF PointersOK
<1>3. yy_n_chars' = yy_n_chars
    BY DEF yy_n_chars
<1>4. yytext_ptr' < yy_cp'
    BY <1>1 DEF PointersOK, InLexeme
<1>5. CASE Accepts(yy_current_state)
    <2>1. yytext_ptr < yy_cp
        BY <1>5, SpecialStates DEF InLexeme, PointersOK
    <2>2. yy_last_accepting' = [state |-> yy_current_state, cpos |-> yy_cp]
        BY <1>5 DEF Take, Remember
    <2>3. Fresh'
        BY <1>3, <1>5, <2>1, <2>2 DEF Fresh, Reach, PointersOK, Accepts
    <2>4. QED
        BY <1>1, <1>2, <1>4, <2>3 DEF InLexeme, PointersOK
<1>6. CASE ~Accepts(yy_current_state) /\ yytext_ptr < yy_cp
    <2>1. Fresh /\ yy_last_accepting' = yy_last_accepting
        BY <1>6 DEF InLexeme, Take, Remember
    <2>2. Fresh'
        BY <1>3, <2>1 DEF Fresh, Reach, Accepts
    <2>3. QED
        BY <1>1, <1>2, <1>4, <2>2 DEF InLexeme, PointersOK
<1>7. CASE yy_cp = yytext_ptr
    <2>1. Accepts(yy_current_state')
        BY <1>1, <1>7, StartAccepts DEF InLexeme
    <2>2. Accepts(yy_current_state)'
        BY <2>1 DEF Accepts
    <2>3. QED
        BY <1>1, <1>2, <1>4, <2>2 DEF InLexeme, PointersOK
<1>8. QED
    BY <1>5, <1>6, <1>7 DEF InLexeme, PointersOK

LEMMA MatchKeeps ==
    ASSUME ScannerInv, Match
    PROVE  ScannerInv'
<1>1. /\ BufferOK /\ PointersOK /\ InLexeme
      /\ yy_cp <= Reach(yy_current_state)
    BY DEF ScannerInv, LabelOK, Match
<1>2. UNCHANGED <<ch_buf, yytext_ptr, yy_c_buf_p, yy_buf_size, text, yyin>>
    BY DEF Match, buffer
<1>3. yy_n_chars \in Int /\ yy_cp <= yy_n_chars + 1
    BY <1>1, LenProperties DEF Reach, PointersOK, BufferOK, yy_n_chars
<1>4. NextClass \in 0..17 /\ (yy_cp >= yy_n_chars => NextClass = 0)
    BY <1>1, <1>3, NextClassKnown DEF PointersOK
<1>5. /\ yy_cp' = yy_cp + 1
      /\ yy_current_state' = NextState[yy_current_state][NextClass]
      /\ yy_current_state' \in 1..JamState
      /\ InLexeme'
    <2>1. Take(NextClass)
        BY DEF Match
    <2>2. QED
        BY <1>1, <1>2, <1>4, <2>1, TakeKeepsLexeme
<1>6. BufferOK'
    BY <1>1, <1>2 DEF BufferOK, yy_n_chars
<1>7. PointersOK'
    BY <1>1, <1>2, <1>5 DEF PointersOK
<1>8. yy_n_chars' = yy_n_chars
    BY <1>2 DEF yy_n_chars
\* The bound that holds for every state but the jam.
<1>9. yy_current_state' # JamState => yy_cp' <= Reach(yy_current_state)'
    <2>1. CASE yy_current_state = 3
        BY <1>4, <1>5, <2>1, EndOfBufferEnds
    <2>2. CASE yy_current_state # 3 /\ NextClass = 0
        <3>1. yy_current_state' = 3
            BY <1>1, <1>5, <2>2, EndOfBufferEnds DEF PointersOK
        <3>2. yy_cp <= yy_n_chars
            BY <1>1, <2>2 DEF Reach
        <3>3. QED
            BY <1>1, <1>3, <1>5, <1>8, <3>1, <3>2 DEF Reach, PointersOK
    <2>3. CASE yy_current_state # 3 /\ NextClass # 0
        <3>1. yy_current_state' # 3
            BY <1>1, <1>4, <1>5, <2>3, EndOfBufferEnds DEF PointersOK
        <3>2. yy_cp < yy_n_chars
            BY <1>1, <1>3, <1>4, <2>3 DEF PointersOK
        <3>3. QED
            BY <1>1, <1>3, <1>5, <1>8, <3>1, <3>2 DEF Reach, PointersOK
    <2>4. QED
        BY <2>1, <2>2, <2>3
<1>10. CASE Final(yy_current_state')
    <2>1. lex' = "yy_find_action"
        BY <1>10 DEF Match
    <2>2. yytext_ptr' < yy_cp'
        BY <1>1, <1>2, <1>5 DEF InLexeme, PointersOK
    <2>3. Accepts(yy_current_state)' => yy_current_state' # JamState
        BY SpecialStates DEF Accepts
    <2>4. ~Accepts(yy_current_state)' => Fresh'
        BY <1>5, <1>7, <2>2 DEF InLexeme, PointersOK
    <2>5. LabelOK'
        BY <1>9, <2>1, <2>2, <2>3, <2>4 DEF LabelOK, Rescans
    <2>6. QED
        BY <1>6, <1>7, <2>5 DEF ScannerInv
<1>11. CASE ~Final(yy_current_state')
    <2>1. lex' = "yy_match"
        BY <1>11 DEF Match
    <2>2. yy_current_state' # JamState
        BY <1>11, SpecialStates
    <2>3. LabelOK'
        BY <1>5, <1>9, <2>1, <2>2 DEF LabelOK, Rescans
    <2>4. QED
        BY <1>6, <1>7, <2>3 DEF ScannerInv
<1>12. QED
    BY <1>10, <1>11

(***************************************************************************)
(* Steps that leave the buffer as it is                                    *)
(***************************************************************************)
LEMMA SameBuffer ==
    ASSUME BufferOK, UNCHANGED <<text, buffer>>
    PROVE  BufferOK' /\ yy_n_chars' = yy_n_chars /\ yy_n_chars \in Nat
BY LenProperties DEF BufferOK, buffer, yy_n_chars

LEMMA CallAndBeginKeep ==
    ASSUME ScannerInv, Call \/ Begin
    PROVE  ScannerInv'
<1>1. BufferOK' /\ yy_n_chars' = yy_n_chars
    BY SameBuffer DEF ScannerInv, Call, Begin
<1>2. CASE Call
    BY <1>1, <1>2 DEF Call, ScannerInv, PointersOK, LabelOK, automaton, Rescans
<1>3. CASE Begin
    <2>1. PointersOK'
        BY <1>3 DEF Begin, ScannerInv, PointersOK, JamState, yy_start
    <2>2. /\ lex' = "yy_match" /\ yy_cp' = yytext_ptr'
          /\ yy_current_state' = yy_start /\ yy_cp' <= yy_n_chars'
        BY <1>1, <1>3 DEF Begin, ScannerInv, LabelOK
    <2>3. InLexeme'
        BY <2>1, <2>2 DEF InLexeme, PointersOK
    <2>4. yy_cp' <= Reach(yy_current_state)'
        BY <2>2 DEF Reach, yy_start
    <2>5. QED
        BY <1>1, <2>1, <2>2, <2>3, <2>4 DEF ScannerInv, LabelOK, Rescans
<1>4. QED
    BY <1>2, <1>3

LEMMA FindActionKeeps ==
    ASSUME ScannerInv, FindAction
    PROVE  ScannerInv'
<1>1. BufferOK' /\ yy_n_chars' = yy_n_chars
    BY SameBuffer DEF ScannerInv, FindAction
<1>2. /\ yytext_ptr < yy_cp
      /\ Accepts(yy_current_state) => yy_cp <= Reach(yy_current_state)
      /\ ~Accepts(yy_current_state) => Fresh
    BY DEF ScannerInv, LabelOK, FindAction
<1>3. /\ yy_cp' \in Nat
      /\ yy_current_state' \in 1..JamState
      /\ yytext_ptr < yy_cp'
      /\ yy_cp' <= Reach(yy_current_state')
    BY <1>2 DEF FindAction, Fresh, ScannerInv, PointersOK
<1>4. yy_c_buf_p' = yy_cp' /\ yytext_ptr' = yytext_ptr /\ lex' = "do_action"
    BY DEF FindAction
<1>5. QED
    BY <1>1, <1>3, <1>4
       DEF ScannerInv, PointersOK, LabelOK, Reach, Rescans

\* The rules other than that of the end of the buffer leave yy_c_buf_p inside.
LEMMA RulesKeep ==
    ASSUME ScannerInv, ReturnWord \/ ReturnToken \/ Skip
    PROVE  ScannerInv'
<1>1. BufferOK' /\ yy_n_chars' = yy_n_chars
    BY SameBuffer DEF ScannerInv, ReturnWord, ReturnToken, Skip, Return
<1>2. /\ yy_act # YY_END_OF_BUFFER
      /\ lex = "do_action"
      /\ lex' \in {"idle", "yylex"}
      /\ UNCHANGED <<yytext_ptr, yy_c_buf_p, automaton>>
    BY DEF ReturnWord, ReturnToken, Skip, Return, Doing, YY_END_OF_BUFFER
<1>3. yy_current_state # 3
    BY <1>2, SpecialStates DEF ScannerInv, PointersOK, yy_act
<1>4. yy_c_buf_p <= yy_n_chars
    BY <1>2, <1>3 DEF ScannerInv, LabelOK, Reach
<1>5. QED
    BY <1>1, <1>2, <1>4
       DEF ScannerInv, PointersOK, LabelOK, automaton, Rescans

(***************************************************************************)
(* Steps that read the lexeme again                                        *)
(***************************************************************************)
LEMMA RescanKeeps ==
    ASSUME ScannerInv, Rescan
    PROVE  ScannerInv'
<1> DEFINE class == IF NextClass = 0 THEN 1 ELSE NextClass
<1>1. BufferOK' /\ yy_n_chars' = yy_n_chars /\ yy_n_chars \in Nat
    BY SameBuffer DEF ScannerInv, Rescan
<1>2. /\ BufferOK /\ PointersOK /\ InLexeme
      /\ yy_current_state # 3
      /\ yy_cp < yy_c_buf_p
      /\ yy_c_buf_p <= yy_n_chars
    BY DEF ScannerInv, LabelOK, Rescan
<1>3. NextClass \in 0..17
    BY <1>1, <1>2, NextClassKnown DEF PointersOK
<1>4. class \in 1..17
    BY <1>3
<1>5. Take(class)
    BY DEF Rescan
<1>6. UNCHANGED <<ch_buf, yytext_ptr>> /\ UNCHANGED <<yy_c_buf_p, lex>>
    BY DEF Rescan, buffer
<1>7. yy_cp <= Reach(yy_current_state)
    BY <1>1, <1>2 DEF Reach, PointersOK
<1> HIDE DEF class
<1>8. /\ yy_cp' = yy_cp + 1
      /\ yy_current_state' = NextState[yy_current_state][class]
      /\ yy_current_state' \in 1..JamState
      /\ InLexeme'
    BY <1>2, <1>4, <1>5, <1>6, <1>7, TakeKeepsLexeme
<1>9. yy_current_state' # 3
    BY <1>2, <1>4, <1>8, EndOfBufferEnds DEF PointersOK
<1>10. PointersOK'
    BY <1>2, <1>6, <1>8 DEF PointersOK
<1>11. yy_cp' <= yy_c_buf_p'
    BY <1>2, <1>6, <1>8 DEF PointersOK
<1>12. LabelOK'
    BY <1>1, <1>6, <1>8, <1>9, <1>11 DEF ScannerInv, LabelOK, Rescans, Rescan
<1>13. QED
    BY <1>1, <1>10, <1>12 DEF ScannerInv

LEMMA RescannedKeeps ==
    ASSUME ScannerInv, Rescanned
    PROVE  ScannerInv'
<1>1. BufferOK' /\ yy_n_chars' = yy_n_chars
    BY SameBuffer DEF ScannerInv, Rescanned
<1>2. /\ PointersOK /\ InLexeme
      /\ yy_current_state # 3
      /\ yy_cp = yy_c_buf_p
      /\ yy_c_buf_p <= yy_n_chars
      /\ lex = "rescan, act" => yytext_ptr < yy_c_buf_p
    BY DEF ScannerInv, LabelOK, Rescanned, Rescans
<1>3. UNCHANGED <<ch_buf, yytext_ptr, yy_c_buf_p>> /\ UNCHANGED automaton
    BY DEF Rescanned, buffer
<1>4. PointersOK' /\ InLexeme'
    BY <1>1, <1>2, <1>3
       DEF PointersOK, InLexeme, Fresh, Reach, automaton, Accepts
<1>5. CASE lex = "rescan, match"
    <2>1. lex' = "yy_match"
        BY <1>5 DEF Rescanned
    <2>2. yy_cp' <= Reach(yy_current_state)'
        BY <1>1, <1>2, <1>3 DEF Reach, automaton
    <2>3. QED
        BY <1>1, <1>4, <2>1, <2>2 DEF ScannerInv, LabelOK, Rescans
<1>6. CASE lex = "rescan, act"
    <2>1. lex' = "yy_find_action"
        BY <1>6 DEF Rescanned
    <2>2. yytext_ptr' < yy_cp' /\ yy_cp' <= Reach(yy_current_state)'
        BY <1>1, <1>2, <1>3, <1>6 DEF Reach, automaton
    <2>3. ~Accepts(yy_current_state)' => Fresh'
        BY <1>4, <2>2 DEF InLexeme, PointersOK
    <2>4. QED
        BY <1>1, <1>4, <2>1, <2>2, <2>3 DEF ScannerInv, LabelOK, Rescans
<1>7. QED
    BY <1>5, <1>6 DEF Rescanned

LEMMA FoundNulKeeps ==
    ASSUME ScannerInv, FoundNul
    PROVE  ScannerInv'
<1>1. BufferOK' /\ yy_n_chars' = yy_n_chars /\ yy_n_chars \in Nat
    BY SameBuffer DEF ScannerInv, FoundNul
<1>2. /\ yytext_ptr \in Nat /\ yy_c_buf_p \in Nat
      /\ yytext_ptr < yy_c_buf_p /\ yy_c_buf_p <= yy_n_chars
    BY DEF ScannerInv, PointersOK, LabelOK, FoundNul, Doing
<1>3. lex' = "rescan, NUL"
    BY DEF FoundNul, Again
<1>4. yy_current_state' = 1
    BY DEF FoundNul, Again, yy_start
<1>5. /\ yytext_ptr' \in Nat
      /\ yy_cp' = yytext_ptr'
      /\ yy_cp' \in Nat
    BY <1>2 DEF FoundNul
<1>6. /\ yy_c_buf_p' \in Nat
      /\ yy_cp' <= yy_c_buf_p'
      /\ yy_c_buf_p' < yy_n_chars
      /\ yy_c_buf_p' <= yy_n_chars
    <2>1. yy_c_buf_p' = yy_c_buf_p - 1
        BY DEF FoundNul
    <2>2. yy_cp' = yytext_ptr
        BY DEF FoundNul
    <2>3. QED
        BY <1>1, <1>2, <2>1, <2>2
<1>7. PointersOK'
    BY <1>4, <1>5, <1>6 DEF PointersOK, yy_start, JamState
<1>8. InLexeme'
    BY <1>4, <1>5 DEF InLexeme, yy_start
<1>9. yy_current_state' # 3
    BY <1>4
<1>10. QED
    BY <1>1, <1>3, <1>6, <1>7, <1>8, <1>9 DEF ScannerInv, LabelOK, Rescans

LEMMA TakeNulKeeps ==
    ASSUME ScannerInv, TakeNul
    PROVE  ScannerInv'
<1>1. BufferOK' /\ yy_n_chars' = yy_n_chars /\ yy_n_chars \in Nat
    BY SameBuffer DEF ScannerInv, TakeNul
<1>2. /\ BufferOK /\ PointersOK /\ InLexeme
      /\ yy_current_state # 3
      /\ yy_cp = yy_c_buf_p
      /\ yy_c_buf_p < yy_n_chars
    BY DEF ScannerInv, LabelOK, TakeNul, Rescans
<1>3. /\ Take(1) /\ lex' = "yy_match"
      /\ yy_c_buf_p' = yy_c_buf_p + 1
      /\ UNCHANGED <<ch_buf, yytext_ptr>>
    BY DEF TakeNul, buffer
<1>4. yy_cp <= Reach(yy_current_state)
    BY <1>1, <1>2 DEF Reach, PointersOK
<1>5. /\ yy_cp' = yy_cp + 1
      /\ yy_current_state' = NextState[yy_current_state][1]
      /\ yy_current_state' \in 1..JamState
      /\ InLexeme'
    BY <1>2, <1>3, <1>4, TakeKeepsLexeme
<1>6. yy_current_state' # 3
    BY <1>2, <1>5, EndOfBufferEnds DEF PointersOK
<1>7. PointersOK'
    BY <1>2, <1>3, <1>5 DEF PointersOK
<1>8. yy_cp' <= Reach(yy_current_state)'
    BY <1>1, <1>2, <1>5, <1>6 DEF Reach, PointersOK
<1>9. QED
    BY <1>1, <1>3, <1>5, <1>7, <1>8 DEF ScannerInv, LabelOK, Rescans

LEMMA StopAtNulKeeps ==
    ASSUME ScannerInv, StopAtNul
    PROVE  ScannerInv'
<1>1. BufferOK' /\ yy_n_chars' = yy_n_chars /\ yy_n_chars \in Nat
    BY SameBuffer DEF ScannerInv, StopAtNul
<1>2. /\ PointersOK /\ InLexeme
      /\ yy_current_state # 3
      /\ yy_cp = yy_c_buf_p
      /\ yy_c_buf_p < yy_n_chars
    BY DEF ScannerInv, LabelOK, StopAtNul, Rescans
<1>3. /\ Remember /\ lex' = "yy_find_action"
      /\ UNCHANGED <<yytext_ptr, yy_c_buf_p, yy_cp, yy_current_state>>
    BY DEF StopAtNul
\* A NUL at the beginning would have been taken.
<1>4. yytext_ptr < yy_cp
    <2>1. ASSUME yy_current_state = yy_start
          PROVE  FALSE
        <3>1. NextState[yy_start][1] = JamState
            BY <2>1 DEF StopAtNul
        <3>2. Accepts(JamState)
            BY <3>1, StartAccepts
        <3>3. QED
            BY <3>2, SpecialStates
    <2>2. QED
        BY <1>2, <2>1 DEF InLexeme, PointersOK
<1>5. Accepts(yy_current_state) \/ Fresh
    BY <1>2, <1>4 DEF InLexeme
<1>6. ~Accepts(yy_current_state)' => Fresh'
    BY <1>1, <1>3, <1>5 DEF Remember, Fresh, Reach, Accepts
<1>7. yy_cp' <= Reach(yy_current_state)'
    BY <1>1, <1>2, <1>3 DEF Reach, PointersOK
<1>8. PointersOK'
    BY <1>2, <1>3 DEF PointersOK
<1>9. QED
    BY <1>1, <1>3, <1>4, <1>6, <1>7, <1>8
       DEF ScannerInv, LabelOK, Rescans, PointersOK

(***************************************************************************)
(* Steps that change the buffer                                            *)
(***************************************************************************)
\* What is moved is a part of the buffer, from yytext_ptr to the text's end.
LEMMA MovedFits ==
    ASSUME ScannerInv, AtBufferEnd
    PROVE  /\ Moved \in Seq(Chars)
           /\ Len(Moved) = yy_n_chars - yytext_ptr
           /\ Len(Moved) \in Nat
           /\ LexerInput \in Seq(Chars)
           /\ Len(LexerInput) \in {0, 1}
           /\ LexerInput # <<>> => Len(LexerInput) = 1
           /\ LexerInput = <<>> => Len(LexerInput) = 0
           /\ LexerInput # <<>> => ~EofPending /\ yyin < Len(text)
           /\ Moved # <<>> => Len(Moved) > 0
<1>1. BufferOK /\ PointersOK /\ Len(ch_buf) \in Nat
    BY LenProperties DEF ScannerInv, BufferOK
<1>2. /\ yytext_ptr < yy_c_buf_p
      /\ yy_c_buf_p = yy_n_chars + 1
    BY <1>1 DEF ScannerInv, LabelOK, AtBufferEnd, Doing, Reach, PointersOK,
                yy_n_chars
<1>3. /\ yytext_ptr + 1 \in Nat /\ yytext_ptr + 1 >= 1
      /\ yy_c_buf_p - 1 \in Nat /\ yy_c_buf_p - 1 <= Len(ch_buf)
    BY <1>1, <1>2 DEF PointersOK, yy_n_chars
<1>4. \A i \in (yytext_ptr + 1)..(yy_c_buf_p - 1) : ch_buf[i] \in Chars
    BY <1>1, <1>3, ElementOfSeq DEF BufferOK, PointersOK
<1>5. /\ Moved \in Seq(Chars)
      /\ Len(Moved) = yy_n_chars - yytext_ptr
    <2>1. /\ Moved \in Seq(Chars)
          /\ Len(Moved) = IF yytext_ptr + 1 <= yy_c_buf_p - 1
                          THEN (yy_c_buf_p - 1) - (yytext_ptr + 1) + 1
                          ELSE 0
        BY <1>3, <1>4, SubSeqProperties DEF Moved, Between
    <2>2. QED
        BY <1>1, <1>2, <2>1 DEF PointersOK, yy_n_chars
<1>6. Len(Moved) \in Nat
    BY <1>5, LenProperties
<1>7. /\ LexerInput \in Seq(Chars)
      /\ Len(LexerInput) \in {0, 1}
      /\ LexerInput # <<>> => Len(LexerInput) = 1
      /\ LexerInput = <<>> => Len(LexerInput) = 0
      /\ LexerInput # <<>> => ~EofPending /\ yyin < Len(text)
    <2>1. CASE EofPending \/ yyin = Len(text)
        BY <2>1, EmptySeq DEF LexerInput
    <2>2. CASE ~(EofPending \/ yyin = Len(text))
        <3>1. yyin + 1 \in 1..Len(text) /\ yyin < Len(text)
            BY <1>1, <2>2, LenProperties DEF BufferOK
        <3>2. text[yyin + 1] \in Chars
            BY <1>1, <3>1, ElementOfSeq DEF BufferOK
        <3>3. LexerInput = <<text[yyin + 1]>>
            BY <2>2 DEF LexerInput
        <3>4. QED
            BY <2>2, <3>1, <3>2, <3>3
    <2>3. QED
        BY <2>1, <2>2
<1>8. Moved # <<>> => Len(Moved) > 0
    BY <1>5, <1>6, EmptySeq
<1>9. QED
    BY <1>5, <1>6, <1>7, <1>8

LEMMA ConcatChars ==
    ASSUME NEW s \in Seq(Chars), NEW t \in Seq(Chars)
    PROVE  /\ s \o t \in Seq(Chars)
           /\ Len(s \o t) = Len(s) + Len(t)
           /\ Len(s \o t) \in Nat
BY ConcatProperties, LenProperties

\* What is moved and what is read fit the buffer, which was grown if need be.
LEMMA RefillFits ==
    ASSUME ScannerInv, Refill,
           yyin' = yyin + Len(LexerInput)
    PROVE  BufferOK' /\ yy_n_chars' = Len(Moved) + Len(LexerInput)
<1> DEFINE chars == Moved \o LexerInput
<1>1. BufferOK /\ PointersOK /\ AtBufferEnd
    BY DEF ScannerInv, Refill
<1>2. /\ Moved \in Seq(Chars) /\ LexerInput \in Seq(Chars)
      /\ Len(Moved) = yy_n_chars - yytext_ptr
      /\ Len(Moved) \in Nat
      /\ Len(LexerInput) \in {0, 1}
      /\ LexerInput # <<>> => ~EofPending /\ yyin < Len(text)
      /\ LexerInput # <<>> => Len(LexerInput) = 1
      /\ LexerInput = <<>> => Len(LexerInput) = 0
    BY <1>1, MovedFits
<1>3. /\ chars \in Seq(Chars)
      /\ Len(chars) = Len(Moved) + Len(LexerInput)
      /\ Len(chars) \in Nat
    BY <1>2, ConcatChars
<1> HIDE DEF chars
<1>4. /\ Terminated(chars) \in Seq(Chars)
      /\ Len(Terminated(chars)) = Len(chars) + 2
      /\ Terminated(chars)[Len(chars) + 1] = "NUL"
      /\ Terminated(chars)[Len(chars) + 2] = "NUL"
    BY <1>3, TerminatedEnds
<1>5. ch_buf' = Terminated(chars)
    BY DEF Refill, chars
<1>6. /\ ch_buf' \in Seq(Chars)
      /\ Len(ch_buf') = Len(chars) + 2
      /\ ch_buf'[Len(chars) + 1] = "NUL"
      /\ ch_buf'[Len(chars) + 2] = "NUL"
    BY <1>4, <1>5
<1>7. yy_n_chars' = Len(chars)
    BY <1>3, <1>6 DEF yy_n_chars
<1>8. yy_buf_size' \in Nat \ {0} /\ Len(chars) <= yy_buf_size'
    <2>1. yy_buf_size' = Grown /\ yy_buf_size \in Nat \ {0}
        BY <1>1 DEF Refill, BufferOK
    <2>2. Len(Moved) <= yy_buf_size
        BY <1>1, <1>2, LenProperties DEF BufferOK, PointersOK, yy_n_chars
    <2>3. CASE LexerInput = <<>>
        <3>1. Len(chars) = Len(Moved)
            BY <1>2, <1>3, <2>3
        <3>2. QED
            BY <1>2, <2>1, <2>2, <3>1 DEF Grown
    <2>4. CASE LexerInput # <<>>
        <3>1. Len(chars) = Len(Moved) + 1 /\ ~EofPending
            BY <1>2, <1>3, <2>4
        <3>2. QED
            BY <1>2, <2>1, <2>2, <3>1 DEF Grown
    <2>5. QED
        BY <2>3, <2>4
<1>9. text' \in Seq(Chars) /\ yyin' \in 0..Len(text')
    <2>1. text' = text /\ text \in Seq(Chars) /\ yyin \in 0..Len(text)
        BY <1>1 DEF Refill, BufferOK
    <2>2. Len(text) \in Nat
        BY <2>1, LenProperties
    <2>3. CASE LexerInput = <<>>
        <3>1. Len(LexerInput) = 0
            BY <1>2, <2>3
        <3>2. QED
            BY <2>1, <2>2, <3>1
    <2>4. CASE LexerInput # <<>>
        <3>1. Len(LexerInput) = 1 /\ yyin < Len(text)
            BY <1>2, <2>4
        <3>2. QED
            BY <2>1, <2>2, <3>1
    <2>5. QED
        BY <2>3, <2>4
<1>10. BufferOK'
    <2>1. Len(ch_buf') >= 2
          /\ ch_buf'[Len(ch_buf') - 1] = "NUL" /\ ch_buf'[Len(ch_buf')] = "NUL"
        BY <1>3, <1>6
    <2>2. QED
        BY <1>6, <1>7, <1>8, <1>9, <2>1 DEF BufferOK
<1>11. QED
    BY <1>3, <1>7, <1>10

LEMMA RefillKeeps ==
    ASSUME ScannerInv, ReadCharacter \/ LastMatch
    PROVE  ScannerInv'
<1>1. BufferOK /\ PointersOK /\ AtBufferEnd /\ Refill
    BY DEF ScannerInv, Refill, ReadCharacter, LastMatch
<1>2. /\ Len(Moved) \in Nat
      /\ Len(LexerInput) \in {0, 1}
      /\ LexerInput = <<>> => Len(LexerInput) = 0
      /\ Moved # <<>> => Len(Moved) > 0
    BY <1>1, MovedFits
<1>3. yyin' = yyin + Len(LexerInput)
    <2>1. CASE ReadCharacter
        BY <2>1 DEF ReadCharacter
    <2>2. CASE LastMatch
        <3>1. yyin' = yyin /\ LexerInput = <<>>
            BY <2>2 DEF LastMatch
        <3>2. yyin \in Nat
            BY <1>1 DEF BufferOK
        <3>3. Len(LexerInput) = 0
            BY <1>2, <3>1
        <3>4. QED
            BY <3>1, <3>2, <3>3
    <2>3. QED
        BY <2>1, <2>2
<1>4. BufferOK' /\ yy_n_chars' = Len(Moved) + Len(LexerInput)
    BY <1>1, <1>3, RefillFits
<1>5. /\ yytext_ptr' = 0 /\ yy_cp' = 0
      /\ yy_c_buf_p' = Len(Moved)
      /\ yy_current_state' = yy_start
    BY <1>1 DEF Refill, ReadCharacter, LastMatch, Again
<1>6. PointersOK' /\ InLexeme'
    BY <1>2, <1>5 DEF PointersOK, InLexeme, yy_start, JamState
<1>7. /\ yy_current_state' # 3 /\ yy_cp' <= yy_c_buf_p'
      /\ yy_c_buf_p' <= yy_n_chars'
    BY <1>2, <1>4, <1>5 DEF yy_start
<1>8. CASE ReadCharacter
    <2>1. lex' = "rescan, match"
        BY <1>8 DEF ReadCharacter, Again
    <2>2. QED
        BY <1>4, <1>6, <1>7, <2>1 DEF ScannerInv, LabelOK, Rescans
<1>9. CASE LastMatch
    <2>1. lex' = "rescan, act" /\ yytext_ptr' < yy_c_buf_p'
        BY <1>2, <1>5, <1>9 DEF LastMatch, Again
    <2>2. QED
        BY <1>4, <1>6, <1>7, <2>1 DEF ScannerInv, LabelOK, Rescans
<1>10. QED
    BY <1>8, <1>9

LEMMA EndOfFileKeeps ==
    ASSUME ScannerInv, EndOfFile
    PROVE  ScannerInv'
<1> DEFINE empty == Terminated(<<>>)
<1>1. <<>> \in Seq(Chars) /\ Len(<<>>) = 0
    BY EmptySeq
<1>2. /\ empty \in Seq(Chars)
      /\ Len(empty) = Len(<<>>) + 2
      /\ empty[Len(<<>>) + 1] = "NUL"
      /\ empty[Len(<<>>) + 2] = "NUL"
    BY <1>1, TerminatedEnds
<1>3. ch_buf' = empty
    BY DEF EndOfFile
<1> HIDE DEF empty
<1>4. /\ ch_buf' \in Seq(Chars)
      /\ Len(ch_buf') = 2
      /\ ch_buf'[1] = "NUL" /\ ch_buf'[2] = "NUL"
    BY <1>1, <1>2, <1>3
<1>5. yy_n_chars' = 0
    BY <1>4 DEF yy_n_chars
<1>6. UNCHANGED <<text, yyin, yy_buf_size>> /\ UNCHANGED automaton
    BY DEF EndOfFile
<1>7. /\ yy_buf_size \in Nat \ {0}
      /\ text \in Seq(Chars) /\ yyin \in 0..Len(text)
    BY DEF ScannerInv, BufferOK
<1>8. BufferOK'
    BY <1>4, <1>5, <1>6, <1>7 DEF BufferOK
<1>9. PointersOK'
    BY <1>6 DEF ScannerInv, PointersOK, EndOfFile, automaton
<1>10. lex' = "idle" /\ yy_c_buf_p' <= yy_n_chars'
    BY <1>5 DEF EndOfFile
<1>11. QED
    BY <1>8, <1>9, <1>10 DEF ScannerInv, LabelOK, Rescans

LEMMA StepKeepsScanner ==
    ASSUME ScannerInv, [ScannerNext]_scannerVars
    PROVE  ScannerInv'
<1>1. CASE UNCHANGED scannerVars
    BY <1>1 DEF ScannerInv, BufferOK, yy_n_chars, PointersOK, LabelOK, InLexeme,
                Fresh, Reach, Accepts, scannerVars
<1>2. CASE Call \/ Begin
    BY <1>2, CallAndBeginKeep
<1>3. CASE Match
    BY <1>3, MatchKeeps
<1>4. CASE FindAction
    BY <1>4, FindActionKeeps
<1>5. CASE ReturnWord \/ ReturnToken \/ Skip
    BY <1>5, RulesKeep
<1>6. CASE Rescan
    BY <1>6, RescanKeeps
<1>7. CASE Rescanned
    BY <1>7, RescannedKeeps
<1>8. CASE FoundNul
    BY <1>8, FoundNulKeeps
<1>9. CASE TakeNul
    BY <1>9, TakeNulKeeps
<1>10. CASE StopAtNul
    BY <1>10, StopAtNulKeeps
<1>11. CASE ReadCharacter \/ LastMatch
    BY <1>11, RefillKeeps
<1>12. CASE EndOfFile
    BY <1>12, EndOfFileKeeps
<1>13. QED
    BY <1>1, <1>2, <1>3, <1>4, <1>5, <1>6, <1>7, <1>8, <1>9, <1>10, <1>11,
       <1>12 DEF ScannerNext, Lex

LEMMA InvariantStaysInBuffer == ScannerInv => StaysInBuffer
<1>1. SUFFICES ASSUME ScannerInv PROVE StaysInBuffer
    OBVIOUS
<1>2. yy_n_chars \in Nat
    BY <1>1, LenProperties DEF ScannerInv, BufferOK, yy_n_chars
<1>3. Reach(yy_current_state) <= yy_n_chars + 1
    BY <1>2 DEF Reach
<1>4. yy_n_chars <= yy_buf_size
    BY <1>1 DEF ScannerInv, BufferOK
<1>5. lex = "yy_match" => yy_cp <= yy_n_chars + 1
    BY <1>1, <1>2 DEF ScannerInv, PointersOK, LabelOK, Reach
<1>6. lex \in {"idle", "yylex"} => yy_c_buf_p <= yy_n_chars
    BY <1>1 DEF ScannerInv, LabelOK
<1>7. lex = "do_action" => /\ yytext_ptr < yy_c_buf_p
                           /\ yy_c_buf_p <= yy_n_chars + 1
    BY <1>1, <1>2 DEF ScannerInv, PointersOK, LabelOK, Reach
<1>8. QED
    BY <1>4, <1>5, <1>6, <1>7 DEF StaysInBuffer

\* Whatever is typed, and whatever size the buffer begins with, the scanner
\* reads and writes inside its buffer: yy_get_next_buffer makes room in time,
\* the automaton stops at the second end-of-buffer character, and backing up
\* never leaves the lexeme.
THEOREM ScannerStaysInBuffer == ScannerSpec => []StaysInBuffer
<1>1. ScannerInit => ScannerInv
    BY InitialScanner
<1>2. ScannerInv /\ [ScannerNext]_scannerVars => ScannerInv'
    BY StepKeepsScanner
<1>3. ScannerInv => StaysInBuffer
    BY InvariantStaysInBuffer
<1>4. QED
    BY <1>1, <1>2, <1>3, PTL DEF ScannerSpec

-----------------------------------------------------------------------------
(***************************************************************************)
(* Both together: what each keeps by itself the other does not disturb.    *)
(***************************************************************************)

\* The parser never looks inside the scanner.
LEMMA OutsideTheScanner ==
    ASSUME ScannerInv,
           UNCHANGED <<text, buffer, yytext_ptr, yy_c_buf_p, automaton, lex>>
    PROVE  ScannerInv'
BY DEF ScannerInv, BufferOK, yy_n_chars, PointersOK, LabelOK, InLexeme, Fresh,
       Reach, Accepts, buffer, automaton

\* And the scanner gives it tokens, but leaves its stacks alone.
LEMMA OutsideTheParser ==
    ASSUME StackInv, UNCHANGED <<stacks, pc>>
    PROVE  StackInv'
BY DEF StackInv, StackFits, stacks

\* The scanner's and the parser's invariants, through a step of either.
LEMMA StepKeepsBoth ==
    ASSUME StackInv, ScannerInv, [FrontEndNext]_frontEndVars
    PROVE  StackInv' /\ ScannerInv'
<1>1. CASE CallScanner
    <2>1. Call /\ UNCHANGED vars
        BY <1>1 DEF CallScanner
    <2>2. [Next]_vars /\ [ScannerNext]_scannerVars
        BY <2>1 DEF ScannerNext
    <2>3. QED
        BY <2>2, StepKeepsStack, StepKeepsScanner
<1>2. CASE ScannerStep
    <2>1. Lex /\ UNCHANGED <<stacks, pc>>
        BY <1>2 DEF ScannerStep
    <2>2. [ScannerNext]_scannerVars
        BY <2>1 DEF ScannerNext
    <2>3. QED
        BY <2>1, <2>2, OutsideTheParser, StepKeepsScanner
<1>3. CASE ParserStep
    <2>1. /\ Next
          /\ UNCHANGED <<text, buffer, yytext_ptr, yy_c_buf_p, automaton, lex>>
        BY <1>3 DEF ParserStep
    <2>2. QED
        BY <2>1, OutsideTheScanner, StepKeepsStack
<1>4. CASE UNCHANGED frontEndVars
    <2>1. UNCHANGED vars /\ UNCHANGED scannerVars
        BY <1>4 DEF frontEndVars
    <2>2. QED
        BY <2>1, StepKeepsStack, StepKeepsScanner
<1>5. QED
    BY <1>1, <1>2, <1>3, <1>4 DEF FrontEndNext

\* Whatever is typed, and whatever the sizes of pool, stack and buffer are:
\* yyparse has room for each state it pushes, and yylex reads and writes
\* inside its buffer.
THEOREM FrontEndStaysInside == FrontEndSpec => [](StackFits /\ StaysInBuffer)
<1>1. FrontEndInit => StackInv /\ ScannerInv
    BY InitialStack, InitialScanner DEF FrontEndInit
<1>2. StackInv /\ ScannerInv /\ [FrontEndNext]_frontEndVars
        => StackInv' /\ ScannerInv'
    BY StepKeepsBoth
<1>3. StackInv /\ ScannerInv => StackFits /\ StaysInBuffer
    BY InvariantStaysInBuffer DEF StackInv
<1>4. QED
    BY <1>1, <1>2, <1>3, PTL DEF FrontEndSpec

-----------------------------------------------------------------------------
\* The pool may hold more words when the input is longer.
LEMMA LongerInput ==
    ASSUME ParserInv, NEW t \in Tokens, input' = Append(input, t), ebuf' = ebuf
    PROVE  /\ InputOK'
           /\ Len(input') = Len(input) + 1
           /\ Len(input) \in Nat
           /\ WellFormed(ebuf)'
<1>1. /\ input' \in Seq(Tokens)
      /\ Len(input') = Len(input) + 1
      /\ Len(input) \in Nat
    BY AppendProperties, LenProperties DEF ParserInv, InputOK
<1>2. Node \subseteq Node'
    <2> DEFINE Few == 0..(MaxNode + Len(input))
               Many == 0..(MaxNode + Len(input'))
    <2>1. Few \subseteq Many
        BY <1>1, PoolAssumption
    <2> HIDE DEF Few, Many
    <2>2. Seq(Few) \subseteq Seq(Many)
        BY <2>1, SeqMonotonic
    <2>3. [func : Operators, values : Seq(Few)]
             \subseteq [func : Operators, values : Seq(Many)]
        BY <2>2
    <2>4. QED
        BY <2>3 DEF Node, Operators, Few, Many
<1>3. ebuf \in Seq(Node')
    BY <1>2, SeqMonotonic DEF ParserInv, WellFormed
<1>4. WellFormed(ebuf)'
    BY <1>3 DEF ParserInv, WellFormed, FieldsBelow
<1>5. QED
    BY <1>1, <1>4 DEF InputOK

\* The scanner's token goes to the end of the parser's input, where nothing
\* the parser holds is.
LEMMA TokensKeepParser ==
    ASSUME ParserInv, ScannerStep
    PROVE  ParserInv'
<1>1. UNCHANGED <<pos, yychar, yylval, yyss, yyvs, yystacksize, yyerrstatus,
                  ebuf, pc>>
    BY DEF ScannerStep, stacks
<1>2. StacksOK' /\ LookaheadOK' /\ PlaceOK'
    BY <1>1 DEF ParserInv, StacksOK, LookaheadOK, PlaceOK
<1>3. CASE input' = input
    <2>1. CountersOK'
        BY <1>1, <1>3 DEF ParserInv, CountersOK
    <2>2. QED
        BY <1>1, <1>2, <1>3, <2>1, OtherKeeps
<1>4. CASE returned' \in Tokens /\ input' = Append(input, returned')
    <2>1. /\ InputOK'
          /\ Len(input') = Len(input) + 1
          /\ Len(input) \in Nat
          /\ WellFormed(ebuf)'
        BY <1>1, <1>4, LongerInput
    <2>2. CountersOK'
        BY <1>1, <2>1 DEF ParserInv, CountersOK
    <2>3. QED
        BY <1>2, <2>1, <2>2 DEF ParserInv
<1>5. QED
    BY <1>3, <1>4 DEF ScannerStep

\* The parser's inductive invariant survives tokens sent while it runs.
LEMMA StepKeepsValues == ParserInv /\ [FrontEndNext]_frontEndVars => ParserInv'
<1>1. CallScanner \/ ParserStep \/ UNCHANGED frontEndVars => [Next]_vars
    BY DEF CallScanner, ParserStep, frontEndVars
<1>2. QED
    BY <1>1, StepKeepsParser, TokensKeepParser DEF FrontEndNext

\* Whatever is typed: the parser's variables keep their types, what it holds
\* is in the pool, and only a full pool ends the process.
THEOREM FrontEndHoldsLiveNodes ==
    FrontEndSpec => [](TypeOK /\ ValuesAreLive /\ OnlyAFullPoolCrashes)
<1>1. FrontEndInit => ParserInv
    BY InitialParser DEF FrontEndInit
<1>2. ParserInv /\ [FrontEndNext]_frontEndVars => ParserInv'
    BY StepKeepsValues
<1>3. ParserInv => TypeOK /\ ValuesAreLive /\ OnlyAFullPoolCrashes
    BY ParserInvTypes, ParserInvLive
       DEF ParserInv, PlaceOK, OnlyAFullPoolCrashes
<1>4. QED
    BY <1>1, <1>2, <1>3, PTL DEF FrontEndSpec
=============================================================================
