------------------------------- MODULE Parser -------------------------------
(***************************************************************************)
(* How a session reads statements: main calls yyparse, the bison parser    *)
(* reads tokens, builds a tree of each statement in the expression pool,   *)
(* hands it to compile and evalexpr, and empties the pool.                 *)
(*                                                                         *)
(* The values on the parser's stack are integers, as in the code: 0 for    *)
(* nothing, the number of an operator, or MaxNode plus the place of a node *)
(* in the pool.  A word of the input (a name, number or text) is its       *)
(* position in the input.  freen is the length of ebuf: what lies beyond   *)
(* it is never read (ValuesAreLive).                                       *)
(***************************************************************************)
EXTENDS ParserTables, SequencesExt

CONSTANTS
    Inputs,       \* the inputs of a session, sequences of tokens
    MaxNode,      \* MAXNODE, the nodes of the pool (20000 in the code)
    YYINITDEPTH,  \* the first size of the parser's stack (200)
    YYMAXDEPTH    \* the size it may grow to (10000)

VARIABLES
    input,        \* the tokens of this session
    pos,          \* the position of the next token
    yychar,       \* the lookahead, or Empty
    yylval,       \* the value the scanner set last
    yyss, yyvs,   \* the stacks of states and of values
    yystacksize,  \* the room there is on them
    yyerrstatus,  \* tokens to shift before errors are reported again
    ebuf,         \* the nodes of the pool that are in use
    pc,           \* the label the parser is at
    executed,     \* history: the trees compile handed on, and where they ended
    reported,     \* history: the positions of the errors reported
    gaveUp        \* history: the last tokens read when the stack was exhausted

scanner == <<input, pos, yychar, yylval>>
stacks == <<yyss, yyvs, yystacksize>>
history == <<executed, reported, gaveUp>>

vars == <<scanner, stacks, yyerrstatus, ebuf, pc, history>>

\* The operators of HW4-expr.h that the grammar uses.
Op == [SELECTION |-> 1, PROJECTION |-> 2, PRODUCT |-> 3, GROUP |-> 4,
       SORT |-> 6, SORTSPEC |-> 7, INSERTROW |-> 16,
       EQUAL |-> 20, NOTEQ |-> 21, LEQ |-> 22, GEQ |-> 23, LT |-> 24,
       GT |-> 25, PLUS |-> 26, BMINUS |-> 27, TIMES |-> 28, DIVIDE |-> 29,
       AND |-> 31, OR |-> 32, FCALL |-> 34,
       TABLENAME |-> 51, COLNAME |-> 52, OUTCOLNAME |-> 53, COLUMNDEF |-> 54,
       CREATETABLE |-> 55, FNAME |-> 56, RLIST |-> 60,
       STRING |-> 90, NUMBER |-> 91, NULL |-> 92]

ASSUME InputsAssumption == \A w \in Inputs : w \in Seq(Tokens)

ASSUME PoolAssumption == MaxNode \in Nat /\ MaxNode > 92

ASSUME DepthAssumption ==
    /\ YYINITDEPTH \in Nat /\ YYINITDEPTH > 1
    /\ YYMAXDEPTH \in Nat /\ YYMAXDEPTH >= YYINITDEPTH /\ YYMAXDEPTH > 2

Empty == "YYEMPTY"

\* What the slot above the top of the value stack holds: the rule for an
\* empty program takes its value from there, and nobody uses it.
Unset == -1

-----------------------------------------------------------------------------
(***************************************************************************)
(* The expression pool                                                     *)
(***************************************************************************)
\* The value that stands for node n of a pool.
Reference(n) == MaxNode + n - 1

\* The node a value stands for, 0 if none.
cvt_itoe(i) ==
    IF i < MaxNode \/ i > MaxNode + MaxNode THEN 0 ELSE i - MaxNode + 1

\* Mutant: the kind of key is taken for a node.
makeexprNodesOnly(pool, op, arg1, arg2) ==
    LET node == [func |-> op, values |-> <<cvt_itoe(arg1), cvt_itoe(arg2)>>]
    IN  IF Len(pool) < MaxNode
        THEN [pool |-> Append(pool, node), value |-> Reference(Len(pool) + 1)]
        ELSE [pool |-> pool, value |-> 0]

\* A new node in a pool, and the value for it: 0 when the pool is full.  The
\* second field of a column definition is a number, other fields are nodes.
makeexpr(pool, op, arg1, arg2) ==
    LET second == IF op = Op.COLUMNDEF THEN arg2 ELSE cvt_itoe(arg2)
        node == [func |-> op, values |-> <<cvt_itoe(arg1), second>>]
    IN  IF Len(pool) < MaxNode
        THEN [pool |-> Append(pool, node), value |-> Reference(Len(pool) + 1)]
        ELSE [pool |-> pool, value |-> 0]

\* A name becomes the name of a table, column or function.
setname(pool, op, i) ==
    LET n == cvt_itoe(i)
    IN  IF n = 0
        THEN [pool |-> pool, value |-> 0]
        ELSE [pool |-> [pool EXCEPT ![n].func = op], value |-> i]

\* The nodes of words, by token: makename, makenum and makestrexpr.
WordOp == [IDENT |-> Op.FNAME, NUMBER |-> Op.NUMBER, STRING |-> Op.STRING]

Leaves == {Op.TABLENAME, Op.COLNAME, Op.FNAME, Op.NUMBER, Op.STRING}

\* The tree below a node, as a term.
Tree(pool, n) ==
    LET term[k \in 0..Len(pool)] ==
          IF k = 0 THEN <<>>
          ELSE LET func == pool[k].func
                   field == pool[k].values
               IN  IF func = Op.NULL THEN <<func>>
                   ELSE IF func \in Leaves THEN <<func, field[1]>>
                   ELSE IF func = Op.COLUMNDEF
                        THEN <<func, term[field[1]], field[2]>>
                   ELSE <<func, term[field[1]], term[field[2]]>>
    IN  term[n]

-----------------------------------------------------------------------------
(***************************************************************************)
(* The scanner as the parser sees it                                       *)
(***************************************************************************)
Token == IF pos \in DOMAIN input THEN input[pos] ELSE EndOfInput

NeedsToken ==
    /\ pc = "yybackup"
    /\ yychar = Empty
    /\ ~IsDefault(Last(yyss))

\* At the end of the input the scanner returns zero, however often it is asked.
TakeToken ==
    /\ yychar' = Token
    /\ pos' = IF pos \in DOMAIN input THEN pos + 1 ELSE pos
    /\ UNCHANGED <<input, stacks, yyerrstatus, history>>

\* A token without a value leaves yylval as it was.
ReadToken ==
    /\ NeedsToken
    /\ Token \notin DOMAIN WordOp
    /\ TakeToken
    /\ UNCHANGED <<yylval, ebuf, pc>>

ReadWord ==
    /\ NeedsToken
    /\ Token \in DOMAIN WordOp
    /\ Len(ebuf) < MaxNode
    /\ ebuf' = Append(ebuf, [func |-> WordOp[Token], values |-> <<pos, 0>>])
    /\ yylval' = Reference(Len(ebuf) + 1)
    /\ TakeToken
    /\ UNCHANGED pc

\* makeexpr gives 0 when the pool is full, and the word is written far in
\* front of the pool, which may or may not end the process.
ReadWordIntoFullPool ==
    /\ NeedsToken
    /\ Token \in DOMAIN WordOp
    /\ Len(ebuf) >= MaxNode
    /\ yylval' = 0
    /\ pc' \in {"yybackup", "crashed"}
    /\ TakeToken
    /\ UNCHANGED ebuf

-----------------------------------------------------------------------------
(***************************************************************************)
(* Entering a state                                                        *)
(***************************************************************************)
Push(state, value) ==
    /\ yyss' = Append(yyss, state)
    /\ yyvs' = Append(yyvs, value)
    /\ pc' = "yynewstate"
    /\ UNCHANGED yystacksize

StackFullOneLate == Len(yyss) > yystacksize    \* mutant

StackFull == Len(yyss) >= yystacksize

\* The stack doubles, up to its limit.  The code tests again whether it is
\* full, which it never is (StackFits).
GrowStack ==
    /\ pc = "yynewstate"
    /\ StackFull
    /\ yystacksize < YYMAXDEPTH
    /\ yystacksize' = IF 2 * yystacksize > YYMAXDEPTH
                      THEN YYMAXDEPTH
                      ELSE 2 * yystacksize
    /\ UNCHANGED <<scanner, yyss, yyvs, yyerrstatus, ebuf, pc, history>>

\* "memory exhausted": main calls yyparse again, in the middle of a statement.
\* The pool is not emptied, and a lookahead is lost.
StackExhausted ==
    /\ pc = "yynewstate"
    /\ StackFull
    /\ yystacksize >= YYMAXDEPTH
    /\ gaveUp' = gaveUp \cup {pos - 1}
    /\ pc' = "main"
    /\ UNCHANGED <<scanner, stacks, yyerrstatus, ebuf, executed, reported>>

\* The end of the input was shifted: yyparse accepts, and main ends.
AcceptAtEnd ==
    /\ pc = "yynewstate"
    /\ ~StackFull
    /\ Last(yyss) = YYFINAL
    /\ pc' = "quit"
    /\ UNCHANGED <<scanner, stacks, yyerrstatus, ebuf, history>>

Settle ==
    /\ pc = "yynewstate"
    /\ ~StackFull
    /\ Last(yyss) # YYFINAL
    /\ pc' = "yybackup"
    /\ UNCHANGED <<scanner, stacks, yyerrstatus, ebuf, history>>

-----------------------------------------------------------------------------
(***************************************************************************)
(* Deciding                                                                *)
(***************************************************************************)
Decided == pc = "yybackup" /\ ~NeedsToken

Decision ==
    IF IsDefault(Last(yyss))
    THEN -At(yydefact, Last(yyss))
    ELSE ActionFor(Last(yyss), yytranslate[yychar])

CountShiftAlways == yyerrstatus - 1    \* mutant

CountShiftNever == yyerrstatus    \* mutant

\* One error status is worked off by each token shifted.
CountShift == IF yyerrstatus > 0 THEN yyerrstatus - 1 ELSE 0

Shift ==
    /\ Decided
    /\ Decision > 0
    /\ yyerrstatus' = CountShift
    /\ yychar' = Empty
    /\ Push(Decision, yylval)
    /\ UNCHANGED <<input, pos, yylval, ebuf, history>>

-----------------------------------------------------------------------------
(***************************************************************************)
(* Reductions                                                              *)
(***************************************************************************)
Rule == -Decision

Reducing(rules) == Decided /\ Rule \in rules

\* $k of the rule being reduced.
Dollar(k) == yyvs[Len(yyvs) - At(yyr2, Rule) + k]

\* The symbols of the rule leave the stack and its left side enters.
Replace(value) ==
    LET n == At(yyr2, Rule)
        below == SubSeq(yyss, 1, Len(yyss) - n)
    IN  /\ yyss' = Append(below, GotoFor(Last(below), At(yyr1, Rule)))
        /\ yyvs' = Append(SubSeq(yyvs, 1, Len(yyvs) - n), value)
        /\ pc' = "yynewstate"
        /\ UNCHANGED yystacksize

\* A reduction whose value is a given one.
Give(value) ==
    /\ Replace(value)
    /\ UNCHANGED <<scanner, yyerrstatus, ebuf, history>>

\* A reduction that made nodes.
Build(made) ==
    /\ Replace(made.value)
    /\ ebuf' = made.pool
    /\ UNCHANGED <<scanner, yyerrstatus, history>>

\* A symbol that stands for another one passes its value on.
ReduceUnit == Reducing({3, 17, 23, 29, 30, 40, 55}) /\ Give(Dollar(1))

ReduceParentheses == Reducing({21, 22}) /\ Give(Dollar(2))

\* The empty program.
ReduceProgram == Reducing({2}) /\ Give(Unset)

\* WHERE, HAVING, GROUP BY and ORDER BY, and each of them left out.
ReduceClause ==
    \/ Reducing({32, 34, 36, 41}) /\ Give(0)
    \/ Reducing({33, 35}) /\ Give(Dollar(2))
    \/ Reducing({37, 42}) /\ Give(Dollar(3))

ReduceName ==
    \/ Reducing({15}) /\ Build(setname(ebuf, Op.TABLENAME, Dollar(1)))
    \/ Reducing({16, 28}) /\ Build(setname(ebuf, Op.COLNAME, Dollar(1)))

\* The operators of rules 68 to 79.
BinOps == <<Op.EQUAL, Op.NOTEQ, Op.GT, Op.LT, Op.GEQ, Op.LEQ, Op.PLUS,
            Op.BMINUS, Op.TIMES, Op.DIVIDE, Op.AND, Op.OR>>

ReduceOperator == Reducing(68..79) /\ Give(BinOps[Rule - 67])

\* expr bin_op value, and the same with a right side in parentheses.
ReduceExpression ==
    \/ Reducing({18}) /\ Build(makeexpr(ebuf, Dollar(2), Dollar(1), Dollar(3)))
    \/ Reducing({19, 20})
       /\ Build(makeexpr(ebuf, Dollar(2), Dollar(1), Dollar(4)))

ReduceCall ==
    LET name == setname(ebuf, Op.FNAME, Dollar(1))
    IN  \/ /\ Reducing({24})
           /\ Build(makeexpr(name.pool, Op.FCALL, name.value, Dollar(3)))
        \/ /\ Reducing({25})
           /\ Build(makeexpr(name.pool, Op.FCALL, name.value, 0))

\* A list is linked from its last item to its first.
FirstItem == Build(makeexpr(ebuf, Op.RLIST, Dollar(1), 0))

NextItem == Build(makeexpr(ebuf, Op.RLIST, Dollar(3), Dollar(1)))

ReduceFncargs ==
    \/ Reducing({26}) /\ FirstItem
    \/ Reducing({27}) /\ NextItem

ReduceGrouplist ==
    \/ Reducing({38}) /\ FirstItem
    \/ Reducing({39}) /\ NextItem

ReduceOrderlist ==
    \/ Reducing({43}) /\ FirstItem
    \/ Reducing({44}) /\ NextItem

ReduceProjection ==
    \/ Reducing({51}) /\ FirstItem
    \/ Reducing({52}) /\ NextItem

ReduceColumnDecls ==
    \/ Reducing({63}) /\ FirstItem
    \/ Reducing({64}) /\ NextItem

\* NULL is a node of its own, made with its list.
ReduceDataList ==
    LET null == makeexpr(ebuf, Op.NULL, 0, 0)
    IN  \/ Reducing({57, 58}) /\ FirstItem
        \/ Reducing({60, 61}) /\ NextItem
        \/ /\ Reducing({59})
           /\ Build(makeexpr(null.pool, Op.RLIST, null.value, 0))
        \/ /\ Reducing({62})
           /\ Build(makeexpr(null.pool, Op.RLIST, null.value, Dollar(1)))

\* DESC is a second field that is not empty.  A column is named again, which
\* changes nothing.
ReduceSortSpec ==
    LET null == makeexpr(ebuf, Op.NULL, 0, 0)
    IN  \/ /\ Reducing({45, 46, 48, 49})
           /\ Build(makeexpr(ebuf, Op.SORTSPEC, Dollar(1), 0))
        \/ /\ Reducing({47, 50})
           /\ Build(makeexpr(null.pool, Op.SORTSPEC, Dollar(1), null.value))

ReduceOutcol ==
    \/ Reducing({53})
       /\ Build(makeexpr(ebuf, Op.OUTCOLNAME, Dollar(1), Dollar(3)))
    \/ Reducing({54})
       /\ Build(makeexpr(ebuf, Op.OUTCOLNAME, Dollar(1), Dollar(1)))

ReduceJoin ==
    Reducing({56}) /\ Build(makeexpr(ebuf, Op.PRODUCT, Dollar(1), Dollar(3)))

\* No key, KEY and PRIMARY KEY.
ReduceColumnDecl ==
    \/ Reducing({65}) /\ Build(makeexpr(ebuf, Op.COLUMNDEF, Dollar(1), 0))
    \/ Reducing({66}) /\ Build(makeexpr(ebuf, Op.COLUMNDEF, Dollar(1), 1))
    \/ Reducing({67}) /\ Build(makeexpr(ebuf, Op.COLUMNDEF, Dollar(1), 3))

\* Mutant: a clause left out takes the place of what it would have wrapped.
WrapAnyway(made, op, clause) ==
    IF clause = 0
    THEN [made EXCEPT !.value = clause]
    ELSE makeexpr(made.pool, op, made.value, clause)

\* The clauses that are there wrap the tables one after the other; the node
\* of the output columns is always made.
Wrap(made, op, clause) ==
    IF clause = 0 THEN made ELSE makeexpr(made.pool, op, made.value, clause)

SelectTree ==
    LET tables == [pool |-> ebuf, value |-> Dollar(4)]
        chosen == Wrap(tables, Op.SELECTION, Dollar(5))
        grouped == Wrap(chosen, Op.GROUP, Dollar(6))
        projected == makeexpr(grouped.pool, Op.PROJECTION, grouped.value,
                              Dollar(2))
    IN  Wrap(Wrap(projected, Op.SELECTION, Dollar(7)), Op.SORT, Dollar(8))

\* Mutant: the pool is emptied with the SELECT, not with its statement.
ReduceSelectEmpties ==
    /\ Reducing({31})
    /\ Replace(SelectTree.value)
    /\ ebuf' = <<>>
    /\ UNCHANGED <<scanner, yyerrstatus, history>>

ReduceSelect == Reducing({31}) /\ Build(SelectTree)

-----------------------------------------------------------------------------
(***************************************************************************)
(* Statements                                                              *)
(***************************************************************************)
\* The trees that compile and evalexpr do something with.
Dispatched == {Op.PROJECTION, Op.CREATETABLE, Op.INSERTROW}

\* compile and evalexpr look at the root, which must be there; then the
\* statement is reduced with the given value and the pool is emptied.
Execute(made, value) ==
    LET root == cvt_itoe(made.value)
    IN  \/ /\ root = 0
           /\ pc' = "crashed"
           /\ ebuf' = made.pool
           /\ UNCHANGED <<scanner, stacks, yyerrstatus, history>>
        \/ /\ root # 0
           /\ executed' = IF made.pool[root].func \in Dispatched
                          THEN Append(executed,
                                      [at |-> pos - 1,
                                       tree |-> Tree(made.pool, root)])
                          ELSE executed
           /\ ebuf' = <<>>
           /\ Replace(value)
           /\ UNCHANGED <<scanner, yyerrstatus, reported, gaveUp>>

ExecuteInsert ==
    /\ Reducing({5})
    /\ Execute(makeexpr(ebuf, Op.INSERTROW, Dollar(3), Dollar(6)), 0)

ExecuteSelect ==
    /\ Reducing({7})
    /\ Execute([pool |-> ebuf, value |-> Dollar(1)], Dollar(1))

ExecuteCreate ==
    /\ Reducing({10})
    /\ Execute(makeexpr(ebuf, Op.CREATETABLE, Dollar(3), Dollar(5)), 0)

\* Mutant: the pool is not emptied.
SkipStatementKeeps == Reducing({6, 8, 9, 11, 12, 14}) /\ Give(Dollar(1))

\* Statements that are not implemented, and statements in error, only empty
\* the pool.
SkipStatement ==
    /\ Reducing({6, 8, 9, 11, 12, 14})
    /\ Replace(Dollar(1))
    /\ ebuf' = <<>>
    /\ UNCHANGED <<scanner, yyerrstatus, history>>

\* drop_table does nothing, and the node of its table stays in the pool.
DropTable == Reducing({13}) /\ Give(Dollar(1))

Quit ==
    /\ Reducing({4})
    /\ pc' = "quit"
    /\ UNCHANGED <<scanner, stacks, yyerrstatus, ebuf, history>>

-----------------------------------------------------------------------------
(***************************************************************************)
(* Errors                                                                  *)
(***************************************************************************)
Erring == Decided /\ Decision = 0

\* The error is reported, unless the parser is still recovering from one.
\* The token is kept for another try.
DetectError ==
    /\ Erring
    /\ yyerrstatus < 3
    /\ reported' = IF yyerrstatus = 0 THEN reported \cup {pos - 1} ELSE reported
    /\ yyerrstatus' = 3
    /\ pc' = "yyerrlab1"
    /\ UNCHANGED <<scanner, stacks, ebuf, executed, gaveUp>>

\* Mutant: the token is tried again and again.
DiscardTokenKept ==
    /\ Erring
    /\ yyerrstatus = 3
    /\ yychar # EndOfInput
    /\ pc' = "yyerrlab1"
    /\ UNCHANGED <<scanner, stacks, yyerrstatus, ebuf, history>>

\* The other try failed: the token goes.
DiscardToken ==
    /\ Erring
    /\ yyerrstatus = 3
    /\ yychar # EndOfInput
    /\ yychar' = Empty
    /\ pc' = "yyerrlab1"
    /\ UNCHANGED <<input, pos, yylval, stacks, yyerrstatus, ebuf, history>>

\* The input ended in a statement with an error; main calls yyparse again.
AbortAtEnd ==
    /\ Erring
    /\ yyerrstatus = 3
    /\ yychar = EndOfInput
    /\ pc' = "main"
    /\ UNCHANGED <<scanner, stacks, yyerrstatus, ebuf, history>>

\* States that cannot shift the error token leave the stack; with none left
\* yyparse returns.
PopState ==
    /\ pc = "yyerrlab1"
    /\ ~ShiftsError(Last(yyss))
    /\ IF Len(yyss) = 1
       THEN pc' = "main" /\ UNCHANGED <<yyss, yyvs>>
       ELSE yyss' = Front(yyss) /\ yyvs' = Front(yyvs) /\ UNCHANGED pc
    /\ UNCHANGED <<scanner, yystacksize, yyerrstatus, ebuf, history>>

ShiftError ==
    /\ pc = "yyerrlab1"
    /\ ShiftsError(Last(yyss))
    /\ Push(At(yytable, At(yypact, Last(yyss)) + YYTERROR), yylval)
    /\ UNCHANGED <<scanner, yyerrstatus, ebuf, history>>

-----------------------------------------------------------------------------
Init ==
    /\ input \in Inputs
    /\ pos = 1
    /\ yychar = Empty
    /\ yylval = 0
    /\ yyss = <<0>>
    /\ yyvs = <<>>
    /\ yystacksize = YYINITDEPTH
    /\ yyerrstatus = 0
    /\ ebuf = <<>>
    /\ pc = "main"
    /\ executed = <<>>
    /\ reported = {}
    /\ gaveUp = {}

\* yyparse begins with fresh stacks and no lookahead.
CallParser ==
    /\ pc = "main"
    /\ yyss' = <<0>>
    /\ yyvs' = <<>>
    /\ yystacksize' = YYINITDEPTH
    /\ yyerrstatus' = 0
    /\ yychar' = Empty
    /\ pc' = "yynewstate"
    /\ UNCHANGED <<input, pos, yylval, ebuf, history>>

Scan == ReadToken \/ ReadWord \/ ReadWordIntoFullPool

Enter == GrowStack \/ StackExhausted \/ AcceptAtEnd \/ Settle

Reduce ==
    \/ ReduceUnit \/ ReduceParentheses \/ ReduceProgram \/ ReduceClause
    \/ ReduceName \/ ReduceOperator \/ ReduceExpression \/ ReduceCall
    \/ ReduceFncargs \/ ReduceGrouplist \/ ReduceOrderlist \/ ReduceProjection
    \/ ReduceColumnDecls \/ ReduceDataList \/ ReduceSortSpec \/ ReduceOutcol
    \/ ReduceJoin \/ ReduceColumnDecl \/ ReduceSelect

Statement ==
    \/ ExecuteInsert \/ ExecuteSelect \/ ExecuteCreate
    \/ SkipStatement \/ DropTable \/ Quit

Recover ==
    DetectError \/ DiscardToken \/ AbortAtEnd \/ PopState \/ ShiftError

Next ==
    CallParser \/ Scan \/ Enter \/ Shift \/ Reduce \/ Statement \/ Recover

Spec == Init /\ [][Next]_vars

\* The parser waits for nothing but its input, which is all there.
FairSpec == Spec /\ WF_vars(Next)

-----------------------------------------------------------------------------
(***************************************************************************)
(* Properties                                                              *)
(***************************************************************************)
Node ==
    [func : {Op[o] : o \in DOMAIN Op},
     values : Seq(0..(MaxNode + Len(input)))]

\* The state stays in the types of the code's variables: states, tokens and
\* values are ones the tables and the pool have, an error status is at most
\* three, and each state but the first has its value.
TypeOK ==
    /\ input \in Seq(Tokens)
    /\ pos \in 1..(Len(input) + 1)
    /\ yychar \in Tokens \cup {Empty, EndOfInput}
    /\ yylval \in 0..(2 * MaxNode - 1)
    /\ yyss \in Seq(0..(NStates - 1))
    /\ yyvs \in Seq(-1..(2 * MaxNode - 1))
    /\ Len(yyss) = Len(yyvs) + 1
    /\ yystacksize \in YYINITDEPTH..YYMAXDEPTH
    /\ yyerrstatus \in 0..3
    /\ ebuf \in Seq(Node)
    /\ pc \in {"main", "yynewstate", "yybackup", "yyerrlab1", "quit", "crashed"}

\* The stack of states, and that of values with it, is never written past its
\* end: once the parser has looked at its size there is room for one state
\* more.
StackFits ==
    /\ Len(yyss) <= yystacksize
    /\ pc \in {"yybackup", "yyerrlab1"} => Len(yyss) < yystacksize
    /\ yystacksize <= YYMAXDEPTH

\* The symbols whose values are nodes, and those whose value may be left out.
NodeSymbols == {3, 4, 5} \cup 53..73
Clauses == {60, 61, 62, 65}

\* Whatever the parser still holds is in the pool: the value of a symbol on
\* the stack is a node in use, and the fields of a node are nodes made before
\* it.  Emptying the pool never takes a node that is still needed.  A node is
\* missing only for a clause left out, or because the pool was full.
ValuesAreLive ==
    /\ \A i \in DOMAIN yyvs :
          At(yystos, yyss[i + 1]) \in NodeSymbols =>
             \/ cvt_itoe(yyvs[i]) \in DOMAIN ebuf
             \/ /\ yyvs[i] = 0
                /\ \/ At(yystos, yyss[i + 1]) \in Clauses
                   \/ Len(ebuf) = MaxNode
    /\ \A n \in DOMAIN ebuf :
          ebuf[n].func \notin Leaves =>
             ebuf[n].values[1] < n /\ (ebuf[n].func # Op.COLUMNDEF =>
                                          ebuf[n].values[2] < n)

\* Between two statements.
AtStart == pc = "yybackup" /\ yychar = Empty /\ yyss = <<0, 1>>

\* A statement begins with an empty pool, except that each DROP TABLE before
\* it has left the name of its table there.  (When the stack was exhausted
\* the rest of the statement may be read as a DROP TABLE of its own.)
OnlyDropsLeaveNodes ==
    AtStart /\ gaveUp = {} /\ pos <= Len(input) =>
       \A n \in DOMAIN ebuf :
          LET word == ebuf[n].values[1]
          IN  /\ ebuf[n].func = Op.TABLENAME
              /\ SubSeq(input, word - 2, word) = <<"DROP", "TABLE", "IDENT">>

\* The process ends by itself only when the pool is full: otherwise compile
\* always gets a tree.
OnlyAFullPoolCrashes == pc = "crashed" => Len(ebuf) = MaxNode

\* Every session ends: recovery from errors makes progress, also at the end of
\* the input and when the stack is exhausted.
SessionEnds == <>(pc \in {"quit", "crashed"})

=============================================================================
