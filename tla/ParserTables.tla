---------------------------- MODULE ParserTables ----------------------------
(***************************************************************************)
(* The tables of the LALR parser that bison made from the grammar, and how *)
(* they are read.  States and rules are numbers as in the tables; a symbol *)
(* is its name in yytname, terminals first.  The tables count from zero.   *)
(***************************************************************************)
EXTENDS Integers, Sequences

YYFINAL == 2
YYLAST == 217
YYNTOKENS == 50
YYPACT_NINF == -41

NStates == 147
NRules == 79

yytname ==
  <<"$end", "error", "$undefined", "IDENT", "NUMBER", "STRING", "NUL",
    "SELECT", "AS", "FROM", "WHERE", "GROUP", "BY", "HAVING", "ORDER", "ASC",
    "DESC", "INSERT", "INTO", "VALUES", "UPDATE", "SET", "DELETE", "CREATE",
    "TABLE", "DESCRIBE", "SHOW", "TABLES", "DROP", "PRIMARY", "DISTINCT",
    "KEY", "NOTEQ", "GEQ", "LEQ", "AND", "OR", "NOT", "QUIT", ";", "(",
    ")", "=", ",", ">", "<", "+", "-", "*", "/", "$accept",
    "program", "sql_command", "tablename", "colname", "expr", "fcall",
    "fncargs", "value", "select_expr", "whereclause", "havingclause",
    "groupclause", "grouplist", "groupspec", "orderclause", "orderlist",
    "orderspec", "projection", "outcol", "join", "data_list", "column_decls",
    "column_decl", "bin_op">>

\* For each state, where its row of yytable begins; YYPACT_NINF marks the
\* states that act without a lookahead.
yypact ==
  <<
    -41, 6, -41, -34, 72, -9, 13, 11, 9, 13, -3, 33, -12, -41, 22, -41, 59,
    -41, -41, 60, -41, 3, -41, -41, -1, -41, 13, -41, 57, 13, 13, 47, 92, 13,
    -41, -41, 55, -10, 93, 70, 95, -41, -41, -41, -41, -41, -41, -41, -41,
    -41, -41, -41, -41, 77, 13, 72, -4, 95, 123, 96, -41, -41, 112, -41, 165,
    -29, -41, -41, -41, -41, -41, 60, -41, -41, 0, -41, 110, 115, 124, 84, 95,
    -41, -41, 84, 111, 126, 84, 13, 158, 86, -41, 84, 129, 24, 42, -41, 165,
    -41, -41, 165, -41, 160, 157, -41, -41, -41, 89, 74, -41, 153, -41, 146,
    95, 95, 84, 173, 149, 109, 84, -41, -41, -41, -41, 159, -41, 165, 178,
    -41, -41, -41, -41, -41, 147, 95, 67, -41, -41, 88, 133, 161, -41, -41,
    -41, -41, -41, 67, -41
  >>

\* For each state, the rule reduced when yytable says nothing; 0 is an error.
yydefact ==
  <<
    2, 0, 1, 0, 0, 0, 0, 0, 0, 0, 0, 0, 0, 3, 0, 14, 28, 29, 30, 0, 54, 0, 23,
    17, 0, 51, 0, 15, 0, 0, 0, 0, 0, 0, 4, 7, 0, 28, 0, 0, 0, 69, 72, 73, 78,
    79, 68, 70, 71, 74, 75, 76, 77, 0, 0, 0, 0, 0, 0, 0, 11, 12, 0, 25, 26, 0,
    22, 21, 16, 53, 28, 0, 18, 55, 32, 52, 0, 0, 0, 0, 0, 13, 24, 0, 0, 0, 0,
    0, 36, 0, 6, 0, 0, 65, 0, 63, 27, 19, 20, 33, 56, 0, 34, 57, 58, 59, 0, 0,
    9, 0, 66, 0, 0, 0, 0, 41, 0, 0, 0, 67, 10, 64, 40, 37, 38, 35, 0, 31, 5,
    60, 61, 62, 0, 0, 0, 8, 39, 45, 48, 42, 43, 46, 47, 49, 50, 0, 44
  >>

\* For each nonterminal, where its column of gotos in yytable begins.
yypgoto ==
  <<
    -41, -41, -41, -8, -40, -17, -41, -41, 150, -15, -41, -41, -41, -41, 73,
    -41, -41, 63, -41, 162, -41, -41, -41, 103, -41
  >>

\* For each nonterminal, the usual state after its reduction.
yydefgoto ==
  <<
    -1, 1, 13, 28, 20, 21, 22, 65, 23, 14, 88, 115, 102, 123, 124, 127, 139,
    140, 24, 25, 74, 106, 94, 95, 53
  >>

\* Entries of all rows: a state to go to, or the opposite of a rule.
yytable ==
  <<
    69, 31, 38, 4, 39, 15, 2, 3, 54, 26, 86, 40, 82, 4, 83, 76, 27, 78, 56,
    64, 29, 58, 59, 5, 32, 62, 6, 34, 7, 8, 36, 9, 10, 30, 11, 41, 42, 43, 44,
    45, 93, 77, 55, 87, 12, 46, 73, 47, 48, 49, 50, 51, 52, 109, 84, 110, 85,
    33, 37, 17, 18, 35, 92, 37, 17, 18, 96, 4, -16, 99, 68, 137, 93, 122, 107,
    16, 17, 18, 57, 100, 70, 17, 18, 111, 118, 112, 60, 37, 17, 18, 103, 104,
    105, 122, 138, 19, 63, 125, 68, 36, 19, 132, -16, 141, 142, 138, 41, 42,
    43, 44, 45, 67, 19, 129, 130, 131, 46, 71, 47, 48, 49, 50, 51, 52, 19, 41,
    42, 43, 44, 45, 116, 61, 117, 79, 66, 46, 80, 47, 48, 49, 50, 51, 52, 41,
    42, 43, 44, 45, 143, 144, 89, 81, 97, 46, 90, 47, 48, 49, 50, 51, 52, 41,
    42, 43, 44, 45, 91, 98, 108, 101, 114, 46, 113, 47, 48, 49, 50, 51, 52,
    41, 42, 43, 44, 45, 119, 120, 135, 126, 128, 46, 134, 47, 48, 49, 50, 51,
    52, 41, 42, 43, 44, 45, 133, 72, 145, 0, 136, 46, 146, 47, 48, 49, 50, 51,
    52, 121, 0, 75
  >>

\* For each entry of yytable, the token or state it belongs to.
yycheck ==
  <<
    40, 9, 19, 7, 19, 39, 0, 1, 9, 18, 10, 8, 41, 7, 43, 19, 3, 57, 26, 36, 9,
    29, 30, 17, 27, 33, 20, 39, 22, 23, 40, 25, 26, 24, 28, 32, 33, 34, 35,
    36, 80, 56, 43, 43, 38, 42, 54, 44, 45, 46, 47, 48, 49, 29, 71, 31, 71,
    24, 3, 4, 5, 39, 79, 3, 4, 5, 83, 7, 9, 86, 3, 4, 112, 113, 91, 3, 4, 5,
    21, 87, 3, 4, 5, 41, 10, 43, 39, 3, 4, 5, 4, 5, 6, 133, 134, 40, 41, 114,
    3, 40, 40, 118, 43, 15, 16, 145, 32, 33, 34, 35, 36, 41, 40, 4, 5, 6, 42,
    40, 44, 45, 46, 47, 48, 49, 40, 32, 33, 34, 35, 36, 41, 39, 43, 10, 41,
    42, 40, 44, 45, 46, 47, 48, 49, 32, 33, 34, 35, 36, 15, 16, 40, 39, 41,
    42, 39, 44, 45, 46, 47, 48, 49, 32, 33, 34, 35, 36, 42, 41, 39, 11, 13,
    42, 12, 44, 45, 46, 47, 48, 49, 32, 33, 34, 35, 36, 31, 39, 39, 14, 39,
    42, 12, 44, 45, 46, 47, 48, 49, 32, 33, 34, 35, 36, 43, 53, 43, -1, 133,
    42, 145, 44, 45, 46, 47, 48, 49, 112, -1, 55
  >>

\* For each state, the symbol by which it is entered.
yystos ==
  <<
    0, 51, 0, 1, 7, 17, 20, 22, 23, 25, 26, 28, 38, 52, 59, 39, 3, 4, 5, 40,
    54, 55, 56, 58, 68, 69, 18, 3, 53, 9, 24, 53, 27, 24, 39, 39, 40, 3, 55,
    59, 8, 32, 33, 34, 35, 36, 42, 44, 45, 46, 47, 48, 49, 74, 9, 43, 53, 21,
    53, 53, 39, 39, 53, 41, 55, 57, 41, 41, 3, 54, 3, 40, 58, 53, 70, 69, 19,
    59, 54, 10, 40, 39, 41, 43, 55, 59, 10, 43, 60, 40, 39, 42, 55, 54, 72,
    73, 55, 41, 41, 55, 53, 11, 62, 4, 5, 6, 71, 55, 39, 29, 31, 41, 43, 12,
    13, 61, 41, 43, 10, 31, 39, 73, 54, 63, 64, 55, 14, 65, 39, 4, 5, 6, 55,
    43, 12, 39, 64, 4, 54, 66, 67, 15, 16, 15, 16, 43, 67
  >>

\* For each rule, the symbol on its left.
yyr1 ==
  <<
    0, 50, 51, 51, 51, 52, 52, 52, 52, 52, 52, 52, 52, 52, 52, 53, 54, 55, 55,
    55, 55, 55, 55, 55, 56, 56, 57, 57, 58, 58, 58, 59, 60, 60, 61, 61, 62,
    62, 63, 63, 64, 65, 65, 66, 66, 67, 67, 67, 67, 67, 67, 68, 68, 69, 69,
    70, 70, 71, 71, 71, 71, 71, 71, 72, 72, 73, 73, 73, 74, 74, 74, 74, 74,
    74, 74, 74, 74, 74, 74, 74
  >>

\* For each rule, how many symbols are on its right.
yyr2 ==
  <<
    0, 2, 0, 2, 3, 8, 5, 2, 9, 6, 7, 3, 3, 4, 2, 1, 1, 1, 3, 5, 5, 3, 3, 1, 4,
    3, 1, 3, 1, 1, 1, 8, 0, 2, 0, 2, 0, 3, 1, 3, 1, 0, 3, 1, 3, 1, 2, 2, 1, 2,
    2, 1, 3, 3, 1, 1, 3, 1, 1, 1, 3, 3, 3, 1, 3, 1, 2, 3, 1, 1, 1, 1, 1, 1, 1,
    1, 1, 1, 1, 1
  >>
-----------------------------------------------------------------------------
(***************************************************************************)
(* Reading the tables                                                      *)
(***************************************************************************)
At(table, i) == table[i + 1]

\* What the scanner can return; there are no words for the other tokens.
Tokens ==
    {yytname[i] : i \in 4..50}
        \ {"UPDATE", "SET", "DESCRIBE", "SHOW", "TABLES"}

EndOfInput == "$end"

\* The symbol number of each token.
yytranslate == [t \in Tokens \cup {EndOfInput} |->
                   CHOOSE i \in 0..(YYNTOKENS - 1) : At(yytname, i) = t]

\* Whether the table has an entry for number n in the row beginning at base.
HasEntry(base, n) ==
    /\ base + n \in 0..YYLAST
    /\ At(yycheck, base + n) = n

\* The states that need no lookahead.
IsDefault(state) == At(yypact, state) = YYPACT_NINF

\* What to do in a state on a token: shift to a state (positive), reduce a
\* rule (negative), or an error (zero).
ActionFor(state, token) ==
    LET base == At(yypact, state)
    IN  IF HasEntry(base, token)
        THEN At(yytable, base + token)
        ELSE -At(yydefact, state)

\* The state after a nonterminal that was reduced on top of a state.
GotoFor(state, symbol) ==
    LET base == At(yypgoto, symbol - YYNTOKENS)
    IN  IF base + state \in 0..YYLAST /\ At(yycheck, base + state) = state
        THEN At(yytable, base + state)
        ELSE At(yydefgoto, symbol - YYNTOKENS)

\* The number of the error token, and the states that can shift it.
YYTERROR == 1

ShiftsError(state) ==
    /\ ~IsDefault(state)
    /\ HasEntry(At(yypact, state), YYTERROR)
    /\ At(yytable, At(yypact, state) + YYTERROR) > 0

=============================================================================
