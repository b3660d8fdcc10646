----------------------------- MODULE MCFrontEnd -----------------------------
(***************************************************************************)
(* Sessions for TLC: legal statements that use every rule the scanner's    *)
(* tokens can reach, the same with one token missing, doubled or another,  *)
(* pairs of statements, and sessions that fill the pool or the stack.      *)
(* These begin with their tokens; others are typed, character by character.*)
(***************************************************************************)
EXTENDS FrontEnd

G == INSTANCE Grammar WITH Code <- Op

L == INSTANCE Lexemes

Select == <<"SELECT", "IDENT", "FROM", "IDENT">>
Where == Select \o <<"WHERE", "(", "IDENT", "=", "NUMBER", ")">>

Drop == <<"DROP", "TABLE", "IDENT", ";">>
Delete == <<"DELETE", "FROM", "IDENT", "WHERE", "IDENT", "<", "NUMBER", ";">>

Legal ==
    {<<"CREATE", "TABLE", "IDENT", "(", "IDENT", "PRIMARY", "KEY", ",",
       "IDENT", "KEY", ",", "IDENT", ")", ";">>,
     <<"INSERT", "INTO", "IDENT", "VALUES", "(", "STRING", ",", "NUMBER", ",",
       "NUL", ",", "STRING", ")", ";">>,
     <<"INSERT", "INTO", "IDENT", "VALUES", "(", "NUMBER", ")", ";">>,
     <<"INSERT", "INTO", "IDENT", "VALUES", "(", "NUL", ")", ";">>,
     <<"INSERT", "INTO", "IDENT">> \o Select \o <<";">>,
     Delete,
     Drop,
     <<"QUIT", ";">>,
     Where \o <<";">>,
     <<"SELECT", "IDENT", "+", "NUMBER", "AS", "IDENT", ",", "IDENT", "(",
       "IDENT", ",", "STRING", ")", "AS", "IDENT", "FROM", "IDENT", ",",
       "IDENT", ";">>,
     Where \o <<"AND", "(", "IDENT", ">", "STRING", ")", "OR", "IDENT", "-",
                "IDENT", ";">>,
     Select \o <<"WHERE", "IDENT", "NOTEQ", "(", "SELECT", "IDENT", "FROM",
                 "IDENT", ")", ";">>,
     Select \o <<"WHERE", "(">> \o Select \o <<")", "GEQ", "IDENT", "(", ")",
                                             ";">>,
     Select \o <<"WHERE", "IDENT", "(", ")", "LEQ", "IDENT", "*", "IDENT", "/",
                 "IDENT", ";">>,
     Select \o <<"GROUP", "BY", "IDENT", ",", "IDENT", "HAVING", "IDENT", ";">>,
     Select \o <<"ORDER", "BY", "NUMBER", ",", "NUMBER", "ASC", ",", "NUMBER",
                 "DESC", ";">>,
     Select \o <<"ORDER", "BY", "IDENT", ",", "IDENT", "ASC", ",", "IDENT",
                 "DESC", ";">>}

\* A statement with one token missing, doubled, or another in its place.
Others == {"IDENT", ";", ")", ","}

Spoilt(s) ==
    {RemoveAt(s, k) : k \in DOMAIN s}
        \cup {InsertAt(s, k, s[k]) : k \in DOMAIN s}
        \cup {ReplaceAt(s, k, t) : k \in DOMAIN s, t \in Others}

\* What follows a spoilt statement, and shows that the parser has recovered.
After == Where \o <<";">>

Short == {s \in Legal : Len(s) <= 8}

Repeat(s, n) == FlattenSeq([k \in 1..n |-> s])

\* A SELECT inside n parentheses; deep ones exhaust the stack.
Deep(n) ==
    Select \o <<"WHERE">> \o Repeat(<<"(">>, n) \o <<"IDENT">>
           \o Repeat(<<")">>, n) \o <<";">>

\* A WHERE clause of n comparisons, whose tree may not fit the pool.
Long(n) == Where \o Repeat(<<"AND", "IDENT">>, n) \o <<";">>

MCInputs ==
    {<<>>} \cup
    UNION {{s \o After : s \in Spoilt(l)} : l \in Legal}
        \cup {r \o s \o t : r, s, t \in Short}
        \cup {s \o Drop \o t : s \in Spoilt(Drop), t \in Legal}
        \cup {Repeat(Drop, n) \o After : n \in {90, 91, 92, 100, 101}}
        \cup {Repeat(Drop, n) \o Delete \o After : n \in 98..102}
        \cup {Long(n) \o After : n \in 44..48}
        \cup {Deep(n) \o After : n \in 5..20}
        \cup {SubSeq(Deep(n), 1, k) \o After : n \in {16, 18}, k \in 16..26}
        \cup {SubSeq(s, 1, Len(s) - 2) : s \in Legal}

-----------------------------------------------------------------------------
(***************************************************************************)
(* What is typed                                                           *)
(***************************************************************************)
MCLetters == {"d", "s", "x"}
MCDigits == {"0"}

MCKeywords ==
    <<"s">> :> "SELECT" @@ <<"d">> :> "FROM" @@ <<"s", "d">> :> "WHERE"
        @@ <<"d", "s">> :> "QUIT" @@ Repeat(<<"s">>, 8) :> "DISTINCT"

\* s x d x;
Typed == <<"s", "blank", "x", "blank", "d", "blank", "x", ";", "newline">>

\* s x d x sd x<>'x' or x>=0; with and without blanks
TypedWhere ==
    <<"s", "blank", "x", "newline", "d", "blank", "x", "blank", "s", "d",
      "blank", "x", "<", ">", "'", "x", "'", "+", "x", "0", ">", "=", "0", "0",
      ";">>

\* One character for each class the automaton tells apart in more than one
\* state, and one of the others.
Typable ==
    {"s", "d", "0", "'", "newline", "blank", "<", "=", ">", ";", "NUL", "other"}

Mistyped(s) ==
    {RemoveAt(s, k) : k \in DOMAIN s}
        \cup {InsertAt(s, k, c) : k \in DOMAIN s, c \in Typable}

\* A string and a word of n characters; the buffer grows for long ones.
Quoted(n) == <<"'">> \o Repeat(<<"x">>, n) \o <<"'">>

MCTexts ==
    UNION {[1..n -> Typable \ {"d", "blank", "=", ";"}] : n \in 0..3}
        \cup {<<c>> : c \in Chars}
        \cup {s \o Typed : s \in Mistyped(TypedWhere)}
        \cup {SubSeq(TypedWhere, 1, n) : n \in DOMAIN TypedWhere}
        \cup {Quoted(n) \o Typed : n \in 0..9}
        \cup {Front(Quoted(n)) \o Typed : n \in 0..9}
        \cup {Repeat(<<"s">>, n) : n \in 7..11}

-----------------------------------------------------------------------------
(***************************************************************************)
(* The statements of a session                                             *)
(***************************************************************************)
\* The statements read so far: the spans between semicolons.
Ends == {k \in 1..(pos - 1) : k \in DOMAIN input /\ input[k] = ";"}

Start(k) == 1 + Max({0} \cup {m \in Ends : m < k})

MeaningAt(k) == G!Meaning(input, Start(k), k - 1)

\* The statement during which the stack was exhausted is not judged.
GivenUp(k) == \E p \in gaveUp : p \in Start(k)..k

\* What main does with a tree: nothing, when HAVING or ORDER BY is on top.
Runs(tree) ==
    /\ tree \notin {G!Refused, G!Nothing}
    /\ tree[1] \notin {Op.SELECTION, Op.SORT}

BetweenStatements == AtStart \/ pc = "quit"

Due == {[at |-> k, tree |-> MeaningAt(k)] : k \in Ends}

\* The statements that have been carried out are the legal ones read so far,
\* in their order, each with the tree the grammar gives it: none is lost, run
\* twice, cut short by a full pool or mixed with what an error left behind.
ExecutesTheGrammar ==
    BetweenStatements =>
       SelectSeq(executed, LAMBDA e : ~GivenUp(e.at))
         = SetToSortSeq({e \in Due : ~GivenUp(e.at) /\ Runs(e.tree)},
                        LAMBDA d, e : d.at < e.at)

\* A refused statement after a legal one is reported, and no legal statement
\* is.  (Right after another error the report may be suppressed.)
RefusalsReported ==
    BetweenStatements /\ gaveUp = {} =>
       LET refused == {k \in Ends : MeaningAt(k) = G!Refused}
       IN  \A k \in Ends :
             LET said == reported \cap (Start(k)..k) # {}
                 afterLegal == Start(k) - 1 \notin refused
             IN  /\ said => k \in refused
                 /\ k \in refused /\ afterLegal => said

\* The parser gets the tokens of the text, all of them and in their order,
\* wherever the buffer is filled, moved or grown in the middle of a lexeme,
\* whatever NULs there are, and at the end of the input, asked again or not.
ScansTheLexemes ==
    returned # Waiting /\ text # <<>> =>
       LET tokens == L!TokensOf(text)
       IN  /\ IsPrefix(input, tokens)
           /\ returned = EndOfInput => input = tokens

=============================================================================
