------------------------------ MODULE FrontEnd ------------------------------
(***************************************************************************)
(* The parser and the scanner together: yyparse calls yylex when it needs  *)
(* a token, and yylex reads what is typed, character by character.         *)
(*                                                                         *)
(* The parser's input is here what yylex has returned so far.  A session   *)
(* may also begin with an input of tokens that were scanned before it.     *)
(***************************************************************************)
EXTENDS Parser, Scanner

frontEndVars == <<vars, scannerVars>>

FrontEndInit ==
    /\ Init
    /\ ScannerInit
    /\ input = <<>> \/ text = <<>>

\* The parser has the token it needs, or knows that there is none.
Supplied == pos \in DOMAIN input \/ returned = EndOfInput

CallScanner ==
    /\ NeedsToken
    /\ ~Supplied
    /\ Call
    /\ UNCHANGED vars

\* The scanner goes on, and may return a token.
ScannerStep ==
    /\ Lex
    /\ input' = IF returned' \in Tokens THEN Append(input, returned') ELSE input
    /\ UNCHANGED <<pos, yychar, yylval, stacks, yyerrstatus, ebuf, pc, history>>

\* Each call of yylex is answered once: the next token is asked for again,
\* after the end of the input too.
ParserStep ==
    /\ NeedsToken => Supplied
    /\ Next
    /\ returned' = IF NeedsToken THEN Waiting ELSE returned
    /\ UNCHANGED <<text, buffer, yytext_ptr, yy_c_buf_p, automaton, lex>>

FrontEndNext == CallScanner \/ ScannerStep \/ ParserStep

FrontEndSpec == FrontEndInit /\ [][FrontEndNext]_frontEndVars

\* One process, which waits for nothing but what is typed, and that is all
\* there.
FairFrontEnd == FrontEndSpec /\ WF_frontEndVars(FrontEndNext)

-----------------------------------------------------------------------------
\* A statement is carried out when its semicolon has been typed: neither the
\* parser nor the scanner waits for a character more.
AnswersAtOnce ==
    [][executed' # executed /\ text # <<>> => text[yyin] = ";"]_frontEndVars

=============================================================================
