------------------------------ MODULE Scanner ------------------------------
(***************************************************************************)
(* The scanner that flex made: yylex reads characters through a buffer     *)
(* that it fills one character at a time, runs an automaton over them and  *)
(* returns the token of the longest lexeme.                                *)
(*                                                                         *)
(* Pointers into the buffer are offsets from its start.  The character at  *)
(* yy_c_buf_p is overwritten while its caller looks at yytext and put back *)
(* before anybody reads it; that is left out.                              *)
(***************************************************************************)
EXTENDS ParserTables, FiniteSets

CONSTANTS
    Texts,        \* what may be typed in a session, sequences of characters
    Letters,      \* letters, _ and $; upper and lower case are one letter
    Digits,
    Keywords,     \* the token of each keyword, a function on words
    YY_BUF_SIZE   \* the first size of the buffer (16384)

VARIABLES
    text,             \* what is typed in this session
    yyin,             \* how much of it has been read
    ch_buf,           \* the buffer up to its second end-of-buffer character
    yy_buf_size,      \* its size, without room for those two characters
    yy_buffer_status,
    yytext_ptr,       \* where the lexeme begins
    yy_c_buf_p,       \* where the next one does
    yy_cp,            \* the next character for the automaton
    yy_current_state,
    yy_last_accepting,  \* the state that accepted last, and yy_cp then
    lex,              \* where yylex is, "idle" when it has returned
    returned          \* the token it returned

scannerVars ==
    <<text, yyin, ch_buf, yy_buf_size, yy_buffer_status, yytext_ptr,
      yy_c_buf_p, yy_cp, yy_current_state, yy_last_accepting, lex, returned>>

buffer == <<yyin, ch_buf, yy_buf_size, yy_buffer_status>>
automaton == <<yy_cp, yy_current_state, yy_last_accepting>>

Signs ==
    {"NUL", "other", "blank", "newline", "'", "(", ")", "*", "+", ",", "-",
     "/", ";", "<", "=", ">"}

Chars == Letters \cup Digits \cup Signs

ASSUME CharsAssumption ==
    Letters \cap Digits = {} /\ (Letters \cup Digits) \cap Signs = {}

\* A keyword fits the buffer it is compared in, with room to see that the
\* word does not go on.
KeywordRoom == 9

ASSUME KeywordsAssumption ==
    \A word \in DOMAIN Keywords :
       word \in Seq(Letters) /\ Len(word) < KeywordRoom

ASSUME TextsAssumption == \A t \in Texts : t \in Seq(Chars)

ASSUME BufferAssumption == YY_BUF_SIZE \in Nat /\ YY_BUF_SIZE > 1

Waiting == "none"    \* nothing has been returned yet

-----------------------------------------------------------------------------
(***************************************************************************)
(* The automaton.  The tables count from zero.                             *)
(***************************************************************************)
\* The class of each character.
yy_ec ==
    [c \in Chars |->
       CASE c = "NUL" -> 0        [] c = "blank" -> 2
         [] c = "newline" -> 3    [] c \in Letters -> 4
         [] c = "'" -> 5          [] c = "(" -> 6
         [] c = ")" -> 7          [] c = "*" -> 8
         [] c = "+" -> 9          [] c = "," -> 10
         [] c = "-" -> 11         [] c = "/" -> 12
         [] c \in Digits -> 13    [] c = ";" -> 14
         [] c = "<" -> 15         [] c = "=" -> 16
         [] c = ">" -> 17         [] OTHER -> 1]

\* The rule a state accepts, 0 if none.
yy_accept ==
  <<0, 0, 0, 23, 21, 12, 11, 1, 21, 13, 14, 17, 15, 20, 16, 18, 2, 19, 7, 5, 8,
    1, 0, 4, 3, 2, 9, 6, 10, 0>>

\* Where the row of a state begins, and the state whose row is used where it
\* has no entry.
yy_base ==
  <<0, 0, 0, 32, 33, 33, 33, 14, 16, 33, 33, 33, 33, 33, 33, 33, 18, 33, 6, 33,
    14, 16, 21, 33, 33, 15, 33, 33, 33, 33, 24>>

yy_def ==
  <<0, 29, 1, 29, 29, 29, 29, 29, 30, 29, 29, 29, 29, 29, 29, 29, 29, 29, 29,
    29, 29, 29, 30, 29, 29, 29, 29, 29, 29, 0, 29>>

yy_nxt ==
  <<0, 4, 5, 6, 7, 8, 9, 10, 11, 12, 13, 14, 15, 16, 17, 18, 19, 20, 21, 23, 21,
    24, 26, 27, 23, 22, 24, 21, 25, 21, 28, 25, 29, 3, 29, 29, 29, 29, 29, 29,
    29, 29, 29, 29, 29, 29, 29, 29, 29, 29, 29>>

yy_chk ==
  <<0, 1, 1, 1, 1, 1, 1, 1, 1, 1, 1, 1, 1, 1, 1, 1, 1, 1, 7, 8, 21, 8, 18, 18,
    22, 30, 22, 7, 25, 21, 20, 16, 3, 29, 29, 29, 29, 29, 29, 29, 29, 29, 29,
    29, 29, 29, 29, 29, 29, 29, 29>>

yy_start == 1
JamState == 29
Templates == 30    \* from here on states are templates, shared by others

\* The class under which a template is asked: all but NUL are one.
yy_meta(c) == IF c = 0 THEN 0 ELSE 1

HasRow(s, c) == At(yy_chk, At(yy_base, s) + c) = s
RowEntry(s, c) == At(yy_nxt, At(yy_base, s) + c)

\* The state after s and a character of class c.  Defaults lead to the row of
\* the jam state, which has an entry for each class, in at most two steps.
StateAfter(s, c) ==
    LET d == At(yy_def, s)
        class == IF d >= Templates THEN yy_meta(c) ELSE c
    IN  IF HasRow(s, c) THEN RowEntry(s, c)
        ELSE IF HasRow(d, class) THEN RowEntry(d, class)
        ELSE RowEntry(At(yy_def, d), class)

NextState == [s \in 1..JamState |-> [c \in 0..17 |-> StateAfter(s, c)]]

\* States where the automaton stops without looking at another character.
Final(s) == At(yy_base, s) = 33

Accepts(s) == At(yy_accept, s) # 0

-----------------------------------------------------------------------------
(***************************************************************************)
(* One lexeme                                                              *)
(***************************************************************************)
\* The characters in the buffer; two NULs follow them.
yy_n_chars == Len(ch_buf) - 2

Terminated(chars) == chars \o <<"NUL", "NUL">>

Between(from, to) == SubSeq(ch_buf, from + 1, to)

yytext == Between(yytext_ptr, yy_c_buf_p)

Begin ==
    /\ lex = "yylex"
    /\ yytext_ptr' = yy_c_buf_p
    /\ yy_cp' = yy_c_buf_p
    /\ yy_current_state' = yy_start
    /\ lex' = "yy_match"
    /\ UNCHANGED <<text, buffer, yy_c_buf_p, yy_last_accepting, returned>>

\* The last state that accepted is remembered.
Remember ==
    yy_last_accepting' = IF Accepts(yy_current_state)
                         THEN [state |-> yy_current_state, cpos |-> yy_cp]
                         ELSE yy_last_accepting

\* The automaton takes a character of a class.
Take(class) ==
    /\ Remember
    /\ yy_current_state' = NextState[yy_current_state][class]
    /\ yy_cp' = yy_cp + 1

NextClass == yy_ec[At(ch_buf, yy_cp)]

\* One character.  The code tests at the end of its loop whether the state is
\* final, so that a final state, too, takes one when the loop is entered anew.
Match ==
    /\ lex = "yy_match"
    /\ Take(NextClass)
    /\ lex' = IF Final(yy_current_state') THEN "yy_find_action" ELSE "yy_match"
    /\ UNCHANGED <<text, buffer, yytext_ptr, yy_c_buf_p, returned>>

\* A state that accepts nothing backs up to the last one that did.
FindAction ==
    /\ lex = "yy_find_action"
    /\ IF Accepts(yy_current_state)
       THEN UNCHANGED <<yy_cp, yy_current_state>>
       ELSE /\ yy_cp' = yy_last_accepting.cpos
            /\ yy_current_state' = yy_last_accepting.state
    /\ yy_c_buf_p' = yy_cp'
    /\ lex' = "do_action"
    /\ UNCHANGED <<text, buffer, yytext_ptr, yy_last_accepting, returned>>

-----------------------------------------------------------------------------
(***************************************************************************)
(* The rules                                                               *)
(***************************************************************************)
yy_act == At(yy_accept, yy_current_state)

Doing(rules) == lex = "do_action" /\ yy_act \in rules

\* The token of a word: only the beginning of a long word is compared.
WordToken(word) ==
    LET length == IF Len(word) < KeywordRoom THEN Len(word) ELSE KeywordRoom
        buf == SubSeq(word, 1, length)
    IN  IF buf \in DOMAIN Keywords THEN Keywords[buf] ELSE "IDENT"

Return(token) ==
    /\ returned' = token
    /\ lex' = "idle"
    /\ UNCHANGED <<text, buffer, yytext_ptr, yy_c_buf_p, automaton>>

ReturnWord == Doing({1}) /\ Return(WordToken(yytext))

\* The tokens of the other rules, by rule.
RuleToken ==
    <<"IDENT", "NUMBER", "STRING", "", "=", "NOTEQ", "<", ">", "LEQ", "GEQ",
      "", "", "(", ")", "+", "-", "*", "/", ";", ",">>

ReturnToken ==
    Doing({2, 3} \cup 5..10 \cup 13..20) /\ Return(RuleToken[yy_act])

\* A string without an end, a line end, blanks, or any other character.
Skip ==
    /\ Doing({4, 11, 12, 21})
    /\ lex' = "yylex"
    /\ UNCHANGED <<text, buffer, yytext_ptr, yy_c_buf_p, automaton, returned>>

-----------------------------------------------------------------------------
(***************************************************************************)
(* The end of the buffer                                                   *)
(***************************************************************************)
YY_END_OF_BUFFER == 23

\* What happens when the lexeme has been read once more.
Rescans == {"rescan, match", "rescan, act", "rescan, NUL"}

\* The automaton begins the lexeme again, up to yy_c_buf_p.
Again(then) ==
    /\ lex' = then
    /\ yy_current_state' = yy_start
    /\ UNCHANGED yy_last_accepting

\* yy_get_previous_state: a NUL in a lexeme is a character that was typed.
Rescan ==
    /\ lex \in Rescans
    /\ yy_cp < yy_c_buf_p
    /\ Take(IF NextClass = 0 THEN 1 ELSE NextClass)
    /\ UNCHANGED <<text, buffer, yytext_ptr, yy_c_buf_p, lex, returned>>

Rescanned ==
    /\ lex \in {"rescan, match", "rescan, act"}
    /\ yy_cp = yy_c_buf_p
    /\ lex' = IF lex = "rescan, match" THEN "yy_match" ELSE "yy_find_action"
    /\ UNCHANGED <<text, buffer, yytext_ptr, yy_c_buf_p, automaton, returned>>

\* The end of the buffer was not reached: this was a NUL that was typed.
FoundNul ==
    /\ Doing({YY_END_OF_BUFFER})
    /\ yy_c_buf_p <= yy_n_chars
    /\ yy_c_buf_p' = yy_c_buf_p - 1
    /\ yy_cp' = yytext_ptr
    /\ Again("rescan, NUL")
    /\ UNCHANGED <<text, buffer, yytext_ptr, returned>>

\* yy_try_NUL_trans: the lexeme goes on with the NUL.
TakeNul ==
    /\ lex = "rescan, NUL"
    /\ yy_cp = yy_c_buf_p
    /\ NextState[yy_current_state][1] # JamState
    /\ Take(1)
    /\ yy_c_buf_p' = yy_c_buf_p + 1
    /\ lex' = "yy_match"
    /\ UNCHANGED <<text, buffer, yytext_ptr, returned>>

\* It ends before the NUL.
StopAtNul ==
    /\ lex = "rescan, NUL"
    /\ yy_cp = yy_c_buf_p
    /\ NextState[yy_current_state][1] = JamState
    /\ Remember
    /\ lex' = "yy_find_action"
    /\ UNCHANGED <<text, buffer, yytext_ptr, yy_c_buf_p, yy_cp,
                   yy_current_state, returned>>

\* The whole buffer has been read.
AtBufferEnd == Doing({YY_END_OF_BUFFER}) /\ yy_c_buf_p > yy_n_chars

MovedWithNul == Between(yytext_ptr, yy_c_buf_p)    \* mutant

\* The lexeme as far as it goes moves to the start of the buffer.
Moved == Between(yytext_ptr, yy_c_buf_p - 1)

\* At the end of the input a lexeme was finished without another read.
EofPending == yy_buffer_status = "EOF_PENDING"

\* Mutant: all that is there, as in a scanner that is not interactive.
LexerInputBlock ==
    IF EofPending THEN <<>> ELSE SubSeq(text, yyin + 1, Len(text))

\* Reading is interactive: one character, or none at the end of the input.
LexerInput ==
    IF EofPending \/ yyin = Len(text) THEN <<>> ELSE <<text[yyin + 1]>>

GrownTooLate ==    \* mutant
    IF ~EofPending /\ yy_buf_size - Len(Moved) + 1 <= 0
    THEN 2 * yy_buf_size
    ELSE yy_buf_size

\* The buffer doubles when there is no room to read.
Grown ==
    IF ~EofPending /\ yy_buf_size - Len(Moved) - 1 <= 0
    THEN 2 * yy_buf_size
    ELSE yy_buf_size

\* yy_get_next_buffer.
Refill ==
    /\ AtBufferEnd
    /\ ch_buf' = Terminated(Moved \o LexerInput)
    /\ yy_buf_size' = Grown
    /\ yytext_ptr' = 0
    /\ yy_c_buf_p' = Len(Moved)
    /\ yy_cp' = 0
    /\ UNCHANGED <<text, returned>>

ReadCharacter ==
    /\ Refill
    /\ LexerInput # <<>>
    /\ yyin' = yyin + Len(LexerInput)
    /\ yy_buffer_status' = "NORMAL"
    /\ Again("rescan, match")

\* No more characters: the lexeme is as long as it will be.
LastMatch ==
    /\ Refill
    /\ LexerInput = <<>> /\ Moved # <<>>
    /\ yy_buffer_status' = "EOF_PENDING"
    /\ Again("rescan, act")
    /\ UNCHANGED yyin

\* No more characters and no lexeme: the buffer is made new (yyrestart), and
\* another call will find the end of the input once more.
EndOfFile ==
    /\ AtBufferEnd
    /\ LexerInput = <<>> /\ Moved = <<>>
    /\ ch_buf' = Terminated(<<>>)
    /\ yy_buffer_status' = "NEW"
    /\ yytext_ptr' = 0
    /\ yy_c_buf_p' = 0
    /\ returned' = EndOfInput
    /\ lex' = "idle"
    /\ UNCHANGED <<text, yyin, yy_buf_size, automaton>>

-----------------------------------------------------------------------------
\* Before the first call, which makes the buffer.
ScannerInit ==
    /\ text \in Texts
    /\ yyin = 0
    /\ ch_buf = Terminated(<<>>)
    /\ yy_buf_size = YY_BUF_SIZE
    /\ yy_buffer_status = "NEW"
    /\ yytext_ptr = 0
    /\ yy_c_buf_p = 0
    /\ yy_cp = 0
    /\ yy_current_state = yy_start
    /\ yy_last_accepting = [state |-> yy_start, cpos |-> 0]
    /\ lex = "idle"
    /\ returned = Waiting

Call ==
    /\ lex = "idle"
    /\ lex' = "yylex"
    /\ returned' = Waiting
    /\ UNCHANGED <<text, buffer, yytext_ptr, yy_c_buf_p, automaton>>

Lex ==
    \/ Begin \/ Match \/ FindAction
    \/ ReturnWord \/ ReturnToken \/ Skip
    \/ Rescan \/ Rescanned \/ FoundNul \/ TakeNul \/ StopAtNul
    \/ ReadCharacter \/ LastMatch \/ EndOfFile

ScannerNext == Call \/ Lex

ScannerSpec == ScannerInit /\ [][ScannerNext]_scannerVars

-----------------------------------------------------------------------------
\* Nothing is read or written outside the buffer: what it holds fits with both
\* end-of-buffer characters, the automaton stops at the second one at the
\* latest, and the next lexeme begins inside.
StaysInBuffer ==
    /\ yy_n_chars <= yy_buf_size
    /\ lex = "yy_match" => yy_cp <= yy_n_chars + 1
    /\ lex \in {"idle", "yylex"} => yy_c_buf_p <= yy_n_chars
    /\ lex = "do_action" => /\ yytext_ptr < yy_c_buf_p
                            /\ yy_c_buf_p <= yy_n_chars + 1

=============================================================================
