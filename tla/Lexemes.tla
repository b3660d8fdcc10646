------------------------------ MODULE Lexemes ------------------------------
(***************************************************************************)
(* What the scanner's rules say of a text, without an automaton and        *)
(* without a buffer: a text falls into lexemes, each as long as it can be, *)
(* and most of them are tokens.                                            *)
(***************************************************************************)
EXTENDS Integers, Sequences, FiniteSetsExt

CONSTANTS Letters, Digits, Keywords

Ignored == "ignored"

Pairs == [s \in {<<"<", ">">>, <<"<", "=">>, <<">", "=">>} |->
            CASE s = <<"<", ">">> -> "NOTEQ"
              [] s = <<"<", "=">> -> "LEQ"
              [] s = <<">", "=">> -> "GEQ"]

Singles == {"(", ")", "*", "+", ",", "-", "/", ";", "<", "=", ">"}

-----------------------------------------------------------------------------
IsWord(s) == s[1] \in Letters /\ \A i \in DOMAIN s : s[i] \in Letters \cup Digits

IsNumber(s) == \A i \in DOMAIN s : s[i] \in Digits

\* A quote and what follows it, up to the next quote or the end of the line.
IsQuoted(s, end) ==
    /\ Len(s) > 1 /\ s[1] = "'" /\ s[Len(s)] = end
    /\ \A i \in 2..(Len(s) - 1) : s[i] \notin {"'", "newline"}

\* Each character is a lexeme, if it is not in a longer one.
IsLexeme(s) ==
    \/ Len(s) = 1 \/ s \in DOMAIN Pairs
    \/ IsWord(s) \/ IsNumber(s)
    \/ IsQuoted(s, "'") \/ IsQuoted(s, "newline")

TokenOf(s) ==
    IF s \in DOMAIN Keywords THEN Keywords[s]
    ELSE IF IsWord(s) THEN "IDENT"
    ELSE IF IsNumber(s) THEN "NUMBER"
    ELSE IF IsQuoted(s, "'") THEN "STRING"
    ELSE IF s \in DOMAIN Pairs THEN Pairs[s]
    ELSE IF s[1] \in Singles THEN s[1]
    ELSE Ignored

\* The longest lexeme of a text from a place on.
LexemeAt(text, p) ==
    LET ends == {q \in p..Len(text) : IsLexeme(SubSeq(text, p, q))}
    IN  SubSeq(text, p, Max(ends))

\* The tokens of a text, from its first character to its last.
TokensOf(text) ==
    LET from[p \in 1..(Len(text) + 1)] ==
          IF p > Len(text) THEN <<>>
          ELSE LET lexeme == LexemeAt(text, p)
                   rest == from[p + Len(lexeme)]
               IN  IF TokenOf(lexeme) = Ignored THEN rest
                   ELSE <<TokenOf(lexeme)>> \o rest
    IN  from[1]

=============================================================================
