CONSTANTS
    Inputs <- MCInputs
    Texts <- MCTexts
    Letters <- MCLetters
    Digits <- MCDigits
    Keywords <- MCKeywords
    YY_BUF_SIZE = 2
    MaxNode = 100
    YYINITDEPTH = 4
    YYMAXDEPTH = 24
SPECIFICATION FairFrontEnd
INVARIANTS
    TypeOK
    StackFits
    ValuesAreLive
    OnlyDropsLeaveNodes
    OnlyAFullPoolCrashes
    ExecutesTheGrammar
    RefusalsReported
    StaysInBuffer
    ScansTheLexemes
PROPERTIES
    SessionEnds
    AnswersAtOnce
CHECK_DEADLOCK FALSE
