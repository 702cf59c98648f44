\* Every condition of up to five lexemes, and every draft with up to two
\* unusual parts.
CONSTANTS
    Selectors = {"sel1", "sel2"}
    Names = {"sel1", "sel2", "missing"}
    Patterns = {"sel*", "x*"}
    MatchesOf <- MCMatchesOf
    CountOf <- MCCountOf
    Junk = "?"
    MaxNesting = 1
    Lexemes <- MCLexemes
    MaxLength = 5
    Plain <- MCPlain
    Options <- MCOptions
    MaxEdits = 2
    LexemeLength = 7
SPECIFICATION DraftSpec
INVARIANTS ParserMatchesGrammar AcceptanceIsExact NeverRaises AcceptedDraftsPersist
CHECK_DEADLOCK FALSE
