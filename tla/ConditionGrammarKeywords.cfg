\* Every condition of up to five lexemes.
CONSTANTS
    Selectors = {"sel1", "sel2"}
    Names = {"sel1", "sel2", "missing"}
    Patterns = {"sel*", "x*"}
    MatchesOf <- MCMatchesOf
    CountOf <- MCCountOf
    Junk = "?"
    MaxNesting = 1
    Lexemes <- MCLexemes
    MaxLength = 5
    Plain <- MCPlain
    Options <- MCOptions
    MaxEdits = 0
    LexemeLength = 7
SPECIFICATION DraftSpec
INVARIANTS AcceptedConditionsDenote
CHECK_DEADLOCK FALSE
