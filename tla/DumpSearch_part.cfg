SPECIFICATION SearchSpec
CONSTANTS
    Dot = "."
    Space = " "
    KeywordPairs <- MCKeywords
    FunctionPairs <- MCFunctions
    Dumps <- MCDumps
    Questions <- MCQuestions
    DefaultLimit = 2
    MaxLimit = 3
    Window = 2
INVARIANT
    SynonymIsShown
CHECK_DEADLOCK FALSE
