SPECIFICATION ComponentsSpec
CONSTANTS
    None = None
    Previous = Previous
    Half = Half
    ExtNames <- MCNames
    Fold <- MCFold
    RejectedNames = {"Ext"}
    StandardDirs = {"ext"}
    MaxRuns = 2
    Offsets = {16, 32}
    Root = 16
    End = 99
    MaxStorage = 4
    MaxHtml = 2
    MaxNumber = 5
    EntrySize = 2
    MaxPages = 4
    Tops <- MCTops
    ManifestNames = {"Pos", "Rep"}
    Unnamed = Unnamed
    Broken = Broken
    MaxNested = 3
    MaxReads = 3
    Dot = "."
    Space = " "
    KeywordPairs <- MCKeywords
    FunctionPairs <- MCFunctions
    Dumps <- MCDumps
    Questions <- MCQuestions
    DefaultLimit = 2
    MaxLimit = 3
    Window = 2
    Vocabularies <- MCVocabularies
    MaxDepth = 4
    TokenKinds = {"identifier", "literal", "true", "string", "keyword", "not", "new", "?",
                  "(", ")", "[", "]", ",", ".", "=", "+", "*"}
    MaxLength = 6
    DepthLimit = 3
    MaxDirectives = 6
INVARIANTS
    TypesOK
    InstalledIsApplied
    NoteWhenRolesDropped
    KnownErrorsAreCured
    ReportIsTrue
    ReadsAreBounded
    NoSilentLoss
    RootsAreUndisputed
    NamesTellApart
    CountsAllShowsFirst
    HitsAreExplained
    IndentIsNesting
    UnreachableIsBehindJump
    UnusedIsNeverRead
    ExpressionIsExact
    PairsAreAccepted
CHECK_DEADLOCK FALSE
