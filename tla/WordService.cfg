SPECIFICATION ServiceSpec
CONSTANTS
    Words <- MCWords
    EmptyWord <- MCEmptyWord
    Length <- MCLength
    Indexes = {"q_words", "consonants"}
    NoIndex = "none"
    Matches <- MCMatches
    Files <- MCFiles
    MinWordLength = 2
    MaxWordLength = 3
    Capacity = 6
    NumWords = 2
    Garbage = Garbage
    Parts <- MCParts
    Number <- MCNumber
    NaN = NaN
    Index = "index"
    FirstIndex = "q_words"
    Descriptions <- MCDescriptions
    DefaultMinWordLength = 2
    DefaultMaxWordLength = 2
    DefaultNumWords = 1
    MaxNumWords = 2
    Alphabet = {"A", "Q"}
    MaxIndexLength = 2
    NoWord = NoWord
CHECK_DEADLOCK FALSE
INVARIANTS
    ServiceTypeOK
    MadeUpIsNew
    AnswersRequest
PROPERTIES
    ServesAsPageHandler
    AsksAsAgreed
