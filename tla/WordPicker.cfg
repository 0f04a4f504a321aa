SPECIFICATION Spec
CONSTANTS
    Words <- MCWords
    EmptyWord = ""
    Length <- MCLength
    Indexes = {"q_words", "consonants"}
    NoIndex = "none"
    Matches <- MCMatches
    Files <- MCFiles
    MinWordLength = 2
    MaxWordLength = 4
    Capacity = 8
    NumWords = 1
    Garbage = Garbage
CHECK_DEADLOCK FALSE
INVARIANTS
    GroupsByLength
    PickedFit
    ReadyMeansRead
    IndexesComplete
    ReadableNeverAborts
PROPERTIES
    InitializeGetsOn
