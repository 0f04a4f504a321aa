SPECIFICATION Spec
CONSTANTS
    Words <- MCWords
    EmptyWord = ""
    Length <- MCLength
    Indexes = {"q_words", "consonants"}
    NoIndex = "none"
    Matches <- MCMatches
    Files <- MCNewline
    MinWordLength = 2
    MaxWordLength = 4
    Capacity = 8
    NumWords = 1
    Garbage = Garbage
INVARIANT
    PickedFitInOrder
