SPECIFICATION Spec
CONSTANTS
    Alphabet = {"A", "B", "E"}
    FirstLetter = "A"
    Start = "^"
    End = "$"
    Samples <- MCSamples
    Criteria = {"any", "three"}
    Language <- MCLanguage
    MaxLengths = {0, 3}
    MaxChars = 7
    NoWord = NoWord
CHECK_DEADLOCK FALSE
INVARIANTS
    DictionarySampled
    WalkStaysInside
    MadeWordsFit
    NewNeedsChoice
PROPERTY
    MakesSuitableWords
