SPECIFICATION FairSpec
CONSTANTS
    Types = {"length", "q_words"}
    FirstType = "length"
    ListLength = 2
    MaxScore = 2
    MaxInFlight = 2
INVARIANTS
    TypeOK
    ListAsSelected
    NeverOutOfWords
    StreaksAgree
PROPERTIES
    SelectionShown
    GoesOnUnlessLost
