SPECIFICATION Spec
CONSTANTS
    Types = {"length", "q_words"}
    FirstType = "length"
    ListLength = 2
    MaxScore = 2
    MaxInFlight = 1
PROPERTY
    ScoredOnce
