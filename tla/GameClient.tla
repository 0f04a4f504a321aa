------------------------------ MODULE GameClient ------------------------------
(***************************************************************************)
(* The game in the browser (resources/js/isaword.js).  The page shows one  *)
(* word at a time from a list; a guess is scored and the next word shown.  *)
(* After the last word of the list, and whenever another type of words is  *)
(* selected, a new list is requested from the server; the responses come   *)
(* later, while the player goes on, and perhaps in another order.          *)
(*                                                                         *)
(* words[nextWordIndex] of the code, which counts from 0, is               *)
(* words.real[nextWordIndex + 1] here.                                     *)
(***************************************************************************)
EXTENDS Integers, Sequences, SequencesExt

CONSTANTS
    Types,          \* the types of words that can be selected
    FirstType,      \* the type selected in a new page
    ListLength,     \* the number of words of a list
    MaxScore,       \* the scores are counted up to MaxScore
    MaxInFlight     \* the form changes only below that many requests

ASSUME ClientAssumption ==
    /\ FirstType \in Types
    /\ ListLength \in Nat \ {0}
    /\ MaxScore \in Nat
    /\ MaxInFlight \in Nat

Lists == [type : Types, real : [1 .. ListLength -> BOOLEAN]]

Requests == [type : Types, refresh : BOOLEAN]

Guesses == {"Yes", "No", "Skip"}

VARIABLES
    selected,           \* the type selected in the form
    words,              \* the list that was loaded last
    nextWordIndex,
    shown,              \* the word in the first div of #words-to-guess
    hidden,             \* that div is not displayed
    requests,           \* the requests without a response, oldest first
    correct, incorrect, streak, longest,    \* the scores
    lost,               \* history: a request was not answered with a list
    overtaken           \* history: a list came before one requested earlier

score == <<correct, incorrect, streak, longest>>
history == <<lost, overtaken>>
vars == <<selected, words, nextWordIndex, shown, hidden, requests, score, history>>

TypeOK ==
    /\ selected \in Types
    /\ words \in Lists
    /\ nextWordIndex \in 0 .. ListLength
    /\ shown \in [type : Types, real : BOOLEAN]
    /\ hidden \in BOOLEAN
    /\ requests \in Seq(Requests)
    /\ correct \in 0 .. MaxScore
    /\ incorrect \in 0 .. MaxScore
    /\ streak \in 0 .. MaxScore
    /\ longest \in 0 .. MaxScore
    /\ lost \in BOOLEAN /\ overtaken \in BOOLEAN

-----------------------------------------------------------------------------
\* Mutant: the new list is requested for the type of the old one.
MutantShowNextWord(ws, index, rs) ==
    /\ shown' = [type |-> ws.type, real |-> ws.real[index + 1]]
    /\ nextWordIndex' = index + 1
    /\ requests' = IF index + 1 = ListLength
                   THEN Append(rs, [type |-> ws.type, refresh |-> FALSE])
                   ELSE rs

\* showNextWord() with the list ws and the requests rs before it: element
\* index (from 0) of the list is shown, and after the last one a new list of
\* the selected type is requested.
showNextWord(ws, index, rs) ==
    /\ shown' = [type |-> ws.type, real |-> ws.real[index + 1]]
    /\ nextWordIndex' = index + 1
    /\ requests' = IF index + 1 = ListLength
                   THEN Append(rs, [type |-> selected, refresh |-> FALSE])
                   ELSE rs

Up(n) == IF n < MaxScore THEN n + 1 ELSE n

\* Mutant: the longest streak is compared before the current one is updated.
MutantScore(guess) ==
    IF guess = "Skip" THEN UNCHANGED score
    ELSE IF (guess = "Yes") = shown.real
    THEN /\ correct' = Up(correct)
         /\ streak' = Up(streak)
         /\ longest' = IF streak > longest THEN streak ELSE longest
         /\ UNCHANGED incorrect
    ELSE /\ incorrect' = Up(incorrect)
         /\ streak' = 0
         /\ UNCHANGED <<correct, longest>>

\* The scores after a guess.
Score(guess) ==
    IF guess = "Skip" THEN UNCHANGED score
    ELSE IF (guess = "Yes") = shown.real
    THEN /\ correct' = Up(correct)
         /\ streak' = Up(streak)
         /\ longest' = IF streak' > longest THEN streak' ELSE longest
         /\ UNCHANGED incorrect
    ELSE /\ incorrect' = Up(incorrect)
         /\ streak' = 0
         /\ UNCHANGED <<correct, longest>>

\* processGuess() while the list has a word left.
processGuess(guess) ==
    /\ nextWordIndex < ListLength
    /\ Score(guess)
    /\ showNextWord(words, nextWordIndex, requests)
    /\ hidden' = FALSE
    /\ UNCHANGED <<selected, words, history>>

\* Mutant: the index is advanced even if there is no word.
MutantGuessWithoutNext(guess) ==
    /\ nextWordIndex = ListLength
    /\ Score(guess)
    /\ hidden' = TRUE
    /\ nextWordIndex' = nextWordIndex + 1
    /\ UNCHANGED <<selected, words, shown, requests, history>>

\* processGuess() while there is none: words[nextWordIndex] is undefined, so
\* showNextWord() throws after the guess was scored and the div with the word
\* was copied, and the copy, now the first div, stays hidden.
GuessWithoutNext(guess) ==
    /\ nextWordIndex = ListLength
    /\ Score(guess)
    /\ hidden' = TRUE
    /\ UNCHANGED <<selected, words, nextWordIndex, shown, requests, history>>

\* Another type is selected, or other lengths are typed in: that is another
\* type too, unless an index is selected.
ChangeType(t) ==
    /\ Len(requests) < MaxInFlight
    /\ selected' = t
    /\ requests' = Append(requests, [type |-> t, refresh |-> TRUE])
    /\ UNCHANGED <<words, nextWordIndex, shown, hidden, score, history>>

\* Mutant: the index is not reset when a list comes that shows no word yet.
MutantLoaded(k) ==
    /\ k \in 1 .. Len(requests)
    /\ words' \in {ws \in Lists : ws.type = requests[k].type}
    /\ IF requests[k].refresh
       THEN showNextWord(words', 0, RemoveAt(requests, k))
       ELSE /\ requests' = RemoveAt(requests, k)
            /\ UNCHANGED <<nextWordIndex, shown>>
    /\ overtaken' = (overtaken \/ k > 1)
    /\ UNCHANGED <<selected, hidden, score, lost>>

\* The callback of getJSON().
Loaded(k) ==
    /\ k \in 1 .. Len(requests)
    /\ words' \in {ws \in Lists : ws.type = requests[k].type}
    /\ IF requests[k].refresh
       THEN showNextWord(words', 0, RemoveAt(requests, k))
       ELSE /\ nextWordIndex' = 0
            /\ requests' = RemoveAt(requests, k)
            /\ UNCHANGED shown
    /\ overtaken' = (overtaken \/ k > 1)
    /\ UNCHANGED <<selected, hidden, score, lost>>

\* No response, or one that is not JSON, like the page that comes for a URL
\* with "NaN" in it: there is no error callback.
Failed(k) ==
    /\ k \in 1 .. Len(requests)
    /\ lost' = TRUE
    /\ requests' = RemoveAt(requests, k)
    /\ UNCHANGED <<selected, words, nextWordIndex, shown, hidden, score, overtaken>>

-----------------------------------------------------------------------------
\* The page sets up: the first word is shown.  The list in the page is of
\* FirstType.
Init ==
    /\ selected = FirstType
    /\ words \in {ws \in Lists : ws.type = FirstType}
    /\ shown = [type |-> words.type, real |-> words.real[1]]
    /\ nextWordIndex = 1
    /\ requests = IF ListLength = 1 THEN <<[type |-> FirstType, refresh |-> FALSE]>> ELSE <<>>
    /\ hidden = FALSE
    /\ correct = 0 /\ incorrect = 0 /\ streak = 0 /\ longest = 0
    /\ lost = FALSE /\ overtaken = FALSE

Guess == \E guess \in Guesses : processGuess(guess) \/ GuessWithoutNext(guess)

Response(k) == Loaded(k) \/ Failed(k)

Next ==
    \/ Guess
    \/ \E t \in Types : ChangeType(t)
    \/ \E k \in 1 .. Len(requests) : Response(k)

Spec == Init /\ [][Next]_vars

\* The player goes on guessing, and the oldest request gets its response.
FairSpec == Spec /\ WF_vars(Guess) /\ WF_vars(Response(1))

-----------------------------------------------------------------------------
(* Properties.                                                             *)

\* When all responses have come, in the order of their requests, the list is
\* of the type that the form says (isaword.js 25-37).  Steps that threaten it:
\* a reload at the end of a list that is sent before another type is selected
\* and answered after it.
ListAsSelected ==
    ~lost /\ ~overtaken /\ requests = <<>> => words.type = selected

\* When the list is used up a new one is on its way (isaword.js 104-106),
\* whatever the order of the responses, as long as none is lost.
NeverOutOfWords ==
    ~lost /\ nextWordIndex = ListLength => requests # <<>>

\* The streaks agree with the counts: the longest is at least the current
\* one and at most all correct guesses, and without an incorrect guess the
\* three are one number (isaword.js 129-149).
StreaksAgree ==
    /\ streak <= longest
    /\ longest <= correct
    /\ incorrect = 0 => streak = correct /\ longest = correct

\* Once a type is selected for good and no response is lost, the words shown
\* are of this type for ever after, whatever came late or in another order.
SelectionShown ==
    []~lost => \A t \in Types : <>[](selected = t) => <>[](shown.type = t)

\* If no response is lost the player gets to the next word again and again.
GoesOnUnlessLost == []~lost => []<>(nextWordIndex < ListLength)

\* A word is scored when it is on display and once only: after each guess a
\* new one is inserted ("Insert a new word", isaword.js 156).
ScoredOnce == [][score' # score => ~hidden]_vars

-----------------------------------------------------------------------------
(* The inductive invariant behind ListAsSelected.                          *)

\* The last request is for the selected type.
LastRequestAsSelected ==
    ~lost /\ ~overtaken =>
        IF requests = <<>> THEN words.type = selected
                           ELSE requests[Len(requests)].type = selected
=============================================================================
