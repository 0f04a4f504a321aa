--------------------------- MODULE GameClient_proofs ---------------------------
(***************************************************************************)
(* Proofs about GameClient, for lists of any length: the types, the        *)
(* streaks, that the game does not run out of words while no response is   *)
(* lost, and that the list is of the selected type if moreover the         *)
(* responses come in order.                                                *)
(***************************************************************************)
EXTENDS GameClient, TLAPS

\* Taking an element out of a sequence.
LEMMA Removed ==
    ASSUME NEW S, NEW s \in Seq(S), NEW k \in 1 .. Len(s)
    PROVE  /\ RemoveAt(s, k) \in Seq(S)
           /\ Len(RemoveAt(s, k)) = Len(s) - 1
           /\ k = 1 => \A j \in 1 .. Len(s) - 1 : RemoveAt(s, k)[j] = s[j + 1]
<1> DEFINE a == SubSeq(s, 1, k - 1)
           b == SubSeq(s, k + 1, Len(s))
<1>1. RemoveAt(s, k) = a \o b
  BY DEF RemoveAt
<1>2. a \in Seq(S) /\ Len(a) = k - 1
  OBVIOUS
<1>3. b \in Seq(S) /\ Len(b) = Len(s) - k
  OBVIOUS
<1>4. a \o b \in Seq(S) /\ Len(a \o b) = Len(s) - 1
  <2>1. Len(a \o b) = Len(a) + Len(b) /\ a \o b \in Seq(S)
    <3> HIDE DEF a, b
    <3> QED BY <1>2, <1>3
  <2>2. Len(s) \in Nat /\ k \in Nat
    OBVIOUS
  <2> HIDE DEF a, b
  <2>3. Len(a \o b) = (k - 1) + (Len(s) - k)
    BY <1>2, <1>3, <2>1
  <2>4. (k - 1) + (Len(s) - k) = Len(s) - 1
    BY <2>2
  <2> QED BY <2>1, <2>3, <2>4
<1>5. ASSUME k = 1, NEW j \in 1 .. Len(s) - 1 PROVE (a \o b)[j] = s[j + 1]
  <2>1. Len(a) = 0 /\ b[j] = s[j + 1]
    BY <1>2, <1>5
  <2>2. (a \o b)[j] = b[j]
    <3> HIDE DEF a, b
    <3> QED BY <1>2, <1>3, <1>5, <2>1
  <2> QED BY <2>1, <2>2
<1> QED BY <1>1, <1>4, <1>5

\* What is appended to a sequence is its last element.
LEMMA Appended ==
    ASSUME NEW S, NEW s \in Seq(S), NEW x \in S
    PROVE  Append(s, x) # <<>> /\ Append(s, x)[Len(Append(s, x))] = x
<1>1. Len(Append(s, x)) = Len(s) + 1 /\ Len(s) \in Nat
  OBVIOUS
<1>2. Append(s, x)[Len(s) + 1] = x
  OBVIOUS
<1> QED BY <1>1, <1>2

-----------------------------------------------------------------------------
(* Types.                                                                  *)

LEMMA ShowNextType ==
    ASSUME TypeOK, NEW ws \in Lists, NEW index \in 0 .. ListLength - 1, NEW rs \in Seq(Requests),
           showNextWord(ws, index, rs)
    PROVE  /\ shown' \in [type : Types, real : BOOLEAN]
           /\ nextWordIndex' \in 0 .. ListLength
           /\ requests' \in Seq(Requests)
<1>1. index + 1 \in 1 .. ListLength /\ index + 1 \in 0 .. ListLength
  BY ClientAssumption
<1>2. ws.type \in Types /\ ws.real[index + 1] \in BOOLEAN
  BY <1>1 DEF Lists
<1>3. [type |-> selected, refresh |-> FALSE] \in Requests
  BY DEF TypeOK, Requests
<1>4. Append(rs, [type |-> selected, refresh |-> FALSE]) \in Seq(Requests)
  BY <1>3
<1> QED BY <1>1, <1>2, <1>4 DEF showNextWord

\* The scores stay in their bounds and agree with each other after a guess.
LEMMA ScoreKept ==
    ASSUME TypeOK, NEW guess, Score(guess)
    PROVE  /\ correct' \in 0 .. MaxScore /\ incorrect' \in 0 .. MaxScore
           /\ streak' \in 0 .. MaxScore /\ longest' \in 0 .. MaxScore
           /\ StreaksAgree => StreaksAgree'
<1>1. CASE guess = "Skip"
  BY <1>1 DEF Score, score, TypeOK, StreaksAgree
<1>2. CASE guess # "Skip" /\ (guess = "Yes") = shown.real
  <2>1. /\ correct' = Up(correct) /\ streak' = Up(streak) /\ incorrect' = incorrect
        /\ longest' = IF streak' > longest THEN streak' ELSE longest
    BY <1>2 DEF Score
  <2> QED BY <2>1, ClientAssumption DEF Up, TypeOK, StreaksAgree
<1>3. CASE guess # "Skip" /\ (guess = "Yes") # shown.real
  <2>1. incorrect' = Up(incorrect) /\ streak' = 0 /\ correct' = correct /\ longest' = longest
    BY <1>3 DEF Score
  <2> QED BY <2>1, ClientAssumption DEF Up, TypeOK, StreaksAgree
<1> QED BY <1>1, <1>2, <1>3

LEMMA TypeInit == Init => TypeOK
<1> SUFFICES ASSUME Init PROVE TypeOK
  OBVIOUS
<1>1. 1 \in 0 .. ListLength /\ 1 \in 1 .. ListLength /\ 0 \in 0 .. MaxScore
  BY ClientAssumption
<1>2. FirstType \in Types
  BY ClientAssumption
<1>3. words \in Lists /\ words.type \in Types /\ words.real[1] \in BOOLEAN
  BY <1>1 DEF Init, Lists
<1>4. <<[type |-> FirstType, refresh |-> FALSE]>> \in Seq(Requests) /\ <<>> \in Seq(Requests)
  BY <1>2 DEF Requests
<1> QED BY <1>1, <1>2, <1>3, <1>4 DEF Init, TypeOK

LEMMA LoadedType ==
    ASSUME TypeOK, NEW k, Loaded(k)
    PROVE  /\ words' \in Lists /\ words'.type = requests[k].type
           /\ shown' \in [type : Types, real : BOOLEAN]
           /\ nextWordIndex' \in 0 .. ListLength
           /\ requests' \in Seq(Requests)
           /\ k \in 1 .. Len(requests)
<1>1. k \in 1 .. Len(requests) /\ words' \in Lists /\ words'.type = requests[k].type
  BY DEF Loaded
<1>2. RemoveAt(requests, k) \in Seq(Requests)
  BY <1>1, Removed DEF TypeOK
<1>3. 0 \in 0 .. ListLength - 1 /\ 0 \in 0 .. ListLength
  BY ClientAssumption
<1>4. CASE requests[k].refresh
  <2>1. showNextWord(words', 0, RemoveAt(requests, k))
    BY <1>4 DEF Loaded
  <2> QED BY <1>1, <1>2, <1>3, <2>1, ShowNextType
<1>5. CASE ~requests[k].refresh
  <2>1. nextWordIndex' = 0 /\ requests' = RemoveAt(requests, k) /\ shown' = shown
    BY <1>5 DEF Loaded
  <2> QED BY <1>1, <1>2, <1>3, <2>1 DEF TypeOK
<1> QED BY <1>4, <1>5

LEMMA TypeNext == TypeOK /\ [Next]_vars => TypeOK'
<1> SUFFICES ASSUME TypeOK, [Next]_vars PROVE TypeOK'
  OBVIOUS
<1>1. ASSUME NEW guess \in Guesses, processGuess(guess) PROVE TypeOK'
  <2>1. nextWordIndex \in 0 .. ListLength - 1 /\ words \in Lists /\ requests \in Seq(Requests)
    BY <1>1, ClientAssumption DEF processGuess, TypeOK
  <2>2. /\ Score(guess) /\ showNextWord(words, nextWordIndex, requests)
        /\ hidden' = FALSE /\ selected' = selected /\ words' = words
        /\ lost' = lost /\ overtaken' = overtaken
    BY <1>1 DEF processGuess, history
  <2> QED BY <2>1, <2>2, ShowNextType, ScoreKept DEF TypeOK
<1>2. ASSUME NEW guess \in Guesses, GuessWithoutNext(guess) PROVE TypeOK'
  <2>1. Score(guess) /\ hidden' = TRUE
        /\ UNCHANGED <<selected, words, nextWordIndex, shown, requests, lost, overtaken>>
    BY <1>2 DEF GuessWithoutNext, history
  <2> QED BY <2>1, ScoreKept DEF TypeOK
<1>3. ASSUME NEW t \in Types, ChangeType(t) PROVE TypeOK'
  <2>1. [type |-> t, refresh |-> TRUE] \in Requests
    BY DEF Requests
  <2> QED BY <1>3, <2>1 DEF ChangeType, TypeOK, score, history
<1>4. ASSUME NEW k \in 1 .. Len(requests), Loaded(k) PROVE TypeOK'
  <2>1. UNCHANGED <<selected, hidden, correct, incorrect, streak, longest, lost>>
        /\ overtaken' \in BOOLEAN
    BY <1>4 DEF Loaded, score
  <2> QED BY <1>4, <2>1, LoadedType DEF TypeOK
<1>5. ASSUME NEW k \in 1 .. Len(requests), Failed(k) PROVE TypeOK'
  <2>1. RemoveAt(requests, k) \in Seq(Requests)
    BY Removed DEF TypeOK
  <2> QED BY <1>5, <2>1 DEF Failed, TypeOK, score
<1>6. CASE UNCHANGED vars
  BY <1>6 DEF vars, score, history, TypeOK
<1> QED BY <1>1, <1>2, <1>3, <1>4, <1>5, <1>6 DEF Next, Guess, Response

\* The state of the page has its type: in particular the index never leaves
\* the list (isaword.js 102-106), whatever is lost or late.
THEOREM ClientTypeCorrect == Spec => []TypeOK
BY TypeInit, TypeNext, PTL DEF Spec

-----------------------------------------------------------------------------
(* The streaks.                                                            *)

\* The streaks agree with the counts whatever the responses do (isaword.js
\* 129-149).
THEOREM StreaksAlwaysAgree == Spec => []StreaksAgree
<1>1. Init => StreaksAgree
  BY DEF Init, StreaksAgree
<1>2. TypeOK /\ StreaksAgree /\ [Next]_vars => StreaksAgree'
  <2> SUFFICES ASSUME TypeOK, StreaksAgree, [Next]_vars PROVE StreaksAgree'
    OBVIOUS
  <2>1. ASSUME NEW guess, Score(guess) PROVE StreaksAgree'
    BY <2>1, ScoreKept
  <2>2. ASSUME UNCHANGED score PROVE StreaksAgree'
    BY <2>2 DEF score, StreaksAgree
  <2>3. CASE Guess
    BY <2>1, <2>3 DEF Guess, processGuess, GuessWithoutNext
  <2>4. CASE \E t \in Types : ChangeType(t)
    BY <2>2, <2>4 DEF ChangeType
  <2>5. CASE \E k \in 1 .. Len(requests) : Response(k)
    BY <2>2, <2>5 DEF Response, Loaded, Failed
  <2>6. CASE UNCHANGED vars
    BY <2>2, <2>6 DEF vars
  <2> QED BY <2>3, <2>4, <2>5, <2>6 DEF Next
<1> QED BY <1>1, <1>2, ClientTypeCorrect, PTL DEF Spec

-----------------------------------------------------------------------------
(* The list and the requests.                                              *)

\* What showNextWord() leaves, given the requests that were left before it.
LEMMA ShowNextKeeps ==
    ASSUME TypeOK, NEW ws \in Lists, NEW index \in 0 .. ListLength - 1, NEW rs \in Seq(Requests),
           showNextWord(ws, index, rs)
    PROVE  /\ nextWordIndex' = ListLength => requests' # <<>>
           /\ \/ requests' = rs
              \/ requests' # <<>> /\ requests'[Len(requests')].type = selected
<1>1. CASE index + 1 = ListLength
  <2> DEFINE r == [type |-> selected, refresh |-> FALSE]
  <2>1. requests' = Append(rs, r)
    BY <1>1 DEF showNextWord
  <2>2. r \in Requests
    BY DEF TypeOK, Requests
  <2>3. Append(rs, r) # <<>> /\ Append(rs, r)[Len(Append(rs, r))] = r
    BY <2>2, Appended
  <2>4. r.type = selected
    OBVIOUS
  <2> HIDE DEF r
  <2> QED BY <2>1, <2>2, <2>3, <2>4
<1>2. CASE index + 1 # ListLength
  BY <1>2 DEF showNextWord
<1> QED BY <1>1, <1>2

\* A used-up list has its successor on the way, in whatever order the
\* responses come, while none was lost (isaword.js 104-106).
THEOREM WordsNeverRunOut == Spec => []NeverOutOfWords
<1>1. Init => NeverOutOfWords
  BY DEF Init, NeverOutOfWords
<1>2. TypeOK /\ NeverOutOfWords /\ [Next]_vars => NeverOutOfWords'
  <2> SUFFICES ASSUME TypeOK, NeverOutOfWords, [Next]_vars PROVE NeverOutOfWords'
    OBVIOUS
  <2>1. ASSUME NEW guess, processGuess(guess) PROVE NeverOutOfWords'
    <3>1. nextWordIndex \in 0 .. ListLength - 1 /\ words \in Lists /\ requests \in Seq(Requests)
      BY <2>1, ClientAssumption DEF processGuess, TypeOK
    <3>2. showNextWord(words, nextWordIndex, requests)
      BY <2>1 DEF processGuess
    <3>4. lost' = lost
      BY <2>1 DEF processGuess, history
    <3>3. nextWordIndex' = ListLength => requests' # <<>>
      BY <3>1, <3>2, ShowNextKeeps
    <3> QED BY <3>3, <3>4 DEF NeverOutOfWords
  <2>2. ASSUME NEW guess, GuessWithoutNext(guess) PROVE NeverOutOfWords'
    BY <2>2 DEF GuessWithoutNext, NeverOutOfWords, history
  <2>3. ASSUME NEW t \in Types, ChangeType(t) PROVE NeverOutOfWords'
    <3>1. [type |-> t, refresh |-> TRUE] \in Requests
      BY DEF Requests
    <3>2. Append(requests, [type |-> t, refresh |-> TRUE]) # <<>>
      BY <3>1, Appended DEF TypeOK
    <3> QED BY <2>3, <3>2 DEF ChangeType, NeverOutOfWords, TypeOK, history
  <2>4. ASSUME NEW k, Loaded(k) PROVE NeverOutOfWords'
    <3>1. k \in 1 .. Len(requests) /\ words' \in Lists
      BY <2>4, LoadedType
    <3>2. RemoveAt(requests, k) \in Seq(Requests)
      BY <3>1, Removed DEF TypeOK
    <3>3. 0 \in 0 .. ListLength - 1 /\ ListLength # 0
      BY ClientAssumption
    <3>4. CASE requests[k].refresh
      <4>1. showNextWord(words', 0, RemoveAt(requests, k))
        BY <2>4, <3>4 DEF Loaded
      <4>2. nextWordIndex' = ListLength => requests' # <<>>
        BY <3>1, <3>2, <3>3, <4>1, ShowNextKeeps
      <4> QED BY <2>4, <4>2 DEF Loaded, NeverOutOfWords
    <3>5. CASE ~requests[k].refresh
      BY <2>4, <3>3, <3>5 DEF Loaded, NeverOutOfWords
    <3> QED BY <3>4, <3>5
  <2>5. ASSUME NEW k, Failed(k) PROVE NeverOutOfWords'
    BY <2>5 DEF Failed, NeverOutOfWords
  <2>6. CASE UNCHANGED vars
    BY <2>6 DEF vars, history, NeverOutOfWords
  <2> QED BY <2>1, <2>2, <2>3, <2>4, <2>5, <2>6 DEF Next, Guess, Response
<1> QED BY <1>1, <1>2, ClientTypeCorrect, PTL DEF Spec

LEMMA LastRequestNext ==
    ASSUME TypeOK, LastRequestAsSelected, [Next]_vars
    PROVE  LastRequestAsSelected'
<1>1. ASSUME NEW guess, processGuess(guess) PROVE LastRequestAsSelected'
  <2>1. nextWordIndex \in 0 .. ListLength - 1 /\ words \in Lists /\ requests \in Seq(Requests)
    BY <1>1, ClientAssumption DEF processGuess, TypeOK
  <2>2. showNextWord(words, nextWordIndex, requests) /\ selected' = selected /\ words' = words
        /\ UNCHANGED history
    BY <1>1 DEF processGuess
  <2>3. \/ requests' = requests
        \/ requests' # <<>> /\ requests'[Len(requests')].type = selected
    BY <2>1, <2>2, ShowNextKeeps
  <2> QED BY <2>2, <2>3 DEF LastRequestAsSelected, history
<1>2. ASSUME NEW guess, GuessWithoutNext(guess) PROVE LastRequestAsSelected'
  BY <1>2 DEF GuessWithoutNext, LastRequestAsSelected, history
<1>3. ASSUME NEW t, ChangeType(t) PROVE LastRequestAsSelected'
  <2> DEFINE r == [type |-> t, refresh |-> TRUE]
  <2>1. requests' = Append(requests, r) /\ selected' = t
    BY <1>3 DEF ChangeType
  <2>2. Append(requests, r) # <<>> /\ Append(requests, r)[Len(Append(requests, r))] = r
    BY DEF TypeOK
  <2> QED BY <1>3, <2>1, <2>2 DEF ChangeType, LastRequestAsSelected, history
\* The response to the oldest request: it is the only one, or the last stays.
<1>4. ASSUME NEW k, Loaded(k), ~lost', ~overtaken' PROVE LastRequestAsSelected'
  <2> DEFINE rest == RemoveAt(requests, k)
             n == Len(requests)
  <2>1. k = 1 /\ k \in 1 .. n /\ n \in Nat /\ words' \in Lists /\ words'.type = requests[1].type
    <3>1. k \in 1 .. n /\ n \in Nat /\ words' \in Lists /\ words'.type = requests[k].type
      BY <1>4, LoadedType DEF TypeOK
    <3>2. ~(k > 1)
      BY <1>4, Zenon DEF Loaded
    <3> HIDE DEF n
    <3>3. k = 1
      BY <3>1, <3>2
    <3> QED BY <3>1, <3>3
  <2>2. rest \in Seq(Requests) /\ Len(rest) = n - 1 /\ \A j \in 1 .. n - 1 : rest[j] = requests[j + 1]
    BY <2>1, Removed DEF TypeOK
  <2>3. requests[n].type = selected
    <3>1. ~lost /\ ~overtaken
      BY <1>4, Zenon DEF Loaded
    <3>2. requests # <<>>
      BY <2>1
    <3> QED BY <3>1, <3>2 DEF LastRequestAsSelected
  <2>4. IF rest = <<>> THEN words'.type = selected ELSE rest[Len(rest)].type = selected
    <3>1. CASE n = 1
      BY <2>1, <2>2, <2>3, <3>1
    <3>2. CASE n # 1
      <4>1. n - 1 \in 1 .. n - 1 /\ (n - 1) + 1 = n
        <5>1. n \in Nat /\ 1 <= n
          BY <2>1
        <5> HIDE DEF n
        <5> QED BY <3>2, <5>1
      <4>2. rest[n - 1] = requests[n]
        BY <2>2, <4>1
      <4> QED BY <2>2, <2>3, <4>1, <4>2
    <3> QED BY <3>1, <3>2
  <2>5. selected' = selected
    BY <1>4 DEF Loaded
  <2>6. CASE requests[k].refresh
    <3>1. showNextWord(words', 0, rest) /\ 0 \in 0 .. ListLength - 1
      BY <1>4, <2>6, ClientAssumption DEF Loaded
    <3>2. requests' = rest \/ (requests' # <<>> /\ requests'[Len(requests')].type = selected)
      BY <2>1, <2>2, <3>1, ShowNextKeeps
    <3> QED BY <2>4, <2>5, <3>2 DEF LastRequestAsSelected
  <2>7. CASE ~requests[k].refresh
    <3>1. requests' = rest
      BY <1>4, <2>7 DEF Loaded
    <3> QED BY <2>4, <2>5, <3>1 DEF LastRequestAsSelected
  <2> QED BY <2>6, <2>7
<1>5. CASE lost' \/ overtaken'
  BY <1>5 DEF LastRequestAsSelected
<1>6. ASSUME NEW k, Failed(k) PROVE lost'
  BY <1>6 DEF Failed
<1>7. CASE UNCHANGED vars
  BY <1>7 DEF vars, history, LastRequestAsSelected
<1> QED BY <1>1, <1>2, <1>3, <1>4, <1>5, <1>6, <1>7 DEF Next, Guess, Response

\* If no response was lost or overtook another, the list is of the selected
\* type as soon as no response is missing (isaword.js 25-37).
THEOREM ListFollowsSelection == Spec => []ListAsSelected
<1>1. Init => LastRequestAsSelected
  BY DEF Init, LastRequestAsSelected
<1>2. TypeOK /\ LastRequestAsSelected /\ [Next]_vars => LastRequestAsSelected'
  BY LastRequestNext
<1>3. LastRequestAsSelected => ListAsSelected
  BY DEF LastRequestAsSelected, ListAsSelected
<1> QED BY <1>1, <1>2, <1>3, ClientTypeCorrect, PTL DEF Spec
=============================================================================
