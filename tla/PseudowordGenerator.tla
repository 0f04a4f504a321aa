-------------------------- MODULE PseudowordGenerator --------------------------
(***************************************************************************)
(* The generator of made-up words (generator/pseudoword_generator.cpp).    *)
(* It counts, over the words of a dictionary, which letter follows which   *)
(* two characters, and makes a word by a random walk through these counts. *)
(* The last letter of a word follows the special character End ('$') that  *)
(* is put before it; Start ('^') stands for the letters before the first.  *)
(*                                                                         *)
(* The matrices are kept as the sets of their elements that are not 0: a   *)
(* random walk takes a column if its share of the row is not empty.  The   *)
(* random number p may be 0, which takes the first column in any case.     *)
(***************************************************************************)
EXTENDS Integers, Sequences

CONSTANTS
    Alphabet,       \* the letters (alphabet_)
    FirstLetter,    \* alphabet_[0], the letter of column 0
    Start, End,     \* the special characters '^' and '$'
    Samples,        \* the words that the dictionary may have
    Criteria,       \* the regular expressions
    Language,       \* Language[c]: the words that c matches
    MaxLengths,     \* the values of max_length; 0 is "no limit"
    MaxChars,       \* the bound of the length of a walk
    NoWord          \* no word was made yet

Requests == [criteria : Criteria, max_length : MaxLengths]

ASSUME GeneratorAssumption ==
    /\ FirstLetter \in Alphabet
    /\ Start \notin Alphabet /\ End \notin Alphabet /\ Start # End
    /\ Samples \subseteq Seq(Alphabet) \ {<<>>}
    /\ Language \in [Criteria -> SUBSET Seq(Alphabet)]
    /\ MaxLengths \subseteq Nat
    /\ MaxChars \in Nat
    /\ NoWord \notin Requests
    /\ NoWord \notin [word : Seq(Alphabet), request : Requests]

Rows == {<<Start, Start>>} \cup ({Start} \X Alphabet) \cup (Alphabet \X (Alphabet \cup {End}))
Columns == Alphabet \cup {End}

VARIABLES
    phase,              \* what the generator is doing
    dictionary,
    sampling_matrix,
    transition_matrix,
    preceding_chars,    \* shared by the training and the walks
    sample, i,          \* add_dictionary_word: its word and loop variable
    request,            \* make_word: its parameters
    word, is_at_last_character, num_chars,      \* make_word: the walk
    made,               \* the word that was returned last, and for what
    drew_zero           \* history: some random number was 0

training == <<dictionary, sampling_matrix>>
walk == <<word, is_at_last_character, num_chars>>
vars == <<phase, training, transition_matrix, preceding_chars, sample, i, request, walk,
          made, drew_zero>>

TypeOK ==
    /\ phase \in {"training", "adding", "ready", "walking", "checking", "undefined"}
    /\ dictionary \subseteq Samples
    /\ sampling_matrix \subseteq Rows \X Columns
    /\ transition_matrix \subseteq Rows \X Columns
    /\ sample \in Seq(Alphabet)
    /\ i \in Nat
    /\ request \in Requests
    /\ word \in Seq(Alphabet)
    /\ is_at_last_character \in BOOLEAN
    /\ num_chars \in Nat
    /\ drew_zero \in BOOLEAN

Init ==
    /\ phase = "training"
    /\ dictionary = {}
    /\ sampling_matrix = {}
    /\ transition_matrix = {}
    /\ preceding_chars = <<Start, Start>>
    /\ sample = <<>> /\ i = 0
    /\ request \in Requests
    /\ word = <<>> /\ is_at_last_character = FALSE /\ num_chars = 0
    /\ made = NoWord
    /\ drew_zero = FALSE

-----------------------------------------------------------------------------
(* add_dictionary_word.  A word that is empty or has other letters is      *)
(* refused before anything changes.                                        *)

set_word_start == preceding_chars' = <<Start, Start>>

\* set_next_char and set_next_char_end_of_word.
set_next_char(ch) == preceding_chars' = <<preceding_chars[2], ch>>

\* Mutant: the characters of the last word are left in preceding_chars_.
MutantAddWord(w) ==
    /\ phase = "training"
    /\ phase' = "adding"
    /\ dictionary' = dictionary \cup {w}
    /\ sample' = w /\ i' = 0
    /\ UNCHANGED <<sampling_matrix, transition_matrix, preceding_chars, request, walk, made,
                   drew_zero>>

\* add_dictionary_word up to its second loop.
AddWord(w) ==
    /\ phase = "training"
    /\ phase' = "adding"
    /\ dictionary' = dictionary \cup {w}
    /\ sample' = w /\ i' = 0
    /\ set_word_start
    /\ UNCHANGED <<sampling_matrix, transition_matrix, request, walk, made, drew_zero>>

\* The column of iteration i: all letters but the last, End, the last letter.
SampleColumn ==
    IF i < Len(sample) - 1 THEN sample[i + 1]
    ELSE IF i = Len(sample) - 1 THEN End
    ELSE sample[i]

\* Mutant: all letters come before End, and none after it.
MutantRecord ==
    LET column == IF i < Len(sample) THEN sample[i + 1] ELSE End IN
    /\ phase = "adding"
    /\ preceding_chars \in Rows
    /\ sampling_matrix' = sampling_matrix \cup {<<preceding_chars, column>>}
    /\ set_next_char(column)
    /\ i' = i + 1
    /\ phase' = IF i = Len(sample) THEN "training" ELSE "adding"
    /\ UNCHANGED <<dictionary, transition_matrix, sample, request, walk, made, drew_zero>>

\* An iteration of the second loop.
Record ==
    /\ phase = "adding"
    /\ preceding_chars \in Rows
    /\ sampling_matrix' = sampling_matrix \cup {<<preceding_chars, SampleColumn>>}
    /\ set_next_char(SampleColumn)
    /\ i' = i + 1
    /\ phase' = IF i = Len(sample) THEN "training" ELSE "adding"
    /\ UNCHANGED <<dictionary, transition_matrix, sample, request, walk, made, drew_zero>>

\* row_index() is -1, and an element before the matrix is incremented.
RecordOutside ==
    /\ phase = "adding"
    /\ preceding_chars \notin Rows
    /\ phase' = "undefined"
    /\ UNCHANGED <<training, transition_matrix, preceding_chars, sample, i, request, walk, made,
                   drew_zero>>

\* All words were added.  True is returned whether or not there were any.
prepare_for_generation ==
    /\ phase = "training"
    /\ phase' = "ready"
    /\ transition_matrix' = sampling_matrix
    /\ UNCHANGED <<training, preceding_chars, sample, i, request, walk, made, drew_zero>>

-----------------------------------------------------------------------------
(* make_word.                                                              *)

StartWalk ==
    /\ phase' = "walking"
    /\ word' = <<>> /\ is_at_last_character' = FALSE /\ num_chars' = 0
    /\ set_word_start
    /\ UNCHANGED <<training, transition_matrix, sample, i, drew_zero>>

make_word(r) ==
    /\ phase = "ready"
    /\ request' = r
    /\ made' = NoWord
    /\ StartWalk

\* Mutant: End is not counted, as it is no letter of the word.
MutantTake(column) ==
    /\ phase = "walking"
    /\ num_chars < MaxChars
    /\ word' = IF column = End THEN word ELSE Append(word, column)
    /\ is_at_last_character' = (is_at_last_character \/ column = End)
    /\ IF column # End /\ is_at_last_character THEN UNCHANGED preceding_chars
                                               ELSE set_next_char(column)
    /\ num_chars' = IF column = End THEN num_chars ELSE num_chars + 1
    /\ LET has_word_ended == column # End /\ is_at_last_character
           is_too_long == request.max_length > 0 /\ num_chars' > request.max_length
       IN  phase' = IF has_word_ended \/ is_too_long THEN "checking" ELSE "walking"
    /\ UNCHANGED <<training, transition_matrix, sample, i, request, made>>

\* The column of the row is taken.  The walk ends with the letter after End,
\* and, if there is a limit, with the first character beyond it.
Take(column) ==
    /\ phase = "walking"
    /\ num_chars < MaxChars
    /\ word' = IF column = End THEN word ELSE Append(word, column)
    /\ is_at_last_character' = (is_at_last_character \/ column = End)
    /\ IF column # End /\ is_at_last_character THEN UNCHANGED preceding_chars
                                               ELSE set_next_char(column)
    /\ num_chars' = num_chars + 1
    /\ LET has_word_ended == column # End /\ is_at_last_character
           is_too_long == request.max_length > 0 /\ num_chars' > request.max_length
       IN  phase' = IF has_word_ended \/ is_too_long THEN "checking" ELSE "walking"
    /\ UNCHANGED <<training, transition_matrix, sample, i, request, made>>

\* A column with a share of the row is drawn.
Draw(column) ==
    /\ <<preceding_chars, column>> \in transition_matrix
    /\ Take(column)
    /\ UNCHANGED drew_zero

\* The random number is 0, which is not greater than the first element.
DrawZero ==
    /\ Take(FirstLetter)
    /\ drew_zero' = TRUE

\* All elements of the row are 0: the search runs on into the rows behind it
\* and takes a letter from beyond the alphabet.
RunOff ==
    /\ phase = "walking"
    /\ \A column \in Columns : <<preceding_chars, column>> \notin transition_matrix
    /\ phase' = "undefined"
    /\ UNCHANGED <<training, transition_matrix, preceding_chars, sample, i, request, walk, made,
                   drew_zero>>

\* Mutant: a word that became too long is returned as it is.
MutantReturn ==
    /\ phase = "checking"
    /\ word \notin dictionary \/ num_chars = request.max_length + 1
    /\ word \in Language[request.criteria]
    /\ phase' = "ready"
    /\ made' = [word |-> word, request |-> request]
    /\ UNCHANGED <<training, transition_matrix, preceding_chars, sample, i, request, walk,
                   drew_zero>>

\* Mutant: it is not looked at whether the word is one of the dictionary.
MutantReturnKnown ==
    /\ phase = "checking"
    /\ word \in Language[request.criteria]
    /\ phase' = "ready"
    /\ made' = [word |-> word, request |-> request]
    /\ UNCHANGED <<training, transition_matrix, preceding_chars, sample, i, request, walk,
                   drew_zero>>

\* The word is returned.  The "continue" for a word that became too long goes
\* to the test of the loop, so such a word is treated like any other.
Return ==
    /\ phase = "checking"
    /\ word \notin dictionary
    /\ word \in Language[request.criteria]
    /\ phase' = "ready"
    /\ made' = [word |-> word, request |-> request]
    /\ UNCHANGED <<training, transition_matrix, preceding_chars, sample, i, request, walk,
                   drew_zero>>

\* A word of the dictionary, or one that does not match: once more.
TryAgain ==
    /\ phase = "checking"
    /\ word \in dictionary \/ word \notin Language[request.criteria]
    /\ StartWalk
    /\ UNCHANGED <<request, made>>

-----------------------------------------------------------------------------
Next ==
    \/ \E w \in Samples : AddWord(w)
    \/ Record
    \/ RecordOutside
    \/ prepare_for_generation
    \/ \E r \in Requests : make_word(r)
    \/ \E column \in Columns : Draw(column)
    \/ DrawZero
    \/ RunOff
    \/ Return
    \/ TryAgain

Spec == Init /\ [][Next]_vars

-----------------------------------------------------------------------------
(* Properties.                                                             *)

\* A word as the generator spells it: two Starts, all letters but the last,
\* End, and the last letter.
Spelling(w) ==
    [k \in 1 .. Len(w) + 3 |->
        IF k <= 2 THEN Start
        ELSE IF k <= Len(w) + 1 THEN w[k - 2]
        ELSE IF k = Len(w) + 2 THEN End
        ELSE w[Len(w)]]

\* The steps of a spelling: two characters and the one that follows them.
Step(w, k) == <<<<Spelling(w)[k], Spelling(w)[k + 1]>>, Spelling(w)[k + 2]>>

Steps(w, n) == {Step(w, k) : k \in 1 .. n}

AllSteps(w) == Steps(w, Len(w) + 1)

\* Between two words, the sampling matrix has exactly the steps of the words
\* of the dictionary (the test add_all_words, generator/tests.cpp 558-584,
\* looks at one dictionary of three words).
DictionarySampled ==
    phase \notin {"adding", "undefined"} =>
        sampling_matrix = UNION {AllSteps(v) : v \in dictionary}

HasOneLetterWord == \E v \in dictionary : Len(v) = 1

\* A walk never leaves the rows that were seen, nor the training the matrix,
\* unless there is no word, or one of a single letter, or a random number was
\* exactly 0.
WalkStaysInside ==
    phase = "undefined" => dictionary = {} \/ HasOneLetterWord \/ drew_zero

\* A word that was made is new and matches the criteria, and every step of
\* its spelling is one of a dictionary word, unless it was limited in length
\* (pseudoword_generator.h 168-182).
MadeWordsFit ==
    made # NoWord =>
        /\ made.word \notin dictionary
        /\ made.word \in Language[made.request.criteria]
        /\ made.request.max_length = 0 /\ ~drew_zero =>
             \A step \in AllSteps(made.word) : \E v \in dictionary : step \in AllSteps(v)

\* A word is longer than the maximum that was asked for by one letter at most,
\* although a walk that is too long is not made again: it was cut before
\* (pseudoword_generator.cpp 197-209).
OverrunByOne ==
    made # NoWord /\ made.request.max_length > 0 =>
        Len(made.word) <= made.request.max_length + 1

\* In some row of the matrix a walk has a choice.
Choice == \E a, b \in sampling_matrix : a[1] = b[1] /\ a[2] # b[2]

\* A word comes of a choice: if the dictionary leaves none (one word, say),
\* each walk repeats a word of the dictionary, and make_word goes on for ever
\* (pseudoword_generator.cpp 211), unless walks are cut or a random number is 0.
NewNeedsChoice ==
    made # NoWord /\ made.request.max_length = 0 /\ ~drew_zero => Choice

\* What users are promised of the length (pseudoword_generator.h 173, 182;
\* word_picker.h 155).  The code does not keep it (pseudoword_generator.cpp 208).
MaximumKept ==
    made # NoWord /\ made.request.max_length > 0 =>
        Len(made.word) <= made.request.max_length

Maker == INSTANCE WordMaker WITH
    prepared <- phase \notin {"training", "adding"},
    asked    <- IF phase \in {"walking", "checking"} THEN request ELSE NoWord

\* The answer is a walk that was cut before it came to the end of its word.
AnswerCutWalk == ~is_at_last_character /\ Maker!AnswerTooLong

\* The generator keeps the promise of WordMaker with one exception.  However many
\* walks it takes, a question is answered once at most, with a word that is new,
\* matches this question, is not the empty word that a walk begins with, and is
\* within the maximum, unless it is a cut walk: that may have a letter too many.  A
\* word that came to its end is never too long, although End is counted too.
MakesSuitableWords == Maker!Init /\ [][Maker!Next \/ AnswerCutWalk]_(Maker!vars)

-----------------------------------------------------------------------------
(* The inductive invariant behind the properties.                          *)

\* While a word is added its first i steps are recorded; of the other words
\* all steps are.
AddingInv ==
    phase = "adding" =>
        /\ sample \in dictionary
        /\ i \in 0 .. Len(sample)
        /\ preceding_chars = <<Spelling(sample)[i + 1], Spelling(sample)[i + 2]>>
        /\ Steps(sample, i) \subseteq sampling_matrix

MatrixInv ==
    /\ \A v \in dictionary :
         phase # "undefined" /\ ~(phase = "adding" /\ v = sample) =>
             AllSteps(v) \subseteq sampling_matrix
    /\ \A step \in sampling_matrix : \E v \in dictionary : step \in AllSteps(v)
    /\ phase \in {"ready", "walking", "checking"} => transition_matrix = sampling_matrix

\* The walk so far, spelled.
Spelled ==
    [k \in 1 .. Len(word) + 3 |->
        IF k <= 2 THEN Start ELSE IF k <= Len(word) + 2 THEN word[k - 2] ELSE End]

Walked == IF is_at_last_character THEN Len(word) + 1 ELSE Len(word)

\* Each step of a walk was drawn from the matrix, and the next one starts
\* where the last one ended.
WalkInv ==
    /\ phase = "walking" /\ ~drew_zero =>
         /\ preceding_chars = <<Spelled[Walked + 1], Spelled[Walked + 2]>>
         /\ \A k \in 1 .. Walked :
              <<<<Spelled[k], Spelled[k + 1]>>, Spelled[k + 2]>> \in transition_matrix
    /\ phase = "checking" /\ ~drew_zero /\ request.max_length = 0 =>
         AllSteps(word) \subseteq transition_matrix

\* A walk without a letter has drawn End at most, and then it is at no row.
LetterInv ==
    /\ phase = "walking" /\ num_chars = 0 => preceding_chars = <<Start, Start>>
    /\ phase = "walking" /\ word = <<>> =>
         num_chars = 0 \/ (num_chars = 1 /\ preceding_chars = <<Start, End>>)
    /\ phase = "checking" => word # <<>>

\* Without a choice a walk follows every word of the dictionary to its end.
FollowsInv ==
    ~Choice /\ ~drew_zero =>
        /\ phase = "walking" =>
             \A v \in dictionary :
                /\ Walked <= Len(v)
                /\ \A k \in 1 .. Walked + 2 : Spelled[k] = Spelling(v)[k]
        /\ phase = "checking" /\ request.max_length = 0 => word \in dictionary
        /\ made # NoWord => made.request.max_length # 0

\* A walk goes on only within the limit.
LimitInv ==
    /\ Len(word) <= num_chars
    /\ is_at_last_character => Len(word) < num_chars
    /\ phase = "walking" /\ request.max_length > 0 => num_chars <= request.max_length
    /\ phase = "checking" /\ request.max_length > 0 => num_chars <= request.max_length + 1
    /\ OverrunByOne

GeneratorInv ==
    /\ TypeOK
    /\ AddingInv
    /\ MatrixInv
    /\ WalkInv
    /\ made # NoWord => phase = "ready"
    /\ WalkStaysInside
    /\ MadeWordsFit
=============================================================================
