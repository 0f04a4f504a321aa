---------------------- MODULE PseudowordGenerator_proofs ----------------------
(***************************************************************************)
(* Proofs about PseudowordGenerator, for any alphabet, any dictionary and  *)
(* walks of any length: the matrix has exactly the steps of the words, a   *)
(* walk stays inside it, and what is made looks like a word.               *)
(***************************************************************************)
EXTENDS PseudowordGenerator, TLAPS

-----------------------------------------------------------------------------
(* Spellings.                                                              *)

LEMMA StepsOf ==
    \A w, n, s : s \in Steps(w, n) <=> \E k \in 1 .. n : s = Step(w, k)
BY DEF Steps

\* What is where in the spelling of a word.
LEMMA SpellingOf ==
    ASSUME NEW w \in Seq(Alphabet), Len(w) >= 1
    PROVE  /\ Spelling(w)[1] = Start /\ Spelling(w)[2] = Start
           /\ \A k \in 3 .. Len(w) + 1 : Spelling(w)[k] = w[k - 2] /\ w[k - 2] \in Alphabet
           /\ Spelling(w)[Len(w) + 2] = End
           /\ Spelling(w)[Len(w) + 3] = w[Len(w)] /\ w[Len(w)] \in Alphabet
           /\ \A k \in 3 .. Len(w) + 3 : Spelling(w)[k] \in Columns
<1> DEFINE n == Len(w)
<1>1. n \in Nat /\ n >= 1 /\ \A j \in 1 .. n : w[j] \in Alphabet
  OBVIOUS
<1>2. \A k \in 1 .. n + 3 : Spelling(w)[k] =
        IF k <= 2 THEN Start ELSE IF k <= n + 1 THEN w[k - 2] ELSE IF k = n + 2 THEN End ELSE w[n]
  BY DEF Spelling
<1> HIDE DEF n
<1>3. Spelling(w)[1] = Start /\ Spelling(w)[2] = Start
  <2>1. 1 \in 1 .. n + 3 /\ 2 \in 1 .. n + 3
    BY <1>1
  <2> QED BY <1>2, <2>1
<1>4. ASSUME NEW k \in 3 .. n + 1 PROVE Spelling(w)[k] = w[k - 2] /\ w[k - 2] \in Alphabet
  <2>1. k \in 1 .. n + 3 /\ ~(k <= 2) /\ k <= n + 1 /\ k - 2 \in 1 .. n
    BY <1>1
  <2> QED BY <1>1, <1>2, <2>1
<1>5. Spelling(w)[n + 2] = End
  <2>1. n + 2 \in 1 .. n + 3 /\ ~(n + 2 <= 2) /\ ~(n + 2 <= n + 1)
    BY <1>1
  <2> QED BY <1>2, <2>1
<1>6. Spelling(w)[n + 3] = w[n] /\ w[n] \in Alphabet
  <2>1. n + 3 \in 1 .. n + 3 /\ ~(n + 3 <= 2) /\ ~(n + 3 <= n + 1) /\ n + 3 # n + 2 /\ n \in 1 .. n
    BY <1>1
  <2> QED BY <1>1, <1>2, <2>1
<1>7. ASSUME NEW k \in 3 .. n + 3 PROVE Spelling(w)[k] \in Columns
  <2>1. k \in 3 .. n + 1 \/ k = n + 2 \/ k = n + 3
    BY <1>1
  <2> QED BY <1>4, <1>5, <1>6, <2>1 DEF Columns
<1> QED BY <1>3, <1>4, <1>5, <1>6, <1>7 DEF n

\* Every step but the last is followed by another one, and only in the last
\* one the second character is End.
LEMMA NextStep ==
    ASSUME NEW w \in Seq(Alphabet), Len(w) >= 1, NEW k \in 1 .. Len(w) + 1
    PROVE  /\ Step(w, k)[2] \in Columns
           /\ k <= Len(w) => /\ k + 1 \in 1 .. Len(w) + 1
                             /\ Step(w, k + 1)[1] = <<Step(w, k)[1][2], Step(w, k)[2]>>
                             /\ Step(w, k)[1][2] # End
           /\ k = Len(w) + 1 => Step(w, k)[1][2] = End /\ Step(w, k)[2] \in Alphabet
<1> DEFINE n == Len(w)
<1>1. n \in Nat /\ n >= 1 /\ k \in Nat /\ k >= 1 /\ k <= n + 1
  OBVIOUS
<1>2. Step(w, k) = <<<<Spelling(w)[k], Spelling(w)[k + 1]>>, Spelling(w)[k + 2]>>
      /\ Step(w, k + 1) = <<<<Spelling(w)[k + 1], Spelling(w)[(k + 1) + 1]>>, Spelling(w)[(k + 1) + 2]>>
  BY DEF Step
<1>3. (k + 1) + 1 = k + 2 /\ k + 2 \in 3 .. n + 3
  BY <1>1
<1>4. Spelling(w)[k + 2] \in Columns
  BY <1>3, SpellingOf
<1>5. ASSUME k <= n PROVE k + 1 \in 1 .. n + 1 /\ Spelling(w)[k + 1] # End
  <2>1. k + 1 \in 1 .. n + 1 /\ (k + 1 = 2 \/ k + 1 \in 3 .. n + 1)
    BY <1>1, <1>5
  <2>2. Spelling(w)[k + 1] = Start \/ Spelling(w)[k + 1] \in Alphabet
    BY <2>1, SpellingOf
  <2> QED BY <2>1, <2>2, GeneratorAssumption
<1>6. ASSUME k = n + 1 PROVE Spelling(w)[k + 1] = End /\ Spelling(w)[k + 2] \in Alphabet
  <2>1. k + 1 = n + 2 /\ k + 2 = n + 3
    BY <1>1, <1>6
  <2> QED BY <2>1, SpellingOf
<1> QED BY <1>2, <1>3, <1>4, <1>5, <1>6

-----------------------------------------------------------------------------
(* The training.                                                           *)

\* Words of the dictionary have letters.
LEMMA DictionaryWords ==
    ASSUME TypeOK, NEW v \in dictionary
    PROVE  v \in Seq(Alphabet) /\ Len(v) \in Nat /\ Len(v) >= 1
<1>1. v \in Seq(Alphabet) /\ v # <<>>
  BY GeneratorAssumption DEF TypeOK
<1>2. Len(v) \in Nat /\ Len(v) # 0
  BY <1>1
<1> QED BY <1>1, <1>2

\* The column of an iteration is the next character of the spelling.
LEMMA ColumnSpelled ==
    ASSUME TypeOK, AddingInv, phase = "adding"
    PROVE  SampleColumn = Spelling(sample)[i + 3] /\ SampleColumn \in Columns
<1> DEFINE n == Len(sample)
<1>1. sample \in Seq(Alphabet) /\ n \in Nat /\ n >= 1 /\ i \in Nat /\ i <= n
  BY DictionaryWords DEF AddingInv
<1>2. SampleColumn = Spelling(sample)[i + 3]
  <2>1. CASE i < n - 1
    <3>1. i + 3 \in 3 .. n + 1 /\ (i + 3) - 2 = i + 1
      BY <1>1, <2>1
    <3>2. Spelling(sample)[i + 3] = sample[i + 1]
      BY <1>1, <3>1, SpellingOf
    <3> QED BY <2>1, <3>2 DEF SampleColumn
  <2>2. CASE i = n - 1
    <3>1. i + 3 = n + 2 /\ ~(i < n - 1)
      BY <1>1, <2>2
    <3>2. Spelling(sample)[i + 3] = End
      BY <1>1, <3>1, SpellingOf
    <3> QED BY <2>2, <3>1, <3>2 DEF SampleColumn
  <2>3. CASE i = n
    <3>1. i + 3 = n + 3 /\ ~(i < n - 1) /\ i # n - 1
      BY <1>1, <2>3
    <3>2. Spelling(sample)[i + 3] = sample[i]
      BY <1>1, <2>3, <3>1, SpellingOf
    <3> QED BY <3>1, <3>2 DEF SampleColumn
  <2> QED BY <1>1, <2>1, <2>2, <2>3
<1>3. i + 3 \in 3 .. n + 3
  BY <1>1
<1> QED BY <1>1, <1>2, <1>3, SpellingOf

LEMMA AddWordInv ==
    ASSUME GeneratorInv, NEW w \in Samples, AddWord(w) PROVE GeneratorInv'
<1>1. /\ phase = "training" /\ phase' = "adding" /\ dictionary' = dictionary \cup {w}
      /\ sample' = w /\ i' = 0 /\ preceding_chars' = <<Start, Start>>
      /\ UNCHANGED <<sampling_matrix, transition_matrix, request, word, is_at_last_character,
                     num_chars, made, drew_zero>>
  BY DEF AddWord, set_word_start, walk
<1>2. w \in Seq(Alphabet) /\ w # <<>>
  BY GeneratorAssumption
<1>3. TypeOK'
  BY <1>1, <1>2 DEF GeneratorInv, TypeOK
<1>4. Len(w) \in Nat /\ Len(w) >= 1
  <2>1. Len(w) \in Nat /\ Len(w) # 0
    BY <1>2
  <2> QED BY <2>1
<1>5. AddingInv'
  <2>1. 0 + 1 = 1 /\ 0 + 2 = 2 /\ 0 \in 0 .. Len(w)
    BY <1>4
  <2>2. Steps(w, 0) = {}
    BY DEF Steps
  <2>3. Spelling(w)[1] = Start /\ Spelling(w)[2] = Start
    BY <1>2, <1>4, SpellingOf
  <2> QED BY <1>1, <2>1, <2>2, <2>3 DEF AddingInv
<1>6. MatrixInv'
  BY <1>1 DEF GeneratorInv, MatrixInv
<1>7. WalkInv' /\ WalkStaysInside'
  BY <1>1 DEF WalkInv, WalkStaysInside
<1>8. made = NoWord
  BY <1>1 DEF GeneratorInv
<1>9. MadeWordsFit'
  BY <1>1, <1>8 DEF MadeWordsFit
<1> QED BY <1>1, <1>3, <1>5, <1>6, <1>7, <1>8, <1>9 DEF GeneratorInv

LEMMA RecordInv == ASSUME GeneratorInv, Record PROVE GeneratorInv'
<1> DEFINE n == Len(sample)
           step == <<preceding_chars, SampleColumn>>
<1>1. /\ phase = "adding" /\ preceding_chars \in Rows
      /\ sampling_matrix' = sampling_matrix \cup {step}
      /\ preceding_chars' = <<preceding_chars[2], SampleColumn>>
      /\ i' = i + 1
      /\ phase' = (IF i = n THEN "training" ELSE "adding")
      /\ UNCHANGED <<dictionary, transition_matrix, sample, request, word,
                     is_at_last_character, num_chars, made, drew_zero>>
  BY DEF Record, set_next_char, walk
<1>2. TypeOK /\ AddingInv /\ MatrixInv
  BY DEF GeneratorInv
<1>3. /\ sample \in dictionary /\ i \in 0 .. n
      /\ preceding_chars = <<Spelling(sample)[i + 1], Spelling(sample)[i + 2]>>
      /\ Steps(sample, i) \subseteq sampling_matrix
  BY <1>1, <1>2 DEF AddingInv
<1>4. sample \in Seq(Alphabet) /\ n \in Nat /\ n >= 1 /\ i \in Nat /\ i <= n
  BY <1>2, <1>3, DictionaryWords
<1>5. SampleColumn = Spelling(sample)[i + 3] /\ SampleColumn \in Columns
  BY <1>1, <1>2, ColumnSpelled
<1>6. step = Step(sample, i + 1) /\ (i + 1) + 1 = i + 2 /\ (i + 1) + 2 = i + 3
  <2>1. (i + 1) + 1 = i + 2 /\ (i + 1) + 2 = i + 3
    BY <1>4
  <2> QED BY <1>3, <1>5, <2>1 DEF Step
<1>7. Steps(sample, i + 1) \subseteq sampling_matrix'
  <2>1. ASSUME NEW k \in 1 .. i + 1 PROVE Step(sample, k) \in sampling_matrix'
    <3>1. k = i + 1 \/ k \in 1 .. i
      BY <1>4
    <3>2. CASE k \in 1 .. i
      BY <1>1, <1>3, <3>2, StepsOf
    <3> QED BY <1>1, <1>6, <3>1, <3>2
  <2> QED BY <2>1, StepsOf
<1>8. TypeOK'
  <2>1. step \in Rows \X Columns
    BY <1>1, <1>5
  <2>2. phase' \in {"training", "adding"}
    BY <1>1
  <2>3. i' \in Nat
    BY <1>1, <1>4
  <2> HIDE DEF step
  <2> QED BY <1>1, <1>2, <2>1, <2>2, <2>3 DEF TypeOK
<1>9. AddingInv'
  <2>1. SUFFICES ASSUME i # n PROVE AddingInv'
    BY <1>1 DEF AddingInv
  <2>2. i + 1 \in 0 .. n
    BY <1>4, <2>1
  <2>3. preceding_chars' = <<Spelling(sample)[i + 2], Spelling(sample)[i + 3]>>
    BY <1>1, <1>3, <1>5
  <2> QED BY <1>1, <1>3, <1>6, <1>7, <2>2, <2>3 DEF AddingInv
<1>10. MatrixInv'
  <2>1. ASSUME NEW v \in dictionary', phase' # "undefined", ~(phase' = "adding" /\ v = sample')
        PROVE  AllSteps(v) \subseteq sampling_matrix'
    <3>1. CASE v = sample
      BY <1>1, <1>7, <2>1, <3>1 DEF AllSteps
    <3>2. CASE v # sample
      BY <1>1, <1>2, <2>1, <3>2 DEF MatrixInv
    <3> QED BY <3>1, <3>2
  <2>2. step \in AllSteps(sample)
    <3>1. i + 1 \in 1 .. n + 1
      BY <1>4
    <3> QED BY <1>6, <3>1, StepsOf DEF AllSteps
  <2>3. \A s \in sampling_matrix' : \E v \in dictionary' : s \in AllSteps(v)
    <3> HIDE DEF step
    <3> QED BY <1>1, <1>2, <1>3, <2>2 DEF MatrixInv
  <2>4. phase' \notin {"ready", "walking", "checking"}
    BY <1>1
  <2> QED BY <2>1, <2>3, <2>4 DEF MatrixInv
<1>11. WalkInv' /\ WalkStaysInside'
  BY <1>1 DEF WalkInv, WalkStaysInside
<1>12. made = NoWord
  BY <1>1 DEF GeneratorInv
<1>13. MadeWordsFit'
  BY <1>1, <1>12 DEF MadeWordsFit
<1> QED BY <1>1, <1>8, <1>9, <1>10, <1>11, <1>12, <1>13 DEF GeneratorInv

\* Only for a word of a single letter the row is not in the matrix.
LEMMA RecordOutsideInv == ASSUME GeneratorInv, RecordOutside PROVE GeneratorInv'
<1> DEFINE n == Len(sample)
<1>1. /\ phase = "adding" /\ preceding_chars \notin Rows /\ phase' = "undefined"
      /\ UNCHANGED <<dictionary, sampling_matrix, transition_matrix, preceding_chars, sample, i,
                     request, word, is_at_last_character, num_chars, made, drew_zero>>
  BY DEF RecordOutside, training, walk
<1>2. TypeOK /\ AddingInv /\ MatrixInv
  BY DEF GeneratorInv
<1>3. /\ sample \in dictionary /\ i \in 0 .. n
      /\ preceding_chars = <<Spelling(sample)[i + 1], Spelling(sample)[i + 2]>>
  BY <1>1, <1>2 DEF AddingInv
<1>4. sample \in Seq(Alphabet) /\ n \in Nat /\ n >= 1 /\ i \in Nat /\ i <= n
  BY <1>2, <1>3, DictionaryWords
<1>5. n = 1
  <2>1. SUFFICES ASSUME n >= 2 PROVE FALSE
    BY <1>4
  <2>2. CASE i = 0
    <3>1. Spelling(sample)[i + 1] = Start /\ Spelling(sample)[i + 2] = Start
      BY <1>4, <2>2, SpellingOf
    <3> QED BY <1>1, <1>3, <3>1 DEF Rows
  <2>3. CASE i = 1
    <3>1. i + 1 = 2 /\ i + 2 \in 3 .. n + 1
      BY <1>4, <2>1, <2>3
    <3>2. Spelling(sample)[i + 1] = Start /\ Spelling(sample)[i + 2] \in Alphabet
      BY <1>4, <3>1, SpellingOf
    <3> QED BY <1>1, <1>3, <3>2 DEF Rows
  <2>4. CASE i >= 2
    <3>1. i + 1 \in 3 .. n + 1 /\ (i + 2 \in 3 .. n + 1 \/ i + 2 = n + 2)
      BY <1>4, <2>4
    <3>2. Spelling(sample)[i + 1] \in Alphabet /\ Spelling(sample)[i + 2] \in Alphabet \cup {End}
      BY <1>4, <3>1, SpellingOf
    <3> QED BY <1>1, <1>3, <3>2 DEF Rows
  <2> QED BY <1>4, <2>2, <2>3, <2>4
<1>6. TypeOK' /\ AddingInv' /\ MatrixInv' /\ WalkInv'
  BY <1>1, <1>2 DEF TypeOK, AddingInv, MatrixInv, WalkInv
<1>7. WalkStaysInside'
  BY <1>1, <1>3, <1>5 DEF WalkStaysInside, HasOneLetterWord
<1>8. made = NoWord
  BY <1>1 DEF GeneratorInv
<1>9. MadeWordsFit'
  BY <1>1, <1>8 DEF MadeWordsFit
<1> QED BY <1>1, <1>6, <1>7, <1>8, <1>9 DEF GeneratorInv

LEMMA PrepareInv == ASSUME GeneratorInv, prepare_for_generation PROVE GeneratorInv'
<1>1. /\ phase = "training" /\ phase' = "ready" /\ transition_matrix' = sampling_matrix
      /\ UNCHANGED <<dictionary, sampling_matrix, preceding_chars, sample, i, request, word,
                     is_at_last_character, num_chars, made, drew_zero>>
  BY DEF prepare_for_generation, training, walk
<1>2. TypeOK'
  BY <1>1 DEF GeneratorInv, TypeOK
<1>3. AddingInv' /\ WalkInv' /\ WalkStaysInside'
  BY <1>1 DEF AddingInv, WalkInv, WalkStaysInside
<1>4. MatrixInv'
  BY <1>1 DEF GeneratorInv, MatrixInv
<1>5. MadeWordsFit'
  BY <1>1 DEF GeneratorInv, MadeWordsFit
<1> QED BY <1>1, <1>2, <1>3, <1>4, <1>5 DEF GeneratorInv

-----------------------------------------------------------------------------
(* The walks.                                                              *)

LEMMA StartWalkInv ==
    ASSUME GeneratorInv, StartWalk, phase \in {"ready", "checking"}, request' \in Requests,
           made' = NoWord
    PROVE  GeneratorInv'
<1>1. /\ phase' = "walking" /\ word' = <<>> /\ is_at_last_character' = FALSE /\ num_chars' = 0
      /\ preceding_chars' = <<Start, Start>>
      /\ UNCHANGED <<dictionary, sampling_matrix, transition_matrix, sample, i, drew_zero>>
  BY DEF StartWalk, set_word_start, training
<1>2. TypeOK'
  <2>1. <<>> \in Seq(Alphabet) /\ 0 \in Nat
    OBVIOUS
  <2>2. /\ word' \in Seq(Alphabet) /\ num_chars' \in Nat
        /\ is_at_last_character' \in BOOLEAN /\ phase' \in {"walking"}
    BY <1>1, <2>1
  <2> QED BY <1>1, <2>2 DEF GeneratorInv, TypeOK
<1>3. AddingInv' /\ WalkStaysInside' /\ MadeWordsFit'
  BY <1>1 DEF AddingInv, WalkStaysInside, MadeWordsFit
<1>4. MatrixInv'
  BY <1>1 DEF GeneratorInv, MatrixInv
<1>5. WalkInv'
  <2>1. Walked' = 0
    BY <1>1 DEF Walked
  <2>2. Spelled'[1] = Start /\ Spelled'[2] = Start
    <3>1. Len(word') = 0
      BY <1>1
    <3> QED BY <3>1 DEF Spelled
  <2> QED BY <1>1, <2>1, <2>2 DEF WalkInv
<1> QED BY <1>1, <1>2, <1>3, <1>4, <1>5 DEF GeneratorInv

LEMMA TakeType ==
    ASSUME TypeOK, NEW column \in Columns, Take(column), drew_zero' \in BOOLEAN
    PROVE  TypeOK'
<1>1. UNCHANGED <<dictionary, sampling_matrix, transition_matrix, sample, i, request>>
  BY DEF Take, training
<1>2. phase' \in {"checking", "walking"}
  BY DEF Take
<1>3. word' \in Seq(Alphabet)
  <2>1. word \in Seq(Alphabet) /\ (column # End => column \in Alphabet)
    BY DEF TypeOK, Columns
  <2>2. word' = IF column = End THEN word ELSE Append(word, column)
    BY DEF Take
  <2> QED BY <2>1, <2>2
<1>4. is_at_last_character' \in BOOLEAN
  BY DEF Take
<1>5. num_chars' \in Nat
  BY DEF Take, TypeOK
<1> QED BY <1>1, <1>2, <1>3, <1>4, <1>5 DEF TypeOK

\* What a step of a walk leaves alone.
LEMMA TakeKeeps ==
    ASSUME GeneratorInv, NEW column \in Columns, Take(column), drew_zero' \in BOOLEAN, WalkInv'
    PROVE  GeneratorInv'
<1>1. /\ phase = "walking" /\ phase' \in {"checking", "walking"}
      /\ UNCHANGED <<dictionary, sampling_matrix, transition_matrix, sample, i, request, made>>
  BY DEF Take, training
<1>2. TypeOK'
  BY TakeType DEF GeneratorInv
<1>3. AddingInv' /\ WalkStaysInside'
  BY <1>1 DEF AddingInv, WalkStaysInside
<1>4. MatrixInv'
  BY <1>1 DEF GeneratorInv, MatrixInv
<1>5. made = NoWord
  BY <1>1 DEF GeneratorInv
<1>6. MadeWordsFit'
  BY <1>1, <1>5 DEF MadeWordsFit
<1> QED BY <1>1, <1>2, <1>3, <1>4, <1>5, <1>6 DEF GeneratorInv

LEMMA DrawZeroInv == ASSUME GeneratorInv, DrawZero PROVE GeneratorInv'
<1>1. Take(FirstLetter) /\ drew_zero' = TRUE
  BY DEF DrawZero
<1>2. FirstLetter \in Columns
  BY GeneratorAssumption DEF Columns
<1>3. WalkInv'
  BY <1>1 DEF WalkInv
<1> QED BY <1>1, <1>2, <1>3, TakeKeeps

\* The walk so far, by places.
LEMMA SpelledOf ==
    ASSUME TypeOK
    PROVE  /\ Len(word) \in Nat
           /\ Spelled[1] = Start /\ Spelled[2] = Start
           /\ \A k \in 3 .. Len(word) + 2 : Spelled[k] = word[k - 2] /\ word[k - 2] \in Alphabet
           /\ Spelled[Len(word) + 3] = End
<1> DEFINE m == Len(word)
<1>1. m \in Nat /\ \A j \in 1 .. m : word[j] \in Alphabet
  BY DEF TypeOK
<1>2. \A k \in 1 .. m + 3 :
        Spelled[k] = IF k <= 2 THEN Start ELSE IF k <= m + 2 THEN word[k - 2] ELSE End
  BY DEF Spelled
<1> HIDE DEF m
<1>3. Spelled[1] = Start /\ Spelled[2] = Start
  <2>1. 1 \in 1 .. m + 3 /\ 2 \in 1 .. m + 3
    BY <1>1
  <2> QED BY <1>2, <2>1
<1>4. ASSUME NEW k \in 3 .. m + 2 PROVE Spelled[k] = word[k - 2] /\ word[k - 2] \in Alphabet
  <2>1. k \in 1 .. m + 3 /\ ~(k <= 2) /\ k <= m + 2 /\ k - 2 \in 1 .. m
    BY <1>1
  <2> QED BY <1>1, <1>2, <2>1
<1>5. Spelled[m + 3] = End
  <2>1. m + 3 \in 1 .. m + 3 /\ ~(m + 3 <= 2) /\ ~(m + 3 <= m + 2)
    BY <1>1
  <2> QED BY <1>2, <2>1
<1> QED BY <1>1, <1>3, <1>4, <1>5 DEF m

\* In a row whose second character is End, only letters follow.
LEMMA LetterAfterEnd ==
    ASSUME TypeOK, MatrixInv, NEW step \in sampling_matrix, step[1][2] = End
    PROVE  step[2] # End
<1>1. PICK v \in dictionary : step \in AllSteps(v)
  BY DEF MatrixInv
<1>2. PICK k \in 1 .. Len(v) + 1 : step = Step(v, k)
  BY <1>1, StepsOf DEF AllSteps
<1>3. v \in Seq(Alphabet) /\ Len(v) \in Nat /\ Len(v) >= 1
  BY DictionaryWords
<1>4. ~(k <= Len(v))
  BY <1>2, <1>3, NextStep
<1>5. k = Len(v) + 1
  BY <1>3, <1>4
<1> QED BY <1>2, <1>3, <1>5, NextStep, GeneratorAssumption

LEMMA DrawInv ==
    ASSUME GeneratorInv, NEW column \in Columns, Draw(column) PROVE GeneratorInv'
<1> DEFINE m == Len(word)
           T == transition_matrix
           P == Spelled
<1>1. /\ <<preceding_chars, column>> \in T /\ Take(column) /\ drew_zero' = drew_zero
      /\ phase = "walking" /\ T' = T /\ request' = request
  BY DEF Draw, Take
<1>2. TypeOK /\ MatrixInv /\ WalkInv /\ TypeOK'
  <2>1. TypeOK /\ MatrixInv /\ WalkInv /\ drew_zero' \in BOOLEAN
    BY <1>1 DEF GeneratorInv, TypeOK
  <2> QED BY <1>1, <2>1, TakeType
<1>3. SUFFICES ASSUME ~drew_zero PROVE WalkInv'
  <2>1. drew_zero' \in BOOLEAN
    BY <1>1, <1>2 DEF TypeOK
  <2>2. drew_zero => WalkInv'
    BY <1>1 DEF WalkInv
  <2> QED BY <1>1, <1>3, <2>1, <2>2, TakeKeeps
<1>4. /\ preceding_chars = <<P[Walked + 1], P[Walked + 2]>>
      /\ \A k \in 1 .. Walked : <<<<P[k], P[k + 1]>>, P[k + 2]>> \in T
  BY <1>1, <1>2, <1>3 DEF WalkInv
<1>5. m \in Nat /\ word \in Seq(Alphabet)
  BY <1>2 DEF TypeOK
<1>6. CASE column = End /\ ~is_at_last_character
  <2>1. word' = word /\ is_at_last_character' = TRUE
        /\ preceding_chars' = <<preceding_chars[2], End>>
    BY <1>1, <1>6 DEF Take, set_next_char
  <2>2. Walked = m /\ Walked' = m + 1 /\ Spelled' = P
    BY <1>6, <2>1 DEF Walked, Spelled
  <2>3. P[m + 3] = End
    BY <1>2, SpelledOf
  <2>4. (m + 1) + 1 = m + 2 /\ (m + 1) + 2 = m + 3
    BY <1>5
  <2>5. preceding_chars' = <<P[m + 2], P[m + 3]>>
    BY <1>4, <2>1, <2>2, <2>3
  <2>6. ASSUME NEW k \in 1 .. m + 1 PROVE <<<<P[k], P[k + 1]>>, P[k + 2]>> \in T
    <3>1. k \in 1 .. m \/ k = m + 1
      BY <1>5
    <3>2. CASE k = m + 1
      BY <1>1, <1>4, <1>6, <2>2, <2>3, <2>4, <3>2
    <3> QED BY <1>4, <2>2, <3>1, <3>2
  <2>7. phase' # "checking" \/ request'.max_length # 0
    <3>1. request.max_length \in Nat
      BY <1>2, GeneratorAssumption DEF TypeOK, Requests
    <3>2. CASE request.max_length = 0
      <4>1. ~(request.max_length > 0)
        BY <3>2
      <4> QED BY <1>1, <1>6, <4>1 DEF Take
    <3> QED BY <1>1, <3>2
  <2> QED BY <1>1, <2>2, <2>4, <2>5, <2>6, <2>7 DEF WalkInv
<1>7. CASE column = End /\ is_at_last_character
  <2>1. P[m + 3] = End /\ Walked = m + 1
    BY <1>2, <1>7, SpelledOf DEF Walked
  <2>2. preceding_chars[2] = End
    <3>1. (m + 1) + 2 = m + 3
      BY <1>5
    <3> QED BY <1>4, <2>1, <3>1
  <2>3. <<preceding_chars, column>> \in sampling_matrix
    BY <1>1, <1>2 DEF MatrixInv
  <2> QED BY <1>2, <1>7, <2>2, <2>3, LetterAfterEnd
\* The next letter, or the last one.
<1>8. CASE column # End
  <2>1. column \in Alphabet /\ word' = Append(word, column)
        /\ is_at_last_character' = is_at_last_character
    BY <1>1, <1>2, <1>8 DEF Take, Columns, TypeOK
  <2>2. Len(word') = m + 1 /\ word'[m + 1] = column /\ \A j \in 1 .. m : word'[j] = word[j]
    BY <1>5, <2>1
  <2>3. /\ word' \in Seq(Alphabet) /\ Len(word') >= 1 /\ (m + 1) + 1 = m + 2
        /\ (m + 1) + 2 = m + 3 /\ (m + 1) + 3 = m + 4 /\ (m + 2) + 1 = m + 3 /\ (m + 2) + 2 = m + 4
    BY <1>2, <1>5, <2>2 DEF TypeOK
  <2>4. CASE is_at_last_character
    <3>1. phase' = "checking" /\ Walked = m + 1
      BY <1>1, <1>8, <2>4 DEF Take, Walked
    <3> DEFINE S == Spelling(word')
    <3>2. /\ S[1] = Start /\ S[2] = Start /\ S[m + 3] = End /\ S[m + 4] = column
          /\ \A k \in 3 .. m + 2 : S[k] = word'[k - 2]
      BY <2>2, <2>3, SpellingOf
    <3>3. ASSUME NEW k \in 1 .. m + 3 PROVE S[k] = P[k]
      <4>1. k = 1 \/ k = 2 \/ k \in 3 .. m + 2 \/ k = m + 3
        BY <1>5
      <4>2. CASE k \in 3 .. m + 2
        <5>1. k - 2 \in 1 .. m
          BY <1>5, <4>2
        <5> QED BY <1>2, <2>2, <3>2, <4>2, <5>1, SpelledOf
      <4> QED BY <1>2, <3>2, <4>1, <4>2, SpelledOf
    <3>4. ASSUME NEW k \in 1 .. m + 2 PROVE Step(word', k) \in T
      <4>1. Step(word', k) = <<<<S[k], S[k + 1]>>, S[k + 2]>>
        BY DEF Step
      <4>2. CASE k \in 1 .. m + 1
        <5>1. k \in 1 .. m + 3 /\ k + 1 \in 1 .. m + 3 /\ k + 2 \in 1 .. m + 3
          BY <1>5, <4>2
        <5> QED BY <1>4, <3>1, <3>3, <4>1, <4>2, <5>1
      <4>3. CASE k = m + 2
        <5>1. m + 2 \in 1 .. m + 3 /\ m + 3 \in 1 .. m + 3
          BY <1>5
        <5>2. preceding_chars = <<P[m + 2], P[m + 3]>>
          BY <1>4, <2>3, <3>1
        <5>3. S[k] = P[m + 2] /\ S[k + 1] = P[m + 3] /\ S[k + 2] = column
          BY <2>3, <3>2, <3>3, <4>3, <5>1
        <5> QED BY <1>1, <4>1, <5>2, <5>3
      <4> QED BY <1>5, <4>2, <4>3
    <3>5. AllSteps(word') \subseteq T
      <4>1. Len(word') + 1 = m + 2
        BY <2>2, <2>3
      <4> QED BY <3>4, <4>1, StepsOf DEF AllSteps
    <3>6. AllSteps(word)' = AllSteps(word')
      BY DEF AllSteps, Steps, Step, Spelling
    <3> QED BY <1>1, <3>1, <3>5, <3>6 DEF WalkInv
  <2>5. CASE ~is_at_last_character
    <3>1. preceding_chars' = <<preceding_chars[2], column>> /\ Walked = m /\ Walked' = m + 1
      BY <1>1, <2>1, <2>2, <2>5 DEF Take, set_next_char, Walked
    <3> DEFINE Q == Spelled'
    <3>2. Q[1] = Start /\ Q[2] = Start /\ Q[m + 3] = column
          /\ \A k \in 3 .. m + 2 : Q[k] = word'[k - 2]
      <4>1. Q = [k \in 1 .. m + 4 |->
                   IF k <= 2 THEN Start ELSE IF k <= m + 3 THEN word'[k - 2] ELSE End]
        BY <2>2, <2>3 DEF Spelled
      <4>2. 1 \in 1 .. m + 4 /\ 2 \in 1 .. m + 4 /\ m + 3 \in 1 .. m + 4 /\ ~(m + 3 <= 2)
            /\ (m + 3) - 2 = m + 1
        BY <1>5
      <4>3. \A k \in 3 .. m + 2 : k \in 1 .. m + 4 /\ ~(k <= 2) /\ k <= m + 3
        BY <1>5
      <4> HIDE DEF Q
      <4> QED BY <2>2, <4>1, <4>2, <4>3
    <3>3. ASSUME NEW k \in 1 .. m + 2 PROVE Q[k] = P[k]
      <4>1. k = 1 \/ k = 2 \/ k \in 3 .. m + 2
        BY <1>5
      <4>2. CASE k \in 3 .. m + 2
        <5>1. k - 2 \in 1 .. m
          BY <1>5, <4>2
        <5> QED BY <1>2, <2>2, <3>2, <4>2, <5>1, SpelledOf
      <4> QED BY <1>2, <3>2, <4>1, <4>2, SpelledOf
    <3>4. preceding_chars' = <<Q[m + 2], Q[m + 3]>>
      <4>1. m + 2 \in 1 .. m + 2
        BY <1>5
      <4> QED BY <1>4, <3>1, <3>2, <3>3, <4>1
    <3>5. ASSUME NEW k \in 1 .. m + 1 PROVE <<<<Q[k], Q[k + 1]>>, Q[k + 2]>> \in T
      <4>1. CASE k \in 1 .. m
        <5>1. k \in 1 .. m + 2 /\ k + 1 \in 1 .. m + 2 /\ k + 2 \in 1 .. m + 2
          BY <1>5, <4>1
        <5> QED BY <1>4, <3>1, <3>3, <4>1, <5>1
      <4>2. CASE k = m + 1
        <5>1. m + 1 \in 1 .. m + 2 /\ m + 2 \in 1 .. m + 2
          BY <1>5
        <5>2. Q[k] = P[m + 1] /\ Q[k + 1] = P[m + 2] /\ Q[k + 2] = column
          BY <2>3, <3>2, <3>3, <4>2, <5>1
        <5> QED BY <1>1, <1>4, <3>1, <5>2
      <4> QED BY <1>5, <4>1, <4>2
    <3>6. phase' # "checking" \/ request'.max_length # 0
      <4>1. request.max_length \in Nat
        BY <1>2, GeneratorAssumption DEF TypeOK, Requests
      <4>2. CASE request.max_length = 0
        <5>1. ~(request.max_length > 0)
          BY <4>2
        <5> QED BY <1>1, <2>5, <5>1 DEF Take
      <4> QED BY <1>1, <4>2
    <3> HIDE DEF Q
    <3>7. preceding_chars' = <<Spelled'[Walked' + 1], Spelled'[Walked' + 2]>>
      BY <2>3, <3>1, <3>4 DEF Q
    <3>8. \A k \in 1 .. Walked' :
             <<<<Spelled'[k], Spelled'[k + 1]>>, Spelled'[k + 2]>> \in T'
      BY <1>1, <3>1, <3>5 DEF Q
    <3> QED BY <1>1, <3>6, <3>7, <3>8 DEF WalkInv
  <2> QED BY <2>4, <2>5
<1> QED BY <1>6, <1>7, <1>8

\* A walk can go on: a row that a step of a word leads to is the row of the
\* next step of that word, and behind the last step no walk goes on.
LEMMA RunOffInv == ASSUME GeneratorInv, RunOff PROVE GeneratorInv'
<1> DEFINE T == transition_matrix
           P == Spelled
           W == Walked
<1>1. /\ phase = "walking" /\ phase' = "undefined"
      /\ \A column \in Columns : <<preceding_chars, column>> \notin T
      /\ UNCHANGED <<dictionary, sampling_matrix, transition_matrix, preceding_chars, sample, i,
                     request, word, is_at_last_character, num_chars, made, drew_zero>>
  BY DEF RunOff, training, walk
<1>2. TypeOK /\ MatrixInv /\ WalkInv /\ made = NoWord
  BY <1>1 DEF GeneratorInv
<1>3. TypeOK' /\ AddingInv' /\ MatrixInv' /\ WalkInv' /\ MadeWordsFit'
  BY <1>1, <1>2 DEF TypeOK, AddingInv, MatrixInv, WalkInv, MadeWordsFit
<1>4. SUFFICES ASSUME dictionary # {}, ~drew_zero PROVE FALSE
  BY <1>1, <1>2, <1>3 DEF GeneratorInv, WalkStaysInside
<1>5. /\ preceding_chars = <<P[W + 1], P[W + 2]>>
      /\ \A k \in 1 .. W : <<<<P[k], P[k + 1]>>, P[k + 2]>> \in T
  BY <1>1, <1>2, <1>4 DEF WalkInv
<1>6. T = sampling_matrix /\ \A v \in dictionary : AllSteps(v) \subseteq T
  BY <1>1, <1>2 DEF MatrixInv
<1>7. Len(word) \in Nat /\ W \in Nat /\ W <= Len(word) + 1
  BY <1>2, SpelledOf DEF Walked
\* No step of a word starts in the row.
<1>8. ASSUME NEW v \in dictionary, NEW k \in 1 .. Len(v) + 1, Step(v, k)[1] = preceding_chars
      PROVE  FALSE
  <2>1. Step(v, k) \in T
    BY <1>6, StepsOf DEF AllSteps
  <2>2. Step(v, k)[2] \in Columns
    BY <1>2, DictionaryWords, NextStep
  <2>3. Step(v, k) = <<Step(v, k)[1], Step(v, k)[2]>>
    BY DEF Step
  <2> QED BY <1>1, <1>8, <2>1, <2>2, <2>3
<1>9. CASE W = 0
  <2>1. PICK v \in dictionary : TRUE
    BY <1>4
  <2>2. v \in Seq(Alphabet) /\ Len(v) \in Nat /\ Len(v) >= 1
    BY <1>2, DictionaryWords
  <2>3. Step(v, 1)[1] = <<Start, Start>>
    BY <2>2, SpellingOf DEF Step
  <2>4. preceding_chars = <<Start, Start>>
    BY <1>2, <1>5, <1>9, SpelledOf
  <2>5. 1 \in 1 .. Len(v) + 1
    BY <2>2
  <2> QED BY <1>8, <2>3, <2>4, <2>5
<1>10. CASE W # 0
  <2> DEFINE last == <<<<P[W], P[W + 1]>>, P[W + 2]>>
  <2>1. last \in sampling_matrix
    <3>1. W \in 1 .. W
      BY <1>7, <1>10
    <3> QED BY <1>5, <1>6, <3>1
  <2>2. PICK v \in dictionary : last \in AllSteps(v)
    BY <1>2, <2>1 DEF MatrixInv
  <2>3. PICK k \in 1 .. Len(v) + 1 : last = Step(v, k)
    BY <2>2, StepsOf DEF AllSteps
  <2>4. v \in Seq(Alphabet) /\ Len(v) \in Nat /\ Len(v) >= 1
    BY <1>2, DictionaryWords
  <2>5. CASE k <= Len(v)
    <3>1. k + 1 \in 1 .. Len(v) + 1 /\ Step(v, k + 1)[1] = <<Step(v, k)[1][2], Step(v, k)[2]>>
      BY <2>4, <2>5, NextStep
    <3>2. Step(v, k + 1)[1] = preceding_chars
      BY <1>5, <2>3, <3>1
    <3> QED BY <1>8, <3>1, <3>2
  <2>6. CASE k = Len(v) + 1
    <3>1. P[W + 1] = End
      BY <2>3, <2>4, <2>6, NextStep
    <3>2. W + 1 = 2 \/ W + 1 \in 3 .. Len(word) + 2
      BY <1>7, <1>10
    <3>3. P[W + 1] = Start \/ P[W + 1] \in Alphabet
      BY <1>2, <3>2, SpelledOf
    <3> QED BY <3>1, <3>3, GeneratorAssumption
  <2> QED BY <2>4, <2>5, <2>6
<1> QED BY <1>9, <1>10

LEMMA ReturnInv == ASSUME GeneratorInv, Return PROVE GeneratorInv'
<1>1. /\ phase = "checking" /\ phase' = "ready" /\ word \notin dictionary
      /\ word \in Language[request.criteria]
      /\ made' = [word |-> word, request |-> request]
      /\ UNCHANGED <<dictionary, sampling_matrix, transition_matrix, preceding_chars, sample, i,
                     request, word, is_at_last_character, num_chars, drew_zero>>
  BY DEF Return, training, walk
<1>2. TypeOK /\ MatrixInv /\ WalkInv
  BY DEF GeneratorInv
<1>3. TypeOK' /\ AddingInv' /\ WalkInv' /\ WalkStaysInside'
  BY <1>1, <1>2 DEF TypeOK, AddingInv, WalkInv, WalkStaysInside
<1>4. MatrixInv'
  BY <1>1, <1>2 DEF MatrixInv
<1>5. MadeWordsFit'
  <2>1. made'.word = word /\ made'.request = request
    BY <1>1
  <2>2. ASSUME request.max_length = 0, ~drew_zero, NEW step \in AllSteps(word)
        PROVE  \E v \in dictionary : step \in AllSteps(v)
    <3>1. step \in transition_matrix
      BY <1>1, <1>2, <2>2 DEF WalkInv
    <3>2. step \in sampling_matrix
      BY <1>1, <1>2, <3>1 DEF MatrixInv
    <3> QED BY <1>2, <3>2 DEF MatrixInv
  <2>3. /\ made'.word \notin dictionary'
        /\ made'.word \in Language[made'.request.criteria]
    BY <1>1, <2>1
  <2>4. made'.request.max_length = 0 /\ ~drew_zero' =>
          \A step \in AllSteps(made'.word) : \E v \in dictionary' : step \in AllSteps(v)
    BY <1>1, <2>1, <2>2
  <2>5. \A v, w : v = w => AllSteps(v) = AllSteps(w)
    OBVIOUS
  <2> QED BY <2>3, <2>4 DEF MadeWordsFit, AllSteps, Steps, Step, Spelling
<1> QED BY <1>1, <1>3, <1>4, <1>5 DEF GeneratorInv

LEMMA MakeWordInv ==
    ASSUME GeneratorInv, NEW r \in Requests, make_word(r) PROVE GeneratorInv'
BY StartWalkInv DEF make_word

LEMMA TryAgainInv == ASSUME GeneratorInv, TryAgain PROVE GeneratorInv'
<1>1. StartWalk /\ phase = "checking" /\ request' = request /\ made' = made
  BY DEF TryAgain
<1>2. made = NoWord /\ request \in Requests
  BY <1>1 DEF GeneratorInv, TypeOK
<1> QED BY <1>1, <1>2, StartWalkInv

-----------------------------------------------------------------------------
(* The theorems.                                                           *)

LEMMA GeneratorInit == Init => GeneratorInv
<1> SUFFICES ASSUME Init PROVE GeneratorInv
  OBVIOUS
<1>1. TypeOK
  <2>1. <<>> \in Seq(Alphabet)
    OBVIOUS
  <2> QED BY <2>1 DEF Init, TypeOK
<1>2. AddingInv /\ MatrixInv /\ WalkInv
  BY DEF Init, AddingInv, MatrixInv, WalkInv
<1>3. WalkStaysInside /\ MadeWordsFit /\ made = NoWord
  BY DEF Init, WalkStaysInside, MadeWordsFit
<1> QED BY <1>1, <1>2, <1>3 DEF GeneratorInv

LEMMA GeneratorNext == GeneratorInv /\ [Next]_vars => GeneratorInv'
<1> SUFFICES ASSUME GeneratorInv, [Next]_vars PROVE GeneratorInv'
  OBVIOUS
<1>1. CASE \E w \in Samples : AddWord(w)
  BY <1>1, AddWordInv
<1>2. CASE Record
  BY <1>2, RecordInv
<1>3. CASE RecordOutside
  BY <1>3, RecordOutsideInv
<1>4. CASE prepare_for_generation
  BY <1>4, PrepareInv
<1>5. CASE \E r \in Requests : make_word(r)
  BY <1>5, MakeWordInv
<1>6. CASE \E column \in Columns : Draw(column)
  BY <1>6, DrawInv
<1>7. CASE DrawZero
  BY <1>7, DrawZeroInv
<1>8. CASE RunOff
  BY <1>8, RunOffInv
<1>9. CASE Return
  BY <1>9, ReturnInv
<1>10. CASE TryAgain
  BY <1>10, TryAgainInv
<1>11. CASE UNCHANGED vars
  <2>1. UNCHANGED <<phase, dictionary, sampling_matrix, transition_matrix, preceding_chars,
                    sample, i, request, word, is_at_last_character, num_chars, made, drew_zero>>
    BY <1>11 DEF vars, training, walk
  <2>2. TypeOK'
    BY <2>1 DEF GeneratorInv, TypeOK
  <2>3. AddingInv'
    BY <2>1 DEF GeneratorInv, AddingInv
  <2>4. MatrixInv'
    BY <2>1 DEF GeneratorInv, MatrixInv
  <2>5. WalkInv'
    <3>1. Spelled' = Spelled /\ Walked' = Walked
      BY <2>1 DEF Spelled, Walked
    <3> QED BY <2>1, <3>1 DEF GeneratorInv, WalkInv
  <2>6. WalkStaysInside'
    BY <2>1 DEF GeneratorInv, WalkStaysInside, HasOneLetterWord
  <2>7. MadeWordsFit'
    BY <2>1 DEF GeneratorInv, MadeWordsFit
  <2> QED BY <2>1, <2>2, <2>3, <2>4, <2>5, <2>6, <2>7 DEF GeneratorInv
<1> QED BY <1>1, <1>2, <1>3, <1>4, <1>5, <1>6, <1>7, <1>8, <1>9, <1>10, <1>11 DEF Next

\* The matrices have the steps of the words, and every step of a walk is in
\* them (add_dictionary_word and make_word together, pseudoword_generator.cpp
\* 67-228).
THEOREM GeneratorInvariant == Spec => []GeneratorInv
BY GeneratorInit, GeneratorNext, PTL DEF Spec

\* The generator's state is of its types (pseudoword_generator.h 193-266):
\* all that is recorded lies in the matrix.
THEOREM GeneratorTypeCorrect == Spec => []TypeOK
<1>1. GeneratorInv => TypeOK
  BY DEF GeneratorInv
<1> QED BY <1>1, GeneratorInvariant, PTL

\* Whatever the dictionary, the sampling matrix has the steps of its words
\* and no others: no step is lost and nothing of the word before remains
\* (add_dictionary_word, pseudoword_generator.cpp 67-122).
THEOREM MatrixSampled == Spec => []DictionarySampled
<1>1. GeneratorInv => DictionarySampled
  <2> SUFFICES ASSUME GeneratorInv, phase \notin {"adding", "undefined"}
               PROVE  sampling_matrix = UNION {AllSteps(v) : v \in dictionary}
    BY DEF DictionarySampled
  <2>1. MatrixInv
    BY DEF GeneratorInv
  <2>2. \A v \in dictionary : AllSteps(v) \subseteq sampling_matrix
    BY <2>1 DEF MatrixInv
  <2>3. \A s \in sampling_matrix : \E v \in dictionary : s \in AllSteps(v)
    BY <2>1 DEF MatrixInv
  <2> QED BY <2>2, <2>3
<1> QED BY <1>1, GeneratorInvariant, PTL

\* A walk of any length finds a column in every row that it comes to
\* (choose_next_char_index within make_word, pseudoword_generator.cpp
\* 171-205), with the three exceptions that the property names.
THEOREM WalksStayInside == Spec => []WalkStaysInside
<1>1. GeneratorInv => WalkStaysInside
  BY DEF GeneratorInv
<1> QED BY <1>1, GeneratorInvariant, PTL

\* A word of any length that make_word returns is new, matches the criteria
\* and is spelled in the dictionary's steps (pseudoword_generator.cpp
\* 158-228).
THEOREM MadeWordsAlwaysFit == Spec => []MadeWordsFit
<1>1. GeneratorInv => MadeWordsFit
  BY DEF GeneratorInv
<1> QED BY <1>1, GeneratorInvariant, PTL

-----------------------------------------------------------------------------
(* The limit of the length.                                                *)

LEMMA TakeLimited ==
    ASSUME TypeOK, LimitInv, NEW column \in Columns, Take(column)
    PROVE  LimitInv'
<1>1. word \in Seq(Alphabet) /\ num_chars \in Nat /\ request.max_length \in Nat
  BY GeneratorAssumption DEF TypeOK, Requests
<1>2. column # End => column \in Alphabet
  BY DEF Columns
<1>3. /\ num_chars' = num_chars + 1 /\ phase = "walking"
      /\ word' = IF column = End THEN word ELSE Append(word, column)
      /\ UNCHANGED <<request, made>>
  BY DEF Take
<1>4. Len(word') <= num_chars'
  <2>1. Len(word) \in Nat /\ Len(word) <= num_chars
    BY <1>1 DEF LimitInv
  <2>2. Len(word') <= Len(word) + 1
    BY <1>1, <1>2, <1>3, <2>1
  <2>3. Len(word') \in Nat
    BY <1>1, <1>2, <1>3
  <2> QED BY <1>1, <1>3, <2>1, <2>2, <2>3
<1>8. is_at_last_character' => Len(word') < num_chars'
  <2>1. Len(word) \in Nat /\ Len(word) <= num_chars
        /\ (is_at_last_character => Len(word) < num_chars)
    BY <1>1 DEF LimitInv
  <2>2. CASE column = End
    BY <1>1, <1>3, <2>1, <2>2
  <2>3. CASE column # End
    <3>1. is_at_last_character' = is_at_last_character
      BY <2>3 DEF Take, TypeOK
    <3>2. Len(word') = Len(word) + 1
      BY <1>1, <1>2, <1>3, <2>3
    <3> QED BY <1>1, <1>3, <2>1, <3>1, <3>2
  <2> QED BY <2>2, <2>3
<1>5. phase' = "walking" /\ request.max_length > 0 => num_chars' <= request.max_length
  BY <1>1, <1>3 DEF Take
<1>6. request.max_length > 0 => num_chars' <= request.max_length + 1
  BY <1>1, <1>3 DEF LimitInv
<1>7. OverrunByOne'
  BY <1>3 DEF LimitInv, OverrunByOne
<1> QED BY <1>3, <1>4, <1>5, <1>6, <1>7, <1>8 DEF LimitInv

LEMMA LimitStep ==
    ASSUME TypeOK, LimitInv, [Next]_vars
    PROVE  LimitInv'
<1>1. word \in Seq(Alphabet) /\ num_chars \in Nat /\ request.max_length \in Nat
  BY GeneratorAssumption DEF TypeOK, Requests
<1>2. CASE /\ UNCHANGED <<request, word, is_at_last_character, num_chars, made>>
           /\ phase' \in {phase, "adding", "training", "ready", "undefined"}
  BY <1>2 DEF LimitInv, OverrunByOne
<1>3. CASE \E column \in Columns : Take(column)
  BY <1>3, TakeLimited
<1>4. CASE StartWalk /\ request' \in Requests /\ made' \in {made, NoWord}
  <2>1. request'.max_length \in Nat /\ Len(<<>>) = 0
    BY <1>4, GeneratorAssumption DEF Requests
  <2>2. phase' = "walking" /\ word' = <<>> /\ num_chars' = 0 /\ ~is_at_last_character'
    BY <1>4 DEF StartWalk
  <2>3. OverrunByOne'
    BY <1>4 DEF LimitInv, OverrunByOne
  <2> QED BY <2>1, <2>2, <2>3 DEF LimitInv
<1>5. CASE Return
  <2>1. phase = "checking" /\ phase' = "ready" /\ made' = [word |-> word, request |-> request]
        /\ UNCHANGED <<request, word, is_at_last_character, num_chars>>
    BY <1>5 DEF Return, walk
  <2>2. request.max_length > 0 => Len(word) <= request.max_length + 1
    <3>1. Len(word) \in Nat
      BY <1>1
    <3> QED BY <1>1, <2>1, <3>1 DEF LimitInv
  <2>3. OverrunByOne'
    BY <2>1, <2>2 DEF OverrunByOne
  <2> QED BY <2>1, <2>3 DEF LimitInv
<1>6. CASE \E w \in Samples : AddWord(w)
  BY <1>2, <1>6 DEF AddWord, walk
<1>7. CASE Record \/ RecordOutside \/ prepare_for_generation \/ RunOff
  BY <1>2, <1>7 DEF Record, RecordOutside, prepare_for_generation, RunOff, walk
<1>8. CASE \E r \in Requests : make_word(r)
  BY <1>4, <1>8 DEF make_word
<1>9. CASE TryAgain
  BY <1>4, <1>9 DEF TryAgain, TypeOK
<1>10. CASE (\E column \in Columns : Draw(column)) \/ DrawZero
  <2>1. FirstLetter \in Columns
    BY GeneratorAssumption DEF Columns
  <2> QED BY <1>3, <1>10, <2>1 DEF Draw, DrawZero
<1>11. CASE UNCHANGED vars
  BY <1>2, <1>11 DEF vars, walk
<1> QED BY <1>5, <1>6, <1>7, <1>8, <1>9, <1>10, <1>11 DEF Next

\* A word that make_word returns is longer than the maximum by one letter at
\* most, for every maximum (pseudoword_generator.cpp 197-213).
THEOREM OverrunIsOne == Spec => []OverrunByOne
<1>1. Init => LimitInv
  <2> SUFFICES ASSUME Init PROVE LimitInv
    OBVIOUS
  <2>1. phase = "training" /\ Len(word) <= num_chars /\ ~is_at_last_character /\ made = NoWord
    BY DEF Init
  <2> QED BY <2>1 DEF LimitInv, OverrunByOne
<1>2. TypeOK /\ LimitInv /\ [Next]_vars => LimitInv'
  BY LimitStep
<1>3. LimitInv => OverrunByOne
  BY DEF LimitInv
<1> QED BY <1>1, <1>2, <1>3, GeneratorTypeCorrect, PTL DEF Spec

-----------------------------------------------------------------------------
(* What the generator promises.                                            *)

\* A draw adds a letter, or End before the first letter, after which the walk is
\* at no row of the matrix.
LEMMA TakeLetter ==
    ASSUME GeneratorInv, LetterInv, NEW column \in Columns, Take(column),
           column = FirstLetter \/ <<preceding_chars, column>> \in transition_matrix
    PROVE  LetterInv'
<1>1. /\ word \in Seq(Alphabet) /\ num_chars \in Nat /\ request.max_length \in Nat
      /\ FirstLetter \in Alphabet /\ End \notin Alphabet
      /\ transition_matrix \subseteq Rows \X Columns
  BY GeneratorAssumption DEF GeneratorInv, TypeOK, Requests
<1>2. /\ num_chars' = num_chars + 1 /\ phase = "walking"
      /\ word' = IF column = End THEN word ELSE Append(word, column)
  BY DEF Take
<1>3. num_chars' # 0
  BY <1>1, <1>2
<1>4. CASE column # End
  <2>1. column \in Alphabet /\ word' = Append(word, column)
    BY <1>2, <1>4 DEF Columns
  <2>2. word' # <<>>
    BY <1>1, <2>1
  <2> QED BY <1>3, <2>2 DEF LetterInv
<1>5. CASE column = End /\ word # <<>>
  <2>1. word' # <<>>
    BY <1>2, <1>5
  <2> QED BY <1>3, <2>1 DEF LetterInv
<1>6. CASE column = End /\ word = <<>>
  <2>1. num_chars = 0
    <3>1. <<Start, End>> \notin Rows
      BY GeneratorAssumption DEF Rows
    <3>2. preceding_chars \in Rows
      BY <1>1, <1>6
    <3> QED BY <1>2, <1>6, <3>1, <3>2 DEF LetterInv
  <2>2. preceding_chars' = <<Start, End>>
    <3>1. preceding_chars = <<Start, Start>>
      BY <1>2, <2>1 DEF LetterInv
    <3>2. preceding_chars' = <<preceding_chars[2], column>>
      BY <1>6 DEF Take, set_next_char
    <3> QED BY <1>6, <3>1, <3>2
  <2>3. num_chars' = 1
    BY <1>2, <2>1
  <2>4. phase' = "walking"
    <3>1. ~(request.max_length > 0 /\ num_chars' > request.max_length)
      BY <1>1, <2>3
    <3> QED BY <1>6, <3>1 DEF Take
  <2> QED BY <2>2, <2>3, <2>4 DEF LetterInv
<1> QED BY <1>4, <1>5, <1>6

LEMMA LetterStep ==
    ASSUME GeneratorInv, LetterInv, [Next]_vars
    PROVE  LetterInv'
<1>1. CASE phase' \notin {"walking", "checking"}
  BY <1>1 DEF LetterInv
<1>2. CASE StartWalk
  <2>1. phase' = "walking" /\ num_chars' = 0 /\ preceding_chars' = <<Start, Start>>
    BY <1>2 DEF StartWalk, set_word_start
  <2> QED BY <2>1 DEF LetterInv
<1>3. CASE \E column \in Columns : Draw(column)
  BY <1>3, TakeLetter DEF Draw
<1>4. CASE DrawZero
  <2>1. FirstLetter \in Columns
    BY GeneratorAssumption DEF Columns
  <2> QED BY <1>4, <2>1, TakeLetter DEF DrawZero
<1>5. CASE UNCHANGED vars
  BY <1>5 DEF vars, walk, LetterInv
<1>6. CASE (\E w \in Samples : AddWord(w)) \/ Record \/ RecordOutside
           \/ prepare_for_generation \/ RunOff \/ Return
  BY <1>1, <1>6 DEF AddWord, Record, RecordOutside, prepare_for_generation, RunOff, Return
<1>7. CASE (\E r \in Requests : make_word(r)) \/ TryAgain
  BY <1>2, <1>7 DEF make_word, TryAgain
<1> QED BY <1>3, <1>4, <1>5, <1>6, <1>7 DEF Next

\* Every step of the generator is one of WordMaker, or none, or it returns a cut
\* walk that is too long.
LEMMA StepIsPromised ==
    ASSUME GeneratorInv, LimitInv, LetterInv, [Next]_vars
    PROVE  [Maker!Next \/ AnswerCutWalk]_(Maker!vars)
<1> USE DEF Maker!vars
<1>1. CASE \E w \in Samples : AddWord(w)
  <2>1. PICK w \in Samples : AddWord(w)
    BY <1>1
  <2>2. phase = "training" /\ phase' = "adding" /\ dictionary' = dictionary \cup {w} /\ made' = made
    BY <2>1 DEF AddWord
  <2>3. Maker!Learn(w)
    BY <2>2 DEF Maker!Learn
  <2> QED BY <2>3 DEF Maker!Next
<1>2. CASE Record
  BY <1>2 DEF Record
<1>3. CASE RecordOutside \/ RunOff
  <2>1. phase' = "undefined" /\ UNCHANGED <<dictionary, made>>
    BY <1>3 DEF RecordOutside, RunOff, training
  <2>2. Maker!GiveUp
    BY <2>1 DEF Maker!GiveUp
  <2> QED BY <2>2 DEF Maker!Next
<1>4. CASE prepare_for_generation
  <2>1. phase = "training" /\ phase' = "ready" /\ UNCHANGED <<dictionary, made>>
    BY <1>4 DEF prepare_for_generation, training
  <2>2. Maker!Prepare
    BY <2>1 DEF Maker!Prepare
  <2> QED BY <2>2 DEF Maker!Next
<1>5. CASE \E r \in Requests : make_word(r)
  <2>1. PICK r \in Requests : make_word(r)
    BY <1>5
  <2>2. phase = "ready" /\ phase' = "walking" /\ request' = r /\ made' = NoWord
        /\ dictionary' = dictionary
    BY <2>1 DEF make_word, StartWalk, training
  <2>3. Maker!Ask(r)
    BY <2>2 DEF Maker!Ask
  <2> QED BY <2>3 DEF Maker!Next
<1>6. CASE (\E column \in Columns : Draw(column)) \/ DrawZero
  <2>1. phase = "walking" /\ phase' \in {"walking", "checking"}
        /\ UNCHANGED <<dictionary, request, made>>
    BY <1>6 DEF Draw, DrawZero, Take, training
  <2> QED BY <2>1
<1>7. CASE Return
  <2>1. /\ phase = "checking" /\ phase' = "ready"
        /\ word \notin dictionary /\ word \in Language[request.criteria]
        /\ made' = [word |-> word, request |-> request]
        /\ dictionary' = dictionary
    BY <1>7 DEF Return, training
  <2>2. word \in Seq(Alphabet) /\ request \in Requests /\ num_chars \in Nat
        /\ request.max_length \in Nat
    BY GeneratorAssumption DEF GeneratorInv, TypeOK, Requests
  <2>3. request # NoWord /\ made' # NoWord
    <3>1. made' \in [word : Seq(Alphabet), request : Requests]
      BY <2>1, <2>2
    <3> QED BY <2>2, <3>1, GeneratorAssumption
  <2>4. word # <<>>
    BY <2>1 DEF LetterInv
  <2>5. made'.word = word
    BY <2>1
  <2>6. Maker!Fits(made'.word, request) /\ Maker!Respond
    BY <2>1, <2>2, <2>3, <2>4, <2>5 DEF Maker!Fits, Maker!Respond
  <2>7. CASE request.max_length > 0 => Len(word) <= request.max_length
    <3>1. Maker!Suits(made'.word, request)
      BY <2>5, <2>6, <2>7 DEF Maker!Suits
    <3>2. Maker!Answer
      BY <2>1, <2>6, <3>1 DEF Maker!Answer
    <3> QED BY <3>2 DEF Maker!Next
  <2>8. CASE request.max_length > 0 /\ ~(Len(word) <= request.max_length)
    <3>1. Len(word) \in Nat
      BY <2>2
    <3>2. Len(word) = request.max_length + 1 /\ ~is_at_last_character
      BY <2>1, <2>2, <2>8, <3>1 DEF LimitInv
    <3>3. Maker!TooLong(made'.word, request)
      BY <2>5, <2>6, <2>8, <3>2 DEF Maker!TooLong
    <3>4. AnswerCutWalk
      BY <2>1, <2>6, <3>2, <3>3 DEF AnswerCutWalk, Maker!AnswerTooLong
    <3> QED BY <3>4
  <2> QED BY <2>7, <2>8
<1>8. CASE TryAgain
  <2>1. phase = "checking" /\ phase' = "walking" /\ UNCHANGED <<dictionary, request, made>>
    BY <1>8 DEF TryAgain, StartWalk, training
  <2> QED BY <2>1
<1>9. CASE UNCHANGED vars
  BY <1>9 DEF vars, training
<1> QED BY <1>1, <1>2, <1>3, <1>4, <1>5, <1>6, <1>7, <1>8, <1>9 DEF Next

\* The invariants that StepIsPromised needs.
LEMMA PromiseInvariant == Spec => [](GeneratorInv /\ LimitInv /\ LetterInv)
<1>1. Init => LimitInv /\ LetterInv
  <2> SUFFICES ASSUME Init PROVE LimitInv /\ LetterInv
    OBVIOUS
  <2>1. phase = "training" /\ Len(word) <= num_chars /\ ~is_at_last_character /\ made = NoWord
    BY DEF Init
  <2> QED BY <2>1 DEF LimitInv, LetterInv, OverrunByOne
<1>2. GeneratorInv /\ LimitInv /\ LetterInv /\ [Next]_vars => LimitInv' /\ LetterInv'
  BY LimitStep, LetterStep DEF GeneratorInv
<1> QED BY <1>1, <1>2, GeneratorInvariant, PTL DEF Spec

\* The generator implements WordMaker, its maximum included, but for one kind of
\* step: only a walk that was cut before the end of its word is returned too long,
\* by one letter (pseudoword_generator.cpp 158-228).  Each question is answered
\* once at most, with a word that is new, matches it and is not empty.
THEOREM GeneratorKeepsPromise == Spec => MakesSuitableWords
<1>1. Init => Maker!Init
  BY DEF Init, Maker!Init
<1>2. GeneratorInv /\ LimitInv /\ LetterInv /\ [Next]_vars
        => [Maker!Next \/ AnswerCutWalk]_(Maker!vars)
  BY StepIsPromised
<1> QED BY <1>1, <1>2, PromiseInvariant, PTL DEF Spec, MakesSuitableWords

\* The maximum is all that is missing: a run in which no word is longer than its
\* question allows keeps the promise of pseudoword_generator.h 147-184 as it stands.
THEOREM OnlyMaximumMissing == Spec /\ []MaximumKept => Maker!Spec
<1>1. Init => Maker!Init
  BY DEF Init, Maker!Init
<1>2. ASSUME GeneratorInv, LimitInv, LetterInv, [Next]_vars, MaximumKept'
      PROVE  [Maker!Next]_(Maker!vars)
  <2>1. ~AnswerCutWalk
    <3> SUFFICES ASSUME AnswerCutWalk PROVE FALSE
      OBVIOUS
    <3>1. /\ made' # NoWord /\ phase \in {"walking", "checking"}
          /\ made'.request = request
          /\ request.max_length > 0 /\ Len(made'.word) = request.max_length + 1
      BY DEF AnswerCutWalk, Maker!AnswerTooLong, Maker!Respond, Maker!TooLong
    <3>2. Len(made'.word) <= request.max_length
      BY <1>2, <3>1 DEF MaximumKept
    <3>3. request.max_length \in Nat
      BY <1>2, GeneratorAssumption DEF GeneratorInv, TypeOK, Requests
    <3> QED BY <3>1, <3>2, <3>3
  <2> QED BY <1>2, <2>1, StepIsPromised
<1> QED BY <1>1, <1>2, PromiseInvariant, PTL DEF Spec, Maker!Spec

-----------------------------------------------------------------------------
(* Walks without a choice.                                                 *)

\* Where there is no choice the column drawn is the next character of every
\* word that the walk has followed.
LEMMA OnlyColumn ==
    ASSUME GeneratorInv, FollowsInv, ~Choice, ~drew_zero, NEW column, Draw(column),
           NEW v \in dictionary
    PROVE  Walked + 1 \in 1 .. Len(v) + 1 /\ column = Spelling(v)[Walked + 3]
<1> DEFINE W == Walked
<1>1. /\ <<preceding_chars, column>> \in transition_matrix /\ phase = "walking"
      /\ TypeOK /\ MatrixInv /\ WalkInv
  BY DEF Draw, Take, GeneratorInv
<1>2. W \in Nat /\ W <= Len(v) /\ \A k \in 1 .. W + 2 : Spelled[k] = Spelling(v)[k]
  <2>1. Len(word) \in Nat
    BY <1>1 DEF TypeOK
  <2> QED BY <1>1, <2>1 DEF FollowsInv, Walked
<1>3. Len(v) \in Nat /\ W + 1 \in 1 .. Len(v) + 1
  BY <1>1, <1>2, DictionaryWords
<1>4. Step(v, W + 1) \in sampling_matrix
  <2>1. phase # "undefined" /\ phase # "adding"
    BY <1>1
  <2> QED BY <1>1, <1>3, <2>1, StepsOf DEF MatrixInv, AllSteps
<1>5. Step(v, W + 1) = <<<<Spelling(v)[W + 1], Spelling(v)[W + 2]>>, Spelling(v)[W + 3]>>
  <2>1. (W + 1) + 1 = W + 2 /\ (W + 1) + 2 = W + 3
    BY <1>2
  <2> QED BY <2>1 DEF Step
<1>6. preceding_chars = <<Spelling(v)[W + 1], Spelling(v)[W + 2]>>
  <2>1. preceding_chars = <<Spelled[W + 1], Spelled[W + 2]>>
    BY <1>1 DEF WalkInv
  <2>2. W + 1 \in 1 .. W + 2 /\ W + 2 \in 1 .. W + 2
    BY <1>2
  <2> QED BY <1>2, <2>1, <2>2
<1>7. <<preceding_chars, column>> \in sampling_matrix
  BY <1>1 DEF MatrixInv
<1> QED BY <1>3, <1>4, <1>5, <1>6, <1>7 DEF Choice

\* The characters of a walk before the column, and after it.
LEMMA SpelledNext ==
    ASSUME TypeOK, NEW column \in Columns, Take(column), ~(column = End /\ is_at_last_character),
           ~(column # End /\ is_at_last_character)
    PROVE  /\ Walked' = Walked + 1
           /\ \A k \in 1 .. Walked + 2 : Spelled'[k] = Spelled[k]
           /\ Spelled'[Walked + 3] = column
<1> DEFINE m == Len(word)
<1>1. m \in Nat /\ word \in Seq(Alphabet) /\ ~is_at_last_character /\ Walked = m
  BY DEF TypeOK, Walked
<1>2. Spelled = [k \in 1 .. m + 3 |-> IF k <= 2 THEN Start ELSE IF k <= m + 2 THEN word[k - 2] ELSE End]
  BY DEF Spelled
<1>3. CASE column = End
  <2>1. word' = word /\ is_at_last_character' = TRUE
    BY <1>3 DEF Take
  <2>2. Walked' = m + 1 /\ Spelled' = Spelled
    BY <2>1 DEF Walked, Spelled
  <2>3. Spelled[m + 3] = End
    BY SpelledOf
  <2> QED BY <1>1, <1>3, <2>2, <2>3
<1>4. CASE column # End
  <2>1. column \in Alphabet /\ word' = Append(word, column) /\ is_at_last_character' = FALSE
    BY <1>1, <1>4 DEF Take, Columns
  <2>2. Len(word') = m + 1 /\ word'[m + 1] = column /\ \A j \in 1 .. m : word'[j] = word[j]
    BY <1>1, <2>1
  <2>3. Walked' = m + 1
    BY <2>1, <2>2 DEF Walked
  <2>4. Spelled' = [k \in 1 .. (m + 1) + 3 |->
                      IF k <= 2 THEN Start ELSE IF k <= (m + 1) + 2 THEN word'[k - 2] ELSE End]
    BY <2>2 DEF Spelled
  <2>5. Spelled'[m + 3] = column
    <3>1. m + 3 \in 1 .. (m + 1) + 3 /\ ~(m + 3 <= 2) /\ m + 3 <= (m + 1) + 2 /\ (m + 3) - 2 = m + 1
      BY <1>1
    <3> HIDE DEF m
    <3> QED BY <2>2, <2>4, <3>1
  <2>6. ASSUME NEW k \in 1 .. m + 2 PROVE Spelled'[k] = Spelled[k]
    <3>1. k \in 1 .. m + 3 /\ k \in 1 .. (m + 1) + 3 /\ k <= m + 2 /\ k <= (m + 1) + 2
      BY <1>1
    <3>2. ~(k <= 2) => k - 2 \in 1 .. m
      BY <1>1
    <3> HIDE DEF m
    <3> QED BY <1>2, <2>2, <2>4, <3>1, <3>2
  <2> QED BY <1>1, <2>3, <2>5, <2>6
<1> QED BY <1>3, <1>4

\* The last letter completes the only word.
LEMMA WordCompleted ==
    ASSUME GeneratorInv, FollowsInv, ~Choice, ~drew_zero,
           NEW column \in Columns, Draw(column), column # End, is_at_last_character
    PROVE  word' \in dictionary
<1> DEFINE m == Len(word)
<1>1. /\ TypeOK /\ MatrixInv /\ phase = "walking" /\ column \in Alphabet /\ word' = Append(word, column)
      /\ <<preceding_chars, column>> \in transition_matrix
  BY DEF Draw, Take, GeneratorInv, Columns
<1>2. m \in Nat /\ word \in Seq(Alphabet) /\ Walked = m + 1
  BY <1>1 DEF TypeOK, Walked
<1>3. PICK v \in dictionary : TRUE
  BY <1>1 DEF MatrixInv
<1>4. v \in Seq(Alphabet) /\ Len(v) \in Nat /\ Len(v) >= 1
  BY <1>1, DictionaryWords
<1>5. \A k \in 1 .. m + 3 : Spelled[k] = Spelling(v)[k]
  <2>1. (m + 1) + 2 = m + 3
    BY <1>2
  <2> QED BY <1>1, <1>2, <2>1 DEF FollowsInv
<1>6. m + 1 <= Len(v)
  BY <1>1, <1>2 DEF FollowsInv
<1>7. Len(v) = m + 1
  <2>1. Spelling(v)[m + 3] = End
    <3>1. m + 3 \in 1 .. m + 3
      BY <1>2
    <3> QED BY <1>1, <1>5, <3>1, SpelledOf
  <2>2. SUFFICES ASSUME m + 3 # Len(v) + 2 PROVE FALSE
    BY <1>2, <1>4
  <2>3. m + 3 \in 3 .. Len(v) + 1
    BY <1>2, <1>4, <1>6, <2>2
  <2> QED BY <1>4, <2>1, <2>3, SpellingOf, GeneratorAssumption
<1>8. column = v[m + 1]
  <2>1. column = Spelling(v)[Len(v) + 3]
    <3>1. (m + 1) + 3 = Len(v) + 3
      BY <1>7
    <3> QED BY <1>2, <3>1, OnlyColumn
  <2> QED BY <1>4, <1>7, <2>1, SpellingOf
<1>9. ASSUME NEW j \in 1 .. m PROVE word[j] = v[j]
  <2>1. j + 2 \in 3 .. m + 2 /\ j + 2 \in 3 .. Len(v) + 1 /\ j + 2 \in 1 .. m + 3 /\ (j + 2) - 2 = j
    BY <1>2, <1>7
  <2>2. Spelled[j + 2] = word[j]
    BY <1>1, <2>1, SpelledOf
  <2>3. Spelling(v)[j + 2] = v[j]
    BY <1>4, <2>1, SpellingOf
  <2> QED BY <1>5, <2>1, <2>2, <2>3
<1>10. word' = v
  <2>1. Len(word') = m + 1 /\ word'[m + 1] = column /\ \A j \in 1 .. m : word'[j] = word[j]
    BY <1>1, <1>2
  <2>2. word' \in Seq(Alphabet)
    BY <1>1, <1>2
  <2>3. ASSUME NEW j \in 1 .. m + 1 PROVE word'[j] = v[j]
    <3>1. j \in 1 .. m \/ j = m + 1
      BY <1>2
    <3> QED BY <1>8, <1>9, <2>1, <3>1
  <2> QED BY <1>4, <1>7, <2>1, <2>2, <2>3
<1> QED BY <1>10

\* A walk that goes on has followed every word one character further.
LEMMA FollowsFurther ==
    ASSUME GeneratorInv, FollowsInv, ~Choice, ~drew_zero,
           NEW column \in Columns, Draw(column), ~is_at_last_character, NEW v \in dictionary
    PROVE  /\ Walked' <= Len(v)
           /\ \A k \in 1 .. Walked' + 2 : Spelled'[k] = Spelling(v)[k]
<1> DEFINE W == Walked
<1>1. TypeOK /\ phase = "walking" /\ Take(column)
  BY DEF Draw, Take, GeneratorInv
<1>2. Len(word) \in Nat /\ W = Len(word)
  BY <1>1 DEF TypeOK, Walked
<1>3. W + 1 \in 1 .. Len(v) + 1 /\ column = Spelling(v)[W + 3]
  BY OnlyColumn
<1>4. v \in Seq(Alphabet) /\ Len(v) \in Nat /\ Len(v) >= 1
  BY <1>1, DictionaryWords
<1>5. \A k \in 1 .. W + 2 : Spelled[k] = Spelling(v)[k]
  BY <1>1 DEF FollowsInv
<1>6. W # Len(v)
  <2> SUFFICES ASSUME W = Len(v) PROVE FALSE
    OBVIOUS
  <2>1. Spelling(v)[W + 2] = End
    BY <1>4, SpellingOf
  <2>2. W + 2 \in 1 .. W + 2 /\ W + 2 \in 3 .. Len(word) + 2
    BY <1>2, <1>4
  <2>3. Spelled[W + 2] \in Alphabet
    BY <1>1, <2>2, SpelledOf
  <2> QED BY <1>5, <2>1, <2>2, <2>3, GeneratorAssumption
<1>7. /\ Walked' = W + 1
      /\ \A k \in 1 .. W + 2 : Spelled'[k] = Spelled[k]
      /\ Spelled'[W + 3] = column
  BY <1>1, SpelledNext
<1>8. ASSUME NEW k \in 1 .. (W + 1) + 2 PROVE Spelled'[k] = Spelling(v)[k]
  <2>1. k \in 1 .. W + 2 \/ k = W + 3
    BY <1>2
  <2> QED BY <1>3, <1>5, <1>7, <2>1
<1> QED BY <1>2, <1>3, <1>4, <1>6, <1>7, <1>8

LEMMA FollowsDraw ==
    ASSUME GeneratorInv, FollowsInv, NEW column \in Columns, Draw(column)
    PROVE  FollowsInv'
<1>1. /\ TypeOK /\ MatrixInv /\ Take(column) /\ <<preceding_chars, column>> \in transition_matrix
      /\ phase = "walking" /\ UNCHANGED <<dictionary, sampling_matrix, request, made, drew_zero>>
  BY DEF Draw, Take, GeneratorInv, training
<1>2. Choice' = Choice
  BY <1>1 DEF Choice
<1>3. SUFFICES ASSUME ~Choice, ~drew_zero PROVE FollowsInv'
  <2>1. drew_zero \in BOOLEAN
    BY <1>1 DEF TypeOK
  <2> QED BY <1>1, <1>2, <1>3, <2>1 DEF FollowsInv
<1>4. made' # NoWord => made'.request.max_length # 0
  BY <1>1, <1>3 DEF FollowsInv
<1>5. \A v : Spelling(v)' = Spelling(v)
  BY DEF Spelling
<1>6. CASE is_at_last_character /\ column # End
  <2>1. phase' = "checking" /\ word' \in dictionary'
    BY <1>1, <1>3, <1>6, WordCompleted DEF Take
  <2> QED BY <1>4, <2>1 DEF FollowsInv
<1>7. CASE is_at_last_character /\ column = End
  <2>1. Len(word) \in Nat
    BY <1>1 DEF TypeOK
  <2>2. preceding_chars[2] = Spelled[Len(word) + 3]
    <3>1. Walked + 2 = Len(word) + 3
      BY <1>7, <2>1 DEF Walked
    <3> QED BY <1>1, <1>3, <3>1 DEF GeneratorInv, WalkInv
  <2>3. preceding_chars[2] = End
    BY <1>1, <2>2, SpelledOf
  <2>4. <<preceding_chars, column>> \in sampling_matrix
    BY <1>1 DEF MatrixInv
  <2> QED BY <1>1, <1>7, <2>3, <2>4, LetterAfterEnd
<1>8. CASE ~is_at_last_character
  <2>1. phase' # "checking" \/ request'.max_length # 0
    <3>1. request.max_length \in Nat
      BY <1>1, GeneratorAssumption DEF TypeOK, Requests
    <3>2. CASE request.max_length = 0
      <4>1. ~(request.max_length > 0)
        BY <3>2
      <4> QED BY <1>1, <1>8, <4>1 DEF Take
    <3> QED BY <1>1, <3>2
  <2>2. \A v \in dictionary : /\ Walked' <= Len(v)
                              /\ \A k \in 1 .. Walked' + 2 : Spelled'[k] = Spelling(v)[k]
    BY <1>3, <1>8, FollowsFurther
  <2> QED BY <1>1, <1>4, <2>1, <2>2, <1>5 DEF FollowsInv
<1>9. is_at_last_character \in BOOLEAN
  BY <1>1 DEF TypeOK
<1> QED BY <1>6, <1>7, <1>8, <1>9

\* A walk that begins has followed every word for no character yet.
LEMMA FollowsStart ==
    ASSUME GeneratorInv, FollowsInv, StartWalk, made' = NoWord
    PROVE  FollowsInv'
<1>1. phase' = "walking" /\ word' = <<>> /\ is_at_last_character' = FALSE /\ dictionary' = dictionary
  BY DEF StartWalk, training
<1>2. Walked' = 0
  BY <1>1 DEF Walked
<1>3. Spelled'[1] = Start /\ Spelled'[2] = Start
  BY <1>1 DEF Spelled
<1>4. ASSUME NEW v \in dictionary PROVE Len(v) >= 0 /\ Spelling(v)[1] = Start /\ Spelling(v)[2] = Start
  <2>1. v \in Seq(Alphabet) /\ Len(v) \in Nat /\ Len(v) >= 1
    BY DictionaryWords DEF GeneratorInv
  <2> QED BY <2>1, SpellingOf
<1>5. \A v \in dictionary' : Walked' <= Len(v) /\ \A k \in 1 .. Walked' + 2 : Spelled'[k] = Spelling(v)[k]
  <2>1. \A k \in 1 .. 0 + 2 : k = 1 \/ k = 2
    OBVIOUS
  <2> QED BY <1>1, <1>2, <1>3, <1>4, <2>1
<1> QED BY <1>1, <1>5 DEF FollowsInv

LEMMA FollowsStep ==
    ASSUME GeneratorInv, FollowsInv, [Next]_vars
    PROVE  FollowsInv'
<1>1. made # NoWord => phase = "ready"
  BY DEF GeneratorInv
<1>2. ASSUME NEW w \in Samples, AddWord(w) PROVE FollowsInv'
  BY <1>1, <1>2 DEF FollowsInv, AddWord
<1>3. CASE Record \/ RecordOutside
  BY <1>1, <1>3 DEF FollowsInv, Record, RecordOutside
<1>4. CASE prepare_for_generation
  BY <1>1, <1>4 DEF FollowsInv, prepare_for_generation
<1>5. ASSUME NEW r \in Requests, make_word(r) PROVE FollowsInv'
  BY <1>5, FollowsStart DEF make_word
<1>6. ASSUME NEW column \in Columns, Draw(column) PROVE FollowsInv'
  BY <1>6, FollowsDraw
<1>7. CASE DrawZero
  BY <1>7 DEF FollowsInv, DrawZero
<1>8. CASE RunOff
  BY <1>1, <1>8 DEF FollowsInv, RunOff
<1>9. CASE Return
  <2>1. /\ phase' = "ready" /\ made' = [word |-> word, request |-> request]
        /\ UNCHANGED <<dictionary, sampling_matrix, drew_zero>>
    BY <1>9 DEF Return, training
  <2>2. Choice' = Choice
    BY <2>1 DEF Choice
  <2>3. ~Choice /\ ~drew_zero => request.max_length # 0
    BY <1>9 DEF FollowsInv, Return
  <2> QED BY <2>1, <2>2, <2>3 DEF FollowsInv
<1>10. CASE TryAgain
  <2>1. StartWalk /\ made' = NoWord
    BY <1>1, <1>10 DEF TryAgain
  <2> QED BY <2>1, FollowsStart
<1>11. CASE UNCHANGED vars
  <2>1. UNCHANGED <<phase, dictionary, sampling_matrix, request, word, is_at_last_character, made, drew_zero>>
    BY <1>11 DEF vars, training, walk
  <2>2. Choice' = Choice /\ Walked' = Walked /\ Spelled' = Spelled
    BY <2>1 DEF Choice, Walked, Spelled
  <2> QED BY <2>1, <2>2 DEF FollowsInv
<1> QED BY <1>2, <1>3, <1>4, <1>5, <1>6, <1>7, <1>8, <1>9, <1>10, <1>11 DEF Next

\* A new word comes of a choice (make_word, pseudoword_generator.cpp 150-219): with
\* a dictionary that leaves none, no walk without a limit ends in a word that may
\* be returned, and the loop never ends.
THEOREM NewWordsNeedChoice == Spec => []NewNeedsChoice
<1>1. Init => FollowsInv
  BY DEF Init, FollowsInv
<1>2. GeneratorInv /\ FollowsInv /\ [Next]_vars => FollowsInv'
  BY FollowsStep
<1>3. FollowsInv => NewNeedsChoice
  BY DEF FollowsInv, NewNeedsChoice
<1> QED BY <1>1, <1>2, <1>3, GeneratorInvariant, PTL DEF Spec

=============================================================================
