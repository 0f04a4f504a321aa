-------------------------- MODULE WordPicker_proofs --------------------------
(***************************************************************************)
(* Theorems about WordPicker, for every alphabet, every set of indexes and *)
(* all sound dictionaries of any length, with their proofs.                *)
(***************************************************************************)
EXTENDS WordPicker, FiniteSetTheorems, TLAPS

-----------------------------------------------------------------------------
(* The arithmetic of the pattern table.                                    *)

LEMMA Bounds == MinWordLength = 2 /\ MaxWordLength \in Nat /\ 2 <= MaxWordLength
BY PickerAssumption

LEMMA HalfOfSum == \A x, y \in Nat : (x + 2 * y) \div 2 = (x \div 2) + y
OBVIOUS

LEMMA Triangle ==
    \A k \in Nat : ((k + 1) * (k + 2)) \div 2 = ((k * (k + 1)) \div 2) + k + 1
<1> SUFFICES ASSUME NEW k \in Nat
             PROVE  ((k + 1) * (k + 2)) \div 2 = ((k * (k + 1)) \div 2) + k + 1
  OBVIOUS
<1>1. (k + 1) * (k + 2) = k * (k + 1) + 2 * (k + 1)
  OBVIOUS
<1>2. k * (k + 1) \in Nat /\ k + 1 \in Nat
  OBVIOUS
<1>3. (k * (k + 1) + 2 * (k + 1)) \div 2 = ((k * (k + 1)) \div 2) + (k + 1)
  BY <1>2, HalfOfSum
<1>4. (k * (k + 1)) \div 2 \in Nat
  BY <1>2
<1> QED BY <1>1, <1>3, <1>4

\* The place after (f, t) is that of (f + 1, t), and after (t, t) comes
\* (MinWordLength, t + 1).
LEMMA NextPattern ==
    ASSUME NEW t \in Nat, NEW f \in Nat, MinWordLength <= f, f <= t
    PROVE  /\ PatternIndex(f, t) \in Nat
           /\ PatternIndex(f + 1, t) = PatternIndex(f, t) + 1
           /\ PatternIndex(MinWordLength, t + 1) = PatternIndex(t, t) + 1
<1> DEFINE k == t - MinWordLength
<1>1. k \in Nat /\ MinWordLength = 2
  BY PickerAssumption
<1>2. k * (k + 1) \in Nat
  BY <1>1
<1>3. (k * (k + 1)) \div 2 \in Nat
  BY <1>2
<1>4. (t + 1 - MinWordLength) * (t + 1 - MinWordLength + 1) = (k + 1) * (k + 2)
  BY <1>1
<1>5. PatternIndex(MinWordLength, t + 1) = ((k * (k + 1)) \div 2) + k + 1
  <2>1. MinWordLength - MinWordLength = 0
    BY <1>1
  <2>2. ((k + 1) * (k + 2)) \div 2 = ((k * (k + 1)) \div 2) + k + 1
    BY <1>1, Triangle
  <2> QED BY <1>1, <1>3, <1>4, <2>1, <2>2 DEF PatternIndex
<1>6. \A g \in Nat : PatternIndex(g, t) = ((k * (k + 1)) \div 2) + (g - MinWordLength)
  BY DEF PatternIndex
<1> QED BY <1>1, <1>3, <1>5, <1>6

-----------------------------------------------------------------------------
(* The type invariant, for any dictionary.                                 *)

LEMMA TypeInit == Init => TypeOK
<1> SUFFICES ASSUME Init PROVE TypeOK
  OBVIOUS
<1> QED BY PickerAssumption DEF Init, TypeOK, ReplyType

LEMMA AddWordType ==
    ASSUME TypeOK, NEW w \in Words, AddWord(w)
    PROVE  /\ phase' \in {"closed", "loading", "patterns", "ready", "aborted"}
           /\ file' \in Files
           /\ words_by_length' \in Seq(Words)
           /\ word_length_ends' \in Seq(Nat)
           /\ current_length' \in Nat
           /\ indexes' \in [Indexes -> Seq(Words)]
           /\ word_length_patterns' \in Seq(Nat \X Nat)
           /\ from' \in Nat /\ to' \in Nat
           /\ reply' = reply
<1> USE DEF TypeOK
<1>1. words_by_length' \in Seq(Words)
  BY DEF AddWord
<1>2. word_length_ends' \in Seq(Nat) /\ current_length' \in Nat
  <2>1. Len(words_by_length) \in Nat
    OBVIOUS
  <2>2. \A s \in Seq(Nat), k \in Nat : Append(s, k) \in Seq(Nat)
    OBVIOUS
  <2>3. word_length_ends' = word_length_ends
        \/ word_length_ends' = Append(word_length_ends, Len(words_by_length))
    BY DEF AddWord
  <2>4. current_length' = current_length \/ current_length' = current_length + 1
    BY DEF AddWord
  <2>5. word_length_ends' \in Seq(Nat)
    BY <2>1, <2>2, <2>3
  <2>6. current_length' \in Nat
    BY <2>4
  <2> QED BY <2>5, <2>6
<1>3. indexes' \in [Indexes -> Seq(Words)]
  <2>1. \A i \in Indexes : Append(indexes[i], w) \in Seq(Words) /\ indexes[i] \in Seq(Words)
    OBVIOUS
  <2> QED BY <2>1 DEF AddWord
<1> QED BY <1>1, <1>2, <1>3 DEF AddWord

LEMMA LineType ==
    ASSUME TypeOK, NEW k \in 1 .. Len(file.lines)
    PROVE  file.lines[k] \in Line /\ file.lines[k].word \in Words
<1>1. file.lines \in Seq(Line)
  BY PickerAssumption DEF TypeOK
<1>2. file.lines[k] \in Line
  BY <1>1
<1> QED BY <1>2 DEF Line

LEMMA SameReply == ReplyType /\ reply' = reply => ReplyType'
BY DEF ReplyType

\* What can be picked: a word of a list, whatever it is read at, and a
\* made-up one.
LEMMA CandidateType ==
    ASSUME TypeOK
    PROVE  /\ \A s \in Seq(Words), k \in Nat : Listed(At(s, k)) \in Entry \cup {Garbage}
           /\ \A M \in SUBSET Words : MadeUp(M) \subseteq Entry
<1>1. ASSUME NEW s \in Seq(Words), NEW k \in Nat
      PROVE  Listed(At(s, k)) \in Entry \cup {Garbage}
  <2>1. At(s, k) \in Words \cup {Garbage}
    BY DEF At
  <2> QED BY <2>1, Zenon DEF Listed, Entry
<1>2. ASSUME NEW M \in SUBSET Words PROVE MadeUp(M) \subseteq Entry
  <2>1. \A w \in M : [word |-> w, is_real |-> FALSE] \in Entry
    BY DEF Entry
  <2> QED BY <2>1, Zenon DEF MadeUp
<1> QED BY <1>1, <1>2

LEMMA ReplyHasType ==
    ASSUME NEW r, NEW p \in Seq(Entry \cup {Garbage}), Reply(r, p)
    PROVE  ReplyType'
BY DEF Reply, ReplyType

LEMMA PickHasType ==
    ASSUME NEW r, NEW n \in Nat, NEW S \in SUBSET (Entry \cup {Garbage}), Pick(r, n, S)
    PROVE  ReplyType'
<1>1. PICK p \in [1 .. n -> S] : Reply(r, p)
  BY DEF Pick
<1>2. p \in Seq(Entry \cup {Garbage})
  OBVIOUS
<1> QED BY <1>1, <1>2, ReplyHasType

LEMMA TypeNext == TypeOK /\ [Next]_vars => TypeOK'
<1> SUFFICES ASSUME TypeOK, [Next]_vars PROVE TypeOK'
  OBVIOUS
<1> USE DEF TypeOK
<1> DEFINE Lengths == MinWordLength .. MaxWordLength
<1>1. CASE Open
  <2>1. <<0, 0>> \in Seq(Nat)
    OBVIOUS
  <2>2. stream' \in [read : Nat, eof : BOOLEAN, fail : BOOLEAN]
    BY <1>1, <2>1 DEF Open
  <2> QED BY <1>1, <2>1, <2>2, SameReply DEF Open
<1>2. CASE ReadLine
  <2>0. stream.read + 1 \in 1 .. Len(file.lines)
    <3>1. Len(file.lines) \in Nat
      BY PickerAssumption
    <3> QED BY <1>2, <3>1 DEF ReadLine
  <2>1. PICK w \in Words : AddWord(w)
    BY <1>2, <2>0, LineType DEF ReadLine
  <2>2. stream' \in [read : Nat, eof : BOOLEAN, fail : BOOLEAN]
    BY <1>2, <2>0, LineType DEF ReadLine, Line
  <2> QED BY <2>1, <2>2, AddWordType, SameReply
<1>3. CASE ReadNothing
  <2>1. AddWord(EmptyWord) /\ EmptyWord \in Words
    BY <1>3, PickerAssumption DEF ReadNothing
  <2>2. stream' \in [read : Nat, eof : BOOLEAN, fail : BOOLEAN]
    BY <1>3 DEF ReadNothing
  <2> QED BY <2>1, <2>2, AddWordType, SameReply
<1>4. CASE ReadFails
  <2>1. AddWord(EmptyWord) /\ EmptyWord \in Words /\ stream' = stream
    BY <1>4, PickerAssumption DEF ReadFails
  <2> QED BY <2>1, AddWordType, SameReply
<1>5. CASE OutOfMemory \/ Initialized
  BY <1>5, SameReply DEF OutOfMemory, Initialized, tables
<1>6. CASE EndOfDictionary
  BY <1>6, SameReply DEF EndOfDictionary
<1>7. CASE AddPattern
  BY <1>7, PickerAssumption, SameReply DEF AddPattern, tables
<1>8. ASSUME NEW r, NEW p, Reply(r, p), ReplyType' PROVE TypeOK'
  BY <1>8 DEF Reply, tables
<1>9. ASSUME NEW r, NEW n \in Nat, NEW S \in SUBSET (Entry \cup {Garbage}), Pick(r, n, S)
      PROVE  TypeOK'
  BY <1>8, <1>9, PickHasType DEF Pick
<1>14. ASSUME NEW r, Reply(r, <<>>) PROVE TypeOK'
  <2>1. <<>> \in Seq(Entry \cup {Garbage})
    OBVIOUS
  <2>2. ReplyType'
    BY <1>14, <2>1, ReplyHasType
  <2> QED BY <1>8, <1>14, <2>2
<1>10. ASSUME NEW f \in Lengths, NEW t \in Lengths, NEW n \in Nat, get_words_by_length(f, t, n)
       PROVE  TypeOK'
  <2>1. CASE PickByLength(f, t, n)
    <3> DEFINE first == word_length_ends[f]
               count == word_length_ends[t + 1] - first
               real == {Listed(At(words_by_length, first + k)) : k \in Offset(count)}
               pattern == word_length_patterns[PatternIndex(f, t) + 1]
               matching == {w \in Words : pattern[1] <= Length[w] /\ Length[w] <= pattern[2]}
               fake == MadeUp(matching)
    <3>1. Pick(ByLength(f, t), n, real \cup fake) /\ t < Len(word_length_ends) /\ f <= t
      BY <2>1 DEF PickByLength, RealByLength, FakeByLength, length_pattern
    <3>2. first \in Nat /\ word_length_ends[t + 1] \in Nat
      <4>1. f \in 1 .. Len(word_length_ends) /\ t + 1 \in 1 .. Len(word_length_ends)
        BY <3>1, Bounds
      <4> QED BY <4>1
    <3>3. real \subseteq Entry \cup {Garbage}
      <4>1. \A k \in Offset(count) : k \in Nat
        BY <3>2 DEF Offset
      <4>2. \A k \in Offset(count) : first + k \in Nat
        BY <3>2, <4>1
      <4>3. words_by_length \in Seq(Words)
        OBVIOUS
      <4> QED BY <4>2, <4>3, CandidateType
    <3>4. matching \in SUBSET Words
      OBVIOUS
    <3>5. fake \subseteq Entry
      BY <3>4, CandidateType
    <3>6. real \cup fake \in SUBSET (Entry \cup {Garbage})
      BY <3>3, <3>5
    <3> QED BY <1>9, <3>1, <3>6
  <2>2. CASE PickNoLength(f, t, n)
    BY <1>14, <2>2 DEF PickNoLength
  <2>3. CASE PickBeyondLongest(f, t, n)
    BY <1>9, <2>3 DEF PickBeyondLongest
  <2> QED BY <1>10, <2>1, <2>2, <2>3 DEF get_words_by_length
<1>12. ASSUME NEW i, NEW n \in Nat, get_words_from_index(i, n) PROVE TypeOK'
  <2>1. CASE PickFromIndex(i, n)
    <3> DEFINE real == {Listed(At(indexes[i], k)) : k \in Offset(Len(indexes[i]))}
               matching == {w \in Words : i \in Matches[w]}
               fake == MadeUp(matching)
    <3>1. Pick(FromIndex(i), n, real \cup fake) /\ i \in Indexes
      BY <2>1 DEF PickFromIndex, RealFromIndex, FakeFromIndex
    <3>2. real \subseteq Entry \cup {Garbage}
      <4>1. indexes[i] \in Seq(Words) /\ Len(indexes[i]) \in Nat
        BY <3>1
      <4>2. \A k \in Offset(Len(indexes[i])) : k \in Nat
        BY <4>1 DEF Offset
      <4> QED BY <4>1, <4>2, CandidateType
    <3>3. matching \in SUBSET Words
      OBVIOUS
    <3>4. fake \subseteq Entry
      BY <3>3, CandidateType
    <3>5. real \cup fake \in SUBSET (Entry \cup {Garbage})
      BY <3>2, <3>4
    <3> QED BY <1>9, <3>1, <3>5
  <2>2. CASE PickNoIndex(i, n)
    BY <1>14, <2>2 DEF PickNoIndex
  <2> QED BY <1>12, <2>1, <2>2 DEF get_words_from_index
<1>13. 0 .. NumWords \subseteq Nat
  BY PickerAssumption
<1>11. CASE UNCHANGED vars
  BY <1>11, SameReply DEF vars
<1> QED
  BY <1>1, <1>2, <1>3, <1>4, <1>5, <1>6, <1>7, <1>10, <1>11, <1>12, <1>13 DEF Next, initialize

\* Whatever the dictionary, the tables of the picker have their types.
THEOREM PickerTypeCorrect == Spec => []TypeOK
BY TypeInit, TypeNext, PTL DEF Spec

-----------------------------------------------------------------------------
(* Loading a sound dictionary.                                             *)

LEMMA SoundFile ==
    ASSUME Sound(file), TypeOK
    PROVE  /\ Len(file.lines) \in Nat /\ Len(file.lines) > 0
           /\ file.exists /\ ~file.newline
           /\ \A k \in 1 .. Len(file.lines) :
                /\ file.lines[k].fits
                /\ file.lines[k].word \in Words
                /\ Length[file.lines[k].word] \in Nat
           /\ Length[file.lines[1].word] = 2
           /\ \A k \in 1 .. Len(file.lines) - 1 :
                Length[file.lines[k + 1].word] - Length[file.lines[k].word] \in {0, 1}
           /\ Length[file.lines[Len(file.lines)].word] = MaxWordLength
<1>1. Sound(file) /\ file.lines \in Seq(Line)
  BY PickerAssumption DEF TypeOK
<1>2. Len(file.lines) \in Nat /\ Len(file.lines) > 0
  BY <1>1 DEF Sound
<1>3. \A k \in 1 .. Len(file.lines) :
         file.lines[k].word \in Words /\ Length[file.lines[k].word] \in Nat
  BY LineType, PickerAssumption
<1> QED BY <1>1, <1>2, <1>3, PickerAssumption DEF Sound

\* Reading a line adds its word to the list, and nothing else is read.
LEMMA ReadLineWords ==
    ASSUME Sound(file), TypeOK, WordsInv, StreamInv, ReadLine
    PROVE  /\ WordsInv' /\ StreamInv' /\ phase' = "loading"
           /\ AddWord(file.lines[Len(words_by_length) + 1].word)
           /\ Len(words_by_length) + 1 \in 1 .. Len(file.lines)
<1> DEFINE n == Len(words_by_length)
           w == file.lines[n + 1].word
<1>1. n \in Nat /\ n = stream.read /\ n + 1 \in 1 .. Len(file.lines)
      /\ words_by_length \in Seq(Words)
  BY SoundFile DEF WordsInv, TypeOK, ReadLine
<1>2. AddWord(w) /\ file' = file /\ phase' = phase /\ phase = "loading"
      /\ words_by_length' = Append(words_by_length, w)
  BY <1>1 DEF ReadLine, AddWord, Loading
<1>3. w \in Words /\ file.lines[n + 1].fits
  BY <1>1, SoundFile
<1>4. stream'.read = n + 1 /\ (stream'.eof <=> n + 1 = Len(file.lines)) /\ ~stream'.fail
  BY <1>1, <1>3, SoundFile DEF ReadLine
<1>5. Len(words_by_length') = n + 1 /\ words_by_length'[n + 1] = w
      /\ \A k \in 1 .. n : words_by_length'[k] = words_by_length[k]
  BY <1>1, <1>2, <1>3
<1>6. WordsInv'
  BY <1>1, <1>2, <1>4, <1>5 DEF WordsInv
<1>7. StreamInv'
  BY <1>2, <1>4 DEF StreamInv
<1> QED BY <1>1, <1>2, <1>6, <1>7

\* A new word is as long as the one before, or opens the next group, which
\* starts where the list ended.
LEMMA ReadLineEnds ==
    ASSUME Sound(file), TypeOK, WordsInv, StreamInv, EndsInv, LengthInv, ReadLine
    PROVE  EndsInv' /\ LengthInv'
<1> DEFINE n == Len(words_by_length)
           w == file.lines[n + 1].word
           ends == word_length_ends
           cur == current_length
<1>1. AddWord(w) /\ n + 1 \in 1 .. Len(file.lines) /\ phase' = "loading" /\ phase = "loading"
  BY ReadLineWords DEF ReadLine, Loading
<1>2. n \in Nat /\ words_by_length \in Seq(Words) /\ ends \in Seq(Nat) /\ cur \in Nat
      /\ w \in Words /\ Length[w] \in Nat
  <2>1. n \in Nat /\ words_by_length \in Seq(Words) /\ ends \in Seq(Nat) /\ cur \in Nat
    BY DEF TypeOK
  <2>2. w \in Words /\ Length[w] \in Nat
    BY <1>1, SoundFile
  <2> QED BY <2>1, <2>2
<1>3. cur = Len(ends) /\ cur = (IF n = 0 THEN 2 ELSE Length[words_by_length[n]])
      /\ \A k \in 1 .. n : Length[words_by_length[k]] <= cur
  BY <1>1 DEF LengthInv
<1>4. \A k \in 1 .. n : words_by_length[k] \in Words /\ Length[words_by_length[k]] \in Nat
  BY <1>2, PickerAssumption
<1>5. Length[w] = cur \/ (Length[w] = cur + 1 /\ n > 0)
  <2>1. CASE n = 0
    BY <1>1, <1>3, <2>1, SoundFile
  <2>2. CASE n > 0
    <3>0. Len(file.lines) \in Nat
      BY SoundFile
    <3>1. words_by_length[n] = file.lines[n].word /\ n \in 1 .. Len(file.lines) - 1
      BY <1>1, <1>2, <2>2, <3>0 DEF WordsInv
    <3>2. Length[w] - Length[file.lines[n].word] \in {0, 1}
      BY <3>1, SoundFile
    <3> QED BY <1>2, <1>3, <2>2, <3>1, <3>2
  <2> QED BY <1>2, <2>1, <2>2
<1>6. cur >= 2
  <2>1. CASE n = 0
    BY <1>3, <2>1
  <2>2. CASE n > 0
    \* The first word has two letters and the last is the longest.
    <3>1. Length[words_by_length[1]] <= cur /\ words_by_length[1] = file.lines[1].word
      BY <1>1, <1>2, <1>3, <2>2, SoundFile DEF WordsInv
    <3> QED BY <1>2, <3>1, SoundFile
  <2> QED BY <1>2, <2>1, <2>2
<1>7. words_by_length' = Append(words_by_length, w) /\ Len(words_by_length') = n + 1
      /\ words_by_length'[n + 1] = w
      /\ \A k \in 1 .. n : words_by_length'[k] = words_by_length[k]
  BY <1>1, <1>2 DEF AddWord
<1>8. /\ \A L \in 0 .. cur - 1, k \in 1 .. n :
            Length[words_by_length[k]] <= L <=> k <= ends[L + 1]
      /\ \A j \in 1 .. cur : ends[j] \in Nat /\ ends[j] <= n
      /\ \A L \in 2 .. cur - 1 : ends[L] < ends[L + 1]
  <2>1. \A j \in 1 .. cur : ends[j] \in Nat
    <3>1. \A s \in Seq(Nat) : \A j \in 1 .. Len(s) : s[j] \in Nat
      OBVIOUS
    <3>2. ends \in Seq(Nat) /\ cur = Len(ends)
      BY <1>2, <1>3
    <3> QED BY <3>1, <3>2
  <2> QED BY <1>3, <2>1 DEF EndsInv, EndsSeparate
<1>9. CASE Length[w] = cur
  <2>1. word_length_ends' = ends /\ current_length' = cur
    BY <1>1, <1>2, <1>9 DEF AddWord
  <2>2. \A L \in 0 .. cur - 1, k \in 1 .. n + 1 :
           Length[words_by_length'[k]] <= L <=> k <= ends[L + 1]
    <3>1. SUFFICES ASSUME NEW L \in 0 .. cur - 1, NEW k \in 1 .. n + 1
                   PROVE  Length[words_by_length'[k]] <= L <=> k <= ends[L + 1]
      OBVIOUS
    <3>2. CASE k = n + 1
      <4>1. L + 1 \in 1 .. cur
        BY <1>2
      <4> QED BY <1>2, <1>7, <1>8, <1>9, <3>2, <4>1
    <3>3. CASE k \in 1 .. n
      BY <1>2, <1>7, <1>8, <3>3
    <3> QED BY <1>2, <3>2, <3>3
  <2>3. EndsInv'
    <3>1. \A j \in 1 .. cur : ends[j] <= n + 1
      BY <1>2, <1>8
    <3> QED BY <1>3, <1>7, <1>8, <2>1, <2>2, <3>1 DEF EndsInv, EndsSeparate
  <2>4. \A k \in 1 .. n + 1 : Length[words_by_length'[k]] <= cur
    BY <1>2, <1>3, <1>7, <1>9
  <2>5. LengthInv'
    <3>1. n + 1 # 0
      BY <1>2
    <3> QED BY <1>1, <1>3, <1>7, <1>9, <2>1, <2>4, <3>1 DEF LengthInv
  <2> QED BY <2>3, <2>5
<1>10. CASE Length[w] = cur + 1 /\ n > 0
  <2>1. word_length_ends' = Append(ends, n) /\ current_length' = cur + 1
    BY <1>1, <1>2, <1>10 DEF AddWord
  <2>2. Len(word_length_ends') = cur + 1 /\ word_length_ends'[cur + 1] = n
        /\ \A j \in 1 .. cur : word_length_ends'[j] = ends[j]
    <3>1. \A s \in Seq(Nat), x \in Nat :
            /\ Len(Append(s, x)) = Len(s) + 1 /\ Append(s, x)[Len(s) + 1] = x
            /\ \A j \in 1 .. Len(s) : Append(s, x)[j] = s[j]
      OBVIOUS
    <3>2. ends \in Seq(Nat) /\ cur = Len(ends) /\ n \in Nat
      BY <1>2, <1>3
    <3> QED BY <2>1, <3>1, <3>2
  <2>3. \A L \in 0 .. cur, k \in 1 .. n + 1 :
           Length[words_by_length'[k]] <= L <=> k <= word_length_ends'[L + 1]
    <3>1. SUFFICES ASSUME NEW L \in 0 .. cur, NEW k \in 1 .. n + 1
                   PROVE  Length[words_by_length'[k]] <= L <=> k <= word_length_ends'[L + 1]
      OBVIOUS
    <3>2. CASE k = n + 1
      BY <1>2, <1>7, <1>8, <1>10, <2>2, <3>2
    <3>3. CASE k \in 1 .. n /\ L = cur
      BY <1>2, <1>3, <1>7, <2>2, <3>3
    <3>4. CASE k \in 1 .. n /\ L \in 0 .. cur - 1
      <4>1. L + 1 \in 1 .. cur
        BY <1>2, <3>4
      <4> QED BY <1>7, <1>8, <2>2, <3>4, <4>1
    <3> QED BY <1>2, <3>2, <3>3, <3>4
  <2>4. ends[cur] < n
    \* The last word is longer than cur - 1.
    <3>1. cur - 1 \in 0 .. cur - 1 /\ n \in 1 .. n /\ Length[words_by_length[n]] = cur
      BY <1>2, <1>3, <1>6, <1>10
    <3>2. Length[words_by_length[n]] <= cur - 1 <=> n <= ends[(cur - 1) + 1]
      BY <1>8, <3>1
    <3>3. (cur - 1) + 1 = cur /\ ~(cur <= cur - 1)
      BY <1>2
    <3>4. ~(n <= ends[cur])
      BY <3>1, <3>2, <3>3
    <3>5. cur \in 1 .. cur
      BY <1>2, <1>6
    <3>6. ends[cur] \in Nat
      BY <1>8, <3>5
    <3> QED BY <1>2, <3>4, <3>6
  <2>5. EndsInv'
    <3>1. \A j \in 1 .. cur + 1 : word_length_ends'[j] <= n + 1
      <4>1. \A j \in 1 .. cur + 1 : j = cur + 1 \/ j \in 1 .. cur
        BY <1>2
      <4>2. n \in Nat /\ \A j \in 1 .. cur : ends[j] \in Nat /\ ends[j] <= n
        BY <1>2, <1>8
      <4> QED BY <2>2, <4>1, <4>2
    <3>2. \A L \in 2 .. cur : word_length_ends'[L] < word_length_ends'[L + 1]
      BY <1>2, <1>6, <1>8, <2>2, <2>4
    <3> QED BY <1>2, <1>7, <2>2, <2>3, <3>1, <3>2 DEF EndsInv, EndsSeparate
  <2>6. \A k \in 1 .. n + 1 : Length[words_by_length'[k]] <= cur + 1
    BY <1>2, <1>3, <1>4, <1>7, <1>10
  <2>7. LengthInv'
    BY <1>1, <1>2, <1>7, <1>10, <2>1, <2>2, <2>6 DEF LengthInv
  <2> QED BY <2>5, <2>7
<1> QED BY <1>5, <1>9, <1>10

\* An index that gets the new word lists a word that matches it.
LEMMA ReadLineIndexes ==
    ASSUME TypeOK, IndexInv, NEW w \in Words, AddWord(w)
    PROVE  IndexInv'
<1> DEFINE n == Len(words_by_length)
<1>1. n \in Nat /\ words_by_length \in Seq(Words) /\ indexes \in [Indexes -> Seq(Words)]
  BY DEF TypeOK
<1>2. /\ Len(words_by_length') = n + 1 /\ words_by_length'[n + 1] = w
      /\ \A k \in 1 .. n : words_by_length'[k] = words_by_length[k]
  BY <1>1 DEF AddWord
<1>3. SUFFICES ASSUME NEW i \in Indexes
               PROVE  /\ \A j \in 1 .. Len(indexes'[i]) :
                           /\ i \in Matches[indexes'[i][j]]
                           /\ \E k \in 1 .. n + 1 : words_by_length'[k] = indexes'[i][j]
                      /\ (\E k \in 1 .. n + 1 : i \in Matches[words_by_length'[k]])
                            => Len(indexes'[i]) > 0
  BY <1>2 DEF IndexInv
<1>4. indexes[i] \in Seq(Words) /\ Len(indexes[i]) \in Nat
  BY <1>1
<1>5. /\ \A j \in 1 .. Len(indexes[i]) :
           /\ i \in Matches[indexes[i][j]]
           /\ \E k \in 1 .. n + 1 : words_by_length'[k] = indexes[i][j]
      /\ (\E k \in 1 .. n : i \in Matches[words_by_length[k]]) => Len(indexes[i]) > 0
  <2>1. \A k \in 1 .. n : k \in 1 .. n + 1
    BY <1>1
  <2>2. /\ \A j \in 1 .. Len(indexes[i]) :
             /\ i \in Matches[indexes[i][j]]
             /\ \E k \in 1 .. n : words_by_length[k] = indexes[i][j]
        /\ (\E k \in 1 .. n : i \in Matches[words_by_length[k]]) => Len(indexes[i]) > 0
    BY DEF IndexInv
  <2> QED BY <1>2, <2>1, <2>2
<1>6. CASE i \in Matches[w]
  <2>1. indexes'[i] = Append(indexes[i], w)
    BY <1>6 DEF AddWord
  <2>2. Len(indexes'[i]) = Len(indexes[i]) + 1 /\ indexes'[i][Len(indexes[i]) + 1] = w
        /\ \A j \in 1 .. Len(indexes[i]) : indexes'[i][j] = indexes[i][j]
    BY <1>4, <2>1
  <2>3. n + 1 \in 1 .. n + 1
    BY <1>1
  <2>4. \A j \in 1 .. Len(indexes'[i]) : j = Len(indexes[i]) + 1 \/ j \in 1 .. Len(indexes[i])
    BY <1>4, <2>2
  <2>5. \A j \in 1 .. Len(indexes'[i]) :
           /\ i \in Matches[indexes'[i][j]]
           /\ \E k \in 1 .. n + 1 : words_by_length'[k] = indexes'[i][j]
    BY <1>2, <1>5, <1>6, <2>2, <2>3, <2>4
  <2> QED BY <1>4, <2>2, <2>5
<1>7. CASE i \notin Matches[w]
  <2>1. indexes'[i] = indexes[i]
    BY <1>7 DEF AddWord
  <2>2. ASSUME NEW k \in 1 .. n + 1, i \in Matches[words_by_length'[k]]
        PROVE  k \in 1 .. n /\ words_by_length'[k] = words_by_length[k]
    BY <1>1, <1>2, <1>7, <2>2
  <2> QED BY <1>5, <2>1, <2>2
<1> QED BY <1>6, <1>7

\* After the last line the last group ends where the list does.
LEMMA EndOfDictionaryEnds ==
    ASSUME Sound(file), TypeOK, WordsInv, StreamInv, EndsInv, LengthInv, EndOfDictionary
    PROVE  WordsInv' /\ StreamInv' /\ EndsInv' /\ LengthInv'
<1> DEFINE n == Len(words_by_length)
           ends == word_length_ends
           cur == current_length
<1>1. phase = "loading" /\ stream.eof /\ phase' = "patterns" /\ word_length_ends' = Append(ends, n)
      /\ UNCHANGED <<file, stream, words_by_length, current_length>>
  BY DEF EndOfDictionary
<1>2. n \in Nat /\ words_by_length \in Seq(Words) /\ ends \in Seq(Nat) /\ cur \in Nat
  BY DEF TypeOK
<1>3. n = Len(file.lines) /\ n = stream.read /\ n > 0
  BY <1>1, SoundFile DEF StreamInv, WordsInv
<1>4. cur = Len(ends) /\ cur = Length[words_by_length[n]] /\ cur = MaxWordLength /\ cur >= 2
      /\ \A k \in 1 .. n : Length[words_by_length[k]] <= cur
  <2>1. n \in 1 .. Len(file.lines) /\ words_by_length[n] = file.lines[n].word
    BY <1>2, <1>3 DEF WordsInv
  <2>2. Length[file.lines[n].word] = MaxWordLength
    BY <1>3, SoundFile
  <2> QED BY <1>1, <1>2, <1>3, <2>1, <2>2, PickerAssumption DEF LengthInv
<1>5. Len(word_length_ends') = cur + 1 /\ word_length_ends'[cur + 1] = n
      /\ \A j \in 1 .. cur : word_length_ends'[j] = ends[j] /\ ends[j] \in Nat
  <2>1. \A s \in Seq(Nat), x \in Nat :
          /\ Len(Append(s, x)) = Len(s) + 1 /\ Append(s, x)[Len(s) + 1] = x
          /\ \A j \in 1 .. Len(s) : Append(s, x)[j] = s[j] /\ s[j] \in Nat
    OBVIOUS
  <2>2. ends \in Seq(Nat) /\ cur = Len(ends) /\ n \in Nat
    BY <1>2, <1>4
  <2> QED BY <1>1, <2>1, <2>2
<1>6. /\ \A L \in 0 .. cur - 1, k \in 1 .. n :
            Length[words_by_length[k]] <= L <=> k <= ends[L + 1]
      /\ \A j \in 1 .. cur : ends[j] <= n
      /\ \A L \in 2 .. cur - 1 : ends[L] < ends[L + 1]
  BY <1>4 DEF EndsInv, EndsSeparate
<1>7. ends[cur] < n
  <2>1. cur - 1 \in 0 .. cur - 1 /\ n \in 1 .. n /\ (cur - 1) + 1 = cur /\ cur \in 1 .. cur
    BY <1>2, <1>3, <1>4
  <2>2. ~(Length[words_by_length[n]] <= cur - 1)
    BY <1>2, <1>4
  <2>3. ~(n <= ends[cur])
    BY <1>6, <2>1, <2>2
  <2> QED BY <1>2, <1>5, <2>1, <2>3
<1>8. \A L \in 0 .. cur, k \in 1 .. n :
         Length[words_by_length[k]] <= L <=> k <= word_length_ends'[L + 1]
  <2>1. SUFFICES ASSUME NEW L \in 0 .. cur, NEW k \in 1 .. n
                 PROVE  Length[words_by_length[k]] <= L <=> k <= word_length_ends'[L + 1]
    OBVIOUS
  <2>2. CASE L = cur
    BY <1>2, <1>4, <1>5, <2>2
  <2>3. CASE L \in 0 .. cur - 1
    <3>1. L + 1 \in 1 .. cur
      BY <1>2, <2>3
    <3> QED BY <1>5, <1>6, <2>3, <3>1
  <2> QED BY <1>2, <2>2, <2>3
<1>9. \A j \in 1 .. cur + 1 : word_length_ends'[j] <= n
  <2>1. \A j \in 1 .. cur + 1 : j = cur + 1 \/ j \in 1 .. cur
    BY <1>2
  <2> QED BY <1>2, <1>5, <1>6, <2>1
<1>10. \A L \in 2 .. cur : word_length_ends'[L] < word_length_ends'[L + 1]
  <2>1. \A L \in 2 .. cur : L = cur \/ (L \in 2 .. cur - 1 /\ L + 1 \in 1 .. cur)
    BY <1>2
  <2>2. \A L \in 2 .. cur : L \in 1 .. cur
    BY <1>2
  <2> QED BY <1>5, <1>6, <1>7, <2>1, <2>2
<1>11. EndsInv'
  <2>1. Len(word_length_ends') - 1 = cur /\ Len(words_by_length') = n
        /\ words_by_length' = words_by_length
    BY <1>1, <1>2, <1>5
  <2>2. \A L \in 0 .. Len(word_length_ends') - 1, k \in 1 .. Len(words_by_length') :
           Length[words_by_length'[k]] <= L <=> k <= word_length_ends'[L + 1]
    BY <1>8, <2>1
  <2>3. \A j \in 1 .. Len(word_length_ends') : word_length_ends'[j] <= Len(words_by_length')
    BY <1>5, <1>9, <2>1
  <2>4. \A L \in 2 .. Len(word_length_ends') - 1 : word_length_ends'[L] < word_length_ends'[L + 1]
    BY <1>10, <2>1
  <2> QED BY <2>2, <2>3, <2>4 DEF EndsInv, EndsSeparate
<1>12. WordsInv' /\ StreamInv' /\ LengthInv'
  BY <1>1, <1>3, <1>4, <1>5 DEF WordsInv, StreamInv, LengthInv
<1> QED BY <1>11, <1>12

-----------------------------------------------------------------------------
(* The pattern table.                                                      *)

LEMMA PatternsStart == Init => PatternInv
<1> SUFFICES ASSUME Init PROVE PatternInv
  OBVIOUS
<1>1. from = 2 /\ to = 2 /\ MinWordLength = 2 /\ MaxWordLength \in Nat /\ 2 <= MaxWordLength
      /\ word_length_patterns = <<>> /\ phase = "closed"
  BY PickerAssumption DEF Init
<1>2. PatternIndex(from, to) = 0
  BY <1>1 DEF PatternIndex
<1>3. \A t \in MinWordLength .. MaxWordLength : \A f \in MinWordLength .. t :
         ~(t < to \/ (t = to /\ f < from))
  BY <1>1
<1> QED BY <1>1, <1>2, <1>3 DEF PatternInv

LEMMA PatternsGrow == TypeOK /\ PatternInv /\ AddPattern => PatternInv'
<1> SUFFICES ASSUME TypeOK, PatternInv, AddPattern PROVE PatternInv'
  OBVIOUS
<1> DEFINE n == Len(word_length_patterns)
           pats == word_length_patterns
<1>1. /\ from \in Nat /\ to \in Nat /\ pats \in Seq(Nat \X Nat) /\ n \in Nat
      /\ MinWordLength = 2 /\ MaxWordLength \in Nat
  BY PickerAssumption DEF TypeOK
<1>2. MinWordLength <= from /\ from <= to /\ to <= MaxWordLength /\ n = PatternIndex(from, to)
      /\ phase' = "patterns" /\ pats' = Append(pats, <<from, to>>)
  BY DEF PatternInv, AddPattern
<1>3. Len(pats') = n + 1 /\ pats'[n + 1] = <<from, to>> /\ \A j \in 1 .. n : pats'[j] = pats[j]
  <2>1. \A s \in Seq(Nat \X Nat), x \in Nat \X Nat :
          /\ Len(Append(s, x)) = Len(s) + 1 /\ Append(s, x)[Len(s) + 1] = x
          /\ \A j \in 1 .. Len(s) : Append(s, x)[j] = s[j]
    OBVIOUS
  <2>2. <<from, to>> \in Nat \X Nat
    BY <1>1
  <2> QED BY <1>1, <1>2, <2>1, <2>2
<1>4. PatternIndex(from', to') = n + 1
  <2>1. PatternIndex(from + 1, to) = n + 1 /\ n \in Nat
    BY <1>1, <1>2, NextPattern
  <2>2. PatternIndex(MinWordLength, to + 1) = PatternIndex(to, to) + 1
    BY <1>1, <1>2, NextPattern
  <2>3. from < to \/ from = to
    BY <1>1, <1>2
  <2> QED BY <1>1, <1>2, <2>1, <2>2, <2>3 DEF AddPattern
<1>5. MinWordLength <= from' /\ from' <= to' /\ to' <= MaxWordLength + 1
      /\ (to' = MaxWordLength + 1 => from' = MinWordLength)
      /\ from' \in Nat /\ to' \in Nat
  BY <1>1, <1>2 DEF AddPattern
<1>6. ASSUME NEW t \in MinWordLength .. MaxWordLength, NEW f \in MinWordLength .. t,
             t < to' \/ (t = to' /\ f < from')
      PROVE  /\ PatternIndex(f, t) \in 0 .. n
             /\ pats'[PatternIndex(f, t) + 1] = <<f, t>>
  <2>1. CASE t < to \/ (t = to /\ f < from)
    <3>1. PatternIndex(f, t) \in 0 .. n - 1 /\ pats[PatternIndex(f, t) + 1] = <<f, t>>
      BY <2>1 DEF PatternInv
    <3>2. \A x \in 0 .. n - 1 : x + 1 \in 1 .. n /\ x \in 0 .. n
      BY <1>1
    <3> QED BY <1>3, <3>1, <3>2
  <2>2. CASE ~(t < to \/ (t = to /\ f < from))
    <3>1. t = to /\ f = from
      BY <1>1, <1>2, <1>6, <2>2 DEF AddPattern
    <3> QED BY <1>1, <1>2, <1>3, <3>1
  <2> QED BY <2>1, <2>2
<1>7. Len(pats') - 1 = n
  BY <1>1, <1>3
<1> QED BY <1>2, <1>3, <1>4, <1>5, <1>6, <1>7 DEF PatternInv

-----------------------------------------------------------------------------
(* Picking words.                                                          *)

Picked(p, request) ==
    p # Garbage /\ Fits(p.word, request) /\ (p.is_real <=> InDictionary(p.word))

\* The words in the list of a ready picker are those of the dictionary.
LEMMA ReadyWords ==
    ASSUME Sound(file), TypeOK, WordsInv, StreamInv, phase = "ready", NEW w \in Words
    PROVE  InDictionary(w) <=> \E k \in 1 .. Len(words_by_length) : words_by_length[k] = w
BY SoundFile DEF WordsInv, StreamInv, InDictionary

LEMMA RealWordPicked ==
    ASSUME Sound(file), TypeOK, WordsInv, StreamInv, phase = "ready",
           NEW k \in 1 .. Len(words_by_length), NEW r, Fits(words_by_length[k], r)
    PROVE  Picked(Listed(words_by_length[k]), r)
<1> DEFINE w == words_by_length[k]
           p == [word |-> w, is_real |-> TRUE]
<1>1. w \in Words /\ InDictionary(w)
  BY ReadyWords DEF TypeOK
<1>2. Listed(w) = p /\ p \in Entry
  BY <1>1, PickerAssumption DEF Listed, Entry
<1>3. p # Garbage
  BY <1>2, PickerAssumption
<1> QED BY <1>1, <1>2, <1>3 DEF Picked

LEMMA FakeWordPicked ==
    ASSUME Sound(file), TypeOK, WordsInv, StreamInv, phase = "ready",
           NEW S \in SUBSET Words, NEW p \in MadeUp(S), NEW r, \A w \in S : Fits(w, r)
    PROVE  Picked(p, r)
<1>1. PICK w \in S : p = [word |-> w, is_real |-> FALSE]
                     /\ \A k \in 1 .. Len(words_by_length) : w # words_by_length[k]
  BY DEF MadeUp
<1>2. p # Garbage
  <2>1. p \in Entry
    BY <1>1 DEF Entry
  <2> QED BY <2>1, PickerAssumption
<1>3. ~InDictionary(w)
  BY <1>1, ReadyWords
<1> QED BY <1>1, <1>2, <1>3 DEF Picked

LEMMA ReplyFit ==
    ASSUME NEW r, NEW S, \A p \in S : Picked(p, r),
           NEW n \in Nat, NEW picked \in [1 .. n -> S], Reply(r, picked)
    PROVE  PickedFit'
<1>1. reply' = [kind |-> "words", request |-> r, picked |-> picked] /\ file' = file
  BY DEF Reply
<1>2. picked \in Seq(S) /\ Len(picked) = n
  OBVIOUS
<1>3. \A k \in 1 .. n : Picked(picked[k], r)
  OBVIOUS
<1> QED BY <1>1, <1>2, <1>3 DEF PickedFit, AllFit, Picked, Fits, InDictionary

LEMMA PickFit ==
    ASSUME NEW r, NEW S, NEW n \in Nat, \A p \in S : Picked(p, r), Pick(r, n, S)
    PROVE  PickedFit'
BY ReplyFit DEF Pick

\* If a, b and c separate the lengths below f, below t and up to t, and b is
\* before c, then there is a place after a up to c, and the lengths there are
\* f to t.
LEMMA Separated ==
    ASSUME NEW n \in Nat, NEW len \in [1 .. n -> Nat], NEW f \in Nat, NEW t \in Nat,
           NEW a \in Nat, NEW b \in Nat, NEW c \in Nat,
           f <= t, b < c, c <= n,
           \A k \in 1 .. n : (len[k] <= f - 1) <=> (k <= a),
           \A k \in 1 .. n : (len[k] <= t - 1) <=> (k <= b),
           \A k \in 1 .. n : (len[k] <= t) <=> (k <= c)
    PROVE  a < c /\ \A k \in 1 .. n : a < k /\ k <= c => f <= len[k] /\ len[k] <= t
<1>1. c \in 1 .. n /\ len[c] \in Nat
  OBVIOUS
<1>2. ~(len[c] <= t - 1)
  BY <1>1
<1>3. ~(len[c] <= f - 1)
  BY <1>1, <1>2
<1>4. a < c
  BY <1>1, <1>3
<1>5. ASSUME NEW k \in 1 .. n, a < k, k <= c PROVE f <= len[k] /\ len[k] <= t
  <2>1. k \in Nat /\ len[k] \in Nat
    OBVIOUS
  <2>2. len[k] <= t
    BY <1>5
  <2>3. ~(len[k] <= f - 1)
    BY <1>5, <2>1
  <2> QED BY <2>1, <2>2, <2>3
<1> QED BY <1>4, <1>5

\* Between the end of the group before f and that of t there are words, and
\* all of them have f to t letters.
LEMMA LengthRange ==
    ASSUME TypeOK, EndsInv, NEW t \in MinWordLength .. MaxWordLength, NEW f \in MinWordLength .. t,
           t < Len(word_length_ends)
    PROVE  LET first == word_length_ends[f]
               count == word_length_ends[t + 1] - first
           IN  /\ first \in Nat /\ count \in Nat /\ count > 0
               /\ \A j \in 0 .. count - 1 :
                    /\ first + j + 1 \in 1 .. Len(words_by_length)
                    /\ f <= Length[words_by_length[first + j + 1]]
                    /\ Length[words_by_length[first + j + 1]] <= t
<1> DEFINE n == Len(words_by_length)
           ends == word_length_ends
           m == Len(word_length_ends)
           len == [k \in 1 .. n |-> Length[words_by_length[k]]]
<1>1. n \in Nat /\ m \in Nat /\ f \in Nat /\ t \in Nat /\ 2 <= f /\ f <= t /\ t < m
      /\ f - 1 \in 0 .. m - 1 /\ t \in 0 .. m - 1 /\ t - 1 \in 0 .. m - 1 /\ t \in 2 .. m - 1
  BY PickerAssumption DEF TypeOK
<1>2. \A j \in 1 .. m : ends[j] \in Nat /\ ends[j] <= n
  <2>1. \A s \in Seq(Nat) : \A j \in 1 .. Len(s) : s[j] \in Nat
    OBVIOUS
  <2> QED BY <2>1 DEF TypeOK, EndsInv, EndsSeparate
<1>3. ends[f] \in Nat /\ ends[t] \in Nat /\ ends[t + 1] \in Nat /\ ends[t + 1] <= n
      /\ ends[t] < ends[t + 1]
  BY <1>1, <1>2 DEF EndsInv, EndsSeparate
<1>4. len \in [1 .. n -> Nat]
  BY PickerAssumption DEF TypeOK
<1>5. \A L \in 0 .. m - 1 : \A k \in 1 .. n : (len[k] <= L) <=> (k <= ends[L + 1])
  BY DEF EndsInv, EndsSeparate
<1>6. (f - 1) + 1 = f /\ (t - 1) + 1 = t
  BY <1>1
<1>7. \A k \in 1 .. n : (len[k] <= f - 1) <=> (k <= ends[f])
  <2>1. \A k \in 1 .. n : (len[k] <= f - 1) <=> (k <= ends[(f - 1) + 1])
    BY <1>1, <1>5
  <2> HIDE DEF len, ends, m, n
  <2> QED BY <1>6, <2>1
<1>8. \A k \in 1 .. n : (len[k] <= t - 1) <=> (k <= ends[t])
  <2>1. \A k \in 1 .. n : (len[k] <= t - 1) <=> (k <= ends[(t - 1) + 1])
    BY <1>1, <1>5
  <2> HIDE DEF len, ends, m, n
  <2> QED BY <1>6, <2>1
<1>9. \A k \in 1 .. n : (len[k] <= t) <=> (k <= ends[t + 1])
  BY <1>1, <1>5
<1>10. /\ ends[f] < ends[t + 1]
       /\ \A k \in 1 .. n : ends[f] < k /\ k <= ends[t + 1] => f <= len[k] /\ len[k] <= t
  <2>1. n \in Nat /\ f \in Nat /\ t \in Nat /\ f <= t
    BY <1>1
  <2>2. ends[f] \in Nat /\ ends[t] \in Nat /\ ends[t + 1] \in Nat
        /\ ends[t] < ends[t + 1] /\ ends[t + 1] <= n
    BY <1>3
  <2> DEFINE a == ends[f]
             b == ends[t]
             c == ends[t + 1]
  <2>3. a \in Nat /\ b \in Nat /\ c \in Nat /\ b < c /\ c <= n
    BY <2>2
  <2>4. /\ \A k \in 1 .. n : (len[k] <= f - 1) <=> (k <= a)
        /\ \A k \in 1 .. n : (len[k] <= t - 1) <=> (k <= b)
        /\ \A k \in 1 .. n : (len[k] <= t) <=> (k <= c)
    BY <1>7, <1>8, <1>9
  <2>5. a < c /\ \A k \in 1 .. n : a < k /\ k <= c => f <= len[k] /\ len[k] <= t
    <3> HIDE DEF a, b, c, len, ends, m, n
    <3> QED BY <1>4, <2>1, <2>3, <2>4, Separated
  <2> QED BY <2>5
<1>11. ASSUME NEW j \in 0 .. ends[t + 1] - ends[f] - 1
       PROVE  /\ ends[f] + j + 1 \in 1 .. n
              /\ ends[f] < ends[f] + j + 1 /\ ends[f] + j + 1 <= ends[t + 1]
  BY <1>1, <1>3
<1>12. \A k \in 1 .. n : len[k] = Length[words_by_length[k]]
  OBVIOUS
<1> QED
  <2>1. ends[f] \in Nat /\ ends[t + 1] - ends[f] \in Nat /\ ends[t + 1] - ends[f] > 0
    BY <1>3, <1>10
  <2>2. ASSUME NEW j \in 0 .. ends[t + 1] - ends[f] - 1
        PROVE  /\ ends[f] + j + 1 \in 1 .. n
               /\ f <= Length[words_by_length[ends[f] + j + 1]]
               /\ Length[words_by_length[ends[f] + j + 1]] <= t
    <3> HIDE DEF len, ends, n
    <3> QED BY <1>10, <1>11, <1>12
  <2> QED BY <2>1, <2>2

LEMMA ByLengthFit ==
    ASSUME Sound(file), SoundInv, NEW t \in MinWordLength .. MaxWordLength,
           NEW f \in MinWordLength .. MaxWordLength, NEW n \in Nat, PickByLength(f, t, n)
    PROVE  PickedFit'
<1> DEFINE r == ByLength(f, t)
           first == word_length_ends[f]
           count == word_length_ends[t + 1] - first
           real == {Listed(At(words_by_length, first + k)) : k \in Offset(count)}
           pattern == word_length_patterns[PatternIndex(f, t) + 1]
           matching == {w \in Words : pattern[1] <= Length[w] /\ Length[w] <= pattern[2]}
           fake == MadeUp(matching)
<1>1. f <= t /\ t < Len(word_length_ends) /\ phase = "ready" /\ Pick(r, n, real \cup fake)
  BY DEF PickByLength, RealByLength, FakeByLength, length_pattern
<1>2. TypeOK /\ WordsInv /\ StreamInv /\ EndsInv /\ PatternInv
      /\ t \in MinWordLength .. MaxWordLength /\ f \in MinWordLength .. t
  <2>1. f \in Int /\ MinWordLength <= f /\ t \in Int /\ MinWordLength \in Int
    BY PickerAssumption
  <2>2. f <= t
    BY DEF PickByLength
  <2>3. f \in MinWordLength .. t
    BY <2>1, <2>2
  <2> QED BY <2>3 DEF SoundInv
<1>3. /\ first \in Nat /\ count \in Nat /\ count > 0
      /\ \A j \in 0 .. count - 1 :
           /\ first + j + 1 \in 1 .. Len(words_by_length)
           /\ f <= Length[words_by_length[first + j + 1]]
           /\ Length[words_by_length[first + j + 1]] <= t
  BY <1>1, <1>2, LengthRange
<1>4. \A w : Fits(w, r) <=> f <= Length[w] /\ Length[w] <= t
  BY DEF Fits, ByLength
<1>5. ASSUME NEW p \in real PROVE Picked(p, r)
  <2>1. PICK j \in Offset(count) : p = Listed(At(words_by_length, first + j))
    OBVIOUS
  <2>2. j \in 0 .. count - 1
    BY <1>3 DEF Offset
  <2>3. first + j + 1 \in 1 .. Len(words_by_length) /\ first + j < Len(words_by_length)
    <3>1. first + j + 1 \in 1 .. Len(words_by_length)
      BY <1>3, <2>2
    <3>2. \A x \in Nat, y \in Nat : x + 1 \in 1 .. y => x < y
      OBVIOUS
    <3>3. first + j \in Nat
      BY <1>3, <2>2
    <3>4. Len(words_by_length) \in Nat
      BY <1>2 DEF TypeOK
    <3> QED BY <3>1, <3>2, <3>3, <3>4
  <2>4. p = Listed(words_by_length[first + j + 1])
    BY <2>1, <2>3 DEF At
  <2>5. Fits(words_by_length[first + j + 1], r)
    BY <1>3, <1>4, <2>2
  <2> QED BY <1>1, <1>2, <2>3, <2>4, <2>5, RealWordPicked
<1>6. ASSUME NEW p \in fake PROVE Picked(p, r)
  <2>1. to = MaxWordLength + 1 /\ t < to
    <3>1. to = MaxWordLength + 1
      BY <1>1, <1>2 DEF PatternInv
    <3> QED BY <3>1, PickerAssumption
  <2>2. pattern = <<f, t>>
    BY <1>2, <2>1 DEF PatternInv
  <2>3. \A w \in matching : Fits(w, r)
    BY <1>4, <2>2
  <2>4. matching \in SUBSET Words
    OBVIOUS
  <2> QED BY <1>1, <1>2, <1>6, <2>3, <2>4, FakeWordPicked
<1>7. \A p \in real \cup fake : Picked(p, r)
  BY <1>5, <1>6
<1> QED BY <1>1, <1>7, PickFit

LEMMA IndexFit ==
    ASSUME Sound(file), SoundInv, NEW i \in Indexes, NEW n \in Nat, PickFromIndex(i, n)
    PROVE  PickedFit'
<1> DEFINE r == FromIndex(i)
           m == Len(indexes[i])
           real == {Listed(At(indexes[i], k)) : k \in Offset(m)}
           matching == {w \in Words : i \in Matches[w]}
           fake == MadeUp(matching)
<1>1. phase = "ready" /\ Pick(r, n, real \cup fake)
  BY DEF PickFromIndex, RealFromIndex, FakeFromIndex
<1>2. TypeOK /\ WordsInv /\ StreamInv /\ IndexInv /\ m \in Nat
  BY DEF SoundInv, TypeOK
<1>3. \A w : Fits(w, r) <=> i \in Matches[w]
  BY DEF Fits, FromIndex
<1>4. m > 0
  <2>1. Sound(file) /\ Len(words_by_length) = Len(file.lines)
    BY <1>1, <1>2 DEF TypeOK, WordsInv, StreamInv
  <2>2. PICK k \in 1 .. Len(file.lines) : i \in Matches[file.lines[k].word]
    BY <2>1 DEF Sound
  <2>3. words_by_length[k] = file.lines[k].word
    BY <1>1, <1>2, <2>1 DEF WordsInv, StreamInv
  <2> QED BY <1>2, <2>1, <2>2, <2>3 DEF IndexInv
<1>5. ASSUME NEW p \in real PROVE Picked(p, r)
  <2>1. PICK j \in Offset(m) : p = Listed(At(indexes[i], j))
    OBVIOUS
  <2>2. j \in 0 .. m - 1 /\ j + 1 \in 1 .. m
    BY <1>2, <1>4 DEF Offset
  <2>3. p = Listed(indexes[i][j + 1])
    BY <1>2, <2>1, <2>2 DEF At
  <2>4. PICK k \in 1 .. Len(words_by_length) : words_by_length[k] = indexes[i][j + 1]
    BY <1>2, <2>2 DEF IndexInv
  <2>5. Fits(words_by_length[k], r)
    BY <1>2, <1>3, <2>2, <2>4 DEF IndexInv
  <2> QED BY <1>1, <1>2, <2>3, <2>4, <2>5, RealWordPicked
<1>6. ASSUME NEW p \in fake PROVE Picked(p, r)
  <2>1. matching \in SUBSET Words /\ \A w \in matching : Fits(w, r)
    BY <1>3
  <2> QED BY <1>1, <1>2, <1>6, <2>1, FakeWordPicked
<1>7. \A p \in real \cup fake : Picked(p, r)
  BY <1>5, <1>6
<1> QED BY <1>1, <1>7, PickFit

-----------------------------------------------------------------------------
(* The invariant.                                                          *)

LEMMA SamePicked ==
    ASSUME PickedFit, reply' = reply, file' = file
    PROVE  PickedFit'
BY DEF PickedFit, AllFit, Fits, InDictionary, Sound

LEMMA SoundInvInit == ASSUME Sound(file), Init PROVE SoundInv
<1>1. TypeOK /\ PatternInv
  BY TypeInit, PatternsStart
<1>2. /\ phase = "closed" /\ words_by_length = <<>> /\ word_length_ends = <<>>
      /\ stream.read = 0 /\ ~stream.eof /\ ~stream.fail /\ reply = NoReply
      /\ \A i \in Indexes : indexes[i] = <<>>
  BY DEF Init
<1>3. WordsInv
  BY <1>1, <1>2, SoundFile DEF WordsInv
<1>4. StreamInv
  BY <1>2 DEF StreamInv
<1>5. EndsInv
  BY <1>2 DEF EndsInv, EndsSeparate
<1>6. LengthInv
  BY <1>2 DEF LengthInv
<1>7. IndexInv
  BY <1>2 DEF IndexInv
<1>8. PickedFit
  BY <1>2 DEF PickedFit, AllFit
<1> QED BY <1>1, <1>3, <1>4, <1>5, <1>6, <1>7, <1>8 DEF SoundInv

LEMMA OpenInv ==
    ASSUME Sound(file), TypeOK, WordsInv, StreamInv, Open
    PROVE  WordsInv' /\ StreamInv' /\ EndsInv' /\ LengthInv'
<1>1. /\ phase = "closed" /\ phase' = "loading" /\ current_length' = 2
      /\ word_length_ends' = <<0, 0>>
      /\ UNCHANGED <<file, words_by_length>>
  BY DEF Open
<1>2. stream'.read = stream.read /\ stream'.eof = stream.eof /\ stream'.fail = ~file.exists
  BY DEF Open, TypeOK
<1>3. stream.read = 0 /\ ~stream.eof /\ Len(words_by_length) = 0
  BY <1>1 DEF StreamInv, WordsInv
<1>4. file.exists /\ Len(file.lines) > 0 /\ Len(file.lines) \in Nat
  BY SoundFile
<1>5. WordsInv'
  BY <1>1, <1>2 DEF WordsInv
<1>6. StreamInv'
  <2>1. stream'.fail = ~file.exists /\ file.exists
    BY <1>2, <1>4
  <2>2. ~stream'.fail /\ ~stream'.eof
    BY <1>2, <1>3, <2>1
  <2>3. stream'.read # Len(file'.lines)
    BY <1>1, <1>2, <1>3, <1>4
  <2> QED BY <1>1, <2>2, <2>3 DEF StreamInv
<1>7. Len(word_length_ends') = 2 /\ word_length_ends'[1] = 0 /\ word_length_ends'[2] = 0
  BY <1>1
<1>8. EndsInv'
  BY <1>1, <1>3, <1>7 DEF EndsInv, EndsSeparate
<1>9. LengthInv'
  BY <1>1, <1>3, <1>7 DEF LengthInv
<1> QED BY <1>5, <1>6, <1>8, <1>9

\* A step that only changes the phase, or nothing, outside the reply.
LEMMA SameTables ==
    ASSUME WordsInv, EndsInv, IndexInv, UNCHANGED <<file, stream, tables>>
    PROVE  WordsInv' /\ EndsInv' /\ IndexInv'
<1>1. UNCHANGED <<file, stream, words_by_length, word_length_ends, indexes>>
  BY DEF tables
<1> QED BY <1>1 DEF WordsInv, EndsInv, EndsSeparate, IndexInv

LEMMA SamePatterns ==
    ASSUME PatternInv, UNCHANGED <<word_length_patterns, from, to>>,
           phase' = "ready" => to = MaxWordLength + 1
    PROVE  PatternInv'
BY DEF PatternInv, PatternIndex

LEMMA SoundInvNext == ASSUME Sound(file), SoundInv, [Next]_vars PROVE SoundInv'
<1> USE DEF SoundInv
<1>1. TypeOK'
  BY TypeNext
<1>2. CASE Open
  <2>1. UNCHANGED <<file, words_by_length, indexes, word_length_patterns, from, to, reply>>
        /\ phase' = "loading"
    BY <1>2 DEF Open
  <2>2. IndexInv'
    BY <2>1 DEF IndexInv
  <2> QED BY <1>1, <1>2, <2>1, <2>2, OpenInv, SamePatterns, SamePicked
<1>3. CASE ReadLine
  <2>1. /\ WordsInv' /\ StreamInv' /\ phase' = "loading"
        /\ AddWord(file.lines[Len(words_by_length) + 1].word)
        /\ Len(words_by_length) + 1 \in 1 .. Len(file.lines)
    BY <1>3, ReadLineWords
  <2>2. EndsInv' /\ LengthInv'
    BY <1>3, ReadLineEnds
  <2>3. file.lines[Len(words_by_length) + 1].word \in Words
    BY <2>1, LineType
  <2>4. IndexInv'
    BY <2>1, <2>3, ReadLineIndexes
  <2>5. UNCHANGED <<file, word_length_patterns, from, to, reply>>
    BY <2>1 DEF AddWord
  <2> QED BY <1>1, <2>1, <2>2, <2>4, <2>5, SamePatterns, SamePicked
\* A sound file has its last line without a newline, and no line overflows.
<1>4. ~ReadNothing /\ ~ReadFails
  BY DEF ReadNothing, ReadFails, Loading, StreamInv
<1>5. CASE OutOfMemory
  <2>1. phase' = "aborted"
        /\ UNCHANGED <<file, stream, tables, word_length_patterns, from, to, reply>>
    BY <1>5 DEF OutOfMemory
  <2>2. StreamInv' /\ LengthInv'
    BY <2>1 DEF StreamInv, LengthInv
  <2> QED BY <1>1, <2>1, <2>2, SameTables, SamePatterns, SamePicked
<1>6. CASE EndOfDictionary
  <2>1. WordsInv' /\ StreamInv' /\ EndsInv' /\ LengthInv'
    BY <1>6, EndOfDictionaryEnds
  <2>2. phase' = "patterns"
        /\ UNCHANGED <<file, words_by_length, indexes, word_length_patterns, from, to, reply>>
    BY <1>6 DEF EndOfDictionary
  <2>3. IndexInv'
    BY <2>2 DEF IndexInv
  <2> QED BY <1>1, <2>1, <2>2, <2>3, SamePatterns, SamePicked
<1>7. CASE AddPattern
  <2>1. phase' = phase /\ UNCHANGED <<file, stream, tables, reply>> /\ phase = "patterns"
    BY <1>7 DEF AddPattern
  <2>2. StreamInv' /\ LengthInv'
    BY <2>1 DEF StreamInv, LengthInv, tables
  <2>3. PatternInv'
    BY <1>7, PatternsGrow
  <2> QED BY <1>1, <2>1, <2>2, <2>3, SameTables, SamePicked
<1>8. CASE Initialized
  <2>1. /\ phase = "patterns" /\ phase' = "ready" /\ to > MaxWordLength
        /\ UNCHANGED <<file, stream, tables, word_length_patterns, from, to, reply>>
    BY <1>8 DEF Initialized
  <2>2. StreamInv' /\ LengthInv'
    BY <2>1 DEF StreamInv, LengthInv, tables
  <2>3. to = MaxWordLength + 1
    BY <2>1, PickerAssumption DEF PatternInv, TypeOK
  <2> QED BY <1>1, <2>1, <2>2, <2>3, SameTables, SamePatterns, SamePicked
<1>9. ASSUME UNCHANGED <<phase, file, stream, tables, word_length_patterns, from, to>>, PickedFit'
      PROVE  SoundInv'
  <2>1. StreamInv' /\ LengthInv'
    BY <1>9 DEF StreamInv, LengthInv, tables
  <2>2. phase' = "ready" => to = MaxWordLength + 1
    BY <1>9 DEF PatternInv
  <2> QED BY <1>1, <1>9, <2>1, <2>2, SameTables, SamePatterns
<1>10. ASSUME NEW r, NEW picked, Reply(r, picked)
       PROVE  UNCHANGED <<phase, file, stream, tables, word_length_patterns, from, to>>
  BY <1>10 DEF Reply
<1>11. ASSUME NEW r, NEW n, NEW S, Pick(r, n, S)
       PROVE  UNCHANGED <<phase, file, stream, tables, word_length_patterns, from, to>>
  BY <1>10, <1>11 DEF Pick
<1>12. ASSUME NEW r, Reply(r, <<>>) PROVE SoundInv'
  <2>1. PickedFit'
    BY <1>12 DEF Reply, PickedFit, AllFit
  <2> QED BY <1>9, <1>10, <1>12, <2>1
<1>13. ASSUME NEW f \in MinWordLength .. MaxWordLength, NEW t \in MinWordLength .. MaxWordLength,
              NEW n \in Nat, PickByLength(f, t, n)
       PROVE  SoundInv'
  <2>1. PickedFit'
    BY <1>13, ByLengthFit
  <2> QED BY <1>9, <1>11, <1>13, <2>1 DEF PickByLength
\* The ends of a sound file reach up to MaxWordLength.
<1>14. ASSUME NEW f \in MinWordLength .. MaxWordLength, NEW t \in MinWordLength .. MaxWordLength,
              NEW n, PickBeyondLongest(f, t, n)
       PROVE  FALSE
  <2>1. PICK picked \in [1 .. n -> {Garbage}] : Reply(ByLength(f, t), picked)
    BY <1>14 DEF PickBeyondLongest, Pick
  <2>2. phase = "ready"
    BY <2>1 DEF Reply
  <2>3. t >= Len(word_length_ends)
    BY <1>14 DEF PickBeyondLongest
  <2>4. Len(word_length_ends) = MaxWordLength + 1
    BY <2>2 DEF LengthInv
  <2> QED BY <2>3, <2>4, Bounds
<1>15. ASSUME NEW f \in MinWordLength .. MaxWordLength, NEW t \in MinWordLength .. MaxWordLength,
              NEW n \in Nat, get_words_by_length(f, t, n)
       PROVE  SoundInv'
  BY <1>12, <1>13, <1>14, <1>15 DEF get_words_by_length, PickNoLength
<1>16. ASSUME NEW i, NEW n \in Nat, get_words_from_index(i, n) PROVE SoundInv'
  <2>1. CASE PickFromIndex(i, n)
    <3>1. i \in Indexes
      BY <2>1 DEF PickFromIndex
    <3>2. PickedFit'
      BY <2>1, <3>1, IndexFit
    <3> QED BY <1>9, <1>11, <2>1, <3>2 DEF PickFromIndex
  <2>2. CASE PickNoIndex(i, n)
    BY <1>12, <2>2 DEF PickNoIndex
  <2> QED BY <1>16, <2>1, <2>2 DEF get_words_from_index
<1>18. 0 .. NumWords \subseteq Nat
  BY PickerAssumption
<1>17. CASE UNCHANGED vars
  <2>1. UNCHANGED <<phase, file, stream, tables, word_length_patterns, from, to>> /\ reply' = reply
        /\ file' = file
    BY <1>17 DEF vars, tables
  <2> QED BY <1>9, <2>1, SamePicked
<1> QED BY <1>2, <1>3, <1>4, <1>5, <1>6, <1>7, <1>8, <1>15, <1>16, <1>17, <1>18
       DEF Next, initialize

\* The dictionary stays the one it is loaded from.
LEMMA SameFile == [Next]_vars => file' = file
BY DEF Next, initialize, vars, Open, ReadLine, ReadNothing, ReadFails, AddWord, OutOfMemory,
       EndOfDictionary, AddPattern, Initialized, get_words_by_length, PickByLength, PickNoLength,
       PickBeyondLongest, get_words_from_index, PickFromIndex, PickNoIndex, Pick, Reply

\* For a sound dictionary the lists, the ends of the groups, the indexes and
\* the pattern table fit together at every moment of the loading and after it:
\* PickerInv is inductive.
THEOREM PickerInvariant == Spec => []PickerInv
<1>1. Init => PickerInv
  BY SoundInvInit, TypeInit DEF PickerInv
<1>2. ASSUME PickerInv, [Next]_vars PROVE PickerInv'
  <2>1. TypeOK' /\ file' = file
    BY <1>2, TypeNext, SameFile DEF PickerInv
  <2>2. ASSUME Sound(file) PROVE SoundInv'
    BY <1>2, <2>2, SoundInvNext DEF PickerInv
  <2>3. Sound(file)' <=> Sound(file)
    BY <2>1 DEF Sound
  <2> QED BY <2>1, <2>2, <2>3 DEF PickerInv
<1> QED BY <1>1, <1>2, PTL DEF Spec

\* For a sound dictionary, however long, the recorded ends of the loaded
\* dictionary separate its words by length (word_picker.cpp 94-113).
THEOREM WordsAreGrouped == Spec => []GroupsByLength
<1>1. PickerInv => GroupsByLength
  BY DEF PickerInv, SoundInv, EndsInv, GroupsByLength
<1> QED BY <1>1, PickerInvariant, PTL

\* From a sound dictionary every word that get_words_by_length and
\* get_words_from_index return is of the length or the index asked for, comes
\* from inside the vectors, and is called real exactly if the dictionary has it.
THEOREM PicksFit == Spec => []PickedFit
<1>1. PickerInv => PickedFit
  BY DEF PickerInv, SoundInv, PickedFit
<1> QED BY <1>1, PickerInvariant, PTL

-----------------------------------------------------------------------------
(* Loading any dictionary.                                                 *)

\* A word that is added is the last of the list, and the others stay.
LEMMA AddWordLast ==
    ASSUME NEW w, AddWord(w), TypeOK
    PROVE  /\ UNCHANGED <<phase, file>>
           /\ Len(words_by_length) \in Nat
           /\ Len(words_by_length') = Len(words_by_length) + 1
           /\ words_by_length'[Len(words_by_length) + 1] = w
           /\ \A k \in 1 .. Len(words_by_length) : words_by_length'[k] = words_by_length[k]
<1>1. words_by_length \in Seq(Words) /\ words_by_length' = Append(words_by_length, w)
  BY DEF AddWord, TypeOK
<1>2. UNCHANGED <<phase, file>>
  BY DEF AddWord
<1> QED BY <1>1, <1>2

LEMMA ReadInvNext ==
    ASSUME TypeOK, ReadInv, [Next]_vars
    PROVE  ReadInv'
<1>1. /\ stream \in [read : Nat, eof : BOOLEAN, fail : BOOLEAN]
      /\ stream.read \in Nat /\ Len(file.lines) \in Nat
  BY PickerAssumption DEF TypeOK
<1>2. CASE Open
  <2>1. phase = "closed" /\ phase' = "loading" /\ UNCHANGED <<file, words_by_length>>
    BY <1>2 DEF Open
  <2>2. stream' = [stream EXCEPT !.fail = ~file.exists]
    BY <1>2 DEF Open
  <2>3. stream'.read = stream.read /\ stream'.eof = stream.eof /\ stream'.fail = ~file.exists
    BY <1>1, <2>2
  <2> QED BY <2>1, <2>3 DEF ReadInv
<1>3. CASE ReadLine
  <2>1. /\ phase = "loading" /\ ~stream.eof /\ ~stream.fail
        /\ stream.read < Len(file.lines)
        /\ AddWord(file.lines[stream.read + 1].word)
    BY <1>3 DEF ReadLine, Loading
  <2>2. stream'.read = stream.read + 1
        /\ (stream'.eof => stream.read + 1 = Len(file.lines))
    BY <1>3 DEF ReadLine
  <2>3. Len(words_by_length) = stream.read /\ file.exists
    BY <2>1 DEF ReadInv
  <2>4. /\ UNCHANGED <<phase, file>>
        /\ Len(words_by_length') = stream.read + 1
        /\ words_by_length'[stream.read + 1] = file.lines[stream.read + 1].word
        /\ \A k \in 1 .. stream.read : words_by_length'[k] = words_by_length[k]
    BY <2>1, <2>3, AddWordLast
  <2>5. \A k \in 1 .. stream.read + 1 : words_by_length'[k] = file.lines[k].word
    BY <1>1, <2>4 DEF ReadInv
  <2> QED BY <1>1, <2>1, <2>2, <2>3, <2>4, <2>5 DEF ReadInv
<1>4. CASE ReadNothing
  <2>1. /\ phase = "loading" /\ ~stream.fail
        /\ stream.read = Len(file.lines) /\ AddWord(EmptyWord)
        /\ stream' = [stream EXCEPT !.eof = TRUE, !.fail = TRUE]
    BY <1>4 DEF ReadNothing, Loading
  <2>2. stream'.read = stream.read /\ stream'.fail
    BY <1>1, <2>1
  <2>3. Len(words_by_length) = stream.read /\ file.exists
    BY <2>1 DEF ReadInv
  <2>4. /\ UNCHANGED <<phase, file>>
        /\ Len(words_by_length') = stream.read + 1
        /\ \A k \in 1 .. stream.read : words_by_length'[k] = words_by_length[k]
    BY <2>1, <2>3, AddWordLast
  <2> QED BY <1>1, <2>1, <2>2, <2>3, <2>4 DEF ReadInv
<1>5. CASE ReadFails
  <2>1. phase = "loading" /\ ~stream.eof /\ stream.fail /\ UNCHANGED stream
        /\ AddWord(EmptyWord)
    BY <1>5 DEF ReadFails, Loading
  <2>2. /\ UNCHANGED <<phase, file>>
        /\ Len(words_by_length) \in Nat
        /\ Len(words_by_length') = Len(words_by_length) + 1
        /\ \A k \in 1 .. Len(words_by_length) : words_by_length'[k] = words_by_length[k]
    BY <2>1, AddWordLast
  <2> QED BY <1>1, <2>1, <2>2 DEF ReadInv
<1>6. CASE OutOfMemory
  <2>1. phase' = "aborted" /\ phase = "loading" /\ UNCHANGED <<file, stream, words_by_length>>
    BY <1>6 DEF OutOfMemory, Loading, tables
  <2> QED BY <2>1 DEF ReadInv
<1>7. CASE EndOfDictionary
  <2>1. /\ phase' = "patterns" /\ phase = "loading" /\ stream.eof
        /\ UNCHANGED <<file, stream, words_by_length>>
    BY <1>7 DEF EndOfDictionary
  <2> QED BY <2>1 DEF ReadInv
<1>8. CASE AddPattern \/ Initialized
  <2>1. /\ phase = "patterns" /\ phase' \in {"patterns", "ready"}
        /\ UNCHANGED <<file, stream, words_by_length>>
    BY <1>8 DEF AddPattern, Initialized, tables
  <2> QED BY <2>1 DEF ReadInv
<1>9. CASE UNCHANGED <<phase, file, stream, words_by_length>>
  BY <1>9 DEF ReadInv
<1>10. ASSUME NEW n, NEW f, NEW t, get_words_by_length(f, t, n)
       PROVE  UNCHANGED <<phase, file, stream, words_by_length>>
  BY <1>10 DEF get_words_by_length, PickByLength, PickNoLength, PickBeyondLongest, Pick,
      Reply, tables
<1>11. ASSUME NEW n, NEW i, get_words_from_index(i, n)
       PROVE  UNCHANGED <<phase, file, stream, words_by_length>>
  BY <1>11 DEF get_words_from_index, PickFromIndex, PickNoIndex, Pick, Reply, tables
<1>12. CASE UNCHANGED vars
  BY <1>9, <1>12 DEF vars
<1> QED
  BY <1>2, <1>3, <1>4, <1>5, <1>6, <1>7, <1>8, <1>9, <1>10, <1>11, <1>12
  DEF Next, initialize

\* For every file, sound or not: if the picker gets ready, every line was read,
\* in order, and at most an empty word was added.
THEOREM ReadyOnlyWhenRead == Spec => []ReadyMeansRead
<1>1. ASSUME Init PROVE ReadInv
  <2>1. Len(file.lines) \in Nat
    BY <1>1, TypeInit, PickerAssumption DEF TypeOK
  <2> QED BY <1>1, <2>1 DEF Init, ReadInv
<1>2. TypeOK /\ ReadInv /\ [Next]_vars => ReadInv'
  BY ReadInvNext
<1>3. ReadInv => ReadyMeansRead
  BY DEF ReadInv, ReadyMeansRead
<1> QED BY <1>1, <1>2, <1>3, PickerTypeCorrect, PTL DEF Spec

-----------------------------------------------------------------------------
(* The indexes of any dictionary.                                          *)

\* The positions up to k are as many as are counted, and no more than up to n.
LEMMA MatchingCount ==
    ASSUME NEW i, NEW n \in Nat, NEW k \in 0 .. n
    PROVE  /\ IsFiniteSet(Matching(i, k))
           /\ Cardinality(Matching(i, k)) \in Nat
           /\ Cardinality(Matching(i, k)) <= Cardinality(Matching(i, n))
           /\ k \in Matching(i, k) => Cardinality(Matching(i, k)) > 0
<1>1. IsFiniteSet(1 .. n)
  BY FS_Interval
<1>2. Matching(i, n) \in SUBSET (1 .. n) /\ Matching(i, k) \in SUBSET Matching(i, n)
  BY DEF Matching
<1>3. IsFiniteSet(Matching(i, n))
  BY <1>1, <1>2, FS_Subset
<1>4. IsFiniteSet(Matching(i, k)) /\ Cardinality(Matching(i, k)) <= Cardinality(Matching(i, n))
  BY <1>2, <1>3, FS_Subset
<1>5. Cardinality(Matching(i, k)) \in Nat
  BY <1>4, FS_CardinalityType
<1>6. k \in Matching(i, k) => Cardinality(Matching(i, k)) # 0
  BY <1>4, FS_EmptySet
<1> QED BY <1>4, <1>5, <1>6

\* A word that is added is listed last in each index that it matches.
LEMMA AddWordIndexes ==
    ASSUME NEW w \in Words, AddWord(w), TypeOK, IndexesComplete
    PROVE  IndexesComplete'
<1>0. PICK n \in Nat : n = Len(words_by_length)
  BY AddWordLast
<1>1. /\ n \in Nat /\ Len(words_by_length') = n + 1
      /\ words_by_length'[n + 1] = w
      /\ \A k \in 1 .. n : words_by_length'[k] = words_by_length[k]
  BY <1>0, AddWordLast
<1>2. /\ indexes \in [Indexes -> Seq(Words)]
      /\ indexes' = [i \in Indexes |-> IF i \in Matches[w] THEN Append(indexes[i], w)
                                                           ELSE indexes[i]]
  BY DEF AddWord, TypeOK
<1> SUFFICES ASSUME NEW i \in Indexes
             PROVE  /\ Len(indexes'[i]) = Cardinality(Matching(i, n + 1)')
                    /\ \A k \in Matching(i, n + 1)' :
                          indexes'[i][Cardinality(Matching(i, k)')] = words_by_length'[k]
  BY <1>1 DEF IndexesComplete
<1>3. /\ Len(indexes[i]) = Cardinality(Matching(i, n))
      /\ \A k \in Matching(i, n) :
            indexes[i][Cardinality(Matching(i, k))] = words_by_length[k]
  BY <1>0 DEF IndexesComplete
<1>4. \A k \in 0 .. n : Matching(i, k)' = Matching(i, k)
  BY <1>1 DEF Matching
<1>5. Matching(i, n + 1)' = IF i \in Matches[w] THEN Matching(i, n) \cup {n + 1} ELSE Matching(i, n)
  <2>1. \A k \in 1 .. n + 1 : k \in 1 .. n \/ k = n + 1
    BY <1>1
  <2> QED BY <1>1, <2>1 DEF Matching
<1>6. \A k \in Matching(i, n) :
        /\ k \in 1 .. n /\ Matching(i, k)' = Matching(i, k)
        /\ Cardinality(Matching(i, k)) \in 1 .. Cardinality(Matching(i, n))
        /\ words_by_length'[k] = words_by_length[k]
  <2> SUFFICES ASSUME NEW k \in Matching(i, n)
               PROVE  /\ k \in 1 .. n /\ Matching(i, k)' = Matching(i, k)
                      /\ Cardinality(Matching(i, k)) \in 1 .. Cardinality(Matching(i, n))
                      /\ words_by_length'[k] = words_by_length[k]
    OBVIOUS
  <2>1. k \in 1 .. n /\ k \in 0 .. n /\ k \in Matching(i, k)
    BY <1>1 DEF Matching
  <2>2. Cardinality(Matching(i, n)) \in Nat
    <3>1. n \in 0 .. n
      BY <1>1
    <3> QED BY <1>1, <3>1, MatchingCount
  <2>3. /\ Cardinality(Matching(i, k)) \in Nat /\ Cardinality(Matching(i, k)) > 0
        /\ Cardinality(Matching(i, k)) <= Cardinality(Matching(i, n))
    BY <1>1, <2>1, MatchingCount
  <2> QED BY <1>1, <1>4, <2>1, <2>2, <2>3
<1>7. CASE i \notin Matches[w]
  <2>1. indexes'[i] = indexes[i] /\ Matching(i, n + 1)' = Matching(i, n)
    BY <1>2, <1>5, <1>7
  <2> QED BY <1>3, <1>6, <2>1
<1>8. CASE i \in Matches[w]
  <2>1. indexes'[i] = Append(indexes[i], w) /\ Matching(i, n + 1)' = Matching(i, n) \cup {n + 1}
    BY <1>2, <1>5, <1>8
  <2>2. /\ Len(indexes'[i]) = Len(indexes[i]) + 1
        /\ indexes'[i][Len(indexes[i]) + 1] = w
        /\ \A j \in 1 .. Len(indexes[i]) : indexes'[i][j] = indexes[i][j]
    BY <1>2, <2>1
  <2>3. IsFiniteSet(Matching(i, n)) /\ n + 1 \notin Matching(i, n)
    <3>1. n \in 0 .. n /\ n + 1 \notin 1 .. n
      BY <1>1
    <3>2. IsFiniteSet(Matching(i, n))
      BY <1>1, <3>1, MatchingCount
    <3> QED BY <3>1, <3>2 DEF Matching
  <2>4. Cardinality(Matching(i, n + 1)') = Len(indexes[i]) + 1
    BY <1>3, <2>1, <2>3, FS_AddElement
  <2>5. ASSUME NEW k \in Matching(i, n)
        PROVE  indexes'[i][Cardinality(Matching(i, k)')] = words_by_length'[k]
    BY <1>3, <1>6, <2>2
  <2>6. indexes'[i][Cardinality(Matching(i, n + 1)')] = words_by_length'[n + 1]
    BY <1>1, <2>2, <2>4
  <2> QED BY <2>1, <2>2, <2>4, <2>5, <2>6
<1> QED BY <1>7, <1>8

\* For every file: each index lists the words that match it, each as often as the
\* dictionary has it and in its order, at every moment of the loading.
THEOREM IndexesAreComplete == Spec => []IndexesComplete
<1>1. ASSUME Init PROVE IndexesComplete
  <2>1. words_by_length = <<>> /\ indexes = [i \in Indexes |-> <<>>]
    BY <1>1 DEF Init
  <2>2. Len(words_by_length) = 0
    BY <2>1
  <2>3. \A i : Matching(i, 0) = {}
    BY DEF Matching
  <2>4. \A i \in Indexes : Len(indexes[i]) = 0
    BY <2>1
  <2> QED BY <2>2, <2>3, <2>4, FS_EmptySet DEF IndexesComplete
<1>2. ASSUME TypeOK, IndexesComplete, [Next]_vars PROVE IndexesComplete'
  <2>1. ASSUME NEW w \in Words, AddWord(w)
        PROVE  IndexesComplete'
    BY <1>2, <2>1, AddWordIndexes
  <2>2. CASE ReadLine
    <3>1. PICK w \in Words : AddWord(w)
      <4>1. /\ AddWord(file.lines[stream.read + 1].word)
            /\ stream.read < Len(file.lines)
        BY <2>2 DEF ReadLine
      <4>2. stream.read + 1 \in 1 .. Len(file.lines)
        BY <1>2, <4>1, PickerAssumption DEF TypeOK
      <4> QED BY <1>2, <4>1, <4>2, LineType
    <3> QED BY <2>1, <3>1
  <2>3. CASE ReadNothing \/ ReadFails
    <3>1. AddWord(EmptyWord) /\ EmptyWord \in Words
      BY <2>3, PickerAssumption DEF ReadNothing, ReadFails
    <3> QED BY <2>1, <3>1
  <2>4. CASE UNCHANGED <<words_by_length, indexes>>
    BY <1>2, <2>4 DEF IndexesComplete, Matching
  <2>5. CASE Open \/ OutOfMemory \/ EndOfDictionary \/ AddPattern \/ Initialized
    BY <2>4, <2>5 DEF Open, OutOfMemory, EndOfDictionary, AddPattern, Initialized, tables
  <2>6. ASSUME NEW n, NEW f, NEW t, get_words_by_length(f, t, n)
        PROVE  UNCHANGED <<words_by_length, indexes>>
    BY <2>6 DEF get_words_by_length, PickByLength, PickNoLength, PickBeyondLongest, Pick,
        Reply, tables
  <2>7. ASSUME NEW n, NEW i, get_words_from_index(i, n)
        PROVE  UNCHANGED <<words_by_length, indexes>>
    BY <2>7 DEF get_words_from_index, PickFromIndex, PickNoIndex, Pick, Reply, tables
  <2>8. CASE UNCHANGED vars
    BY <2>4, <2>8 DEF vars
  <2> QED
    BY <1>2, <2>2, <2>3, <2>4, <2>5, <2>6, <2>7, <2>8 DEF Next, initialize
<1> QED BY <1>1, <1>2, PickerTypeCorrect, PTL DEF Spec

-----------------------------------------------------------------------------
(* The end of initialize(), for any dictionary.                            *)

\* Serving words changes nothing that initialize() works on.
LEMMA ServingSteps ==
    ASSUME [Next]_vars, ~initialize
    PROVE  /\ UNCHANGED <<phase, file, stream, words_by_length, from, to>>
           /\ phase = "ready" \/ UNCHANGED vars
<1>1. ASSUME NEW n, NEW f, NEW t, get_words_by_length(f, t, n)
      PROVE  phase = "ready" /\ UNCHANGED <<phase, file, stream, words_by_length, from, to>>
  BY <1>1 DEF get_words_by_length, PickByLength, PickNoLength, PickBeyondLongest, Pick, Reply, tables
<1>2. ASSUME NEW n, NEW i, get_words_from_index(i, n)
      PROVE  phase = "ready" /\ UNCHANGED <<phase, file, stream, words_by_length, from, to>>
  BY <1>2 DEF get_words_from_index, PickFromIndex, PickNoIndex, Pick, Reply, tables
<1>3. CASE UNCHANGED vars
  BY <1>3 DEF vars
<1> QED BY <1>1, <1>2, <1>3 DEF Next

\* The loading loop adds a word in each step, or ends.
LEMMA LoadingSteps ==
    ASSUME TypeOK, ReadLine \/ ReadNothing \/ ReadFails
    PROVE  /\ phase = "loading" /\ phase' = "loading" /\ ~stream.eof
           /\ Len(words_by_length) \in Nat /\ Len(words_by_length) < Capacity
           /\ Len(words_by_length') = Len(words_by_length) + 1
           /\ UNCHANGED <<file, from, to>>
<1>1. phase = "loading" /\ ~stream.eof /\ \E w : AddWord(w)
  BY DEF ReadLine, ReadNothing, ReadFails, Loading
<1>2. PICK w : AddWord(w)
  BY <1>1
<1> QED BY <1>1, <1>2, AddWordLast DEF AddWord

\* A step to another phase leaves the list and the loops of the patterns alone.
LEMMA PhaseSteps ==
    ASSUME Open \/ OutOfMemory \/ EndOfDictionary \/ Initialized
    PROVE  /\ UNCHANGED <<file, words_by_length, from, to>>
           /\ \/ phase = "closed" /\ phase' = "loading"
              \/ phase = "loading" /\ phase' \in {"aborted", "patterns"}
              \/ phase = "patterns" /\ phase' = "ready"
BY DEF Open, OutOfMemory, EndOfDictionary, Initialized, Loading, tables

LEMMA LoopsInvNext ==
    ASSUME TypeOK, LoopsInv, [Next]_vars
    PROVE  LoopsInv'
<1>1. /\ Capacity \in Nat /\ MinWordLength = 2 /\ MaxWordLength \in Nat
      /\ from \in Nat /\ to \in Nat
  BY Bounds, PickerAssumption DEF TypeOK
<1>2. CASE ReadLine \/ ReadNothing \/ ReadFails
  <2>1. /\ phase' = "loading" /\ Len(words_by_length) \in Nat
        /\ Len(words_by_length) < Capacity /\ Len(words_by_length') = Len(words_by_length) + 1
        /\ UNCHANGED <<from, to>>
    BY <1>2, LoadingSteps
  <2>2. Len(words_by_length') <= Capacity
    BY <1>1, <2>1
  <2> QED BY <2>1, <2>2 DEF LoopsInv
<1>3. CASE Open \/ OutOfMemory \/ EndOfDictionary \/ Initialized
  BY <1>3, PhaseSteps DEF LoopsInv
<1>4. CASE AddPattern
  <2>1. /\ phase' = "patterns" /\ to <= MaxWordLength /\ UNCHANGED words_by_length
        /\ IF from < to THEN from' = from + 1 /\ to' = to
                        ELSE from' = MinWordLength /\ to' = to + 1
    BY <1>4 DEF AddPattern, tables
  <2>2. MinWordLength <= from' /\ from' <= to' /\ to' <= MaxWordLength + 1
    BY <1>1, <2>1 DEF LoopsInv
  <2> QED BY <2>1, <2>2 DEF LoopsInv
<1>5. CASE ~initialize
  BY <1>5, ServingSteps DEF LoopsInv
<1> QED BY <1>2, <1>3, <1>4, <1>5 DEF initialize

LEMMA LoopsInvHolds == Spec => []LoopsInv
<1>1. Init => LoopsInv
  <2> SUFFICES ASSUME Init PROVE LoopsInv
    OBVIOUS
  <2>1. Len(words_by_length) = 0
    BY DEF Init
  <2> QED BY <2>1, Bounds, PickerAssumption DEF Init, LoopsInv
<1> QED BY <1>1, LoopsInvNext, PickerTypeCorrect, PTL DEF Spec

\* The values of PhasesLeft, before a step and after it.
LEMMA PhaseValues ==
    /\ phase = "closed" => PhasesLeft = Capacity + 3
    /\ phase = "loading" => PhasesLeft = Capacity - Len(words_by_length) + 2
    /\ phase = "patterns" => PhasesLeft = 1
    /\ phase \in {"ready", "aborted"} => PhasesLeft = 0
    /\ phase' = "loading" => PhasesLeft' = Capacity - Len(words_by_length') + 2
    /\ phase' = "patterns" => PhasesLeft' = 1
    /\ phase' \in {"ready", "aborted"} => PhasesLeft' = 0
BY DEF PhasesLeft

LEMMA StepsLeft == TypeOK /\ LoopsInv => PatternsLeft \in Nat /\ PhasesLeft \in Nat
<1> SUFFICES ASSUME TypeOK, LoopsInv PROVE PatternsLeft \in Nat /\ PhasesLeft \in Nat
  OBVIOUS
<1>1. /\ Capacity \in Nat /\ MinWordLength = 2 /\ MaxWordLength \in Nat
      /\ from \in Nat /\ to \in Nat /\ Len(words_by_length) \in Nat
  BY Bounds, PickerAssumption DEF TypeOK
<1>2. PatternsLeft \in Nat
  <2> DEFINE x == MaxWordLength + 1 - to
             y == to - from
             m == MaxWordLength + 1
  <2>1. x \in Nat /\ y \in Nat /\ m \in Nat
    BY <1>1 DEF LoopsInv
  <2> HIDE DEF x, y, m
  <2>2. x * m + y \in Nat
    <3>1. x * m \in Nat
      BY <2>1
    <3> QED BY <2>1, <3>1
  <2> QED BY <2>2 DEF PatternsLeft, x, y, m
<1>3. PhasesLeft \in Nat
  BY <1>1 DEF LoopsInv, PhasesLeft, TypeOK
<1> QED BY <1>2, <1>3

LEMMA PatternTaken ==
    ASSUME TypeOK, LoopsInv, AddPattern
    PROVE  PatternsLeft' < PatternsLeft
<1>1. /\ MinWordLength = 2 /\ MaxWordLength \in Nat /\ from \in Nat /\ to \in Nat
      /\ from <= to /\ to <= MaxWordLength
  BY Bounds, PickerAssumption DEF TypeOK, LoopsInv, AddPattern
<1> DEFINE x == MaxWordLength - to
           m == MaxWordLength + 1
           z == x * m
<1>2. x \in Nat /\ m \in Nat /\ z \in Nat
  BY <1>1
<1>3. PatternsLeft = z + m + (to - from)
  <2>1. MaxWordLength + 1 - to = x + 1
    BY <1>1
  <2>2. (x + 1) * m = z + m
    BY <1>2
  <2> QED BY <2>1, <2>2 DEF PatternsLeft
<1>4. CASE from < to
  <2>1. from' = from + 1 /\ to' = to
    BY <1>4 DEF AddPattern
  <2>2. PatternsLeft' = z + m + (to - (from + 1))
    <3>1. MaxWordLength + 1 - to = x + 1
      BY <1>1
    <3>2. (x + 1) * m = z + m
      BY <1>2
    <3> QED BY <2>1, <3>1, <3>2 DEF PatternsLeft
  <2> HIDE DEF x, m, z
  <2> QED BY <1>1, <1>2, <1>3, <2>2
<1>5. CASE ~(from < to)
  <2>1. from' = 2 /\ to' = to + 1 /\ from = to
    BY <1>1, <1>5 DEF AddPattern
  <2>2. PatternsLeft' = z + (to + 1 - 2)
    <3>1. MaxWordLength + 1 - to' = x
      BY <1>1, <2>1
    <3>2. to' - from' = to + 1 - 2
      BY <1>1, <2>1
    <3>3. PatternsLeft' = (MaxWordLength + 1 - to') * m + (to' - from')
      BY DEF PatternsLeft
    <3> QED BY <3>1, <3>2, <3>3
  <2>3. to + 1 - 2 < m
    BY <1>1
  <2> HIDE DEF x, m, z
  <2> QED BY <1>1, <1>2, <1>3, <2>1, <2>2, <2>3
<1> QED BY <1>4, <1>5

LEMMA OneLess == \A a, b, c, d \in Nat : c <= a /\ d <= b /\ (c < a \/ d < b) => c + d < a + b
OBVIOUS

LEMMA GetsOn ==
    ASSUME TypeOK, LoopsInv, LoopsInv', Next, phase \notin {"ready", "aborted"},
           vars' # vars, PatternsLeft' \in Nat, PhasesLeft' \in Nat
    PROVE  PatternsLeft' + PhasesLeft' < PatternsLeft + PhasesLeft
<1>1. /\ PatternsLeft \in Nat /\ PhasesLeft \in Nat
      /\ PatternsLeft' \in Nat /\ PhasesLeft' \in Nat /\ Capacity \in Nat
      /\ Len(words_by_length) \in Nat
  BY StepsLeft, PickerAssumption DEF TypeOK
<1>2. initialize
  BY ServingSteps
<1>3. CASE ReadLine \/ ReadNothing \/ ReadFails
  <2>1. PatternsLeft' = PatternsLeft
    BY <1>3, LoadingSteps DEF PatternsLeft
  <2>2. PhasesLeft' < PhasesLeft
    <3>1. /\ PhasesLeft = Capacity - Len(words_by_length) + 2
          /\ PhasesLeft' = Capacity - Len(words_by_length') + 2
          /\ Len(words_by_length') = Len(words_by_length) + 1
      BY <1>3, LoadingSteps, PhaseValues
    <3> QED BY <1>1, <3>1
  <2>3. PatternsLeft' <= PatternsLeft /\ PhasesLeft' <= PhasesLeft
    BY <1>1, <2>1, <2>2
  <2> QED BY <1>1, <2>2, <2>3, OneLess
<1>4. CASE Open \/ OutOfMemory \/ EndOfDictionary \/ Initialized
  <2>1. PatternsLeft' = PatternsLeft
    BY <1>4, PhaseSteps DEF PatternsLeft
  <2>2. PhasesLeft' < PhasesLeft
    <3>1. CASE phase = "closed" /\ phase' = "loading"
      <4>1. Len(words_by_length') = 0
        BY <1>4, <3>1, PhaseSteps DEF LoopsInv
      <4>2. PhasesLeft = Capacity + 3 /\ PhasesLeft' = Capacity - 0 + 2
        BY <3>1, <4>1, PhaseValues
      <4> QED BY <1>1, <4>2
    <3>2. CASE phase = "loading" /\ phase' \in {"aborted", "patterns"}
      <4>1. PhasesLeft = Capacity - Len(words_by_length) + 2 /\ PhasesLeft' \in {0, 1}
        BY <3>2, PhaseValues
      <4> QED BY <1>1, <4>1 DEF LoopsInv
    <3>3. CASE phase = "patterns" /\ phase' = "ready"
      BY <3>3, PhaseValues
    <3>4. \/ phase = "closed" /\ phase' = "loading"
          \/ phase = "loading" /\ phase' \in {"aborted", "patterns"}
          \/ phase = "patterns" /\ phase' = "ready"
      BY <1>4, PhaseSteps
    <3> QED BY <3>1, <3>2, <3>3, <3>4
  <2>3. PatternsLeft' <= PatternsLeft /\ PhasesLeft' <= PhasesLeft
    BY <1>1, <2>1, <2>2
  <2> QED BY <1>1, <2>2, <2>3, OneLess
<1>5. CASE AddPattern
  <2>1. PatternsLeft' < PatternsLeft
    BY <1>5, PatternTaken
  <2>2. PhasesLeft' = PhasesLeft
    <3>1. phase = "patterns" /\ phase' = "patterns"
      BY <1>5 DEF AddPattern
    <3> QED BY <3>1, PhaseValues
  <2>3. PatternsLeft' <= PatternsLeft /\ PhasesLeft' <= PhasesLeft
    BY <1>1, <2>1, <2>2
  <2> QED BY <1>1, <2>1, <2>3, OneLess
<1> QED BY <1>2, <1>3, <1>4, <1>5 DEF initialize

\* For every file: each step of initialize() leaves fewer steps to do, so that it comes
\* to its end, or to that of the memory (word_picker.cpp 78-126).
THEOREM InitializeAlwaysGetsOn == Spec => InitializeGetsOn
<1> DEFINE Counted == PatternsLeft \in Nat /\ PhasesLeft \in Nat
<1>1. ASSUME TypeOK, LoopsInv, LoopsInv', [Next]_vars, Counted, Counted'
      PROVE  [phase \notin {"ready", "aborted"} =>
                 /\ PatternsLeft \in Nat /\ PhasesLeft \in Nat
                 /\ PatternsLeft' + PhasesLeft' < PatternsLeft + PhasesLeft]_vars
  BY <1>1, GetsOn
<1>2. TypeOK /\ LoopsInv => Counted
  BY StepsLeft
<1> HIDE DEF Counted
<1> QED BY <1>1, <1>2, LoopsInvHolds, PickerTypeCorrect, PTL DEF Spec, InitializeGetsOn

LEMMA ReadableInvNext ==
    ASSUME TypeOK, ReadInv, ReadableInv, [Next]_vars
    PROVE  ReadableInv'
<1> SUFFICES ASSUME Readable(file)
             PROVE  /\ ~stream'.eof => ~stream'.fail
                    /\ Len(file.lines) < Capacity => phase' # "aborted"
  BY SameFile DEF ReadableInv, Readable
<1>1. /\ stream \in [read : Nat, eof : BOOLEAN, fail : BOOLEAN]
      /\ Len(file.lines) \in Nat /\ stream.read \in Nat /\ Capacity \in Nat
  BY PickerAssumption DEF TypeOK
<1>2. /\ ~stream.eof => ~stream.fail
      /\ Len(file.lines) < Capacity => phase # "aborted"
  BY DEF ReadableInv
<1>3. CASE Open
  <2>1. stream' = [stream EXCEPT !.fail = FALSE] /\ phase' = "loading"
    BY <1>3 DEF Open, Readable
  <2> QED BY <1>1, <2>1
<1>4. CASE ReadLine
  <2>1. stream.read + 1 \in 1 .. Len(file.lines) /\ stream'.fail = ~file.lines[stream.read + 1].fits
    BY <1>1, <1>4 DEF ReadLine
  <2>2. ~stream'.fail
    BY <2>1 DEF Readable
  <2> QED BY <1>4, <2>2, LoadingSteps
<1>5. CASE ReadNothing
  <2>1. stream'.eof
    BY <1>1, <1>5 DEF ReadNothing
  <2> QED BY <1>5, <2>1, LoadingSteps
<1>6. CASE ReadFails
  BY <1>2, <1>6, LoadingSteps DEF ReadFails
<1>7. CASE OutOfMemory
  <2>1. Len(words_by_length) = stream.read /\ stream.read <= Len(file.lines)
          /\ Len(words_by_length) >= Capacity
    BY <1>2, <1>7 DEF OutOfMemory, Loading, ReadInv
  <2>2. ~(Len(file.lines) < Capacity)
    BY <1>1, <2>1
  <2> QED BY <1>2, <1>7, <2>2 DEF OutOfMemory
<1>8. CASE EndOfDictionary \/ AddPattern \/ Initialized
  BY <1>2, <1>8 DEF EndOfDictionary, AddPattern, Initialized
<1>9. CASE ~initialize
  BY <1>2, <1>9, ServingSteps
<1> QED BY <1>3, <1>4, <1>5, <1>6, <1>7, <1>8, <1>9 DEF initialize

\* A dictionary that can be read and fits in memory never takes the server down,
\* however its words are ordered and its last line ends.
THEOREM ReadableNeverTakesDown == Spec => []ReadableNeverAborts
<1>1. Init => ReadInv
  <2> SUFFICES ASSUME Init PROVE ReadInv
    OBVIOUS
  <2>1. Len(file.lines) \in Nat
    BY TypeInit, PickerAssumption DEF TypeOK
  <2> QED BY <2>1 DEF Init, ReadInv
<1>2. Init => ReadableInv
  BY DEF Init, ReadableInv
<1>3. TypeOK /\ ReadInv /\ [Next]_vars => ReadInv'
  BY ReadInvNext
<1>4. TypeOK /\ ReadInv /\ ReadableInv /\ [Next]_vars => ReadableInv'
  BY ReadableInvNext
<1>5. ReadableInv => ReadableNeverAborts
  BY DEF ReadableInv, ReadableNeverAborts
<1> QED BY <1>1, <1>2, <1>3, <1>4, <1>5, PickerTypeCorrect, PTL DEF Spec
=============================================================================
