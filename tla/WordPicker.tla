------------------------------ MODULE WordPicker ------------------------------
(***************************************************************************)
(* The word picker (word_picker.h, word_picker.cpp): it loads a dictionary *)
(* file line by line into a list in which the words of one length are      *)
(* next to each other, records where each group ends, fills the word       *)
(* indexes and the table of length patterns, and then serves random lists  *)
(* of real and made-up words.                                              *)
(*                                                                         *)
(* The vectors of the code start at 0, the sequences here at 1:            *)
(* word_length_ends[L + 1] is word_length_ends_[L], and so on.             *)
(***************************************************************************)
EXTENDS Integers, Sequences, FiniteSets

CONSTANTS
    Words,          \* the strings that can be words
    EmptyWord,      \* the string ""
    Length,         \* Length[w]: the number of letters of w
    Indexes,        \* the word indexes (index_descriptions_)
    NoIndex,        \* a number that is not the number of an index
    Matches,        \* Matches[w]: the indexes that w should be listed in
    Files,          \* the dictionary files: [exists, lines, newline]
    MinWordLength,  \* min_word_length_
    MaxWordLength,  \* max_word_length_
    Capacity,       \* the number of words that fit in memory
    NumWords,       \* the greatest number of words of a request
    Garbage         \* what is read beyond the end of a vector

\* A line of the file: its word, and whether it fits in the buffer.
Line == [word : Words \ {EmptyWord}, fits : BOOLEAN]

\* A word of a reply.
Entry == [word : Words, is_real : BOOLEAN]

ASSUME PickerAssumption ==
    /\ EmptyWord \in Words
    /\ Length \in [Words -> Nat]
    /\ Length[EmptyWord] = 0
    /\ NoIndex \notin Indexes
    /\ Matches \in [Words -> SUBSET Indexes]
    /\ Files \subseteq [exists : BOOLEAN, lines : Seq(Line), newline : BOOLEAN]
    /\ MinWordLength = 2   \* initialize() counts on kMinWordLength being 2
    /\ MaxWordLength \in Nat
    /\ MinWordLength <= MaxWordLength
    /\ Capacity \in Nat
    /\ NumWords \in Nat
    /\ Garbage \notin Words \cup Entry

VARIABLES
    phase,              \* how far initialize() is
    file,               \* the dictionary file
    stream,             \* the ifstream: lines read, eofbit, failbit
    words_by_length,
    word_length_ends,
    current_length,     \* the local variable of initialize()
    indexes,
    word_length_patterns,
    from, to,           \* the loop variables of the pattern table
    reply               \* the last request and the words picked for it

vars == <<phase, file, stream, words_by_length, word_length_ends, current_length,
          indexes, word_length_patterns, from, to, reply>>

tables == <<words_by_length, word_length_ends, current_length, indexes>>

NoReply == [kind |-> "none"]

\* A reply holds words, or what was read beyond the end of a vector.
ReplyType == reply # NoReply => reply.picked \in Seq(Entry \cup {Garbage})

TypeOK ==
    /\ phase \in {"closed", "loading", "patterns", "ready", "aborted"}
    /\ file \in Files
    /\ stream \in [read : Nat, eof : BOOLEAN, fail : BOOLEAN]
    /\ words_by_length \in Seq(Words)
    /\ word_length_ends \in Seq(Nat)
    /\ current_length \in Nat
    /\ indexes \in [Indexes -> Seq(Words)]
    /\ word_length_patterns \in Seq(Nat \X Nat)
    /\ from \in Nat /\ to \in Nat
    /\ ReplyType

-----------------------------------------------------------------------------
(* initialize(): loading the dictionary.                                   *)

Init ==
    /\ phase = "closed"
    /\ file \in Files
    /\ stream = [read |-> 0, eof |-> FALSE, fail |-> FALSE]
    /\ words_by_length = <<>>
    /\ word_length_ends = <<>>
    /\ current_length = 0
    /\ indexes = [i \in Indexes |-> <<>>]
    /\ word_length_patterns = <<>>
    /\ from = MinWordLength /\ to = MinWordLength
    /\ reply = NoReply

\* Opening a file that is not there sets failbit, not the badbit that is
\* tested, so initialize() goes on.
Open ==
    /\ phase = "closed"
    /\ phase' = "loading"
    /\ stream' = [stream EXCEPT !.fail = ~file.exists]
    /\ current_length' = 2
    /\ word_length_ends' = <<0, 0>>
    /\ UNCHANGED <<file, words_by_length, indexes, word_length_patterns, from, to, reply>>

\* Mutant: the end of a group is recorded after the word was pushed.
MutantAddWordEnds(w) ==
    /\ Len(words_by_length) < Capacity
    /\ words_by_length' = Append(words_by_length, w)
    /\ IF Length[w] > current_length
       THEN /\ word_length_ends' = Append(word_length_ends, Len(words_by_length'))
            /\ current_length' = current_length + 1
       ELSE UNCHANGED <<word_length_ends, current_length>>
    /\ indexes' = [i \in Indexes |-> IF i \in Matches[w] THEN Append(indexes[i], w)
                                                          ELSE indexes[i]]
    /\ UNCHANGED <<phase, file, word_length_patterns, from, to, reply>>

\* Mutant: the first word of a group is not listed in the indexes.
MutantAddWordIndexes(w) ==
    /\ Len(words_by_length) < Capacity
    /\ words_by_length' = Append(words_by_length, w)
    /\ IF Length[w] > current_length
       THEN /\ word_length_ends' = Append(word_length_ends, Len(words_by_length))
            /\ current_length' = current_length + 1
            /\ UNCHANGED indexes
       ELSE /\ indexes' = [i \in Indexes |-> IF i \in Matches[w] THEN Append(indexes[i], w)
                                                                 ELSE indexes[i]]
            /\ UNCHANGED <<word_length_ends, current_length>>
    /\ UNCHANGED <<phase, file, word_length_patterns, from, to, reply>>

\* The body of the loop after getline() left the word w in the buffer.
AddWord(w) ==
    /\ Len(words_by_length) < Capacity
    /\ words_by_length' = Append(words_by_length, w)
    /\ IF Length[w] > current_length
       THEN /\ word_length_ends' = Append(word_length_ends, Len(words_by_length))
            /\ current_length' = current_length + 1
       ELSE UNCHANGED <<word_length_ends, current_length>>
    /\ indexes' = [i \in Indexes |-> IF i \in Matches[w] THEN Append(indexes[i], w)
                                                          ELSE indexes[i]]
    /\ UNCHANGED <<phase, file, word_length_patterns, from, to, reply>>

Loading == phase = "loading" /\ ~stream.eof

\* A line is read; one that does not fit in the buffer sets failbit, and the
\* last one sets eofbit if no newline follows it.
ReadLine ==
    /\ Loading
    /\ ~stream.fail
    /\ stream.read < Len(file.lines)
    /\ LET line == file.lines[stream.read + 1]
           last == stream.read + 1 = Len(file.lines)
       IN  /\ AddWord(line.word)
           /\ stream' = [read |-> stream.read + 1,
                         eof  |-> line.fits /\ last /\ ~file.newline,
                         fail |-> ~line.fits]

\* Mutant: the flags are cleared after each line, so that a long one does no harm.
MutantReadNothing ==
    /\ Loading
    /\ ~stream.fail
    /\ stream.read = Len(file.lines)
    /\ AddWord(EmptyWord)
    /\ stream' = [stream EXCEPT !.eof = FALSE, !.fail = FALSE]

\* There is nothing left to read: after a final newline, or in an empty file.
ReadNothing ==
    /\ Loading
    /\ ~stream.fail
    /\ stream.read = Len(file.lines)
    /\ AddWord(EmptyWord)
    /\ stream' = [stream EXCEPT !.eof = TRUE, !.fail = TRUE]

\* Once failbit is set getline() reads nothing and never finds the end.
ReadFails ==
    /\ Loading
    /\ stream.fail
    /\ AddWord(EmptyWord)
    /\ UNCHANGED stream

\* The list cannot grow any more: an exception that nobody catches.
OutOfMemory ==
    /\ Loading
    /\ Len(words_by_length) >= Capacity
    /\ phase' = "aborted"
    /\ UNCHANGED <<file, stream, tables, word_length_patterns, from, to, reply>>

\* Mutant: the loop also ends where a read failed: while (dictionary).
MutantStopOnFail ==
    /\ phase = "loading"
    /\ stream.eof \/ stream.fail
    /\ phase' = "patterns"
    /\ word_length_ends' = Append(word_length_ends, Len(words_by_length))
    /\ UNCHANGED <<file, stream, words_by_length, current_length, indexes,
                   word_length_patterns, from, to, reply>>

EndOfDictionary ==
    /\ phase = "loading"
    /\ stream.eof
    /\ phase' = "patterns"
    /\ word_length_ends' = Append(word_length_ends, Len(words_by_length))
    /\ UNCHANGED <<file, stream, words_by_length, current_length, indexes,
                   word_length_patterns, from, to, reply>>

\* Mutant: the outer loop is not advanced.
MutantAddPattern ==
    /\ phase = "patterns"
    /\ to <= MaxWordLength
    /\ word_length_patterns' = Append(word_length_patterns, <<from, to>>)
    /\ from' = IF from < to THEN from + 1 ELSE MinWordLength
    /\ UNCHANGED <<phase, file, stream, tables, to, reply>>

\* One iteration of the loops that fill the table of length patterns.
AddPattern ==
    /\ phase = "patterns"
    /\ to <= MaxWordLength
    /\ word_length_patterns' = Append(word_length_patterns, <<from, to>>)
    /\ IF from < to THEN from' = from + 1 /\ to' = to
                    ELSE from' = MinWordLength /\ to' = to + 1
    /\ UNCHANGED <<phase, file, stream, tables, reply>>

Initialized ==
    /\ phase = "patterns"
    /\ to > MaxWordLength
    /\ phase' = "ready"
    /\ UNCHANGED <<file, stream, tables, word_length_patterns, from, to, reply>>

-----------------------------------------------------------------------------
(* Serving words.                                                          *)

\* Element k (from 0) of a vector, if it has one.
At(vector, k) == IF k < Len(vector) THEN vector[k + 1] ELSE Garbage

Listed(w) == IF w = Garbage THEN Garbage ELSE [word |-> w, is_real |-> TRUE]

\* Mutant: random_01_() may be 1.
MutantOffset(n) == 0 .. n

\* static_cast<size_t>(n * random_01_()): random_01_() is below 1.
Offset(n) == {0} \cup 0 .. n - 1

\* make_word() tries until the word matches and is not in the dictionary; it
\* makes no empty word (WordMaker, which the generator implements).
MadeUp(matching) ==
    {[word |-> w, is_real |-> FALSE] :
        w \in {v \in matching \ {EmptyWord} :
                 \A k \in 1 .. Len(words_by_length) : v # words_by_length[k]}}

PatternIndex(f, t) == ((t - MinWordLength) * (t - MinWordLength + 1)) \div 2 + (f - MinWordLength)

Reply(request, picked) ==
    /\ phase = "ready"
    /\ reply' = [kind |-> "words", request |-> request, picked |-> picked]
    /\ UNCHANGED <<phase, file, stream, tables, word_length_patterns, from, to>>

Pick(request, n, candidates) == \E picked \in [1 .. n -> candidates] : Reply(request, picked)

ByLength(f, t) == [by |-> "length", from |-> f, to |-> t]

\* The words that the list has between two group ends, and those that the
\* generator may make for the pattern of the table.
RealByLength(f, t) ==
    LET first == word_length_ends[f]
        count == word_length_ends[t + 1] - first
    IN  {Listed(At(words_by_length, first + k)) : k \in Offset(count)}

length_pattern(f, t) == word_length_patterns[PatternIndex(f, t) + 1]

FakeByLength(f, t) ==
    MadeUp({w \in Words : length_pattern(f, t)[1] <= Length[w] /\ Length[w] <= length_pattern(f, t)[2]})

PickByLength(f, t, n) ==
    /\ phase = "ready"
    /\ f <= t /\ n > 0
    /\ t < Len(word_length_ends)
    /\ Pick(ByLength(f, t), n, RealByLength(f, t) \cup FakeByLength(f, t))

\* An empty range has no words.
PickNoLength(f, t, n) ==
    /\ f > t \/ n = 0
    /\ Reply(ByLength(f, t), <<>>)

\* The dictionary has no words as long as t: its group has no end.
PickBeyondLongest(f, t, n) ==
    /\ f <= t /\ n > 0
    /\ t >= Len(word_length_ends)
    /\ Pick(ByLength(f, t), n, {Garbage})

get_words_by_length(f, t, n) ==
    \/ PickByLength(f, t, n)
    \/ PickNoLength(f, t, n)
    \/ PickBeyondLongest(f, t, n)

FromIndex(i) == [by |-> "index", index |-> i]

RealFromIndex(i) == {Listed(At(indexes[i], k)) : k \in Offset(Len(indexes[i]))}

FakeFromIndex(i) == MadeUp({w \in Words : i \in Matches[w]})

PickFromIndex(i, n) ==
    /\ phase = "ready"
    /\ i \in Indexes /\ n > 0
    /\ Pick(FromIndex(i), n, RealFromIndex(i) \cup FakeFromIndex(i))

PickNoIndex(i, n) ==
    /\ i \notin Indexes \/ n = 0
    /\ Reply(FromIndex(i), <<>>)

get_words_from_index(i, n) == PickFromIndex(i, n) \/ PickNoIndex(i, n)

-----------------------------------------------------------------------------
initialize ==
    \/ Open \/ ReadLine \/ ReadNothing \/ ReadFails \/ OutOfMemory
    \/ EndOfDictionary \/ AddPattern \/ Initialized

Next ==
    \/ initialize
    \/ \E n \in 0 .. NumWords :
         \/ \E f, t \in MinWordLength .. MaxWordLength : get_words_by_length(f, t, n)
         \/ \E i \in Indexes \cup {NoIndex} : get_words_from_index(i, n)

Spec == Init /\ [][Next]_vars

-----------------------------------------------------------------------------
(* Properties.                                                             *)

\* What the code takes for granted of a dictionary: it can be read, no line
\* overflows the buffer, it does not end in a newline, and its words come in
\* order of increasing length, from the shortest to the longest, without a
\* gap; every index has a word.  (The comment at word_picker.cpp 58 asks for
\* the order only.)
Sound(f) ==
    /\ f.exists
    /\ ~f.newline
    /\ f.lines # <<>>
    /\ \A k \in 1 .. Len(f.lines) : f.lines[k].fits
    /\ Length[f.lines[1].word] = MinWordLength
    /\ \A k \in 1 .. Len(f.lines) - 1 :
         Length[f.lines[k + 1].word] - Length[f.lines[k].word] \in {0, 1}
    /\ Length[f.lines[Len(f.lines)].word] = MaxWordLength
    /\ \A i \in Indexes : \E k \in 1 .. Len(f.lines) : i \in Matches[f.lines[k].word]

\* The ends recorded while reading separate the words of at most L letters
\* from the longer ones, for every L (word_picker.cpp 94-99), so that two ends
\* enclose the words between two lengths.
EndsSeparate ==
    \A L \in 0 .. Len(word_length_ends) - 1, k \in 1 .. Len(words_by_length) :
        Length[words_by_length[k]] <= L <=> k <= word_length_ends[L + 1]

GroupsByLength == Sound(file) /\ phase \in {"patterns", "ready"} => EndsSeparate

InDictionary(w) == \E k \in 1 .. Len(file.lines) : file.lines[k].word = w

Fits(w, request) ==
    IF request.by = "length"
    THEN request.from <= Length[w] /\ Length[w] <= request.to
    ELSE request.index \in Matches[w]

\* Every word picked is what was asked for, of the right length (main.html
\* 37-42) or kind, and is called real exactly if the dictionary has it; nothing
\* is read beyond the end of a list.
AllFit ==
    reply # NoReply =>
        \A k \in 1 .. Len(reply.picked) :
            LET p == reply.picked[k]
            IN  /\ p # Garbage
                /\ Fits(p.word, reply.request)
                /\ p.is_real <=> InDictionary(p.word)

\* The picks from a sound dictionary all fit.
PickedFit == Sound(file) => AllFit

\* The comment at word_picker.cpp 58 asks for no more of a dictionary than
\* that its words come in order of increasing length.
InOrder(f) ==
    /\ f.exists
    /\ \A k \in 1 .. Len(f.lines) - 1 :
         Length[f.lines[k].word] <= Length[f.lines[k + 1].word]

\* The picks from a dictionary in order all fit.
PickedFitInOrder == InOrder(file) => AllFit

\* The picker never gets ready on part of a dictionary: every line was read,
\* in order, and at most an empty word was added (word_picker.h 91).
ReadyMeansRead ==
    phase = "ready" =>
        /\ file.exists
        /\ Len(words_by_length) \in Len(file.lines) .. Len(file.lines) + 1
        /\ \A k \in 1 .. Len(file.lines) : words_by_length[k] = file.lines[k].word

\* The positions, among the first n words, of those that index i should list.
Matching(i, n) == {k \in 1 .. n : i \in Matches[words_by_length[k]]}

\* Each index lists the words that match it, each as often as the dictionary
\* has it and in its order, at every moment of the loading: the word at position
\* k comes after those that match before it (word_picker.cpp 104-109).
IndexesComplete ==
    \A i \in Indexes :
        /\ Len(indexes[i]) = Cardinality(Matching(i, Len(words_by_length)))
        /\ \A k \in Matching(i, Len(words_by_length)) :
              indexes[i][Cardinality(Matching(i, k))] = words_by_length[k]

\* initialize() does not take the server down: on a dictionary that it cannot
\* read it returns false (word_picker.h 91-92).
NeverAborts == phase # "aborted"

\* The dictionary is there, and every line fits in the buffer.
Readable(f) == f.exists /\ \A k \in 1 .. Len(f.lines) : f.lines[k].fits

\* Reading without end (NeverAborts) is a matter of unreadable dictionaries only:
\* one that can be read, in any order and with any end, and that fits in memory
\* does not take the server down (word_picker.cpp 78-116).
ReadableNeverAborts == Readable(file) /\ Len(file.lines) < Capacity => phase # "aborted"

\* How many steps initialize() can still take: words until the memory is full,
\* then patterns.
PatternsLeft == (MaxWordLength + 1 - to) * (MaxWordLength + 1) + (to - from)

PhasesLeft ==
    IF phase = "closed" THEN Capacity + 3
    ELSE IF phase = "loading" THEN Capacity - Len(words_by_length) + 2
    ELSE IF phase = "patterns" THEN 1 ELSE 0

\* Every step of initialize() leaves fewer steps to do, whatever the file, so that it
\* comes to its end, or to that of the memory (word_picker.cpp 78-126).
InitializeGetsOn ==
    [][phase \notin {"ready", "aborted"} =>
          /\ PatternsLeft \in Nat /\ PhasesLeft \in Nat
          /\ PatternsLeft' + PhasesLeft' < PatternsLeft + PhasesLeft]_vars

-----------------------------------------------------------------------------
(* The inductive invariant behind GroupsByLength and PickedFit, for sound  *)
(* dictionaries.                                                           *)

\* The words in the list are the lines that were read.
WordsInv ==
    /\ Len(words_by_length) = stream.read
    /\ stream.read <= Len(file.lines)
    /\ \A k \in 1 .. stream.read : words_by_length[k] = file.lines[k].word

\* Until the last line is read the stream has no flag set.
StreamInv ==
    /\ phase \in {"closed", "loading"} => ~stream.fail
    /\ phase = "closed" => stream.read = 0 /\ ~stream.eof
    /\ phase = "loading" => (stream.eof <=> stream.read = Len(file.lines))
    /\ phase \in {"patterns", "ready"} => stream.read = Len(file.lines)

\* The ends recorded so far separate the lengths, and no group is empty.
EndsInv ==
    /\ EndsSeparate
    /\ \A j \in 1 .. Len(word_length_ends) : word_length_ends[j] <= Len(words_by_length)
    /\ \A L \in 2 .. Len(word_length_ends) - 1 : word_length_ends[L] < word_length_ends[L + 1]

\* While loading, the last word read is the longest, of current_length.
LengthInv ==
    LET n == Len(words_by_length) IN
    /\ phase = "closed" => word_length_ends = <<>>
    /\ phase = "loading" =>
         /\ current_length = Len(word_length_ends)
         /\ current_length = IF n = 0 THEN 2 ELSE Length[words_by_length[n]]
         /\ \A k \in 1 .. n : Length[words_by_length[k]] <= current_length
    /\ phase \in {"patterns", "ready"} => Len(word_length_ends) = MaxWordLength + 1

IndexInv ==
    \A i \in Indexes :
        /\ \A j \in 1 .. Len(indexes[i]) :
              /\ i \in Matches[indexes[i][j]]
              /\ \E k \in 1 .. Len(words_by_length) : words_by_length[k] = indexes[i][j]
        /\ (\E k \in 1 .. Len(words_by_length) : i \in Matches[words_by_length[k]])
              => Len(indexes[i]) > 0

\* The patterns (f, t) come in the order of t, then f: there are
\* 0 + 1 + ... + (t - MinWordLength) before the first with t.
PatternInv ==
    /\ MinWordLength <= from /\ from <= to /\ to <= MaxWordLength + 1
    /\ to = MaxWordLength + 1 => from = MinWordLength
    /\ phase = "ready" => to = MaxWordLength + 1
    /\ Len(word_length_patterns) = PatternIndex(from, to)
    /\ \A t \in MinWordLength .. MaxWordLength : \A f \in MinWordLength .. t :
          t < to \/ (t = to /\ f < from)
             => /\ PatternIndex(f, t) \in 0 .. Len(word_length_patterns) - 1
                /\ word_length_patterns[PatternIndex(f, t) + 1] = <<f, t>>

\* The picker of a sound dictionary.
SoundInv ==
    /\ TypeOK
    /\ WordsInv
    /\ StreamInv
    /\ EndsInv
    /\ LengthInv
    /\ IndexInv
    /\ PatternInv
    /\ PickedFit

PickerInv == TypeOK /\ (Sound(file) => SoundInv)

-----------------------------------------------------------------------------
(* The inductive invariant behind ReadyMeansRead, for every file: an end of *)
(* the file is found only after every line was read.                        *)
ReadInv ==
    /\ stream.read <= Len(file.lines) /\ stream.read <= Len(words_by_length)
    /\ \A k \in 1 .. stream.read : words_by_length[k] = file.lines[k].word
    /\ phase = "closed" => words_by_length = <<>> /\ ~stream.eof /\ ~stream.fail
    /\ ~stream.fail => Len(words_by_length) = stream.read /\ (phase # "closed" => file.exists)
    /\ stream.eof => /\ file.exists
                     /\ stream.read = Len(file.lines)
                     /\ Len(words_by_length) <= stream.read + 1
    /\ phase \in {"patterns", "ready"} => stream.eof

-----------------------------------------------------------------------------
(* The inductive invariants behind InitializeGetsOn and ReadableNeverAborts. *)

LoopsInv ==
    /\ Len(words_by_length) <= Capacity
    /\ phase = "closed" => words_by_length = <<>>
    /\ MinWordLength <= from /\ from <= to /\ to <= MaxWordLength + 1

\* A file that can be read sets failbit at its end at the earliest.
ReadableInv ==
    Readable(file) =>
        /\ ~stream.eof => ~stream.fail
        /\ Len(file.lines) < Capacity => phase # "aborted"
=============================================================================
