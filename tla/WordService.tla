----------------------------- MODULE WordService -----------------------------
(***************************************************************************)
(* The page handler with its word picker and with the generator that the   *)
(* picker owns (word_picker.cpp 84-138, 147-219).  The words of one        *)
(* dictionary are kept twice: the picker lists every line, the generator   *)
(* only the words of its own alphabet, and each is told of the others by   *)
(* calls.  PageHandler takes any word that is not in the list for a        *)
(* made-up one; here it is what the generator answers, as WordMaker        *)
(* promises or one letter longer, while the picker waits.                  *)
(***************************************************************************)
EXTENDS PageHandler

CONSTANTS
    Alphabet,       \* the letters of the generator
    MaxIndexLength, \* max_index_pseudoword_length_
    NoWord

\* The criteria: the patterns of lengths and those of the indexes.
Criteria ==
    {ByLength(f, t) : f, t \in MinWordLength .. MaxWordLength} \cup {FromIndex(i) : i \in Indexes}

Language == [c \in Criteria |-> {w \in Words : Fits(w, c)}]

Questions == [criteria : Criteria, max_length : {0, MaxIndexLength}]

\* The words that the generator takes into its dictionary.
Spellable == {w \in Words : w \in Seq(Alphabet) /\ w # EmptyWord}

\* Words has every word that the generator may make for a question.
ASSUME ServiceAssumption ==
    /\ EmptyWord = <<>>
    /\ \A w \in Spellable : Length[w] = Len(w)
    /\ MaxIndexLength \in Nat \ {0}
    /\ \A n \in 0 .. Greatest(MaxWordLength, MaxIndexLength + 1) : [1 .. n -> Alphabet] \subseteq Words
    /\ NoWord \notin Questions
    /\ NoWord \notin [word : Words, request : Questions]

VARIABLES
    dictionary, prepared,   \* the generator: its dictionary, and is it trained
    asked, made,            \* make_word() in progress, and what it returned last
    call,                   \* words() in progress: the words picked so far
    stopped                 \* the generator has left its matrices

maker == <<dictionary, prepared, asked, made>>
serviceVars == <<pageVars, maker, call, stopped>>

Maker == INSTANCE WordMaker WITH Samples <- Spellable, Requests <- Questions

NoCall == [kind |-> "none"]

ServiceInit ==
    /\ PageInit
    /\ Maker!Init
    /\ call = NoCall
    /\ stopped = FALSE

-----------------------------------------------------------------------------
(* Loading.                                                                *)

\* Mutant: the letters of the word are not looked at.
Mutant_add_dictionary_word(w) ==
    dictionary' = IF w # EmptyWord THEN dictionary \cup {w} ELSE dictionary

add_dictionary_word(w) ==
    dictionary' = IF w \in Spellable THEN dictionary \cup {w} ELSE dictionary

\* Mutant: the generator gets the word of the line before.
MutantLoad ==
    /\ ReadLine \/ ReadNothing \/ ReadFails
    /\ IF words_by_length = <<>> THEN UNCHANGED dictionary
       ELSE add_dictionary_word(words_by_length[Len(words_by_length)])
    /\ UNCHANGED <<description, prepared, asked, made, call, stopped>>

\* A line goes into the list and to the generator.
Load ==
    /\ ReadLine \/ ReadNothing \/ ReadFails
    /\ add_dictionary_word(words_by_length'[Len(words_by_length')])
    /\ UNCHANGED <<description, prepared, asked, made, call, stopped>>

\* Mutant: prepare_for_generation() is not called.
MutantFinishLoading ==
    /\ EndOfDictionary
    /\ UNCHANGED <<description, maker, call, stopped>>

FinishLoading ==
    /\ EndOfDictionary
    /\ prepared' = TRUE
    /\ UNCHANGED <<description, dictionary, asked, made, call, stopped>>

\* The steps of initialize() that the generator has no part in.
LoadAlone ==
    /\ Open \/ OutOfMemory \/ AddPattern \/ Initialized
    /\ UNCHANGED <<description, maker, call, stopped>>

-----------------------------------------------------------------------------
(* Serving.  The handler asks for ranges and indexes that exist and for at *)
(* least one word, so that the picker never returns early.                 *)

Request(d) == IF IsForIndex(d) THEN FromIndex(index_num(d)) ELSE ByLength(From(d), To(d))

BeginWords(d) ==
    /\ phase = "ready" /\ call = NoCall
    /\ call' = [kind |-> "words", description |-> d, request |-> Request(d),
                count |-> num_words(d), picked |-> <<>>]
    /\ UNCHANGED <<pageVars, maker, stopped>>

\* The loops of get_words_by_length and get_words_from_index.
Picking == call # NoCall /\ asked = NoWord /\ Len(call.picked) < call.count

Push(p) == call' = [call EXCEPT !.picked = Append(@, p)]

\* No group of words as long as r.to was recorded.
Beyond(r) == r.by = "length" /\ r.to >= Len(word_length_ends)

Real(r) == IF r.by = "length" THEN RealByLength(r.from, r.to) ELSE RealFromIndex(r.index)

\* Mutant: words for an index are made of any length instead of its pattern.
MutantQuestion(r) ==
    IF r.by = "length"
    THEN LET pattern == length_pattern(r.from, r.to)
         IN  [criteria |-> ByLength(pattern[1], pattern[2]), max_length |-> 0]
    ELSE [criteria |-> ByLength(MinWordLength, MaxWordLength), max_length |-> MaxIndexLength]

\* The pattern that make_word() is given, and the greatest length.
Question(r) ==
    IF r.by = "length"
    THEN LET pattern == length_pattern(r.from, r.to)
         IN  [criteria |-> ByLength(pattern[1], pattern[2]), max_length |-> 0]
    ELSE [criteria |-> r, max_length |-> MaxIndexLength]

PickReal ==
    /\ Picking
    /\ ~Beyond(call.request)
    /\ \E p \in Real(call.request) : Push(p)
    /\ UNCHANGED <<pageVars, maker, stopped>>

PickBeyond ==
    /\ Picking
    /\ Beyond(call.request)
    /\ Push(Garbage)
    /\ UNCHANGED <<pageVars, maker, stopped>>

\* make_word() is called, and returns.
AskForFake ==
    /\ Picking
    /\ ~Beyond(call.request)
    /\ asked' = Question(call.request)
    /\ made' = NoWord
    /\ UNCHANGED <<pageVars, dictionary, prepared, call, stopped>>

\* What comes back suits, but for the maximum, which the generator does not keep.
PickFake ==
    /\ asked # NoWord
    /\ asked' = NoWord
    /\ \E w \in Words :
         /\ Maker!Suits(w, asked) \/ Maker!TooLong(w, asked)
         /\ made' = [word |-> w, request |-> asked]
         /\ Push([word |-> w, is_real |-> FALSE])
    /\ UNCHANGED <<pageVars, dictionary, prepared, stopped>>

\* The generator reads or writes beyond its matrices, while it learns a word
\* or makes one.
GiveUp ==
    /\ phase = "loading" \/ asked # NoWord
    /\ stopped' = TRUE
    /\ prepared' = TRUE
    /\ asked' = NoWord
    /\ UNCHANGED <<pageVars, dictionary, made, call>>

ReturnWords ==
    /\ call # NoCall /\ asked = NoWord
    /\ Len(call.picked) = call.count
    /\ description' = call.description
    /\ Reply(call.request, call.picked)
    /\ call' = NoCall
    /\ UNCHANGED <<maker, stopped>>

-----------------------------------------------------------------------------
ServiceNext ==
    /\ ~stopped
    /\ \/ Load \/ FinishLoading \/ LoadAlone
       \/ \E d \in Descriptions : BeginWords(d)
       \/ PickReal \/ PickBeyond \/ AskForFake \/ PickFake \/ GiveUp \/ ReturnWords

ServiceSpec == ServiceInit /\ [][ServiceNext]_serviceVars

-----------------------------------------------------------------------------
(* Properties.                                                             *)

ServiceTypeOK ==
    /\ TypeOK
    /\ dictionary \subseteq Spellable
    /\ prepared \in BOOLEAN
    /\ asked \in Questions \cup {NoWord}
    /\ stopped \in BOOLEAN

\* With the generator in its place the page handler still keeps its
\* specification, whatever the dictionary: what the generator answers is never
\* a word of the list, though it knows only a part of the list, and nothing
\* that is picked is out of date when the list is returned (word_picker.cpp
\* 147-219).
ServesAsPageHandler == PageSpec

\* The picker uses the generator as it is meant to be used: it adds no word
\* after the training, asks for none before, asks only for patterns that exist,
\* and asks one question at a time (pseudoword_generator.h 147-184).  The answers
\* may be too long: that is the generator's doing.
AsksAsAgreed == Maker!SpecButMaximum

\* A word that is called made-up is not a line of the file, whatever the file.
MadeUpIsNew ==
    reply # NoReply =>
        \A k \in 1 .. Len(reply.picked) :
            LET p == reply.picked[k]
            IN  p # Garbage /\ ~p.is_real => ~InDictionary(p.word)

-----------------------------------------------------------------------------
(* The inductive invariant behind the properties.                          *)

Fake(r) == IF r.by = "length" THEN FakeByLength(r.from, r.to) ELSE FakeFromIndex(r.index)

Candidates(r) == IF Beyond(r) THEN {Garbage} ELSE Real(r) \cup Fake(r)

\* The generator knows the listed words that it can spell.
DictionaryInv ==
    /\ \A k \in 1 .. Len(words_by_length) : words_by_length[k] \in Spellable => words_by_length[k] \in dictionary
    /\ ~stopped => (prepared <=> phase \in {"patterns", "ready"})

\* What was picked so far could be picked now, for the request of the URL.
CallInv ==
    call # NoCall =>
        /\ phase = "ready"
        /\ \E d \in Descriptions :
             call = [kind |-> "words", description |-> d, request |-> Request(d),
                     count |-> num_words(d), picked |-> call.picked]
        /\ call.picked \in Seq(Candidates(call.request))
        /\ Len(call.picked) <= call.count

AskedInv ==
    asked # NoWord =>
        /\ call # NoCall
        /\ ~Beyond(call.request)
        /\ asked = Question(call.request)
        /\ Len(call.picked) < call.count

ServiceInv ==
    /\ ServiceTypeOK
    /\ PatternInv
    /\ DictionaryInv
    /\ CallInv
    /\ AskedInv
=============================================================================
