----------------------------- MODULE PageHandler -----------------------------
(***************************************************************************)
(* Requests for words (views.cpp): PageHandler loads the word picker when  *)
(* the server starts, and then answers each URL                            *)
(*     /words/<dictionary>/<num_words>/<index|length>/<name|from[/to]>     *)
(* with a list of words.  Any part may be missing, or not be a number, or  *)
(* be out of range; make_words_to_guess() replaces it by a default or      *)
(* clamps it, so that the picker is asked for nothing that it cannot give. *)
(***************************************************************************)
EXTENDS WordPicker

CONSTANTS
    Parts,                  \* what can be between two slashes of a URL
    Number,                 \* Number[p]: the number that p is, or NaN
    NaN,                    \* bad_lexical_cast
    Index,                  \* the part "index"
    FirstIndex,             \* the index of number 0
    Descriptions,           \* the URLs asked for, each as its parts, at most 5
    DefaultMinWordLength,   \* kDefaultMinWordLength
    DefaultMaxWordLength,   \* kDefaultMaxWordLength
    DefaultNumWords,        \* default_num_words
    MaxNumWords             \* max_num_words

ASSUME PageAssumption ==
    /\ NaN \notin Nat
    /\ Number \in [Parts -> Nat \cup {NaN}]
    /\ FirstIndex \in Indexes
    /\ Descriptions \subseteq Seq(Parts)
    /\ DefaultMinWordLength \in MinWordLength .. MaxWordLength
    /\ DefaultMaxWordLength \in DefaultMinWordLength .. MaxWordLength
    /\ DefaultNumWords \in 1 .. MaxNumWords
    /\ MaxNumWords \in 1 .. NumWords

VARIABLE description    \* the URL that was answered last, as its parts

pageVars == <<vars, description>>

-----------------------------------------------------------------------------
(* make_words_to_guess.                                                    *)

Least(m, n) == IF m < n THEN m ELSE n
Greatest(m, n) == IF m < n THEN n ELSE m

\* Part k of the URL is there and is a number.
IsNumber(d, k) == k <= Len(d) /\ Number[d[k]] # NaN

\* Mutant: there may be no words in a list.
Mutant_num_words(d) ==
    IF IsNumber(d, 2) THEN Least(Number[d[2]], MaxNumWords) ELSE DefaultNumWords

num_words(d) ==
    IF IsNumber(d, 2) THEN Greatest(Least(Number[d[2]], MaxNumWords), 1) ELSE DefaultNumWords

\* The arguments "from" and "to".  The limits 2 and 15 are written down again
\* in make_words_to_guess; they are those of the picker.
From(d) ==
    IF IsNumber(d, 4) THEN Greatest(Least(Number[d[4]], MaxWordLength), MinWordLength)
                      ELSE DefaultMinWordLength

To(d) ==
    IF IsNumber(d, 5) THEN Greatest(Least(Number[d[5]], MaxWordLength), From(d))
                      ELSE Greatest(DefaultMaxWordLength, From(d))

IsForIndex(d) == Len(d) >= 4 /\ d[3] = Index

\* The index of that name, or the first one.
index_num(d) == IF d[4] \in Indexes THEN d[4] ELSE FirstIndex

words(d) ==
    /\ description' = d
    /\ IF IsForIndex(d) THEN get_words_from_index(index_num(d), num_words(d))
                        ELSE get_words_by_length(From(d), To(d), num_words(d))

-----------------------------------------------------------------------------
PageInit == Init /\ description = <<>>

\* The picker is initialized before the server serves, which goes on whatever
\* initialize() returned.
PageNext ==
    \/ initialize /\ UNCHANGED description
    \/ \E d \in Descriptions : words(d)

PageSpec == PageInit /\ [][PageNext]_pageVars

-----------------------------------------------------------------------------
(* Properties.                                                             *)

\* What a word has to be for the URL d: one of the index if d names one; of
\* the lengths between two numbers if d has them in order and in range; and of
\* some length that the game knows in any case.
Suits(w, d) ==
    IF IsForIndex(d)
    THEN d[4] \in Indexes => d[4] \in Matches[w]
    ELSE /\ Length[w] \in MinWordLength .. MaxWordLength
         /\ IsNumber(d, 4) /\ IsNumber(d, 5)
              /\ MinWordLength <= Number[d[4]] /\ Number[d[4]] <= Number[d[5]]
              /\ Number[d[5]] <= MaxWordLength
            => Length[w] \in Number[d[4]] .. Number[d[5]]

\* Whatever is asked for, a server with a sound dictionary answers with at
\* least one word and at most MaxNumWords, as many as the URL says if it says a
\* number in range, each suiting the URL and none from outside the vectors of
\* the picker (views.cpp 199-209).
AnswersRequest ==
    Sound(file) /\ reply # NoReply =>
        LET n == Len(reply.picked) IN
        /\ n \in 1 .. MaxNumWords
        /\ IsNumber(description, 2) /\ Number[description[2]] \in 1 .. MaxNumWords
             => n = Number[description[2]]
        /\ \A k \in 1 .. n :
             /\ reply.picked[k] # Garbage
             /\ Suits(reply.picked[k].word, description)

\* The page handler implements the picker's specification: every URL becomes a
\* request of a range of lengths, an index and a number of words that the
\* picker is written for (views.cpp 246-323), whatever the dictionary.
ServesAsPicker == Spec

-----------------------------------------------------------------------------
(* The inductive invariant behind AnswersRequest: the reply is the picker's *)
(* to the request that the last URL stands for.                             *)

PageInv ==
    reply # NoReply =>
        /\ description \in Descriptions
        /\ reply.request = IF IsForIndex(description)
                           THEN FromIndex(index_num(description))
                           ELSE ByLength(From(description), To(description))
        /\ Len(reply.picked) = num_words(description)
=============================================================================
