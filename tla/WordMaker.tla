------------------------------ MODULE WordMaker ------------------------------
(***************************************************************************)
(* What the users of the generator are promised (pseudoword_generator.h    *)
(* 147-184): once it is prepared, a question for a word is answered with a *)
(* word of one letter or more that is not in the dictionary, matches the   *)
(* criteria of that question, and is not longer than its maximum.  How     *)
(* such a word is made is left to PseudowordGenerator.                     *)
(*                                                                         *)
(* The code does not keep the maximum: it may answer with a word that has  *)
(* one letter more.  AnswerTooLong is that step.  It is not part of Next;  *)
(* those who must cope with it use SpecButMaximum.                         *)
(***************************************************************************)
EXTENDS Naturals, Sequences

CONSTANTS
    Alphabet,   \* the letters
    Samples,    \* the words that the dictionary may have
    Language,   \* Language[c]: the words that the regular expression c matches
    Requests,   \* the questions: [criteria, max_length]
    NoWord      \* no word was made, or no question is pending

VARIABLES
    dictionary,
    prepared,   \* the training is over
    asked,      \* the question being answered
    made        \* the last answer, and to what

vars == <<dictionary, prepared, asked, made>>

Init ==
    /\ dictionary = {}
    /\ prepared = FALSE
    /\ asked = NoWord
    /\ made = NoWord

Learn(w) ==
    /\ ~prepared
    /\ dictionary' = dictionary \cup {w}
    /\ UNCHANGED <<prepared, asked, made>>

Prepare ==
    /\ ~prepared
    /\ prepared' = TRUE
    /\ UNCHANGED <<dictionary, asked, made>>

Ask(r) ==
    /\ prepared
    /\ asked = NoWord
    /\ asked' = r
    /\ made' = NoWord
    /\ UNCHANGED <<dictionary, prepared>>

\* A word to answer with, of whatever length.
Fits(w, r) ==
    /\ w \in Seq(Alphabet) \ {<<>>}
    /\ w \notin dictionary
    /\ w \in Language[r.criteria]

Suits(w, r) == Fits(w, r) /\ (r.max_length > 0 => Len(w) <= r.max_length)

\* Against the promise.
TooLong(w, r) == Fits(w, r) /\ r.max_length > 0 /\ Len(w) = r.max_length + 1

Respond ==
    /\ asked # NoWord
    /\ asked' = NoWord
    /\ made' # NoWord
    /\ made' = [word |-> made'.word, request |-> asked]
    /\ UNCHANGED <<dictionary, prepared>>

Answer == Respond /\ Suits(made'.word, asked)

AnswerTooLong == Respond /\ TooLong(made'.word, asked)

\* Elements outside the matrices were read or written: no answer comes.
GiveUp ==
    /\ prepared' = TRUE
    /\ asked' = NoWord
    /\ UNCHANGED <<dictionary, made>>

Next ==
    \/ \E w \in Samples : Learn(w)
    \/ Prepare
    \/ \E r \in Requests : Ask(r)
    \/ Answer
    \/ GiveUp

Spec == Init /\ [][Next]_vars

\* What is left of it with the answers that are too long.
SpecButMaximum == Init /\ [][Next \/ AnswerTooLong]_vars
=============================================================================
