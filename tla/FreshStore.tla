----------------------------- MODULE FreshStore -----------------------------
(***************************************************************************)
(* What the callers of the file cache are promised (file_cache.h 63-87 and *)
(* 145-166): an answer "no such file" describes the disk at the moment it  *)
(* is given, and an answer with data holds contents that were on disk less *)
(* than one expiration period before the question was asked.  How that is  *)
(* achieved (copies, expiration times, modification stamps) is left to     *)
(* FileCache, which implements this module.                                *)
(***************************************************************************)
EXTENDS Integers

CONSTANTS
    Files,      \* the paths that can be asked for
    Contents,   \* what a file can hold
    Absent,     \* "there is no such file"
    Period,     \* the expiration period, in ticks of the clock
    Nobody      \* no question pending, or no answer given yet

VARIABLES
    now,        \* the clock
    content,    \* content[f]: what is on disk under the path f
    left,       \* left[f][c]: the last moment at which f stopped holding c
    question,   \* the question being answered: [file, asked]
    answer      \* the answer to the last question: contents or Absent

vars == <<now, content, left, question, answer>>

Init ==
    /\ now = 1
    /\ content \in [Files -> Contents \cup {Absent}]
    /\ left = [f \in Files |-> [c \in Contents \cup {Absent} |-> 0 - Period]]
    /\ question = Nobody
    /\ answer = Nobody

Tick ==
    /\ now' = now + 1
    /\ UNCHANGED <<content, left, question, answer>>

Change(f, c) ==
    /\ content' = [content EXCEPT ![f] = c]
    /\ left' = [left EXCEPT ![f][content[f]] = now]
    /\ UNCHANGED <<now, question, answer>>

Ask(f) ==
    /\ question = Nobody
    /\ question' = [file |-> f, asked |-> now]
    /\ answer' = Nobody
    /\ UNCHANGED <<now, content, left>>

\* The contents an answer to the pending question may show.
Acceptable(c) ==
    \/ c = content[question.file]
    \/ /\ c # Absent
       /\ question.asked < left[question.file][c] + Period

Answer(c) ==
    /\ question # Nobody
    /\ Acceptable(c)
    /\ question' = Nobody
    /\ answer' = [file |-> question.file, shown |-> c]
    /\ UNCHANGED <<now, content, left>>

\* The store is started again: the pending question is never answered.
Withdraw ==
    /\ question' = Nobody
    /\ answer' = Nobody
    /\ UNCHANGED <<now, content, left>>

Next ==
    \/ Tick
    \/ Withdraw
    \/ \E f \in Files : Ask(f)
    \/ \E f \in Files, c \in Contents \cup {Absent} : Change(f, c)
    \/ \E c \in Contents \cup {Absent} : Answer(c)

Spec == Init /\ [][Next]_vars
=============================================================================
