----------------------------- MODULE MCWordPicker -----------------------------
(***************************************************************************)
(* Values for model-checking WordPicker: words of two to four letters, the *)
(* index of the words with a Q and that of the words without vowels (which *)
(* the empty word matches too), and dictionaries that differ in what the   *)
(* loading loop tells apart.                                               *)
(***************************************************************************)
EXTENDS WordPicker

MCWords == {"", "BE", "HM", "QI", "QX", "AAH", "BRR", "QQQ", "FEND", "QUAY"}

MCLength == [w \in MCWords |->
    CASE w = "" -> 0
      [] w \in {"BE", "HM", "QI", "QX"} -> 2
      [] w \in {"AAH", "BRR", "QQQ"} -> 3
      [] w \in {"FEND", "QUAY"} -> 4]

MCMatches == [w \in MCWords |->
    {i \in {"q_words", "consonants"} :
        \/ i = "q_words" /\ w \in {"QI", "QX", "QQQ", "QUAY"}
        \/ i = "consonants" /\ w \in {"", "HM", "QX", "BRR", "QQQ"}}]

Lines(words) == [k \in 1 .. Len(words) |-> [word |-> words[k], fits |-> TRUE]]
Text(words, newline) == [exists |-> TRUE, lines |-> Lines(words), newline |-> newline]

\* Dictionaries that the picker is written for: up to three groups of up to
\* two words, repetitions included.
Groups(words) == [{1} -> words] \cup [{1, 2} -> words]
MCSound == {d \in {Text(a \o b \o <<"QUAY">>, FALSE) :
                      a \in Groups({"BE", "HM", "QI"}), b \in Groups({"AAH", "BRR"})} :
              Sound(d)}

Sorted == <<"BE", "HM", "QI", "AAH", "BRR", "QUAY">>

\* What owl2.txt is: words in order, and a newline at the end.
MCNewline == {Text(Sorted, TRUE)}

\* In order of increasing length, but without words of three letters.
MCGap == {Text(<<"BE", "HM", "QUAY">>, FALSE)}

MCMissing == {[exists |-> FALSE, lines |-> <<>>, newline |-> FALSE]}

MCLongLine == {[exists |-> TRUE, newline |-> n,
                lines |-> <<[word |-> "BE", fits |-> TRUE], [word |-> "AAH", fits |-> FALSE],
                            [word |-> "FEND", fits |-> TRUE]>>] : n \in BOOLEAN}

\* Readable to the end, whatever the order and the last character.
MCReadable == MCNewline \cup MCGap \cup {Text(Sorted, FALSE), Text(<<>>, FALSE),
                                         Text(<<"BE", "QI">>, TRUE), Text(<<"AAH", "BE">>, FALSE)}

MCFiles == MCSound \cup MCReadable \cup MCMissing \cup MCLongLine
=============================================================================
