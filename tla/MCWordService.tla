---------------------------- MODULE MCWordService ----------------------------
(***************************************************************************)
(* Values for model-checking WordService: all words of up to three letters *)
(* A and Q, two with a character that the generator does not know, and     *)
(* dictionaries with such words, without long words, with all words of a   *)
(* length, with a word of one letter, with a final newline, and none; and  *)
(* URLs with each part missing, no number, too small, in range and too     *)
(* large, and "from" greater than "to".                                    *)
(***************************************************************************)
EXTENDS WordService

MCWords == UNION {[1 .. n -> Alphabet] : n \in 0 .. 3} \cup {<<"A", "-">>, <<"Q", "-", "Q">>}

MCEmptyWord == <<>>

MCLength == [w \in MCWords |-> Len(w)]

Has(w, c) == \E k \in 1 .. Len(w) : w[k] = c

MCMatches == [w \in MCWords |->
    {i \in {"q_words", "consonants"} :
        (i = "q_words" /\ Has(w, "Q")) \/ (i = "consonants" /\ ~Has(w, "A"))}]

Text(ws, newline) ==
    [exists |-> TRUE, newline |-> newline,
     lines |-> [k \in 1 .. Len(ws) |-> [word |-> ws[k], fits |-> TRUE]]]

Known == <<<<"A", "-">>, <<"A", "Q">>, <<"Q", "-", "Q">>, <<"Q", "Q", "A">>>>

MCFiles ==
    {Text(Known, n) : n \in BOOLEAN}
      \cup {Text(<<<<"A", "A">>, <<"A", "Q">>, <<"Q", "A">>, <<"Q", "Q">>>>, FALSE),
            Text(<<<<"A">>, <<"Q", "A">>, <<"A", "A", "Q">>>>, FALSE),
            [exists |-> FALSE, newline |-> FALSE, lines |-> <<>>]}

MCParts == {"owl2", "index", "length", "q_words", "consonants", "0", "1", "2", "3", "9"}

MCNumber == [p \in MCParts |->
    CASE p = "0" -> 0 [] p = "1" -> 1 [] p = "2" -> 2 [] p = "3" -> 3 [] p = "9" -> 9 [] OTHER -> NaN]

MCDescriptions ==
    {<<>>, <<"owl2", "length">>, <<"owl2", "0", "index", "owl2">>,
     <<"owl2", "9", "length", "2">>, <<"owl2", "2", "index", "q_words">>}
      \cup {<<"owl2", "1", "length", f>> : f \in {"0", "3"}}
      \cup {<<"owl2", "1", "length", "owl2", "9">>, <<"owl2", "1", "length", "9", "2">>,
            <<"owl2", "1", "index">>, <<"owl2", "1", "index", "3", "2">>}
=============================================================================
