------------------------ MODULE MCPseudowordGenerator ------------------------
(***************************************************************************)
(* Values for model-checking PseudowordGenerator: words of one to four     *)
(* letters, among them two that share their middle, so that a walk can     *)
(* change from one to the other, and one with a loop.                      *)
(***************************************************************************)
EXTENDS PseudowordGenerator

MCSamples == {<<"A">>, <<"B", "E">>, <<"B", "E", "A">>, <<"E", "A", "B">>,
              <<"B", "E", "A", "B">>, <<"A", "E", "A", "E", "B">>}

MCLanguage == [c \in {"any", "three"} |->
    IF c = "any" THEN UNION {[1 .. n -> Alphabet] : n \in 1 .. MaxChars} ELSE [1 .. 3 -> Alphabet]]
=============================================================================
