--------------------------- MODULE MCTransitionMatrix ---------------------------
EXTENDS TransitionMatrix

MCAlphabet == <<"a", "b">>
=============================================================================
