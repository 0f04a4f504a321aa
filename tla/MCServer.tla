------------------------------ MODULE MCServer ------------------------------
(***************************************************************************)
(* Values for model-checking Server: a path of every handler, two for a    *)
(* pattern that ends in "/?", and paths that are nobody's.                 *)
(***************************************************************************)
EXTENDS Server

MCPatterns ==
    [resources  |-> {"/resources/", "/resources/css/main.css"},
     main_page  |-> {"/"},
     about      |-> {"/about", "/about/"},
     fine_print |-> {"/fine_print"},
     words      |-> {"/words/owl2/10"}]

MCUris == UNION {MCPatterns[h] : h \in Handlers} \cup {"/resources", "/words/", "/WORDS/owl2"}
=============================================================================
