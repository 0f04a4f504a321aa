----------------------------- MODULE MCFileCache -----------------------------
(***************************************************************************)
(* Values for model-checking FileCache: an empty file, a short one and a   *)
(* longer one, so that a copy can be torn and a copy can have no bytes.    *)
(***************************************************************************)
EXTENDS FileCache

MCContents == {"empty", "short", "long"}
MCSize == [empty |-> 0, short |-> 1, long |-> 2]
=============================================================================
