---------------------------- MODULE MCFileHandler ----------------------------
(***************************************************************************)
(* Values for model-checking FileHandler: an empty file, a short one and a *)
(* longer one, so that a copy can be torn and a copy can have no bytes,    *)
(* and the time zones of the server.                                       *)
(***************************************************************************)
EXTENDS FileHandler

MCContents == {"empty", "short", "long"}
MCSize == [empty |-> 0, short |-> 1, long |-> 2]

\* Greenwich, and one tick to the east of it.
EastOfGreenwich == {0, 0 - 1}

\* One tick to the west.
WestOfGreenwich == {1}
=============================================================================
