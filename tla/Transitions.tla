------------------------------ MODULE Transitions ------------------------------
(***************************************************************************)
(* What the generator of made-up words takes for granted of its matrix: it *)
(* remembers which column followed which row, and when it is asked for a   *)
(* column of a row it draws one that did.                                  *)
(***************************************************************************)
CONSTANTS
    Rows,       \* the rows of the matrix
    Columns,
    First,      \* the first column
    None        \* no row, no column

VARIABLES
    seen,       \* the pairs of a row and a column that followed it
    stage,      \* "counting", "ready" or "undefined"
    asked,      \* the row of which a column is drawn and whether by 0, or None
    drawn       \* the column that was drawn last, or None

vars == <<seen, stage, asked, drawn>>

Init == seen = {} /\ stage = "counting" /\ asked = None /\ drawn = None

Count(r, c) ==
    /\ stage = "counting"
    /\ seen' = seen \cup {<<r, c>>}
    /\ UNCHANGED <<stage, asked, drawn>>

Prepare ==
    /\ stage = "counting"
    /\ stage' = "ready"
    /\ UNCHANGED <<seen, asked, drawn>>

\* The number that is drawn may be 0.
Ask(r, zero) ==
    /\ stage = "ready" /\ asked = None
    /\ asked' = [row |-> r, zero |-> zero] /\ drawn' = None
    /\ UNCHANGED <<seen, stage>>

\* A column that followed the row; 0 draws the first column in any case.
Draw(c) ==
    /\ stage = "ready" /\ asked # None
    /\ IF asked.zero THEN c = First ELSE <<asked.row, c>> \in seen
    /\ drawn' = c /\ asked' = None
    /\ UNCHANGED <<seen, stage>>

\* Nothing ever followed the row.
RunOff ==
    /\ stage = "ready" /\ asked # None
    /\ ~asked.zero /\ \A c \in Columns : <<asked.row, c>> \notin seen
    /\ stage' = "undefined"
    /\ UNCHANGED <<seen, asked, drawn>>

\* What is no row is counted or asked for.
Leave ==
    /\ stage # "undefined" /\ asked = None
    /\ stage' = "undefined"
    /\ UNCHANGED <<seen, asked, drawn>>

Next ==
    \/ \E r \in Rows, c \in Columns : Count(r, c)
    \/ Prepare
    \/ \E r \in Rows, zero \in BOOLEAN : Ask(r, zero)
    \/ \E c \in Columns : Draw(c)
    \/ RunOff
    \/ Leave

Spec == Init /\ [][Next]_vars
=============================================================================
