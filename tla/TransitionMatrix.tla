---------------------------- MODULE TransitionMatrix ----------------------------
(***************************************************************************)
(* The matrices of the generator of made-up words as the code keeps them:  *)
(* flat vectors, with a hash map from two preceding characters to the      *)
(* number of a row (generator/pseudoword_generator.cpp).  One action is    *)
(* one iteration of a loop.  A "0^" or "0$" of the code is Start or End.   *)
(*                                                                         *)
(* An element of the transition matrix is the fraction num / of, the       *)
(* cumulative share of its row.  The code has it as a double; a random     *)
(* number is p / Resolution, smaller than 1.                               *)
(***************************************************************************)
EXTENDS Integers, Sequences

CONSTANTS
    alphabet_,      \* the letters, in their order
    Start, End,     \* the special characters '^' and '$'
    Resolution,     \* how many random numbers there are in [0, 1)
    MaxCounted,     \* the bound of the number of transitions
    None            \* no characters, no column

alphabet_size == Len(alphabet_)
Letters == {alphabet_[k] : k \in 1 .. alphabet_size}
Columns == Letters \cup {End}
Chars == (Columns \cup {Start}) \X (Columns \cup {Start})

ASSUME MatrixAssumption ==
    /\ alphabet_ \in Seq(Letters)
    /\ alphabet_size > 0
    /\ \A k, l \in 1 .. alphabet_size : alphabet_[k] = alphabet_[l] => k = l
    /\ Start \notin Letters /\ End \notin Letters /\ Start # End
    /\ Resolution \in Nat
    /\ MaxCounted \in Nat
    /\ None \notin Chars \cup Columns \cup [row : Chars, zero : BOOLEAN]

num_matrix_columns_ == alphabet_size + 1
num_matrix_rows_ == num_matrix_columns_ * num_matrix_columns_
matrix_size == num_matrix_rows_ * num_matrix_columns_

\* The character of a column.
ColumnChar(column) == IF column < alphabet_size THEN alphabet_[column + 1] ELSE End

VARIABLES
    stage,
    row,                        \* the row of the constructor, then of prepare_for_generation
    first_letter_alphabet_index, second_letter_alphabet_index, char_combo,
    row_index_map,
    sampling_matrix, counted,   \* counted is the number of transitions, for the bound
    transition_matrix,
    column,                     \* the loop variable of both sums and of the search
    total_transitions, cumulative_transitions,
    chars_, p,                  \* the search: preceding characters or None, random number
    drawn,                      \* the column that was drawn last
    sums                        \* history: total_transitions before each column of the row

mapping == <<first_letter_alphabet_index, second_letter_alphabet_index, char_combo,
             row_index_map>>
sampling == <<sampling_matrix, counted>>
summing == <<total_transitions, cumulative_transitions, sums>>
search == <<chars_, p, drawn>>
vars == <<stage, row, mapping, sampling, transition_matrix, column, summing, search>>

Fraction == [num : Nat, of : Nat \ {0}]
Zero == [num |-> 0, of |-> 1]

TypeOK ==
    /\ stage \in {"mapping", "counting", "totalling", "accumulating", "ready", "searching",
                  "undefined"}
    /\ row \in 0 .. num_matrix_rows_
    /\ first_letter_alphabet_index \in -1 .. alphabet_size - 1
    /\ second_letter_alphabet_index \in -1 .. alphabet_size
    /\ char_combo \in Chars
    /\ DOMAIN row_index_map \subseteq Chars
    /\ \A chars \in DOMAIN row_index_map : row_index_map[chars] \in 0 .. num_matrix_rows_ - 1
    /\ sampling_matrix \in [0 .. matrix_size - 1 -> Nat]
    /\ counted \in Nat
    /\ transition_matrix \in [0 .. matrix_size - 1 -> Fraction]
    /\ column \in 0 .. alphabet_size
    /\ total_transitions \in Nat
    /\ cumulative_transitions \in Nat
    /\ chars_ \in Chars \cup {None}
    /\ p \in Nat
    /\ drawn \in Columns \cup {None}
    /\ sums \in [0 .. num_matrix_columns_ -> Nat]

Init ==
    /\ stage = "mapping"
    /\ row = 0
    /\ first_letter_alphabet_index = -1 /\ second_letter_alphabet_index = -1
    /\ char_combo = <<Start, Start>>
    /\ row_index_map = [chars \in {} |-> 0]
    /\ sampling_matrix = [index \in 0 .. matrix_size - 1 |-> 0] /\ counted = 0
    /\ transition_matrix = [index \in 0 .. matrix_size - 1 |-> Zero]
    /\ column = 0
    /\ total_transitions = 0 /\ cumulative_transitions = 0
    /\ chars_ = None /\ p = 0 /\ drawn = None
    /\ sums = [k \in 0 .. num_matrix_columns_ |-> 0]

-----------------------------------------------------------------------------
(* The constructor of PrecedingChars numbers the rows.                     *)

\* Mutant: the letters start again one too early, so that End has no row.
MutantNextSecond ==
    IF row = 0 THEN second_letter_alphabet_index
    ELSE IF second_letter_alphabet_index + 1 >= alphabet_size THEN 0
    ELSE second_letter_alphabet_index + 1

NextSecond ==
    IF row = 0 THEN second_letter_alphabet_index
    ELSE IF \/ first_letter_alphabet_index = -1
                 /\ second_letter_alphabet_index + 1 = alphabet_size
            \/ second_letter_alphabet_index + 1 > alphabet_size THEN 0
    ELSE second_letter_alphabet_index + 1

NextFirst ==
    IF row % num_matrix_columns_ = 0 /\ row # 0 THEN first_letter_alphabet_index + 1
                                                ELSE first_letter_alphabet_index

\* An iteration of the loop.
MapRow ==
    /\ stage = "mapping"
    /\ second_letter_alphabet_index' = NextSecond
    /\ first_letter_alphabet_index' = NextFirst
    /\ char_combo' = <<IF NextFirst # -1 THEN alphabet_[NextFirst + 1] ELSE char_combo[1],
                       IF NextSecond # -1 THEN ColumnChar(NextSecond) ELSE char_combo[2]>>
    /\ row_index_map' = [chars \in DOMAIN row_index_map \cup {char_combo'} |->
                            IF chars = char_combo' THEN row ELSE row_index_map[chars]]
    /\ row' = row + 1
    /\ stage' = IF row + 1 = num_matrix_rows_ THEN "counting" ELSE "mapping"
    /\ UNCHANGED <<sampling, transition_matrix, column, summing, search>>

-----------------------------------------------------------------------------
(* add_dictionary_word: one transition.  row_index() is -1 of what is no   *)
(* row; the element that is incremented is one before the matrix.          *)

MatrixIndex(chars, c) == row_index_map[chars] * num_matrix_columns_ + c

Count(chars, c) ==
    /\ stage = "counting"
    /\ counted < MaxCounted /\ counted' = counted + 1
    /\ chars \in DOMAIN row_index_map
    /\ sampling_matrix' = [sampling_matrix EXCEPT ![MatrixIndex(chars, c)] = @ + 1]
    /\ UNCHANGED <<stage, row, mapping, transition_matrix, column, summing, search>>

CountOutside(chars) ==
    /\ stage = "counting"
    /\ chars \notin DOMAIN row_index_map
    /\ stage' = "undefined"
    /\ UNCHANGED <<row, mapping, sampling, transition_matrix, column, summing, search>>

-----------------------------------------------------------------------------
(* prepare_for_generation: for each row two loops over its columns.        *)

ToRow(r) ==
    /\ row' = r
    /\ column' = 0 /\ total_transitions' = 0 /\ cumulative_transitions' = 0
    /\ sums' = [k \in 0 .. num_matrix_columns_ |-> 0]

BeginPreparing ==
    /\ stage = "counting"
    /\ stage' = "totalling"
    /\ ToRow(0)
    /\ UNCHANGED <<mapping, sampling, transition_matrix, search>>

\* The last row ends the outer loop.
NextRow ==
    IF row + 1 = num_matrix_rows_
        THEN stage' = "ready" /\ UNCHANGED <<row, column, summing>>
        ELSE stage' = "totalling" /\ ToRow(row + 1)

\* The transitions that were sampled in the row are added up.
AddToTotal ==
    LET total == total_transitions + sampling_matrix[row * num_matrix_columns_ + column] IN
    /\ stage = "totalling"
    /\ column < alphabet_size \/ total # 0
    /\ total_transitions' = total
    /\ sums' = [sums EXCEPT ![column + 1] = total]
    /\ IF column < alphabet_size THEN column' = column + 1 /\ stage' = stage
                                 ELSE column' = 0 /\ stage' = "accumulating"
    /\ UNCHANGED <<row, mapping, sampling, transition_matrix, cumulative_transitions, search>>

\* There are none: the row is set to 0.
ClearRow ==
    /\ stage = "totalling" /\ column = alphabet_size
    /\ total_transitions + sampling_matrix[row * num_matrix_columns_ + column] = 0
    /\ transition_matrix' =
           [index \in 0 .. matrix_size - 1 |->
               IF \E c \in 0 .. alphabet_size : index = row * num_matrix_columns_ + c
                   THEN Zero ELSE transition_matrix[index]]
    /\ NextRow
    /\ UNCHANGED <<mapping, sampling, search>>

\* Mutant: the sum goes on to a column that the row does not have.
MutantAccumulate ==
    LET index == row * num_matrix_columns_ + column
        cumulative == cumulative_transitions + sampling_matrix[index] IN
    /\ stage = "accumulating"
    /\ transition_matrix' = [transition_matrix EXCEPT ![index] =
                                [num |-> cumulative, of |-> total_transitions]]
    /\ IF column < num_matrix_columns_
           THEN /\ column' = column + 1 /\ cumulative_transitions' = cumulative
                /\ UNCHANGED <<stage, row, total_transitions, sums>>
           ELSE NextRow
    /\ UNCHANGED <<mapping, sampling, search>>

\* Mutant: the share of the column alone is stored.
MutantAccumulateAlone ==
    LET index == row * num_matrix_columns_ + column
        cumulative == cumulative_transitions + sampling_matrix[index] IN
    /\ stage = "accumulating"
    /\ transition_matrix' = [transition_matrix EXCEPT ![index] =
                                [num |-> sampling_matrix[index], of |-> total_transitions]]
    /\ IF column < alphabet_size
           THEN /\ column' = column + 1 /\ cumulative_transitions' = cumulative
                /\ UNCHANGED <<stage, row, total_transitions, sums>>
           ELSE NextRow
    /\ UNCHANGED <<mapping, sampling, search>>

\* The shares of the columns are added up.
Accumulate ==
    LET index == row * num_matrix_columns_ + column
        cumulative == cumulative_transitions + sampling_matrix[index] IN
    /\ stage = "accumulating"
    /\ transition_matrix' = [transition_matrix EXCEPT ![index] =
                                [num |-> cumulative, of |-> total_transitions]]
    /\ IF column < alphabet_size
           THEN /\ column' = column + 1 /\ cumulative_transitions' = cumulative
                /\ UNCHANGED <<stage, row, total_transitions, sums>>
           ELSE NextRow
    /\ UNCHANGED <<mapping, sampling, search>>

-----------------------------------------------------------------------------
(* make_word: the search for the column of a random number.                *)

BeginSearch(chars, k) ==
    /\ stage = "ready"
    /\ chars \in DOMAIN row_index_map
    /\ stage' = "searching"
    /\ chars_' = chars /\ p' = k /\ drawn' = None
    /\ column' = 0
    /\ UNCHANGED <<row, mapping, sampling, transition_matrix, summing>>

SearchOutside(chars) ==
    /\ stage = "ready"
    /\ chars \notin DOMAIN row_index_map
    /\ stage' = "undefined"
    /\ UNCHANGED <<row, mapping, sampling, transition_matrix, column, summing, search>>

\* Mutant: an element that is equal to the number is passed by, too.
MutantGreater(fraction) == p * fraction.of >= fraction.num * Resolution

\* p / Resolution > num / of
Greater(fraction) == p * fraction.of > fraction.num * Resolution

Element == transition_matrix[MatrixIndex(chars_, column)]

Advance ==
    /\ stage = "searching"
    /\ Greater(Element)
    /\ column < alphabet_size
    /\ column' = column + 1
    /\ UNCHANGED <<stage, row, mapping, sampling, transition_matrix, summing, search>>

\* The search goes on behind the row.
RunOff ==
    /\ stage = "searching"
    /\ Greater(Element)
    /\ column = alphabet_size
    /\ stage' = "undefined"
    /\ UNCHANGED <<row, mapping, sampling, transition_matrix, column, summing, search>>

Found ==
    /\ stage = "searching"
    /\ ~Greater(Element)
    /\ stage' = "ready"
    /\ drawn' = ColumnChar(column)
    /\ chars_' = None /\ p' = 0
    /\ UNCHANGED <<row, mapping, sampling, transition_matrix, column, summing>>

-----------------------------------------------------------------------------
Next ==
    \/ MapRow
    \/ \E chars \in Chars, c \in 0 .. alphabet_size : Count(chars, c)
    \/ \E chars \in Chars : CountOutside(chars)
    \/ BeginPreparing
    \/ AddToTotal
    \/ ClearRow
    \/ Accumulate
    \/ \E chars \in Chars, k \in 0 .. Resolution - 1 : BeginSearch(chars, k)
    \/ \E chars \in Chars : SearchOutside(chars)
    \/ Advance
    \/ RunOff
    \/ Found

Spec == Init /\ [][Next]_vars

-----------------------------------------------------------------------------
(* Properties.                                                             *)

\* The pairs of characters that can precede another one.
Rows == {<<Start, Start>>} \cup ({Start} \X Letters) \cup (Letters \X (Letters \cup {End}))

\* The loop of the constructor, which keeps two indexes beside the number of
\* the row, gives each row a number, no number to two, and none to anything else
\* (pseudoword_generator.cpp 264-308).
RowsNumbered ==
    stage # "mapping" =>
        /\ DOMAIN row_index_map = Rows
        /\ \A r \in Rows : row_index_map[r] \in 0 .. num_matrix_rows_ - 1
        /\ \A r, s \in Rows : row_index_map[r] = row_index_map[s] => r = s
        /\ \A k \in 0 .. num_matrix_rows_ - 1 : \E r \in Rows : row_index_map[r] = k

\* The row is empty, and so are its counts; or its elements grow by the counts,
\* over the same total, which is what the last one reaches.
Cumulative(r) ==
    LET index(c) == r * num_matrix_columns_ + c
        element(c) == transition_matrix[index(c)]
    IN  \/ \A c \in 0 .. alphabet_size : sampling_matrix[index(c)] = 0 /\ element(c) = Zero
        \/ \A c \in 0 .. alphabet_size :
              /\ element(c).num = sampling_matrix[index(c)] +
                                    (IF c = 0 THEN 0 ELSE element(c - 1).num)
              /\ element(c).of = element(alphabet_size).num

\* After prepare_for_generation each row has the cumulative distribution of its
\* counts (pseudoword_generator.cpp 124-156).
RowsCumulative ==
    stage \in {"ready", "searching"} => \A r \in 0 .. num_matrix_rows_ - 1 : Cumulative(r)

ColumnNumber(ch) == CHOOSE c \in 0 .. alphabet_size : ColumnChar(c) = ch

\* The matrices keep the promise of Transitions, which the generator relies on:
\* the vectors, their offsets, the shares and the search amount to a set of pairs
\* of which one is drawn, and only the number 0 draws anything else.
Pairs == INSTANCE Transitions WITH
    First  <- alphabet_[1],
    seen   <- IF stage = "mapping" THEN {}
              ELSE {pair \in Rows \X Columns :
                      sampling_matrix[MatrixIndex(pair[1], ColumnNumber(pair[2]))] # 0},
    stage  <- CASE stage \in {"ready", "searching"} -> "ready"
                [] stage = "undefined" -> "undefined"
                [] OTHER -> "counting",
    asked  <- IF chars_ = None THEN None ELSE [row |-> chars_, zero |-> p = 0]

DrawsWhatWasSeen == Pairs!Spec

-----------------------------------------------------------------------------
(* The inductive invariant behind the properties.                          *)

LetterNumber(ch) == CHOOSE k \in 1 .. alphabet_size : alphabet_[k] = ch

\* The number of a row, from its characters.
RowNumber(r) ==
    IF r[1] # Start THEN LetterNumber(r[1]) * num_matrix_columns_ + ColumnNumber(r[2])
    ELSE IF r[2] = Start THEN 0
    ELSE LetterNumber(r[2])

\* The two indexes stand where the number of the last row does.
IndexInv ==
    /\ row < num_matrix_rows_
    /\ row = 0 => /\ first_letter_alphabet_index = -1 /\ second_letter_alphabet_index = -1
                  /\ char_combo = <<Start, Start>>
    /\ row # 0 =>
         IF first_letter_alphabet_index = -1
             THEN /\ row = second_letter_alphabet_index + 2 /\ row <= num_matrix_columns_
                  /\ char_combo[1] = Start
             ELSE /\ row = (first_letter_alphabet_index + 1) * num_matrix_columns_
                                + second_letter_alphabet_index + 1
                  /\ second_letter_alphabet_index >= 0
    /\ \A index \in 0 .. matrix_size - 1 : sampling_matrix[index] = 0

\* The rows up to the present one have their numbers.
MapInv ==
    /\ \A r \in DOMAIN row_index_map : row_index_map[r] = RowNumber(r)
    /\ stage = "mapping" =>
         /\ IndexInv
         /\ DOMAIN row_index_map = {r \in Rows : RowNumber(r) < row}
         /\ \A k \in 0 .. row - 1 : \E r \in Rows : RowNumber(r) = k
    /\ RowsNumbered

\* sums has the sums of the first n counts of the row.
Summed(n) ==
    /\ sums[0] = 0
    /\ \A c \in 0 .. n - 1 :
         sums[c + 1] = sums[c] + sampling_matrix[row * num_matrix_columns_ + c]

\* The second loop over a row stores what the first one summed up.
SumInv ==
    /\ stage \in {"totalling", "accumulating"} =>
         row < num_matrix_rows_ /\ \A r \in 0 .. row - 1 : Cumulative(r)
    /\ stage = "totalling" =>
         /\ Summed(column) /\ total_transitions = sums[column] /\ cumulative_transitions = 0
         /\ \A c \in 0 .. column - 1 :
              sampling_matrix[row * num_matrix_columns_ + c] <= total_transitions
    /\ stage = "accumulating" =>
         /\ Summed(num_matrix_columns_)
         /\ total_transitions = sums[num_matrix_columns_] /\ total_transitions # 0
         /\ cumulative_transitions = sums[column]
         /\ \A c \in 0 .. column - 1 :
              transition_matrix[row * num_matrix_columns_ + c] =
                  [num |-> sums[c + 1], of |-> total_transitions]
    /\ RowsCumulative

\* The search has passed the elements that are smaller than the number.
SearchInv ==
    /\ stage \notin {"searching", "undefined"} => chars_ = None
    /\ stage = "searching" =>
         /\ chars_ \in Rows /\ p < Resolution
         /\ column > 0 => Greater(transition_matrix[MatrixIndex(chars_, column - 1)])

MatrixInv == TypeOK /\ MapInv /\ SumInv /\ SearchInv
=============================================================================
