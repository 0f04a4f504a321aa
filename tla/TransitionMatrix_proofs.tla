------------------------- MODULE TransitionMatrix_proofs -------------------------
(***************************************************************************)
(* Proofs about the matrices of the generator: each row has a number of    *)
(* its own, the elements of a row are the cumulative shares of its counts, *)
(* and the search over them draws what was counted.                        *)
(***************************************************************************)
EXTENDS TransitionMatrix, TLAPS

-----------------------------------------------------------------------------
(* Offsets in a flat vector of rows of m elements.                         *)

LEMMA ProductNat == \A x \in Nat, y \in Nat : x * y \in Nat
OBVIOUS

\* A later row begins behind the end of an earlier one.
LEMMA RowsFollow ==
  ASSUME NEW x \in Nat, NEW z \in Nat, NEW m \in Nat, x < z
  PROVE  x * m + m <= z * m
<1>1. PICK d \in Nat : z = x + 1 + d
  <2>1. z - x - 1 \in Nat
    OBVIOUS
  <2> QED BY <2>1
<1>2. (x + 1 + d) * m = x * m + m + d * m
  OBVIOUS
<1>3. d * m \in Nat /\ x * m \in Nat
  BY ProductNat
<1> QED BY <1>1, <1>2, <1>3

\* An offset belongs to one row and one column.
LEMMA OneOffset ==
  ASSUME NEW m \in Nat, NEW a \in Nat, NEW c \in Nat, NEW b \in 0 .. m - 1, NEW d \in 0 .. m - 1,
         a * m + b = c * m + d
  PROVE  a = c /\ b = d
<1> DEFINE x == a * m
           y == c * m
<1>1. x \in Nat /\ y \in Nat /\ x + b = y + d
  BY ProductNat
<1>2. ~ (a < c)
  <2> SUFFICES ASSUME a < c PROVE FALSE
    OBVIOUS
  <2>1. x + m <= y
    BY RowsFollow
  <2> HIDE DEF x, y
  <2> QED BY <1>1, <2>1
<1>3. ~ (c < a)
  <2> SUFFICES ASSUME c < a PROVE FALSE
    OBVIOUS
  <2>1. y + m <= x
    BY RowsFollow
  <2> HIDE DEF x, y
  <2> QED BY <1>1, <2>1
<1>4. a = c
  BY <1>2, <1>3
<1>5. x = y
  BY <1>4
<1>6. b = d
  <2> HIDE DEF x, y
  <2> QED BY <1>1, <1>5
<1> QED BY <1>4, <1>6

LEMMA OffsetModulo ==
  ASSUME NEW m \in Nat, m > 0, NEW a \in Nat, NEW b \in 0 .. m - 1
  PROVE  (a * m + b) % m = b
<1> DEFINE x == a * m + b
<1>1. x \in Nat
  BY ProductNat
<1>2. x % m \in 0 .. m - 1 /\ x \div m \in Nat /\ x = (x \div m) * m + (x % m)
  <2> HIDE DEF x
  <2> QED BY <1>1
<1> HIDE DEF x
<1>3. a * m + b = (x \div m) * m + (x % m)
  BY <1>2 DEF x
<1> QED BY <1>2, <1>3, OneOffset DEF x

-----------------------------------------------------------------------------
(* The alphabet and the numbers of rows and columns.                       *)

LEMMA Sizes ==
  /\ alphabet_size \in Nat /\ alphabet_size > 0
  /\ num_matrix_columns_ \in Nat /\ num_matrix_columns_ = alphabet_size + 1
  /\ num_matrix_rows_ \in Nat /\ num_matrix_rows_ > 0
  /\ matrix_size \in Nat
<1>1. alphabet_size \in Nat /\ alphabet_size > 0
  BY MatrixAssumption DEF alphabet_size
<1>2. num_matrix_columns_ \in Nat /\ num_matrix_columns_ = alphabet_size + 1
  BY <1>1 DEF num_matrix_columns_
<1>3. num_matrix_rows_ \in Nat
  BY <1>2, ProductNat DEF num_matrix_rows_
<1>4. num_matrix_rows_ > 0
  <2>1. 0 * num_matrix_columns_ + num_matrix_columns_ <= num_matrix_columns_ * num_matrix_columns_
    BY <1>1, <1>2, RowsFollow
  <2> QED BY <1>1, <1>2, <1>3, <2>1 DEF num_matrix_rows_
<1>5. matrix_size \in Nat
  BY <1>2, <1>3, ProductNat DEF matrix_size
<1> QED BY <1>1, <1>2, <1>3, <1>4, <1>5

LEMMA LetterFacts ==
  /\ \A k \in 1 .. alphabet_size : alphabet_[k] \in Letters
  /\ \A ch \in Letters : LetterNumber(ch) \in 1 .. alphabet_size /\ alphabet_[LetterNumber(ch)] = ch
  /\ \A k \in 1 .. alphabet_size : LetterNumber(alphabet_[k]) = k
  /\ Start \notin Letters /\ End \notin Letters /\ Start # End
<1>1. \A k \in 1 .. alphabet_size : alphabet_[k] \in Letters
  BY DEF Letters
<1>2. \A ch \in Letters : LetterNumber(ch) \in 1 .. alphabet_size /\ alphabet_[LetterNumber(ch)] = ch
  <2> TAKE ch \in Letters
  <2>1. \E k \in 1 .. alphabet_size : alphabet_[k] = ch
    BY DEF Letters
  <2> QED BY <2>1 DEF LetterNumber
<1>3. \A k \in 1 .. alphabet_size : LetterNumber(alphabet_[k]) = k
  BY <1>1, <1>2, MatrixAssumption
<1> QED BY <1>1, <1>2, <1>3, MatrixAssumption

LEMMA ColumnFacts ==
  /\ \A c \in 0 .. alphabet_size : ColumnChar(c) \in Columns
  /\ \A ch \in Columns : ColumnNumber(ch) \in 0 .. alphabet_size /\ ColumnChar(ColumnNumber(ch)) = ch
  /\ \A c \in 0 .. alphabet_size : ColumnNumber(ColumnChar(c)) = c
  /\ Start \notin Columns
<1>1. \A c \in 0 .. alphabet_size : ColumnChar(c) \in Columns
  BY Sizes, LetterFacts DEF ColumnChar, Columns
<1>2. \A ch \in Columns : \E c \in 0 .. alphabet_size : ColumnChar(c) = ch
  <2> TAKE ch \in Columns
  <2>1. CASE ch = End
    BY <2>1, Sizes DEF ColumnChar
  <2>2. CASE ch \in Letters
    <3>1. LetterNumber(ch) - 1 \in 0 .. alphabet_size /\ ColumnChar(LetterNumber(ch) - 1) = ch
      <4>1. LetterNumber(ch) \in 1 .. alphabet_size /\ alphabet_[LetterNumber(ch)] = ch
        BY <2>2, LetterFacts
      <4>2. (LetterNumber(ch) - 1) + 1 = LetterNumber(ch) /\ LetterNumber(ch) - 1 < alphabet_size
        BY <4>1, Sizes
      <4> QED BY <4>1, <4>2, Sizes DEF ColumnChar
    <3> QED BY <3>1
  <2> QED BY <2>1, <2>2 DEF Columns
<1>3. \A ch \in Columns : ColumnNumber(ch) \in 0 .. alphabet_size /\ ColumnChar(ColumnNumber(ch)) = ch
  BY <1>2 DEF ColumnNumber
<1>4. ASSUME NEW c \in 0 .. alphabet_size, NEW d \in 0 .. alphabet_size,
             ColumnChar(c) = ColumnChar(d)
      PROVE  c = d
  <2>1. CASE c < alphabet_size /\ d < alphabet_size
    <3>1. alphabet_[c + 1] = alphabet_[d + 1] /\ c + 1 \in 1 .. alphabet_size
            /\ d + 1 \in 1 .. alphabet_size
      BY <1>4, <2>1, Sizes DEF ColumnChar
    <3>2. c + 1 = d + 1
      BY <3>1, MatrixAssumption
    <3> QED BY <3>2
  <2>2. CASE c = alphabet_size /\ d < alphabet_size
    <3>1. d + 1 \in 1 .. alphabet_size /\ alphabet_[d + 1] = End
      BY <1>4, <2>2, Sizes DEF ColumnChar
    <3> QED BY <3>1, LetterFacts
  <2>3. CASE c < alphabet_size /\ d = alphabet_size
    <3>1. c + 1 \in 1 .. alphabet_size /\ alphabet_[c + 1] = End
      BY <1>4, <2>3, Sizes DEF ColumnChar
    <3> QED BY <3>1, LetterFacts
  <2> QED BY <2>1, <2>2, <2>3, Sizes
<1>5. \A c \in 0 .. alphabet_size : ColumnNumber(ColumnChar(c)) = c
  <2> TAKE c \in 0 .. alphabet_size
  <2>1. ColumnChar(c) \in Columns
    BY <1>1
  <2>2. /\ ColumnNumber(ColumnChar(c)) \in 0 .. alphabet_size
        /\ ColumnChar(ColumnNumber(ColumnChar(c))) = ColumnChar(c)
    BY <1>3, <2>1
  <2> QED BY <1>4, <2>2
<1> QED BY <1>1, <1>3, <1>5, LetterFacts DEF Columns

\* Each element of the matrix is in it, and is that of one row and one column.
LEMMA Offsets ==
  /\ \A r \in 0 .. num_matrix_rows_ - 1, c \in 0 .. alphabet_size :
       r * num_matrix_columns_ + c \in 0 .. matrix_size - 1
  /\ \A r, s \in 0 .. num_matrix_rows_ - 1, c, d \in 0 .. alphabet_size :
       r * num_matrix_columns_ + c = s * num_matrix_columns_ + d => r = s /\ c = d
<1>1. ASSUME NEW r \in 0 .. num_matrix_rows_ - 1, NEW c \in 0 .. alphabet_size
      PROVE  r * num_matrix_columns_ + c \in 0 .. matrix_size - 1
  <2> DEFINE x == r * num_matrix_columns_
             m == num_matrix_columns_
  <2>1. x \in Nat
    BY Sizes, ProductNat
  <2>2. x + m <= matrix_size
    BY Sizes, RowsFollow DEF matrix_size
  <2>3. c < m /\ m \in Nat
    BY Sizes
  <2> HIDE DEF x, m
  <2>4. x + c \in 0 .. matrix_size - 1
    BY <2>1, <2>2, <2>3, Sizes
  <2> QED BY <2>4 DEF x
<1>2. ASSUME NEW r \in 0 .. num_matrix_rows_ - 1, NEW s \in 0 .. num_matrix_rows_ - 1,
             NEW c \in 0 .. alphabet_size, NEW d \in 0 .. alphabet_size,
             r * num_matrix_columns_ + c = s * num_matrix_columns_ + d
      PROVE  r = s /\ c = d
  <2>1. c \in 0 .. num_matrix_columns_ - 1 /\ d \in 0 .. num_matrix_columns_ - 1
    BY Sizes
  <2> QED BY <1>2, <2>1, Sizes, OneOffset
<1> QED BY <1>1, <1>2

-----------------------------------------------------------------------------
(* The numbers of the rows.                                                *)

LEMMA RowKinds ==
  ASSUME NEW r \in Rows
  PROVE  /\ r \in Chars /\ r = <<r[1], r[2]>>
         /\ \/ r[1] = Start /\ r[2] = Start /\ RowNumber(r) = 0
            \/ r[1] = Start /\ r[2] \in Letters /\ RowNumber(r) = LetterNumber(r[2])
            \/ /\ r[1] \in Letters /\ r[2] \in Columns
               /\ RowNumber(r) = LetterNumber(r[1]) * num_matrix_columns_ + ColumnNumber(r[2])
<1>1. CASE r = <<Start, Start>>
  BY <1>1 DEF RowNumber, Chars
<1>2. CASE r \in {Start} \X Letters
  BY <1>2, LetterFacts DEF RowNumber, Chars, Columns
<1>3. CASE r \in Letters \X Columns
  BY <1>3, LetterFacts DEF RowNumber, Chars, Columns
<1> QED BY <1>1, <1>2, <1>3 DEF Rows, Columns

\* Each row has a number below that of the rows, and no two the same.
LEMMA NumberInRange ==
  ASSUME NEW r \in Rows
  PROVE  RowNumber(r) \in 0 .. num_matrix_rows_ - 1
<1> DEFINE m == num_matrix_columns_
<1>1. m \in Nat /\ m = alphabet_size + 1 /\ alphabet_size \in Nat /\ alphabet_size > 0
  BY Sizes
<1>2. ASSUME NEW a \in 0 .. alphabet_size, NEW b \in 0 .. alphabet_size
      PROVE  a * m + b \in 0 .. m * m - 1
  <2> DEFINE x == a * m
             y == m * m
  <2>1. x \in Nat /\ y \in Nat
    BY <1>1, ProductNat
  <2>2. x + m <= y
    BY <1>1, RowsFollow
  <2> HIDE DEF x, y
  <2>3. x + b \in 0 .. y - 1
    BY <1>1, <2>1, <2>2
  <2> QED BY <2>3 DEF x, y
<1> HIDE DEF m
<1>3. ASSUME NEW b \in 0 .. alphabet_size PROVE b \in 0 .. m * m - 1
  <2>1. 0 * m + b \in 0 .. m * m - 1
    BY <1>1, <1>2
  <2>2. 0 * m + b = b
    BY <1>1
  <2> QED BY <2>1, <2>2
<1>4. num_matrix_rows_ = m * m
  BY DEF num_matrix_rows_, m
<1>5. CASE RowNumber(r) = 0
  BY <1>1, <1>3, <1>4, <1>5
<1>6. CASE r[2] \in Letters /\ RowNumber(r) = LetterNumber(r[2])
  <2>1. LetterNumber(r[2]) \in 0 .. alphabet_size
    BY <1>1, <1>6, LetterFacts
  <2> QED BY <1>3, <1>4, <1>6, <2>1
<1>7. CASE /\ r[1] \in Letters /\ r[2] \in Columns
           /\ RowNumber(r) = LetterNumber(r[1]) * num_matrix_columns_ + ColumnNumber(r[2])
  <2>1. LetterNumber(r[1]) \in 0 .. alphabet_size /\ ColumnNumber(r[2]) \in 0 .. alphabet_size
    BY <1>1, <1>7, LetterFacts, ColumnFacts
  <2> QED BY <1>2, <1>4, <1>7, <2>1 DEF m
<1> QED BY <1>5, <1>6, <1>7, RowKinds

LEMMA NumbersDiffer ==
  ASSUME NEW r \in Rows, NEW s \in Rows, RowNumber(r) = RowNumber(s)
  PROVE  r = s
<1> DEFINE m == num_matrix_columns_
           Digits(q, a, b) ==
             /\ a \in 0 .. alphabet_size /\ b \in 0 .. alphabet_size /\ RowNumber(q) = a * m + b
             /\ a = 0 => q[1] = Start /\ (IF b = 0 THEN q[2] = Start
                                          ELSE q[2] = alphabet_[b])
             /\ a # 0 => q[1] = alphabet_[a] /\ q[2] = ColumnChar(b)
<1>1. m \in Nat /\ m = alphabet_size + 1 /\ alphabet_size \in Nat
  BY Sizes
<1>2. ASSUME NEW q \in Rows PROVE \E a, b \in 0 .. alphabet_size : Digits(q, a, b)
  <2>1. CASE q[1] = Start /\ q[2] = Start /\ RowNumber(q) = 0
    <3>1. 0 * m + 0 = 0
      BY <1>1
    <3>2. Digits(q, 0, 0)
      BY <1>1, <2>1, <3>1
    <3>3. 0 \in 0 .. alphabet_size
      BY <1>1
    <3> QED BY <3>2, <3>3
  <2>2. CASE q[1] = Start /\ q[2] \in Letters /\ RowNumber(q) = LetterNumber(q[2])
    <3> DEFINE b == LetterNumber(q[2])
    <3>1. b \in 1 .. alphabet_size /\ alphabet_[b] = q[2]
      BY <2>2, LetterFacts
    <3>2. 0 * m + b = b
      BY <1>1, <3>1
    <3>3. Digits(q, 0, b)
      <4> HIDE DEF m
      <4> QED BY <1>1, <2>2, <3>1, <3>2
    <3>4. 0 \in 0 .. alphabet_size /\ b \in 0 .. alphabet_size
      BY <1>1, <3>1
    <3> QED BY <3>3, <3>4
  <2>3. CASE /\ q[1] \in Letters /\ q[2] \in Columns
             /\ RowNumber(q) = LetterNumber(q[1]) * num_matrix_columns_ + ColumnNumber(q[2])
    <3> DEFINE a == LetterNumber(q[1])
               b == ColumnNumber(q[2])
    <3>1. a \in 1 .. alphabet_size /\ alphabet_[a] = q[1]
      BY <2>3, LetterFacts
    <3>2. b \in 0 .. alphabet_size /\ ColumnChar(b) = q[2]
      BY <2>3, ColumnFacts
    <3>3. a \in 0 .. alphabet_size /\ a # 0
      BY <1>1, <3>1
    <3>4. RowNumber(q) = a * m + b
      BY <2>3
    <3> HIDE DEF a, b, m
    <3>5. Digits(q, a, b)
      BY <3>1, <3>2, <3>3, <3>4
    <3> QED BY <3>2, <3>3, <3>5
  <2> QED BY <2>1, <2>2, <2>3, RowKinds
<1>3. PICK a, b \in 0 .. alphabet_size : Digits(r, a, b)
  BY <1>2
<1>4. PICK c, d \in 0 .. alphabet_size : Digits(s, c, d)
  BY <1>2
<1>5. a = c /\ b = d
  <2>1. a * m + b = c * m + d
    BY <1>3, <1>4
  <2>2. b \in 0 .. m - 1 /\ d \in 0 .. m - 1 /\ a \in Nat /\ c \in Nat
    BY <1>1
  <2> HIDE DEF m
  <2> QED BY <1>1, <2>1, <2>2, OneOffset
<1>6. r[1] = s[1] /\ r[2] = s[2]
  BY <1>3, <1>4, <1>5
<1> QED BY <1>6, RowKinds

-----------------------------------------------------------------------------
(* The constructor.                                                        *)

\* The indexes of the next row are those of its number.
LEMMA NextIndexes ==
  ASSUME TypeOK, IndexInv
  PROVE  /\ NextFirst \in -1 .. alphabet_size - 1 /\ NextSecond \in -1 .. alphabet_size
         /\ NextFirst = -1 => /\ row = NextSecond + 1 /\ NextSecond < alphabet_size
                              /\ char_combo[1] = Start
                              /\ NextSecond = -1 => char_combo[2] = Start
         /\ NextFirst # -1 => /\ row = (NextFirst + 1) * num_matrix_columns_ + NextSecond
                              /\ NextSecond >= 0
<1> DEFINE m == num_matrix_columns_
           first == first_letter_alphabet_index
           second == second_letter_alphabet_index
<1>1. m \in Nat /\ m = alphabet_size + 1 /\ alphabet_size \in Nat /\ alphabet_size > 0
  BY Sizes
<1>2. first \in -1 .. alphabet_size - 1 /\ second \in -1 .. alphabet_size /\ row \in Nat
  BY Sizes DEF TypeOK
<1>3. ASSUME NEW a \in Nat, NEW b \in 0 .. alphabet_size, row = a * m + b
      PROVE  row % m = b
  <2>1. b \in 0 .. m - 1
    BY <1>1
  <2> HIDE DEF m
  <2> QED BY <1>1, <1>3, <2>1, OffsetModulo
<1>4. CASE row = 0
  BY <1>1, <1>4 DEF IndexInv, NextFirst, NextSecond
<1>5. CASE row # 0 /\ first = -1
  <2>1. row = second + 2 /\ row <= m /\ char_combo[1] = Start
    BY <1>5 DEF IndexInv
  <2>2. CASE second + 1 = alphabet_size
    <3>1. row = m /\ row = 1 * m + 0 /\ 0 \in 0 .. alphabet_size
      BY <1>1, <1>2, <2>1, <2>2
    <3>2. row % m = 0
      BY <1>3, <3>1
    <3>3. NextFirst = 0 /\ NextSecond = 0
      BY <1>5, <2>2, <3>2 DEF NextFirst, NextSecond
    <3>4. (0 + 1) * m + 0 = 1 * m + 0
      BY <1>1
    <3> QED BY <1>1, <3>1, <3>3, <3>4
  <2>3. CASE second + 1 # alphabet_size
    <3>1. row = 0 * m + row /\ row \in 0 .. alphabet_size /\ second + 1 < alphabet_size
      BY <1>1, <1>2, <2>1, <2>3
    <3>2. row % m # 0
      BY <1>3, <1>5, <3>1
    <3>3. NextFirst = -1 /\ NextSecond = second + 1
      BY <1>1, <1>2, <1>5, <2>3, <3>1, <3>2 DEF NextFirst, NextSecond
    <3> QED BY <1>1, <1>2, <2>1, <3>1, <3>3
  <2> QED BY <2>2, <2>3
<1>6. CASE row # 0 /\ first # -1
  <2>1. row = (first + 1) * m + second + 1 /\ second >= 0 /\ row < num_matrix_rows_
    BY <1>6 DEF IndexInv
  <2> DEFINE x == (first + 1) * m
  <2>2. x \in Nat /\ first \in 0 .. alphabet_size - 1 /\ first + 1 \in Nat
    BY <1>1, <1>2, <1>6, ProductNat
  <2>3. CASE second = alphabet_size
    <3>1. (first + 1 + 1) * m = x + m
      BY <1>1, <2>2
    <3>2. row = (first + 1 + 1) * m + 0
      <4> HIDE DEF x, m
      <4>1. row = x + m
        BY <1>1, <2>1, <2>2, <2>3 DEF x
      <4> QED BY <1>1, <1>2, <3>1, <4>1
    <3>3. row % m = 0
      <4>1. first + 1 + 1 \in Nat /\ 0 \in 0 .. alphabet_size
        BY <1>1, <2>2
      <4> QED BY <1>3, <3>2, <4>1
    <3>4. NextFirst = first + 1 /\ NextSecond = 0
      BY <1>1, <1>6, <2>3, <3>3 DEF NextFirst, NextSecond
    <3>5. first # alphabet_size - 1
      <4> SUFFICES ASSUME first = alphabet_size - 1 PROVE FALSE
        OBVIOUS
      <4>1. first + 1 + 1 = m
        BY <1>1
      <4>2. row = num_matrix_rows_ + 0
        BY <3>2, <4>1 DEF num_matrix_rows_
      <4> QED BY <2>1, <4>2, Sizes
    <3> QED BY <1>1, <1>2, <2>2, <3>2, <3>4, <3>5
  <2>4. CASE second # alphabet_size
    <3>1. second + 1 \in 0 .. alphabet_size /\ second + 1 # 0 /\ ~(second + 1 > alphabet_size)
      BY <1>1, <1>2, <2>1, <2>4
    <3>2. row = (first + 1) * m + (second + 1)
      <4> HIDE DEF x, m
      <4>1. row = x + (second + 1)
        BY <1>1, <1>2, <2>1, <2>2 DEF x
      <4> QED BY <4>1 DEF x
    <3>3. row % m = second + 1
      BY <1>3, <2>2, <3>1, <3>2
    <3>4. NextFirst = first /\ NextSecond = second + 1
      BY <1>6, <3>1, <3>3 DEF NextFirst, NextSecond
    <3> QED BY <1>1, <1>2, <1>6, <2>1, <3>1, <3>2, <3>4
  <2> QED BY <2>3, <2>4
<1> QED BY <1>4, <1>5, <1>6

\* So its characters are those of the row with this number.
LEMMA NextCombo ==
  ASSUME TypeOK, IndexInv, MapRow
  PROVE  char_combo' \in Rows /\ RowNumber(char_combo') = row
<1> DEFINE f == NextFirst
           s == NextSecond
<1>1. char_combo' = <<IF f # -1 THEN alphabet_[f + 1] ELSE char_combo[1],
                      IF s # -1 THEN ColumnChar(s) ELSE char_combo[2]>>
  BY DEF MapRow
<1>2. /\ f \in -1 .. alphabet_size - 1 /\ s \in -1 .. alphabet_size
      /\ f = -1 => /\ row = s + 1 /\ s < alphabet_size
                   /\ char_combo[1] = Start
                   /\ s = -1 => char_combo[2] = Start
      /\ f # -1 => row = (f + 1) * num_matrix_columns_ + s /\ s >= 0
  BY NextIndexes
<1> HIDE DEF f, s
<1>3. CASE f = -1 /\ s = -1
  <2>1. char_combo' = <<Start, Start>> /\ row = 0
    BY <1>1, <1>2, <1>3
  <2> QED BY <2>1 DEF Rows, RowNumber
<1>4. CASE f = -1 /\ s # -1
  <2>1. s + 1 \in 1 .. alphabet_size /\ row = s + 1 /\ s < alphabet_size
    BY <1>2, <1>4, Sizes
  <2>2. char_combo' = <<Start, alphabet_[s + 1]>>
    BY <1>1, <1>2, <1>4 DEF ColumnChar
  <2>3. alphabet_[s + 1] \in Letters /\ LetterNumber(alphabet_[s + 1]) = s + 1
    BY <2>1, LetterFacts
  <2> QED BY <2>1, <2>2, <2>3, LetterFacts DEF Rows, RowNumber
<1>5. CASE f # -1
  <2>1. f + 1 \in 1 .. alphabet_size /\ s \in 0 .. alphabet_size
    BY <1>2, <1>5, Sizes
  <2>2. char_combo' = <<alphabet_[f + 1], ColumnChar(s)>>
    BY <1>1, <1>5, <2>1
  <2>3. alphabet_[f + 1] \in Letters /\ LetterNumber(alphabet_[f + 1]) = f + 1
    BY <2>1, LetterFacts
  <2>4. ColumnChar(s) \in Letters \cup {End} /\ ColumnNumber(ColumnChar(s)) = s
    BY <2>1, ColumnFacts DEF Columns
  <2>5. row = (f + 1) * num_matrix_columns_ + s
    BY <1>2, <1>5
  <2> QED BY <2>2, <2>3, <2>4, <2>5, LetterFacts DEF Rows, RowNumber
<1> QED BY <1>3, <1>4, <1>5

LEMMA MapRowKeepsType ==
  ASSUME TypeOK, MapInv, MapRow
  PROVE  TypeOK'
<1>1. IndexInv
  BY DEF MapInv, MapRow
<1>2. char_combo' \in Chars
  BY <1>1, NextCombo, RowKinds
<1>3. row \in 0 .. num_matrix_rows_ - 1 /\ row' \in 0 .. num_matrix_rows_
  BY <1>1, Sizes DEF IndexInv, TypeOK, MapRow
<1>4. /\ first_letter_alphabet_index' \in -1 .. alphabet_size - 1
      /\ second_letter_alphabet_index' \in -1 .. alphabet_size
  BY <1>1, NextIndexes DEF MapRow
<1>5. /\ DOMAIN row_index_map' \subseteq Chars
      /\ \A chars \in DOMAIN row_index_map' :
           row_index_map'[chars] \in 0 .. num_matrix_rows_ - 1
  BY <1>2, <1>3 DEF TypeOK, MapRow
<1>6. stage' \in {"mapping", "counting"}
  BY DEF MapRow
<1> QED BY <1>2, <1>3, <1>4, <1>5, <1>6 DEF TypeOK, MapRow, sampling, summing, search

LEMMA MapRowKeepsMap ==
  ASSUME TypeOK, MapInv, MapRow
  PROVE  MapInv'
<1>1. IndexInv /\ stage = "mapping"
  BY DEF MapInv, MapRow
<1> DEFINE c == char_combo'
<1>2. c \in Rows /\ RowNumber(c) = row /\ row \in Nat
  BY <1>1, NextCombo DEF TypeOK
<1>3. /\ DOMAIN row_index_map' = DOMAIN row_index_map \cup {c}
      /\ \A r \in DOMAIN row_index_map' :
           row_index_map'[r] = IF r = c THEN row ELSE row_index_map[r]
      /\ row' = row + 1
      /\ stage' = IF row + 1 = num_matrix_rows_ THEN "counting" ELSE "mapping"
  BY DEF MapRow
<1>4. \A r \in DOMAIN row_index_map' : row_index_map'[r] = RowNumber(r)
  BY <1>2, <1>3 DEF MapInv
<1>5. DOMAIN row_index_map' = {r \in Rows : RowNumber(r) < row + 1}
  <2>1. DOMAIN row_index_map = {r \in Rows : RowNumber(r) < row}
    BY <1>1 DEF MapInv
  <2>2. ASSUME NEW r \in Rows
        PROVE  RowNumber(r) < row + 1 <=> RowNumber(r) < row \/ r = c
    <3>1. RowNumber(r) \in Nat
      BY NumberInRange, Sizes
    <3>2. RowNumber(r) = row => r = c
      BY <1>2, NumbersDiffer
    <3> QED BY <1>2, <3>1, <3>2
  <2> QED BY <1>2, <1>3, <2>1, <2>2
<1>6. \A k \in 0 .. row : \E r \in Rows : RowNumber(r) = k
  <2>1. \A k \in 0 .. row - 1 : \E r \in Rows : RowNumber(r) = k
    BY <1>1 DEF MapInv
  <2> QED BY <1>2, <2>1
<1>7. CASE row + 1 = num_matrix_rows_
  <2>1. \A r \in Rows : RowNumber(r) \in 0 .. num_matrix_rows_ - 1
    BY NumberInRange
  <2>2. DOMAIN row_index_map' = Rows
    BY <1>5, <1>7, <2>1, Sizes
  <2>3. RowsNumbered'
    <3>1. \A r, s \in Rows : RowNumber(r) = RowNumber(s) => r = s
      BY NumbersDiffer
    <3>2. \A k \in 0 .. num_matrix_rows_ - 1 : \E r \in Rows : RowNumber(r) = k
      BY <1>2, <1>6, <1>7
    <3> QED BY <1>4, <2>1, <2>2, <3>1, <3>2 DEF RowsNumbered
  <2> QED BY <1>3, <1>4, <1>7, <2>3 DEF MapInv
<1>8. CASE row + 1 # num_matrix_rows_
  <2>1. stage' = "mapping"
    BY <1>3, <1>8
  <2>2. row' < num_matrix_rows_ /\ row' # 0
    BY <1>1, <1>2, <1>3, <1>8, Sizes DEF IndexInv
  <2>3. IF first_letter_alphabet_index' = -1
          THEN /\ row' = second_letter_alphabet_index' + 2 /\ row' <= num_matrix_columns_
               /\ char_combo'[1] = Start
          ELSE /\ row' = (first_letter_alphabet_index' + 1) * num_matrix_columns_
                            + second_letter_alphabet_index' + 1
               /\ second_letter_alphabet_index' >= 0
    <3>1. first_letter_alphabet_index' = NextFirst /\ second_letter_alphabet_index' = NextSecond
      BY DEF MapRow
    <3>2. CASE NextFirst = -1
      <4>1. char_combo'[1] = Start
        BY <1>1, <3>2, NextIndexes DEF MapRow
      <4> QED BY <1>1, <1>3, <3>1, <3>2, <4>1, NextIndexes, Sizes
    <3>3. CASE NextFirst # -1
      <4> DEFINE x == (NextFirst + 1) * num_matrix_columns_
      <4>1. row = x + NextSecond /\ NextSecond >= 0 /\ NextSecond \in -1 .. alphabet_size
        BY <1>1, <3>3, NextIndexes
      <4>2. x \in Nat
        <5>1. NextFirst + 1 \in Nat
          BY <1>1, NextIndexes, Sizes
        <5> QED BY <5>1, Sizes, ProductNat
      <4> HIDE DEF x
      <4>3. row' = x + NextSecond + 1
        BY <1>3, <4>1, <4>2, Sizes
      <4> QED BY <3>1, <3>3, <4>1, <4>3 DEF x
    <3> QED BY <3>1, <3>2, <3>3
  <2>4. \A index \in 0 .. matrix_size - 1 : sampling_matrix'[index] = 0
    BY <1>1 DEF IndexInv, MapRow, sampling
  <2>5. IndexInv'
    BY <2>2, <2>3, <2>4 DEF IndexInv
  <2>6. \A k \in 0 .. row' - 1 : \E r \in Rows : RowNumber(r) = k
    BY <1>2, <1>3, <1>6
  <2>7. RowsNumbered'
    BY <2>1 DEF RowsNumbered
  <2> QED BY <1>3, <1>4, <1>5, <2>1, <2>5, <2>6, <2>7 DEF MapInv
<1> QED BY <1>7, <1>8

-----------------------------------------------------------------------------
(* The sums.                                                               *)

LEMMA CumulativeStays ==
  ASSUME NEW r \in 0 .. num_matrix_rows_ - 1, Cumulative(r),
         \A c \in 0 .. alphabet_size :
            /\ sampling_matrix'[r * num_matrix_columns_ + c]
                 = sampling_matrix[r * num_matrix_columns_ + c]
            /\ transition_matrix'[r * num_matrix_columns_ + c]
                 = transition_matrix[r * num_matrix_columns_ + c]
  PROVE  Cumulative(r)'
<1> DEFINE index(c) == r * num_matrix_columns_ + c
<1>1. \A c \in 0 .. alphabet_size : c # 0 => c - 1 \in 0 .. alphabet_size
  BY Sizes
<1>2. alphabet_size \in 0 .. alphabet_size
  BY Sizes
<1>3. CASE \A c \in 0 .. alphabet_size :
             sampling_matrix[index(c)] = 0 /\ transition_matrix[index(c)] = Zero
  BY <1>3 DEF Cumulative
<1>4. CASE \A c \in 0 .. alphabet_size :
             /\ transition_matrix[index(c)].num = sampling_matrix[index(c)] +
                    (IF c = 0 THEN 0 ELSE transition_matrix[index(c - 1)].num)
             /\ transition_matrix[index(c)].of = transition_matrix[index(alphabet_size)].num
  <2>1. \A c \in 0 .. alphabet_size :
             /\ transition_matrix'[index(c)].num = sampling_matrix'[index(c)] +
                    (IF c = 0 THEN 0 ELSE transition_matrix'[index(c - 1)].num)
             /\ transition_matrix'[index(c)].of = transition_matrix'[index(alphabet_size)].num
    BY <1>1, <1>2, <1>4
  <2> QED BY <2>1 DEF Cumulative
<1> QED BY <1>3, <1>4 DEF Cumulative

LEMMA ToRowTypes ==
  ASSUME NEW r \in 0 .. num_matrix_rows_, ToRow(r)
  PROVE  /\ row' \in 0 .. num_matrix_rows_ /\ column' \in 0 .. alphabet_size
         /\ total_transitions' \in Nat /\ cumulative_transitions' \in Nat
         /\ sums' \in [0 .. num_matrix_columns_ -> Nat]
BY Sizes DEF ToRow

LEMMA ToRowSums ==
  ASSUME NEW r \in 0 .. num_matrix_rows_ - 1, ToRow(r), stage' = "totalling",
         \A q \in 0 .. r - 1 : Cumulative(q)'
  PROVE  SumInv'
<1>1. row' = r /\ column' = 0 /\ total_transitions' = 0 /\ cumulative_transitions' = 0
  BY DEF ToRow
<1>2. sums'[0] = 0
  BY Sizes DEF ToRow
<1>3. Summed(column)'
  BY <1>1, <1>2 DEF Summed
<1>4. RowsCumulative'
  BY DEF RowsCumulative
<1>5. row' < num_matrix_rows_
  BY <1>1, Sizes
<1> QED BY <1>1, <1>2, <1>3, <1>4, <1>5 DEF SumInv

\* When a row is done, it is the next one's turn, or all are done.
LEMMA NextRowKeeps ==
  ASSUME TypeOK, row < num_matrix_rows_, NextRow,
         \A r \in 0 .. row : Cumulative(r)'
  PROVE  /\ SumInv'
         /\ stage' \in {"totalling", "ready"}
         /\ row' \in 0 .. num_matrix_rows_ /\ column' \in 0 .. alphabet_size
         /\ total_transitions' \in Nat /\ cumulative_transitions' \in Nat
         /\ sums' \in [0 .. num_matrix_columns_ -> Nat]
<1>1. row \in Nat
  BY DEF TypeOK
<1>2. CASE row + 1 = num_matrix_rows_
  <2>1. stage' = "ready" /\ UNCHANGED <<row, column, summing>>
    BY <1>2 DEF NextRow
  <2>2. num_matrix_rows_ - 1 = row
    BY <1>1, <1>2
  <2>3. SumInv'
    BY <2>1, <2>2 DEF SumInv, RowsCumulative
  <2> QED BY <2>1, <2>3 DEF TypeOK, summing
<1>3. CASE row + 1 # num_matrix_rows_
  <2>1. stage' = "totalling" /\ ToRow(row + 1)
    BY <1>3 DEF NextRow
  <2>2. row + 1 \in 0 .. num_matrix_rows_ - 1 /\ row + 1 \in 0 .. num_matrix_rows_
          /\ (row + 1) - 1 = row
    BY <1>1, <1>3, Sizes
  <2> QED BY <2>1, <2>2, ToRowSums, ToRowTypes
<1> QED BY <1>2, <1>3

LEMMA AddToTotalKeeps ==
  ASSUME MatrixInv, AddToTotal
  PROVE  SumInv' /\ TypeOK'
<1> DEFINE m == num_matrix_columns_
           index(c) == row * m + c
           total == total_transitions + sampling_matrix[index(column)]
<1>0. m \in Nat /\ m = alphabet_size + 1 /\ alphabet_size \in Nat
  BY Sizes
<1>1. /\ stage = "totalling" /\ row \in 0 .. num_matrix_rows_ - 1 /\ column \in 0 .. alphabet_size
      /\ Summed(column) /\ total_transitions = sums[column] /\ cumulative_transitions = 0
      /\ \A c \in 0 .. column - 1 : sampling_matrix[index(c)] <= total_transitions
      /\ \A r \in 0 .. row - 1 : Cumulative(r)
      /\ total_transitions \in Nat
      /\ sums \in [0 .. m -> Nat]
  BY Sizes DEF MatrixInv, TypeOK, SumInv, AddToTotal
<1>2. \A c \in 0 .. alphabet_size : sampling_matrix[index(c)] \in Nat
  BY <1>1, Offsets DEF MatrixInv, TypeOK
<1>3. /\ total_transitions' = total /\ total \in Nat
      /\ sums' = [sums EXCEPT ![column + 1] = total]
      /\ row' = row /\ cumulative_transitions' = cumulative_transitions
      /\ sampling_matrix' = sampling_matrix /\ transition_matrix' = transition_matrix
      /\ IF column < alphabet_size THEN column' = column + 1 /\ stage' = stage
                                   ELSE column' = 0 /\ stage' = "accumulating" /\ total # 0
  BY <1>1, <1>2 DEF AddToTotal, sampling
<1>4. column + 1 \in 1 .. m /\ column \in 0 .. m
  BY <1>0, <1>1
<1>5. sums'[0] = 0 /\ sums'[column + 1] = total
  BY <1>0, <1>1, <1>3, <1>4 DEF Summed
<1>6. \A c \in 0 .. column : sums'[c + 1] = sums'[c] + sampling_matrix'[row' * m + c]
  <2> TAKE c \in 0 .. column
  <2>1. c \in 0 .. m /\ c + 1 \in 0 .. m /\ c # column + 1
    BY <1>0, <1>1
  <2>2. sums'[c] = sums[c]
    BY <1>1, <1>3, <2>1
  <2>3. CASE c = column
    BY <1>1, <1>3, <1>5, <2>2, <2>3
  <2>4. CASE c # column
    <3>1. c \in 0 .. column - 1 /\ c + 1 # column + 1
      BY <1>1, <2>4
    <3>2. sums'[c + 1] = sums[c + 1]
      BY <1>1, <1>3, <2>1, <3>1
    <3>3. sums[c + 1] = sums[c] + sampling_matrix[index(c)]
      BY <1>1, <3>1 DEF Summed
    <3> QED BY <1>3, <2>2, <3>2, <3>3
  <2> QED BY <2>3, <2>4
<1>7. \A c \in 0 .. column : sampling_matrix'[row' * m + c] <= total_transitions'
  <2> TAKE c \in 0 .. column
  <2>1. c \in 0 .. alphabet_size
    BY <1>0, <1>1
  <2>2. CASE c = column
    BY <1>1, <1>2, <1>3, <2>1, <2>2
  <2>3. CASE c # column
    <3>1. c \in 0 .. column - 1
      BY <1>1, <2>3
    <3>2. sampling_matrix[index(c)] <= total_transitions
      BY <1>1, <3>1
    <3> HIDE DEF index
    <3>3. sampling_matrix[index(c)] <= total_transitions + sampling_matrix[index(column)]
      BY <1>1, <1>2, <2>1, <3>2
    <3> QED BY <1>3, <3>3 DEF index
  <2> QED BY <2>2, <2>3
<1>8. \A r \in 0 .. row' - 1 : Cumulative(r)'
  <2> TAKE r \in 0 .. row' - 1
  <2>1. r \in 0 .. row - 1 /\ r \in 0 .. num_matrix_rows_ - 1
    BY <1>1, <1>3, Sizes
  <2> QED BY <1>1, <1>3, <2>1, CumulativeStays
<1>9. row' < num_matrix_rows_
  BY <1>1, <1>3, Sizes
<1>10. sums' \in [0 .. m -> Nat]
  BY <1>1, <1>3
<1>11. CASE column < alphabet_size
  <2>1. column' = column + 1 /\ stage' = "totalling" /\ column' - 1 = column
    BY <1>1, <1>3, <1>11
  <2>2. Summed(column)'
    BY <1>5, <1>6, <2>1 DEF Summed
  <2>3. SumInv'
    BY <1>1, <1>3, <1>5, <1>7, <1>8, <1>9, <2>1, <2>2 DEF SumInv, RowsCumulative
  <2>4. column' \in 0 .. alphabet_size
    BY <1>0, <1>1, <1>11, <2>1
  <2> QED BY <1>3, <1>10, <2>1, <2>3, <2>4 DEF MatrixInv, TypeOK, AddToTotal, mapping, sampling, search
<1>12. CASE ~(column < alphabet_size)
  <2>1. column' = 0 /\ stage' = "accumulating" /\ total # 0 /\ column = m - 1 /\ column + 1 = m
    BY <1>0, <1>1, <1>3, <1>12
  <2>2. Summed(num_matrix_columns_)'
    BY <1>5, <1>6, <2>1 DEF Summed
  <2>3. SumInv'
    BY <1>1, <1>3, <1>5, <1>8, <1>9, <2>1, <2>2 DEF SumInv, RowsCumulative
  <2>4. column' \in 0 .. alphabet_size
    BY <1>0, <2>1
  <2> QED BY <1>3, <1>10, <2>1, <2>3, <2>4 DEF MatrixInv, TypeOK, AddToTotal, mapping, sampling, search
<1> QED BY <1>11, <1>12

LEMMA ClearRowKeeps ==
  ASSUME MatrixInv, ClearRow
  PROVE  SumInv' /\ TypeOK'
<1> DEFINE m == num_matrix_columns_
           index(c) == row * m + c
<1>0. m \in Nat /\ m = alphabet_size + 1 /\ alphabet_size \in Nat
  BY Sizes
<1>1. /\ row \in 0 .. num_matrix_rows_ - 1 /\ column = alphabet_size
      /\ \A c \in 0 .. column - 1 : sampling_matrix[index(c)] <= total_transitions
      /\ \A r \in 0 .. row - 1 : Cumulative(r)
      /\ total_transitions \in Nat
      /\ total_transitions + sampling_matrix[index(column)] = 0
  BY Sizes DEF MatrixInv, TypeOK, SumInv, ClearRow
<1>2. \A c \in 0 .. alphabet_size : sampling_matrix[index(c)] \in Nat
  BY <1>1, Offsets DEF MatrixInv, TypeOK
<1>3. \A c \in 0 .. alphabet_size : sampling_matrix[index(c)] = 0
  <2> HIDE DEF index
  <2>1. column \in 0 .. alphabet_size
    BY <1>0, <1>1
  <2>2. total_transitions = 0 /\ sampling_matrix[index(column)] = 0
    BY <1>1, <1>2, <2>1
  <2> TAKE c \in 0 .. alphabet_size
  <2>3. c = column \/ c \in 0 .. column - 1
    BY <1>0, <1>1
  <2> QED BY <1>1, <1>2, <2>2, <2>3
<1>4. /\ sampling_matrix' = sampling_matrix
      /\ \A k \in 0 .. matrix_size - 1 :
           transition_matrix'[k] = IF \E c \in 0 .. alphabet_size : k = index(c)
                                     THEN Zero ELSE transition_matrix[k]
      /\ transition_matrix' \in [0 .. matrix_size - 1 -> Fraction]
      /\ NextRow
  BY DEF ClearRow, MatrixInv, TypeOK, Fraction, Zero, sampling
<1>5. \A r \in 0 .. row : r = row => Cumulative(r)'
  <2> SUFFICES ASSUME NEW r \in 0 .. row, r = row PROVE Cumulative(r)'
    OBVIOUS
  <2>1. \A c \in 0 .. alphabet_size : r * m + c = index(c)
    OBVIOUS
  <2>2. \A c \in 0 .. alphabet_size :
          sampling_matrix'[index(c)] = 0 /\ transition_matrix'[index(c)] = Zero
    <3> TAKE c \in 0 .. alphabet_size
    <3>1. index(c) \in 0 .. matrix_size - 1
      BY <1>1, Offsets
    <3> QED BY <1>3, <1>4, <3>1
  <2> QED BY <2>1, <2>2 DEF Cumulative
<1>6. \A r \in 0 .. row - 1 : Cumulative(r)'
  <2> TAKE r \in 0 .. row - 1
  <2>1. r \in 0 .. num_matrix_rows_ - 1 /\ r # row
    BY <1>1, Sizes
  <2>2. \A c \in 0 .. alphabet_size : transition_matrix'[r * m + c] = transition_matrix[r * m + c]
    <3> TAKE c \in 0 .. alphabet_size
    <3>1. r * m + c \in 0 .. matrix_size - 1
      BY <2>1, Offsets
    <3>2. \A d \in 0 .. alphabet_size : r * m + c # index(d)
      BY <1>1, <2>1, Offsets
    <3> QED BY <1>4, <3>1, <3>2
  <2> QED BY <1>1, <1>4, <2>1, <2>2, CumulativeStays
<1>7. \A r \in 0 .. row : Cumulative(r)'
  BY <1>1, <1>5, <1>6
<1>8. TypeOK /\ row < num_matrix_rows_
  BY <1>1, Sizes DEF MatrixInv
<1>9. /\ SumInv' /\ stage' \in {"totalling", "ready"}
      /\ row' \in 0 .. num_matrix_rows_ /\ column' \in 0 .. alphabet_size
      /\ total_transitions' \in Nat /\ cumulative_transitions' \in Nat
      /\ sums' \in [0 .. num_matrix_columns_ -> Nat]
  BY <1>4, <1>7, <1>8, NextRowKeeps
<1> QED BY <1>4, <1>8, <1>9 DEF TypeOK, ClearRow, mapping, sampling, search

LEMMA AccumulateKeeps ==
  ASSUME MatrixInv, Accumulate
  PROVE  SumInv' /\ TypeOK'
<1> DEFINE m == num_matrix_columns_
           index(c) == row * m + c
           cumulative == cumulative_transitions + sampling_matrix[index(column)]
           fraction(c) == [num |-> sums[c + 1], of |-> total_transitions]
<1>0. m \in Nat /\ m = alphabet_size + 1 /\ alphabet_size \in Nat
  BY Sizes
<1>1. /\ stage = "accumulating"
      /\ row \in 0 .. num_matrix_rows_ - 1 /\ column \in 0 .. alphabet_size
      /\ Summed(m) /\ total_transitions = sums[m] /\ total_transitions # 0
      /\ cumulative_transitions = sums[column]
      /\ \A c \in 0 .. column - 1 : transition_matrix[index(c)] = fraction(c)
      /\ \A r \in 0 .. row - 1 : Cumulative(r)
      /\ total_transitions \in Nat
      /\ sums \in [0 .. m -> Nat]
      /\ transition_matrix \in [0 .. matrix_size - 1 -> Fraction]
  BY Sizes DEF MatrixInv, TypeOK, SumInv, Accumulate
<1>2. \A c \in 0 .. alphabet_size :
        /\ index(c) \in 0 .. matrix_size - 1
        /\ sums[c + 1] = sums[c] + sampling_matrix[index(c)]
        /\ sums[c + 1] \in Nat
  <2> TAKE c \in 0 .. alphabet_size
  <2>1. c \in 0 .. m - 1 /\ c + 1 \in 0 .. m
    BY <1>0
  <2> QED BY <1>1, <2>1, Offsets DEF Summed
<1>3. cumulative = sums[column + 1]
  BY <1>1, <1>2
<1>4. /\ transition_matrix' = [transition_matrix EXCEPT ![index(column)] =
                                 [num |-> cumulative, of |-> total_transitions]]
      /\ sampling_matrix' = sampling_matrix
      /\ IF column < alphabet_size
           THEN /\ column' = column + 1 /\ cumulative_transitions' = cumulative
                /\ UNCHANGED <<stage, row, total_transitions, sums>>
           ELSE NextRow
  BY DEF Accumulate, sampling
<1>5. transition_matrix'[index(column)] = fraction(column)
  BY <1>1, <1>2, <1>3, <1>4
<1>6. \A c \in 0 .. column - 1 : transition_matrix'[index(c)] = fraction(c)
  <2> TAKE c \in 0 .. column - 1
  <2>1. c \in 0 .. alphabet_size /\ c # column
    BY <1>0, <1>1
  <2>2. index(c) # index(column)
    BY <1>1, <2>1, Offsets
  <2> QED BY <1>1, <1>2, <1>4, <2>1, <2>2
<1>7. \A r \in 0 .. row - 1 : Cumulative(r)'
  <2> TAKE r \in 0 .. row - 1
  <2>1. r \in 0 .. num_matrix_rows_ - 1 /\ r # row
    BY <1>1, Sizes
  <2>2. \A c \in 0 .. alphabet_size : transition_matrix'[r * m + c] = transition_matrix[r * m + c]
    <3> TAKE c \in 0 .. alphabet_size
    <3>1. r * m + c \in 0 .. matrix_size - 1 /\ r * m + c # index(column)
      BY <1>1, <2>1, Offsets
    <3> QED BY <1>1, <1>4, <3>1
  <2> QED BY <1>1, <1>4, <2>1, <2>2, CumulativeStays
<1>8. transition_matrix' \in [0 .. matrix_size - 1 -> Fraction]
  <2>1. [num |-> cumulative, of |-> total_transitions] \in Fraction
    BY <1>1, <1>2, <1>3 DEF Fraction
  <2> QED BY <1>1, <1>4, <2>1
<1>9. \A c \in 0 .. column : transition_matrix'[index(c)] = fraction(c)
  BY <1>1, <1>5, <1>6
<1>10. CASE column < alphabet_size
  <2>1. /\ column' = column + 1 /\ column' - 1 = column /\ cumulative_transitions' = sums'[column']
        /\ stage' = "accumulating" /\ row' = row /\ total_transitions' = total_transitions
        /\ sums' = sums
    BY <1>1, <1>3, <1>4, <1>10
  <2>2. Summed(m)'
    BY <1>1, <1>4, <2>1 DEF Summed
  <2>3. row' < num_matrix_rows_
    BY <1>1, <2>1, Sizes
  <2>4. \A c \in 0 .. column' - 1 :
          transition_matrix'[row' * m + c] = [num |-> sums'[c + 1], of |-> total_transitions']
    BY <1>9, <2>1
  <2>5. SumInv'
    BY <1>1, <1>7, <2>1, <2>2, <2>3, <2>4 DEF SumInv, RowsCumulative
  <2>6. column' \in 0 .. alphabet_size /\ cumulative_transitions' \in Nat
    <3>1. cumulative_transitions' = sums[column + 1]
      BY <1>3, <1>4, <1>10
    <3> QED BY <1>0, <1>1, <1>2, <1>10, <2>1, <3>1
  <2> QED BY <1>8, <2>1, <2>5, <2>6 DEF MatrixInv, TypeOK, Accumulate, mapping, sampling, search
<1>11. CASE ~(column < alphabet_size)
  <2>1. column = alphabet_size /\ NextRow
    BY <1>0, <1>1, <1>4, <1>11
  <2>2. \A r \in 0 .. row : r = row => Cumulative(r)'
    <3> SUFFICES ASSUME NEW r \in 0 .. row, r = row PROVE Cumulative(r)'
      OBVIOUS
    <3>1. \A c \in 0 .. alphabet_size :
             /\ transition_matrix'[index(c)].num = sampling_matrix'[index(c)] +
                    (IF c = 0 THEN 0 ELSE transition_matrix'[index(c - 1)].num)
             /\ transition_matrix'[index(c)].of = transition_matrix'[index(alphabet_size)].num
      <4> TAKE c \in 0 .. alphabet_size
      <4>1. /\ transition_matrix'[index(c)] = fraction(c)
            /\ transition_matrix'[index(alphabet_size)] = fraction(alphabet_size)
        BY <1>0, <1>9, <2>1
      <4>2. transition_matrix'[index(c)].of = transition_matrix'[index(alphabet_size)].num
        BY <1>0, <1>1, <4>1
      <4>3. sampling_matrix[index(c)] \in Nat
        BY <1>2 DEF MatrixInv, TypeOK
      <4>4. CASE c = 0
        <5>1. sums[0] = 0
          BY <1>1 DEF Summed
        <5>2. sums[c + 1] = sampling_matrix[index(c)] + 0
          <6>1. sums[c + 1] = sums[c] + sampling_matrix[index(c)]
            BY <1>2
          <6> QED BY <4>3, <4>4, <5>1, <6>1
        <5> QED BY <1>4, <4>1, <4>2, <4>4, <5>2
      <4>5. CASE c # 0
        <5>1. c - 1 \in 0 .. column /\ c - 1 + 1 = c
          BY <1>0, <2>1, <4>5
        <5>2. transition_matrix'[index(c - 1)].num = sums[c]
          <6>1. transition_matrix'[index(c - 1)] = fraction(c - 1)
            BY <1>9, <5>1
          <6>2. fraction(c - 1).num = sums[c]
            BY <5>1
          <6> QED BY <6>1, <6>2
        <5>3. sums[c] \in Nat
          BY <1>0, <1>1
        <5>4. sums[c + 1] = sampling_matrix[index(c)] + sums[c]
          <6>1. sums[c + 1] = sums[c] + sampling_matrix[index(c)]
            BY <1>2
          <6> QED BY <4>3, <5>3, <6>1
        <5> QED BY <1>4, <4>1, <4>2, <4>5, <5>2, <5>4
      <4> QED BY <4>4, <4>5
    <3>2. index(0) = r * m + 0 /\ \A c \in -1 .. alphabet_size : index(c) = r * m + c
      OBVIOUS
    <3> QED BY <3>1, <3>2 DEF Cumulative
  <2>3. \A r \in 0 .. row : Cumulative(r)'
    BY <1>1, <1>7, <2>2
  <2>4. TypeOK /\ row < num_matrix_rows_
    BY <1>1, Sizes DEF MatrixInv
  <2>5. /\ SumInv' /\ stage' \in {"totalling", "ready"}
        /\ row' \in 0 .. num_matrix_rows_ /\ column' \in 0 .. alphabet_size
        /\ total_transitions' \in Nat /\ cumulative_transitions' \in Nat
        /\ sums' \in [0 .. num_matrix_columns_ -> Nat]
    BY <2>1, <2>3, <2>4, NextRowKeeps
  <2> QED BY <1>8, <2>4, <2>5 DEF TypeOK, Accumulate, mapping, sampling, search
<1> QED BY <1>10, <1>11

-----------------------------------------------------------------------------
(* The inductive invariant.                                                *)

LEMMA MapStays ==
  ASSUME MapInv, stage # "mapping", stage' # "mapping", row_index_map' = row_index_map
  PROVE  MapInv'
BY DEF MapInv, RowsNumbered

\* Once the rows are numbered, the element of a row and a column is in the matrix.
LEMMA IndexInRange ==
  ASSUME MapInv, stage # "mapping", NEW r \in Rows, NEW c \in 0 .. alphabet_size
  PROVE  /\ row_index_map[r] \in 0 .. num_matrix_rows_ - 1
         /\ MatrixIndex(r, c) \in 0 .. matrix_size - 1
BY Offsets DEF MapInv, RowsNumbered, MatrixIndex

LEMMA CountKeeps ==
  ASSUME MatrixInv, NEW chars \in Chars, NEW c \in 0 .. alphabet_size, Count(chars, c)
  PROVE  MatrixInv'
<1>1. stage = "counting" /\ stage' = "counting" /\ chars \in Rows
  BY DEF Count, MatrixInv, MapInv, RowsNumbered
<1>2. MapInv'
  BY <1>1, MapStays DEF MatrixInv, Count, mapping
<1>3. SumInv'
  BY <1>1 DEF SumInv, RowsCumulative
<1>4. SearchInv'
  BY <1>1 DEF SearchInv, MatrixInv, Count, search
<1>5. MatrixIndex(chars, c) \in 0 .. matrix_size - 1
  BY <1>1, IndexInRange DEF MatrixInv
<1>6. sampling_matrix' \in [0 .. matrix_size - 1 -> Nat] /\ counted' \in Nat
  BY <1>5 DEF MatrixInv, TypeOK, Count
<1> QED BY <1>1, <1>2, <1>3, <1>4, <1>6 DEF MatrixInv, TypeOK, Count, mapping, summing, search

\* A step that leaves the matrices alone leaves them cumulative.
LEMMA CumulativeUnchanged ==
  ASSUME RowsCumulative, stage \in {"ready", "searching"},
         UNCHANGED <<sampling_matrix, transition_matrix>>
  PROVE  RowsCumulative'
<1> SUFFICES ASSUME NEW r \in 0 .. num_matrix_rows_ - 1
             PROVE  Cumulative(r)'
  BY DEF RowsCumulative
<1>1. Cumulative(r)
  BY DEF RowsCumulative
<1> QED BY <1>1, CumulativeStays

LEMMA MatrixInvInit ==
  ASSUME Init
  PROVE  MatrixInv
<1>1. TypeOK
  <2>1. Zero \in Fraction
    BY DEF Zero, Fraction
  <2>2. <<Start, Start>> \in Chars
    BY DEF Chars
  <2> QED BY <2>1, <2>2, Sizes DEF Init, TypeOK
<1>2. IndexInv
  BY Sizes DEF Init, IndexInv
<1>3. MapInv
  <2>1. DOMAIN row_index_map = {}
    BY DEF Init
  <2>2. {r \in Rows : RowNumber(r) < row} = {}
    <3> SUFFICES ASSUME NEW r \in Rows PROVE ~(RowNumber(r) < row)
      OBVIOUS
    <3> QED BY NumberInRange, Sizes DEF Init
  <2>3. 0 .. row - 1 = {}
    BY DEF Init
  <2> QED BY <1>2, <2>1, <2>2, <2>3 DEF MapInv, RowsNumbered, Init
<1>4. SumInv /\ SearchInv
  BY DEF Init, SumInv, SearchInv, RowsCumulative
<1> QED BY <1>1, <1>3, <1>4 DEF MatrixInv

LEMMA MatrixInvStep ==
  ASSUME MatrixInv, [Next]_vars
  PROVE  MatrixInv'
<1> USE DEF MatrixInv
<1>1. CASE MapRow
  <2>1. TypeOK' /\ MapInv'
    BY <1>1, MapRowKeepsType, MapRowKeepsMap
  <2>2. SumInv' /\ SearchInv'
    BY <1>1 DEF MapRow, SumInv, SearchInv, RowsCumulative, search
  <2> QED BY <2>1, <2>2
<1>2. CASE \E chars \in Chars, c \in 0 .. alphabet_size : Count(chars, c)
  BY <1>2, CountKeeps
<1>3. ASSUME NEW chars \in Chars, CountOutside(chars)
      PROVE  MatrixInv'
  <2>1. stage = "counting" /\ stage' = "undefined" /\ UNCHANGED <<row_index_map, search>>
    BY <1>3 DEF CountOutside, mapping
  <2>2. MapInv'
    BY <2>1, MapStays
  <2>3. SumInv' /\ SearchInv'
    BY <2>1 DEF SumInv, SearchInv, RowsCumulative
  <2> QED BY <1>3, <2>1, <2>2, <2>3 DEF TypeOK, CountOutside, mapping, sampling, summing, search
<1>4. CASE BeginPreparing
  <2>1. /\ stage = "counting" /\ stage' = "totalling" /\ ToRow(0)
        /\ UNCHANGED <<row_index_map, search>>
    BY <1>4 DEF BeginPreparing, mapping
  <2>2. MapInv'
    BY <2>1, MapStays
  <2>3. SumInv'
    <3>1. 0 \in 0 .. num_matrix_rows_ - 1 /\ 0 .. 0 - 1 = {}
      BY Sizes
    <3> QED BY <2>1, <3>1, ToRowSums
  <2>4. SearchInv'
    BY <2>1 DEF SearchInv, search
  <2>5. 0 \in 0 .. num_matrix_rows_
    BY Sizes
  <2> QED BY <1>4, <2>1, <2>2, <2>3, <2>4, <2>5, ToRowTypes
          DEF TypeOK, BeginPreparing, mapping, sampling, search
<1>5. CASE AddToTotal
  <2>1. /\ stage = "totalling" /\ stage' \in {"totalling", "accumulating"}
        /\ UNCHANGED <<row_index_map, search>>
    BY <1>5 DEF AddToTotal, mapping
  <2>2. MapInv'
    BY <2>1, MapStays
  <2>3. SearchInv'
    BY <2>1 DEF SearchInv, search
  <2> QED BY <1>5, <2>2, <2>3, AddToTotalKeeps
<1>6. CASE ClearRow
  <2>1. stage = "totalling" /\ stage' \in {"totalling", "ready"} /\ UNCHANGED <<row_index_map, search>>
    BY <1>6 DEF ClearRow, NextRow, mapping
  <2>2. MapInv'
    BY <2>1, MapStays
  <2>3. SearchInv'
    BY <2>1 DEF SearchInv, search
  <2> QED BY <1>6, <2>2, <2>3, ClearRowKeeps
<1>7. CASE Accumulate
  <2>1. /\ stage = "accumulating" /\ stage' \in {"totalling", "accumulating", "ready"}
        /\ UNCHANGED <<row_index_map, search>>
    BY <1>7 DEF Accumulate, NextRow, mapping
  <2>2. MapInv'
    BY <2>1, MapStays
  <2>3. SearchInv'
    BY <2>1 DEF SearchInv, search
  <2> QED BY <1>7, <2>2, <2>3, AccumulateKeeps
<1>8. ASSUME NEW chars \in Chars, NEW k \in 0 .. Resolution - 1, BeginSearch(chars, k)
      PROVE  MatrixInv'
  <2>1. /\ stage = "ready" /\ stage' = "searching" /\ chars \in Rows
        /\ chars_' = chars /\ p' = k /\ column' = 0
        /\ UNCHANGED <<row_index_map, sampling_matrix, transition_matrix>>
    BY <1>8 DEF BeginSearch, mapping, sampling, MapInv, RowsNumbered
  <2>2. MapInv'
    BY <2>1, MapStays
  <2>3. SumInv'
    BY <2>1, CumulativeUnchanged DEF SumInv
  <2>4. SearchInv'
    <3>1. k < Resolution
      BY MatrixAssumption
    <3> QED BY <2>1, <3>1 DEF SearchInv
  <2>5. column' \in 0 .. alphabet_size /\ k \in Nat
    BY <2>1, Sizes, MatrixAssumption
  <2> QED BY <1>8, <2>1, <2>2, <2>3, <2>4, <2>5 DEF TypeOK, BeginSearch, mapping, sampling, summing
<1>9. ASSUME NEW chars \in Chars, SearchOutside(chars)
      PROVE  MatrixInv'
  <2>1. stage = "ready" /\ stage' = "undefined" /\ row_index_map' = row_index_map
    BY <1>9 DEF SearchOutside, mapping
  <2>2. MapInv'
    BY <2>1, MapStays
  <2>3. SumInv' /\ SearchInv'
    BY <2>1 DEF SumInv, SearchInv, RowsCumulative
  <2> QED BY <1>9, <2>1, <2>2, <2>3 DEF TypeOK, SearchOutside, mapping, sampling, summing, search
<1>10. CASE Advance
  <2>1. /\ stage = "searching" /\ stage' = "searching" /\ column' = column + 1
        /\ column < alphabet_size /\ Greater(Element)
        /\ UNCHANGED <<row_index_map, sampling_matrix, transition_matrix, chars_, p>>
    BY <1>10 DEF Advance, mapping, sampling, search
  <2>2. MapInv'
    BY <2>1, MapStays
  <2>3. SumInv'
    BY <2>1, CumulativeUnchanged DEF SumInv
  <2>4. column \in 0 .. alphabet_size
    BY DEF TypeOK
  <2>5. column' - 1 = column /\ column' \in 0 .. alphabet_size
    BY <2>1, <2>4, Sizes
  <2>6. SearchInv'
    <3>1. Greater(transition_matrix[MatrixIndex(chars_, column - 1)])'
      BY <2>1, <2>5 DEF Greater, Element, MatrixIndex
    <3> QED BY <2>1, <3>1 DEF SearchInv
  <2> QED BY <1>10, <2>1, <2>2, <2>3, <2>5, <2>6 DEF TypeOK, Advance, mapping, sampling, summing, search
<1>11. CASE RunOff
  <2>1. stage = "searching" /\ stage' = "undefined" /\ row_index_map' = row_index_map
    BY <1>11 DEF RunOff, mapping
  <2>2. MapInv'
    BY <2>1, MapStays
  <2>3. SumInv' /\ SearchInv'
    BY <2>1 DEF SumInv, SearchInv, RowsCumulative
  <2> QED BY <1>11, <2>1, <2>2, <2>3 DEF TypeOK, RunOff, mapping, sampling, summing, search
<1>12. CASE Found
  <2>1. /\ stage = "searching" /\ stage' = "ready" /\ chars_' = None /\ p' = 0
        /\ drawn' = ColumnChar(column)
        /\ UNCHANGED <<row_index_map, sampling_matrix, transition_matrix>>
    BY <1>12 DEF Found, mapping, sampling
  <2>2. MapInv'
    BY <2>1, MapStays
  <2>3. SumInv'
    BY <2>1, CumulativeUnchanged DEF SumInv
  <2>4. SearchInv'
    BY <2>1 DEF SearchInv
  <2>5. drawn' \in Columns
    BY <2>1, ColumnFacts DEF TypeOK
  <2> QED BY <1>12, <2>1, <2>2, <2>3, <2>4, <2>5 DEF TypeOK, Found, mapping, sampling, summing
<1>13. CASE UNCHANGED vars
  <2>1. \A r \in 0 .. num_matrix_rows_ - 1 : Cumulative(r) => Cumulative(r)'
    BY <1>13, CumulativeStays DEF vars, sampling
  <2>2. RowsCumulative'
    BY <1>13, <2>1 DEF RowsCumulative, SumInv, vars
  <2>3. stage \in {"totalling", "accumulating"} => \A r \in 0 .. row - 1 : Cumulative(r)'
    <3> SUFFICES ASSUME stage \in {"totalling", "accumulating"}, NEW r \in 0 .. row - 1
                 PROVE  Cumulative(r)'
      OBVIOUS
    <3>1. r \in 0 .. num_matrix_rows_ - 1
      BY Sizes DEF SumInv, TypeOK
    <3> QED BY <2>1, <3>1 DEF SumInv
  <2>4. SumInv'
    BY <1>13, <2>2, <2>3 DEF SumInv, Summed, vars, summing, sampling
  <2>5. MapInv'
    BY <1>13 DEF MapInv, RowsNumbered, IndexInv, vars, mapping, sampling
  <2>6. SearchInv'
    BY <1>13 DEF SearchInv, Greater, MatrixIndex, vars, search, mapping
  <2> QED BY <1>13, <2>4, <2>5, <2>6 DEF TypeOK, vars, mapping, sampling, summing, search
<1> QED BY <1>1, <1>2, <1>3, <1>4, <1>5, <1>6, <1>7, <1>8, <1>9, <1>10, <1>11, <1>12, <1>13
        DEF Next

THEOREM MatrixInvHolds == Spec => []MatrixInv
BY MatrixInvInit, MatrixInvStep, PTL DEF Spec

\* Types: no loop leaves its bounds and no number its vector.
THEOREM MatrixTypeCorrect == Spec => []TypeOK
BY MatrixInvHolds, PTL DEF MatrixInv

\* The constructor numbers the rows, for every alphabet (pseudoword_generator.cpp
\* 264-308).
THEOREM RowsAlwaysNumbered == Spec => []RowsNumbered
BY MatrixInvHolds, PTL DEF MatrixInv, MapInv

\* prepare_for_generation leaves the cumulative distribution of the counts in each
\* row (pseudoword_generator.cpp 124-156).
THEOREM RowsAlwaysCumulative == Spec => []RowsCumulative
BY MatrixInvHolds, PTL DEF MatrixInv, SumInv

-----------------------------------------------------------------------------
(* The refinement of Transitions.                                          *)

\* The pairs that the sampling matrix stands for.
Seen == IF stage = "mapping" THEN {}
        ELSE {pair \in Rows \X Columns :
                sampling_matrix[MatrixIndex(pair[1], ColumnNumber(pair[2]))] # 0}

Stage == CASE stage \in {"ready", "searching"} -> "ready"
           [] stage = "undefined" -> "undefined"
           [] OTHER -> "counting"

Asked == IF chars_ = None THEN None ELSE [row |-> chars_, zero |-> p = 0]

LEMMA SeenIff ==
  ASSUME stage # "mapping", NEW r \in Rows, NEW c \in 0 .. alphabet_size
  PROVE  <<r, ColumnChar(c)>> \in Seen <=> sampling_matrix[MatrixIndex(r, c)] # 0
BY ColumnFacts DEF Seen

\* What a search is for is a question.
LEMMA AskedIff ==
  ASSUME TypeOK
  PROVE  /\ chars_ = None => Asked = None
         /\ chars_ # None => /\ Asked # None /\ Asked.row = chars_ /\ Asked.zero = (p = 0)
                             /\ Asked = [row |-> chars_, zero |-> p = 0]
<1>1. chars_ # None => [row |-> chars_, zero |-> p = 0] \in [row : Chars, zero : BOOLEAN]
  BY DEF TypeOK
<1>2. None \notin [row : Chars, zero : BOOLEAN]
  BY MatrixAssumption
<1> QED BY <1>1, <1>2 DEF Asked

LEMMA SeenStays ==
  ASSUME stage # "mapping", stage' # "mapping", UNCHANGED <<row_index_map, sampling_matrix>>
  PROVE  Seen' = Seen
BY DEF Seen, MatrixIndex

LEMMA CountAdds ==
  ASSUME MatrixInv, NEW chars \in Chars, NEW c \in 0 .. alphabet_size, Count(chars, c)
  PROVE  chars \in Rows /\ Seen' = Seen \cup {<<chars, ColumnChar(c)>>}
<1>1. /\ stage = "counting" /\ stage' = "counting" /\ chars \in Rows /\ row_index_map' = row_index_map
      /\ sampling_matrix' = [sampling_matrix EXCEPT ![MatrixIndex(chars, c)] = @ + 1]
  BY DEF Count, MatrixInv, MapInv, RowsNumbered, mapping
<1>2. MatrixIndex(chars, c) \in 0 .. matrix_size - 1
  BY <1>1, IndexInRange DEF MatrixInv
<1>3. ASSUME NEW pair \in Rows \X Columns
      PROVE  pair \in Seen' <=> pair \in Seen \/ pair = <<chars, ColumnChar(c)>>
  <2> DEFINE r == pair[1]
             d == ColumnNumber(pair[2])
  <2>1. r \in Rows /\ d \in 0 .. alphabet_size /\ pair = <<r, ColumnChar(d)>>
    BY ColumnFacts
  <2> HIDE DEF r, d
  <2>2. MatrixIndex(r, d) \in 0 .. matrix_size - 1 /\ MatrixIndex(r, d)' = MatrixIndex(r, d)
    BY <1>1, <2>1, IndexInRange DEF MatrixInv, MatrixIndex
  <2>3. pair \in Seen <=> sampling_matrix[MatrixIndex(r, d)] # 0
    BY <1>1, <2>1, SeenIff
  <2>4. pair \in Seen' <=> sampling_matrix'[MatrixIndex(r, d)] # 0
    <3>1. d = ColumnNumber(pair[2]) /\ r = pair[1]
      BY DEF r, d
    <3> QED BY <1>1, <2>2, <3>1 DEF Seen, MatrixIndex
  <2>5. sampling_matrix[MatrixIndex(r, d)] \in Nat
    BY <2>2 DEF MatrixInv, TypeOK
  <2>6. CASE r = chars /\ d = c
    <3>1. sampling_matrix'[MatrixIndex(r, d)] = sampling_matrix[MatrixIndex(r, d)] + 1
      BY <1>1, <2>2, <2>6 DEF MatrixInv, TypeOK
    <3>2. sampling_matrix[MatrixIndex(r, d)] + 1 # 0
      BY <2>5
    <3> QED BY <2>1, <2>4, <2>6, <3>1, <3>2
  <2>7. CASE ~(r = chars /\ d = c)
    <3>1. MatrixIndex(r, d) # MatrixIndex(chars, c)
      <4> SUFFICES ASSUME MatrixIndex(r, d) = MatrixIndex(chars, c) PROVE FALSE
        OBVIOUS
      <4>1. row_index_map[r] = row_index_map[chars] /\ d = c
        <5>1. /\ row_index_map[r] \in 0 .. num_matrix_rows_ - 1
              /\ row_index_map[chars] \in 0 .. num_matrix_rows_ - 1
          BY <1>1, <2>1, IndexInRange DEF MatrixInv
        <5> QED BY <2>1, <5>1, Offsets DEF MatrixIndex
      <4>2. r = chars
        BY <1>1, <2>1, <4>1 DEF MatrixInv, MapInv, RowsNumbered
      <4> QED BY <2>7, <4>1, <4>2
    <3>2. sampling_matrix'[MatrixIndex(r, d)] = sampling_matrix[MatrixIndex(r, d)]
      BY <1>1, <2>2, <3>1 DEF MatrixInv, TypeOK
    <3>3. pair # <<chars, ColumnChar(c)>>
      <4> SUFFICES ASSUME pair = <<chars, ColumnChar(c)>> PROVE FALSE
        OBVIOUS
      <4>1. r = chars /\ ColumnChar(d) = ColumnChar(c)
        BY <2>1
      <4>2. d = c
        BY <2>1, <4>1, ColumnFacts
      <4> QED BY <2>7, <4>1, <4>2
    <3> QED BY <2>3, <2>4, <3>2, <3>3
  <2> QED BY <2>6, <2>7
<1>4. <<chars, ColumnChar(c)>> \in Rows \X Columns
  BY <1>1, ColumnFacts
<1>5. Seen \subseteq Rows \X Columns /\ Seen' \subseteq Rows \X Columns
  BY DEF Seen
<1> QED BY <1>1, <1>3, <1>4, <1>5

\* When the search ends in a row, the column was seen, unless the number is 0.
LEMMA FoundWasSeen ==
  ASSUME MatrixInv, Found
  PROVE  /\ p = 0 => ColumnChar(column) = alphabet_[1]
         /\ p # 0 => <<chars_, ColumnChar(column)>> \in Seen
<1> DEFINE r == row_index_map[chars_]
           index(c) == r * num_matrix_columns_ + c
           element(c) == transition_matrix[index(c)]
<1>1. /\ stage = "searching" /\ chars_ \in Rows /\ column \in 0 .. alphabet_size /\ p \in Nat
      /\ p < Resolution /\ ~Greater(element(column))
      /\ column > 0 => Greater(element(column - 1))
  BY DEF MatrixInv, TypeOK, SearchInv, Found, Element, MatrixIndex
<1>2. r \in 0 .. num_matrix_rows_ - 1 /\ Cumulative(r)
  BY <1>1, IndexInRange DEF MatrixInv, SumInv, RowsCumulative
<1>3. \A c \in 0 .. alphabet_size :
        sampling_matrix[index(c)] \in Nat /\ element(c).num \in Nat /\ element(c).of \in Nat \ {0}
  BY <1>2, Offsets DEF MatrixInv, TypeOK, Fraction
<1>4. Resolution \in Nat
  BY MatrixAssumption
<1>5. column > 0 => column - 1 \in 0 .. alphabet_size
  BY <1>1, Sizes
<1>6. <<chars_, ColumnChar(column)>> \in Seen <=> sampling_matrix[index(column)] # 0
  BY <1>1, SeenIff DEF MatrixIndex
<1>7. column > 0 => p # 0
  <2> SUFFICES ASSUME column > 0, p = 0 PROVE FALSE
    OBVIOUS
  <2> DEFINE e == element(column - 1)
  <2>1. 0 * e.of > e.num * Resolution /\ e.num \in Nat /\ e.of \in Nat
    BY <1>1, <1>3, <1>5 DEF Greater
  <2> HIDE DEF e
  <2>2. 0 * e.of = 0 /\ e.num * Resolution \in Nat
    BY <1>4, <2>1, ProductNat
  <2> QED BY <2>1, <2>2
<1>8. p = 0 => ColumnChar(column) = alphabet_[1]
  <2>1. p = 0 => column = 0
    BY <1>1, <1>7
  <2> QED BY <2>1, Sizes DEF ColumnChar
<1>9. ASSUME p # 0 PROVE sampling_matrix[index(column)] # 0
  <2> SUFFICES ASSUME sampling_matrix[index(column)] = 0 PROVE FALSE
    OBVIOUS
  <2> DEFINE e == element(column)
  <2>1. ~(p * e.of > e.num * Resolution) /\ e.num \in Nat /\ e.of \in Nat \ {0}
    BY <1>1, <1>3 DEF Greater
  <2>2. p * e.of > 0
    <3> HIDE DEF e
    <3>1. e.of \in Nat /\ e.of > 0 /\ 0 < p
      BY <1>1, <1>9, <2>1
    <3>2. 0 * e.of + e.of <= p * e.of
      BY <1>1, <3>1, RowsFollow
    <3>3. 0 * e.of = 0 /\ p * e.of \in Nat
      BY <1>1, <3>1, ProductNat
    <3> QED BY <3>1, <3>2, <3>3
  <2>3. e.num # 0
    <3> HIDE DEF e
    <3>1. e.num = 0 => e.num * Resolution = 0
      BY <1>4
    <3>2. p * e.of \in Nat
      BY <1>1, <2>1, ProductNat
    <3> QED BY <2>1, <2>2, <3>1, <3>2
  <2>4. CASE \A c \in 0 .. alphabet_size : sampling_matrix[index(c)] = 0 /\ element(c) = Zero
    BY <1>1, <2>3, <2>4 DEF Zero
  <2>5. CASE \A c \in 0 .. alphabet_size :
              /\ element(c).num = sampling_matrix[index(c)] +
                                    (IF c = 0 THEN 0 ELSE element(c - 1).num)
              /\ element(c).of = element(alphabet_size).num
    <3>1. CASE column = 0
      <4>1. element(column).num = 0 + 0
        BY <1>1, <2>5, <3>1
      <4> QED BY <2>3, <4>1
    <3>2. CASE column # 0
      <4> DEFINE d == element(column - 1)
      <4>1. column > 0 /\ column - 1 \in 0 .. alphabet_size
        BY <1>1, <1>5, <3>2
      <4>2. d.num \in Nat
        BY <1>3, <4>1
      <4>3. e.num = d.num
        <5>1. e.num = 0 + d.num
          BY <1>1, <2>5, <3>2
        <5> HIDE DEF d, e
        <5> QED BY <4>2, <5>1
      <4>4. e.of = d.of
        BY <1>1, <2>5, <4>1
      <4>5. p * d.of > d.num * Resolution
        BY <1>1, <4>1 DEF Greater
      <4> HIDE DEF d, e
      <4> QED BY <2>1, <4>3, <4>4, <4>5
    <3> QED BY <3>1, <3>2
  <2> QED BY <1>2, <2>4, <2>5 DEF Cumulative
<1> QED BY <1>6, <1>8, <1>9

\* The search leaves a row only if nothing was seen in it.
LEMMA RunOffSawNothing ==
  ASSUME MatrixInv, RunOff
  PROVE  p # 0 /\ \A c \in 0 .. alphabet_size : <<chars_, ColumnChar(c)>> \notin Seen
<1> DEFINE r == row_index_map[chars_]
           index(c) == r * num_matrix_columns_ + c
           element(c) == transition_matrix[index(c)]
           e == element(alphabet_size)
<1>0. alphabet_size \in 0 .. alphabet_size
  BY Sizes
<1>1. /\ stage = "searching" /\ chars_ \in Rows /\ p \in Nat /\ p < Resolution
      /\ column = alphabet_size /\ Greater(e)
  BY DEF MatrixInv, TypeOK, SearchInv, RunOff, Element, MatrixIndex
<1>2. r \in 0 .. num_matrix_rows_ - 1 /\ Cumulative(r)
  BY <1>0, <1>1, IndexInRange DEF MatrixInv, SumInv, RowsCumulative
<1>3. e.num \in Nat /\ e.of \in Nat \ {0} /\ p * e.of > e.num * Resolution /\ Resolution \in Nat
  <2>1. index(alphabet_size) \in 0 .. matrix_size - 1
    BY <1>0, <1>2, Offsets
  <2> QED BY <1>1, <2>1, MatrixAssumption DEF MatrixInv, TypeOK, Fraction, Greater
<1>4. p # 0
  <2> HIDE DEF e
  <2>1. 0 * e.of = 0 /\ e.num * Resolution \in Nat
    BY <1>3, ProductNat
  <2> QED BY <1>1, <1>3, <2>1
<1>5. e.of # e.num
  <2> SUFFICES ASSUME e.of = e.num PROVE FALSE
    OBVIOUS
  <2> HIDE DEF e
  <2> DEFINE n == e.num
             x == p * n
             y == Resolution * n
  <2>1. x + n <= y /\ x \in Nat /\ y \in Nat /\ n \in Nat /\ n * Resolution = y
    BY <1>1, <1>3, RowsFollow, ProductNat
  <2>2. x > n * Resolution
    BY <1>3
  <2> HIDE DEF n, x, y
  <2> QED BY <2>1, <2>2
<1>6. \A c \in 0 .. alphabet_size : sampling_matrix[index(c)] = 0
  BY <1>0, <1>2, <1>5 DEF Cumulative
<1> QED BY <1>1, <1>4, <1>6, SeenIff DEF MatrixIndex

LEMMA PairsInit ==
  ASSUME Init
  PROVE  Pairs!Init
BY DEF Init, Pairs!Init

LEMMA PairsStep ==
  ASSUME MatrixInv, MatrixInv', [Next]_vars
  PROVE  [Pairs!Next]_(Pairs!vars)
<1> USE DEF Pairs!vars
<1>0. /\ TypeOK /\ TypeOK'
      /\ stage \notin {"searching", "undefined"} => chars_ = None
      /\ stage = "searching" => chars_ \in Rows /\ chars_ # None
  <2>1. \A r \in Rows : r # None
    BY RowKinds, MatrixAssumption
  <2> QED BY <2>1 DEF MatrixInv, SearchInv
<1>1. CASE MapRow
  <2>1. /\ stage = "mapping" /\ UNCHANGED <<sampling_matrix, chars_, p, drawn>>
        /\ stage' \in {"mapping", "counting"}
    BY <1>1 DEF MapRow, sampling, search
  <2>2. Seen' = {}
    <3>1. CASE stage' = "mapping"
      BY <3>1 DEF Seen
    <3>2. CASE stage' = "counting"
      <4> SUFFICES ASSUME NEW pair \in Rows \X Columns
                   PROVE  sampling_matrix'[MatrixIndex(pair[1], ColumnNumber(pair[2]))'] = 0
        BY <3>2 DEF Seen, MatrixIndex
      <4>1. pair[1] \in Rows /\ ColumnNumber(pair[2]) \in 0 .. alphabet_size
        BY ColumnFacts
      <4>2. row_index_map'[pair[1]] \in 0 .. num_matrix_rows_ - 1
        BY <3>2, <4>1 DEF MatrixInv, MapInv, RowsNumbered
      <4>3. row_index_map'[pair[1]] * num_matrix_columns_ + ColumnNumber(pair[2])
              \in 0 .. matrix_size - 1
        BY <4>1, <4>2, Offsets
      <4>4. sampling_matrix'[row_index_map'[pair[1]] * num_matrix_columns_
                               + ColumnNumber(pair[2])] = 0
        BY <2>1, <4>3 DEF MatrixInv, MapInv, IndexInv
      <4> QED BY <4>4 DEF MatrixIndex
    <3> QED BY <2>1, <3>1, <3>2
  <2>3. Seen = {}
    BY <2>1 DEF Seen
  <2>4. Stage = "counting" /\ Stage' = "counting"
    BY <2>1 DEF Stage
  <2>5. Asked' = Asked
    BY <2>1 DEF Asked
  <2> QED BY <2>1, <2>2, <2>3, <2>4, <2>5 DEF Seen, Stage, Asked
<1>2. ASSUME NEW chars \in Chars, NEW c \in 0 .. alphabet_size, Count(chars, c)
      PROVE  Pairs!Next
  <2>1. stage = "counting" /\ stage' = "counting" /\ UNCHANGED <<chars_, p, drawn>>
    BY <1>2 DEF Count, search
  <2>2. chars \in Rows /\ ColumnChar(c) \in Columns /\ Seen' = Seen \cup {<<chars, ColumnChar(c)>>}
    BY <1>2, CountAdds, ColumnFacts
  <2>3. Stage = "counting" /\ Stage' = "counting" /\ Asked' = Asked
    BY <2>1 DEF Stage, Asked
  <2>4. Pairs!Count(chars, ColumnChar(c))
    BY <2>1, <2>2, <2>3 DEF Pairs!Count, Seen, Stage, Asked
  <2> QED BY <2>2, <2>4 DEF Pairs!Next
<1>3. ASSUME NEW chars \in Chars, CountOutside(chars) \/ SearchOutside(chars)
      PROVE  Pairs!Next
  <2>1. /\ stage \in {"counting", "ready"} /\ stage' = "undefined"
        /\ UNCHANGED <<chars_, p, drawn, row_index_map, sampling_matrix>>
    BY <1>3 DEF CountOutside, SearchOutside, search, mapping, sampling
  <2>2. Seen' = Seen
    BY <2>1, SeenStays
  <2>3. Stage # "undefined" /\ Stage' = "undefined" /\ Asked = None /\ Asked' = None
    BY <1>0, <2>1 DEF Stage, Asked
  <2>4. Pairs!Leave
    BY <2>1, <2>2, <2>3 DEF Pairs!Leave, Seen, Stage, Asked
  <2> QED BY <2>4 DEF Pairs!Next
<1>4. CASE BeginPreparing \/ AddToTotal \/ ClearRow \/ Accumulate
  <2>1. /\ stage \in {"counting", "totalling", "accumulating"}
        /\ stage' \in {"totalling", "accumulating", "ready"}
        /\ UNCHANGED <<chars_, p, drawn, row_index_map, sampling_matrix>>
    BY <1>4 DEF BeginPreparing, AddToTotal, ClearRow, Accumulate, NextRow, search, mapping, sampling
  <2>2. Seen' = Seen
    BY <2>1, SeenStays
  <2>3. Stage = "counting" /\ Stage' \in {"counting", "ready"} /\ Asked' = Asked
    BY <2>1 DEF Stage, Asked
  <2>4. CASE Stage' = "ready"
    <3>1. Pairs!Prepare
      BY <2>1, <2>2, <2>3, <2>4 DEF Pairs!Prepare, Seen, Stage, Asked
    <3> QED BY <3>1 DEF Pairs!Next
  <2>5. CASE Stage' = "counting"
    BY <2>1, <2>2, <2>3, <2>5 DEF Seen, Stage, Asked
  <2> QED BY <2>3, <2>4, <2>5
<1>5. ASSUME NEW chars \in Chars, NEW k \in 0 .. Resolution - 1, BeginSearch(chars, k)
      PROVE  Pairs!Next
  <2>1. /\ stage = "ready" /\ stage' = "searching" /\ chars \in Rows
        /\ chars_' = chars /\ p' = k /\ drawn' = None
        /\ UNCHANGED <<row_index_map, sampling_matrix>>
    BY <1>5 DEF BeginSearch, MatrixInv, MapInv, RowsNumbered, mapping, sampling
  <2>2. Seen' = Seen
    BY <2>1, SeenStays
  <2>3. chars # None
    BY <2>1, RowKinds, MatrixAssumption
  <2>4. Stage = "ready" /\ Stage' = "ready" /\ Asked = None
    BY <1>0, <2>1 DEF Stage, Asked
  <2>5. Asked' = [row |-> chars, zero |-> k = 0]
    BY <2>1, <2>3 DEF Asked
  <2>6. Pairs!Ask(chars, k = 0)
    BY <2>1, <2>2, <2>4, <2>5 DEF Pairs!Ask, Seen, Stage, Asked
  <2>7. (k = 0) \in BOOLEAN
    OBVIOUS
  <2> QED BY <2>1, <2>6, <2>7 DEF Pairs!Next
<1>6. CASE Advance
  <2>1. /\ stage = "searching" /\ stage' = "searching"
        /\ UNCHANGED <<chars_, p, drawn, row_index_map, sampling_matrix>>
    BY <1>6 DEF Advance, search, mapping, sampling
  <2>2. Seen' = Seen
    BY <2>1, SeenStays
  <2>3. Stage' = Stage /\ Asked' = Asked
    BY <2>1 DEF Stage, Asked
  <2> QED BY <2>1, <2>2, <2>3 DEF Seen, Stage, Asked
<1>7. CASE RunOff
  <2>1. /\ stage = "searching" /\ stage' = "undefined"
        /\ UNCHANGED <<chars_, p, drawn, row_index_map, sampling_matrix>>
    BY <1>7 DEF RunOff, search, mapping, sampling
  <2>2. Seen' = Seen
    BY <2>1, SeenStays
  <2>3. Stage = "ready" /\ Stage' = "undefined" /\ Asked' = Asked
    BY <2>1 DEF Stage, Asked
  <2>4. Asked # None /\ Asked.row = chars_ /\ Asked.zero = (p = 0)
    BY <1>0, <2>1, AskedIff
  <2>5. ~Asked.zero /\ \A ch \in Columns : <<Asked.row, ch>> \notin Seen
    <3>1. p # 0 /\ \A c \in 0 .. alphabet_size : <<chars_, ColumnChar(c)>> \notin Seen
      BY <1>7, RunOffSawNothing
    <3> QED BY <2>4, <3>1, ColumnFacts
  <2>6. Pairs!RunOff
    BY <2>1, <2>2, <2>3, <2>4, <2>5 DEF Pairs!RunOff, Seen, Stage, Asked
  <2> QED BY <2>6 DEF Pairs!Next
<1>8. CASE Found
  <2>1. /\ stage = "searching" /\ stage' = "ready" /\ chars_' = None
        /\ drawn' = ColumnChar(column)
        /\ UNCHANGED <<row_index_map, sampling_matrix>>
    BY <1>8 DEF Found, mapping, sampling
  <2>2. Seen' = Seen
    BY <2>1, SeenStays
  <2>3. Stage = "ready" /\ Stage' = "ready" /\ Asked' = None
    BY <2>1 DEF Stage, Asked
  <2>4. Asked # None /\ Asked.row = chars_ /\ Asked.zero = (p = 0)
    BY <1>0, <2>1, AskedIff
  <2>5. IF Asked.zero THEN ColumnChar(column) = alphabet_[1]
                      ELSE <<Asked.row, ColumnChar(column)>> \in Seen
    BY <1>8, <2>4, FoundWasSeen
  <2>6. ColumnChar(column) \in Columns
    BY ColumnFacts DEF MatrixInv, TypeOK
  <2>7. Pairs!Draw(ColumnChar(column))
    BY <2>1, <2>2, <2>3, <2>4, <2>5 DEF Pairs!Draw, Seen, Stage, Asked
  <2> QED BY <2>6, <2>7 DEF Pairs!Next
<1>9. CASE UNCHANGED vars
  BY <1>9 DEF vars, mapping, sampling, search, MatrixIndex
<1> QED BY <1>1, <1>2, <1>3, <1>4, <1>5, <1>6, <1>7, <1>8, <1>9 DEF Next

\* For every alphabet, every dictionary and every random number, the vectors of
\* the code do what the generator relies on: a set of pairs is remembered, and
\* of a row a pair is drawn that was (pseudoword_generator.cpp 108-180).
THEOREM MatrixDrawsWhatWasSeen == Spec => DrawsWhatWasSeen
<1>1. Init => Pairs!Init
  BY PairsInit
<1>2. MatrixInv /\ MatrixInv' /\ [Next]_vars => [Pairs!Next]_(Pairs!vars)
  BY PairsStep
<1> QED BY <1>1, <1>2, MatrixInvHolds, PTL DEF Spec, DrawsWhatWasSeen, Pairs!Spec
=============================================================================
