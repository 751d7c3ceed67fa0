------------------------------ MODULE MCTable ------------------------------
(* Table with two columns and a few values and record ids. *)
EXTENDS Table

CONSTANTS
    DefaultValue,   \* DEFAULT of the last column
    Plain           \* the values that fit into an index

MCDefault == [c \in 1 .. NumCols |-> IF c = NumCols THEN DefaultValue ELSE Null]
MCValues == Plain \cup TooLong

\* Rows of valid values, rows that name only one of the columns, and rows that
\* enforce_constraints refuses; either index may be the one that refuses a key.
MCRows == {row \in [1 .. NumCols -> MCValues] :
             /\ row[1] \in Plain
             /\ \/ row[NumCols] = row[1]
                \/ row[NumCols] \in TooLong /\ row[1] = DefaultValue}
          \cup [{1} -> TooLong \cup {Null}]
          \cup [{NumCols} -> (Plain \ {DefaultValue}) \cup {WrongType}]
=============================================================================
