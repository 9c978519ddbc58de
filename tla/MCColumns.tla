------------------------------ MODULE MCColumns ------------------------------
(* One statement, or one column, whose conversions the statement leaves open.  *)
(* The two share no state, so that a behaviour is of either.                   *)
(* Integers of 3 to 16 bits, doubles of 14 digits, floats of 4, Times to 1/126 *)
(* of a millisecond.                                                           *)
EXTENDS MCStatement, ColumnTypes

Widths == [tinyint |-> 3, smallint |-> 5, int |-> 8, bigint |-> 16]

\* Near the bounds of 64-bit integers, of either sign.
Far(least, greatest) == least..greatest \cup {-n : n \in least..greatest}

SmallNumbers == -300..300 \cup Far(8190, 8195) \cup Far(32765, 32771)

\* All milliseconds from -4.2 s to 4.2 s, the moments just before and after,
\* and one between, and those at the bounds of 16 bits.
Times16 ==
  {126 * ms + part : ms \in -4200..4200 \cup Far(32765, 32771), part \in {-1, 0, 1, 63}}

NoColumn == value_type = "none" /\ bound = Unset /\ column = Unset /\ row = Unset

StatementOrColumn ==
  /\ Init /\ (NoColumn \/ ColumnInit)
  /\ [][\/ NoColumn /\ Next /\ UNCHANGED columnVars
        \/ ColumnNext /\ UNCHANGED vars]_<<vars, columnVars>>
=============================================================================
