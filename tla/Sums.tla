-------------------------------- MODULE Sums --------------------------------
(***************************************************************************)
(* Amounts added up: row by row, as the program's loops over a query's     *)
(* rows do, or over a set whose order plays no part.                       *)
(***************************************************************************)
EXTENDS Integers, Sequences, Folds

\* upto[n] is the loop's total after n rows.
Total(amounts) ==
  LET upto[n \in 0 .. Len(amounts)] ==
        IF n = 0 THEN 0 ELSE upto[n - 1] + amounts[n]
  IN  upto[Len(amounts)]

\* The sum of the values of a function.
SumOver(f) ==
  MapThenFoldSet(+, 0, LAMBDA x : f[x], LAMBDA S : CHOOSE x \in S : TRUE, DOMAIN f)
=============================================================================
