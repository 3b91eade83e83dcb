-------------------------------- MODULE Sums ---------------------------------
(***************************************************************************)
(* Totals: the sum of a function's values, which is how the source adds up *)
(* the rows of a query (SUM in SQL, iter().sum() in the services).         *)
(***************************************************************************)
EXTENDS Integers, Functions

Total(f) == FoldFunction(+, 0, f)
=============================================================================
