-------------------------------- MODULE Totals --------------------------------
(***************************************************************************)
(* Sums over a set of rows, as the SUM of a query.                         *)
(***************************************************************************)
EXTENDS FiniteSetsExt

\* The sum of f[x] over the x of a finite set.
SumOf(f, S) == MapThenSumSet(LAMBDA x : f[x], S)
==============================================================================
