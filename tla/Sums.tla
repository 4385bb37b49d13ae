-------------------------------- MODULE Sums --------------------------------
(***************************************************************************)
(* The total of a column of a table over some of its rows: the sum() of the*)
(* sources.                                                                *)
(***************************************************************************)
EXTENDS Functions

SumOver(f, S) == FoldFunctionOnSet(LAMBDA sum, x : sum + x, 0, f, S)
=============================================================================
