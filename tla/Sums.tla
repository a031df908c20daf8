-------------------------------- MODULE Sums --------------------------------
(***************************************************************************)
(* Sums of amounts over rows, as the properties of the wallets state them. *)
(***************************************************************************)
EXTENDS Integers, FiniteSetsExt

\* The sum of f[x] for x in S.
SumOver(f, S) == MapThenSumSet(LAMBDA x : f[x], S)
=============================================================================
