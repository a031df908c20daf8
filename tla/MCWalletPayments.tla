-------------------------- MODULE MCWalletPayments --------------------------
(* Values of WalletPayments' constants for TLC. *)
EXTENDS WalletPayments, TLC

\* Every wallet can pay for one withdrawal of each amount in use.
MCBalance == [w \in Wallets |-> 3]

\* Requests with and without lost answers cannot be exchanged; in the run that
\* uses the symmetry, the transactions of every request may fail.
MCSymmetry ==
  Permutations(Lossy) \cup Permutations(Refs \ Lossy) \cup Permutations(Handlers)
    \cup Permutations(Wallets)
=============================================================================
