----------------------------- MODULE MCSavings -----------------------------
(* Values of Savings' constants for TLC. *)
EXTENDS Savings, TLC

MCBalance  == [w \in Wallets |-> 10]
MCWalletOf == [p \in Plans |-> CHOOSE w \in Wallets : TRUE]
=============================================================================
