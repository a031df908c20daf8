---------------------------- MODULE MCWalletMock ----------------------------
(* WalletMock for TLC. *)
EXTENDS WalletMock
=============================================================================
