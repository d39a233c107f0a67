-------------------------- MODULE MCWalletProviders --------------------------
(* Both registered providers, over two accounts. *)
EXTENDS WalletProviders

CONSTANTS a1, a2

MCAccounts == {a1, a2}
=============================================================================
