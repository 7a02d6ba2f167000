------------------------------ MODULE MCAccounts ------------------------------
(* A small instance of Accounts for TLC: three transactions at once. *)
EXTENDS Accounts, TLC

Perms == Permutations(Calls)
=============================================================================
