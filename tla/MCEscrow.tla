------------------------------ MODULE MCEscrow ------------------------------
(* Small instances of Escrow for TLC. *)
EXTENDS Escrow, TLC

Perms == Permutations(Keys) \union Permutations(Sessions)
=============================================================================
