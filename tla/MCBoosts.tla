------------------------------ MODULE MCBoosts ------------------------------
(* A small instance of Boosts for TLC: two calls in flight, a short week. *)
EXTENDS Boosts, TLC

Perms == Permutations(Calls)
=============================================================================
