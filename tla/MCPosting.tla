------------------------------ MODULE MCPosting ------------------------------
(* A small instance of Posting for TLC. *)
EXTENDS Posting, TLC

Perms == Permutations(Details)
=============================================================================
