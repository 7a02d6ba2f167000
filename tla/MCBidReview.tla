---------------------------- MODULE MCBidReview ----------------------------
(* A small instance of BidReview, and of Bidding under it: two jobs of two   *)
(* customers, two bids that any of two providers may place on either.        *)
EXTENDS BidReview, TLC

CONSTANTS c1, c2, j1, j2

OwnersApart == (j1 :> c1) @@ (j2 :> c2)

\* The customers change places, each with the own job.
Swapped == (c1 :> c2) @@ (c2 :> c1) @@ (j1 :> j2) @@ (j2 :> j1)

Perms == Permutations(Providers) \union Permutations(Bids) \union {Swapped}
=============================================================================
