------------------------------ MODULE MCBooking ------------------------------
(* A small instance of Booking: one provider, whose bid may be countered,    *)
(* cancelled or carried out while the payment is retried.                    *)
EXTENDS Booking, TLC

Perms == Permutations(Keys) \union Permutations(Sessions)
=============================================================================
