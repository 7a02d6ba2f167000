------------------------------ MODULE BidReview ------------------------------
(***************************************************************************)
(* The customer's "Review Bids" screen on top of the marketplace: it lists *)
(* the bids once when it opens, and again after the customer declines or   *)
(* counters one; in between the providers go on countering.  Accept sends  *)
(* the bid's id only.                                                      *)
(***************************************************************************)
EXTENDS Bidding

VARIABLE screen   \* the row of each bid as listed, None when it is not

rvars == <<jobs, bids, ratings, notices, proposed, screen>>

\* What a fetch of job j's bids puts on the screen: rejected bids are dropped.
Listing(j) == [b \in Bids |->
    IF b \in BidsOf(j) /\ bids[b].status # "REJECTED" THEN bids[b] ELSE None]

Shown(j, b) == screen[b] # None /\ screen[b].job = j

ListBids(j) == /\ jobs[j] # "NONE"
               /\ screen' = Listing(j)
               /\ UNCHANGED vars

\* Accept is shown on every row that is not accepted already.
TapAccept(j, b) == /\ Shown(j, b)
                   /\ screen[b].status # "ACCEPTED"
                   /\ AcceptBid(Owner[j], j, b)
                   /\ UNCHANGED screen

RInit == Init /\ screen = [b \in Bids |-> None]

RNext == \/ \E j \in Jobs : ListBids(j)
         \/ \E j \in Jobs, b \in Bids : TapAccept(j, b)
         \/ OtherCalls /\ UNCHANGED screen

RSpec == RInit /\ [][RNext]_rvars

-----------------------------------------------------------------------------
(* Correctness properties. *)

\* An acceptance at a price the screen did not show is always a counter of the
\* provider's that came in after the listing: the customer's own counter, or a
\* price nobody proposed, never becomes the agreed one.
UnseenPriceIsProvidersCounter ==
    [][\A j \in Jobs, b \in Bids :
          TapAccept(j, b) => \/ bids'[b].amount = Price(screen[b])
                             \/ bids[b].status = "COUNTERED" /\ bids[b].counterBy = bids[b].provider]_rvars

\* docs/booking-terms-draft.md:15 "Providers may propose a different amount;
\* you decide whether to accept": the agreed price is the one the customer was
\* shown when tapping Accept.
AcceptedPriceWasShown ==
    [][\A j \in Jobs, b \in Bids : TapAccept(j, b) => bids'[b].amount = Price(screen[b])]_rvars
=============================================================================
