------------------------------- MODULE Booking -------------------------------
(***************************************************************************)
(* One booking from its posting to the last movement of its money: the     *)
(* marketplace (Bidding) and the payment service with Stripe (Escrow) over *)
(* the same row of jobs.  Where Escrow knows of the marketplace only what  *)
(* JobContract promises, here it reads the job's status and its accepted   *)
(* bid from the marketplace's own tables.  Both components are taken with  *)
(* their theorems.                                                         *)
(***************************************************************************)
EXTENDS Naturals

CONSTANTS Job, Customer, Providers, Bids, Amounts, Keys, Sessions, None

VARIABLES jobs, bids, ratings, notices, proposed,                              \* see Bidding
          method, row, old, op, listed, net, sess, remembered, known, keysSent \* see Escrow

marketVars  == <<jobs, bids, ratings, notices, proposed>>
paymentVars == <<method, row, old, op, listed, net, sess, remembered, known, keysSent>>
vars        == <<marketVars, paymentVars>>

\* The Review Bids screen of BidReview has no part in this.
Market == INSTANCE BiddingProofs WITH Jobs <- {Job}, Customers <- {Customer},
                                      Owner <- [j \in {Job} |-> Customer],
                                      screen <- [b \in Bids |-> None]

\* WithJob reads jobs.status and joins the accepted bid.
Payment == INSTANCE EscrowProofs WITH status <- jobs, contract <- Market!ContractOf

ASSUME AmountsAssumption == Amounts \subseteq Nat \ {0}
ASSUME NoneAssumption ==
    /\ None \notin {Customer} \union Providers \union Amounts \union Market!BidRow
                   \union [provider : Providers, amount : Amounts]
    /\ None \notin Keys \union Sessions \union Payment!Verbs \union Payment!Row \union Payment!Money

Init == Market!Init /\ Payment!Init

\* Whatever writes the job or its bids waits until no payment operation holds
\* the job's row.
MarketStep == op = Payment!Idle /\ Market!Next /\ UNCHANGED paymentVars

PaymentStep == /\ UNCHANGED marketVars
               /\ \/ Payment!Requests \/ Payment!Worker \/ Payment!Operation
                  \/ Payment!Stripe \/ Payment!DayPasses

Next == MarketStep \/ PaymentStep

Spec == Init /\ [][Next]_vars

-----------------------------------------------------------------------------
(* Correctness properties. *)

\* Over the real marketplace the payment service behaves as it does over
\* JobContract, so that all that is shown of Escrow holds of the two together.
ImplementsEscrow == Payment!Spec

\* With the marketplace's own prices and cancellations, counters and retries on
\* both sides: one charge, a committed row that is true of it, and the promise
\* to the parties kept by the two services together.
PaymentIsSafe == Payment!KeepsPromise /\ [](Payment!OneLiveCharge /\ Payment!LedgerTruth)

\* Whatever was retried, cut off or answered late on either side: money is
\* taken only for a job that was completed and rated, once, from one session,
\* and it is the amount that the provider who did the work named last.
PaidAsAgreed ==
    \A s \in Sessions : sess[s].intent = "captured" =>
        /\ jobs[Job] = "COMPLETED"
        /\ \E b \in Market!AcceptedBids(Job) :
              /\ sess[s].money = [amount |-> proposed[b], currency |-> "PHP"]
              /\ ratings[Job] = <<bids[b].provider>>
        /\ \A t \in Sessions \ {s} : sess[t].intent \notin {"authorized", "captured", "refunded"}

\* The reverse of the wait between a cancellation and its refund: what the
\* provider was paid is never taken back, although the code can refund
\* captured money and a cancellation can arrive at any moment.
PaidIsFinal == [][\A s \in Sessions : sess[s].intent = "captured" => sess'[s] = sess[s]]_vars
=============================================================================
