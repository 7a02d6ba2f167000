------------------------------- MODULE Bidding -------------------------------
(***************************************************************************)
(* The marketplace service: jobs, bids, counter-offers, acceptance, work,  *)
(* completion and cancellation, one action per operation of               *)
(* marketplace_repo.go.  Every operation that writes locks the job row     *)
(* first (lockJob) or is a single conditional UPDATE of it, so each is one *)
(* atomic step, and any user may call any of them at any time.             *)
(***************************************************************************)
EXTENDS Naturals, Sequences

CONSTANTS Jobs, Bids,           \* primary keys, drawn fresh by the service
          Customers, Providers, \* users by role
          Amounts,              \* prices a user may name
          Owner,                \* the customer whose request a job id is made from
          None                  \* SQL NULL

Users == Customers \union Providers

ASSUME AmountsAssumption == Amounts \subseteq Nat \ {0}
ASSUME OwnerAssumption   == Owner \in [Jobs -> Customers]

VARIABLES jobs,      \* jobs.status by job id
          bids,      \* rows of the table bids
          ratings,   \* rows of the table ratings by job id, each its provider, in order
          notices,   \* JOB_CANCELLED rows of the table messages, by job
          proposed   \* history: the amount each bid's provider named last

vars == <<jobs, bids, ratings, notices, proposed>>

Open      == {"PUBLISHED", "BIDDING"}
Agreed    == {"ACCEPTED", "EN_ROUTE", "IN_PROGRESS", "COMPLETED"}
JobStatus == {"NONE", "CANCELLED", "DISPUTED"} \union Open \union Agreed

BidRow == [status    : {"PENDING", "COUNTERED", "ACCEPTED", "REJECTED"},
           job       : Jobs,
           provider  : Providers,
           amount    : Amounts,
           counter   : Amounts \union {None},
           counterBy : Users \union {None}]

ASSUME NoneAssumption == /\ None \notin Users \union Amounts \union BidRow
                         /\ None \notin [provider : Providers, amount : Amounts]

\* The bids that exist, and those of one job.
Rows      == {b \in Bids : bids[b] # None}
BidsOf(j) == {b \in Rows : bids[b].job = j}

\* GetJobByID's accepted_provider_id, CancelJob's and UpdateJobStatus's EXISTS.
AcceptedBids(j) == {b \in BidsOf(j) : bids[b].status = "ACCEPTED"}
IsAcceptedProvider(u, j) == \E b \in AcceptedBids(j) : bids[b].provider = u

\* Slip: the counter amount is read whatever the status of the bid.
PriceUnconditional(row) == row.counter

\* amount = CASE WHEN status='COUNTERED' THEN counter_amount ELSE amount END
Price(row) == IF row.status = "COUNTERED" THEN row.counter ELSE row.amount

\* The SET clauses of the three UPDATEs of bids.
Accepted(row) == [row EXCEPT !.amount = Price(row), !.status = "ACCEPTED"]
RejectedNot(row) == row                        \* slip: the other offers stay open
Rejected(row) == [row EXCEPT !.status = "REJECTED"]
CounteredByNobody(row, u, amount) ==           \* slip: counter_by is not written
    [row EXCEPT !.amount = Price(row), !.status = "COUNTERED", !.counter = amount]
Countered(row, u, amount) == [row EXCEPT !.amount = Price(row), !.status = "COUNTERED",
                                         !.counter = amount, !.counterBy = u]

Init == /\ jobs = [j \in Jobs |-> "NONE"]
        /\ bids = [b \in Bids |-> None]
        /\ ratings = [j \in Jobs |-> <<>>]
        /\ notices = [j \in Jobs |-> 0]
        /\ proposed = [b \in Bids |-> None]

PostJob(j) ==
    /\ jobs[j] = "NONE"
    /\ jobs' = [jobs EXCEPT ![j] = "PUBLISHED"]
    /\ UNCHANGED <<bids, ratings, notices, proposed>>

\* CreateBid: nothing stops a provider from bidding again on the same job.
PlaceBid(p, j, b, amount) ==
    /\ jobs[j] \in Open
    /\ Owner[j] # p
    /\ bids[b] = None
    /\ bids' = [bids EXCEPT ![b] = [status |-> "PENDING", job |-> j, provider |-> p,
                                    amount |-> amount, counter |-> None, counterBy |-> None]]
    /\ proposed' = [proposed EXCEPT ![b] = amount]
    /\ UNCHANGED <<jobs, ratings, notices>>

\* Slips: the counter_by test is missing; the status test is missing.
AcceptableOwnCounter(u, j, b) == b \in BidsOf(j) /\ bids[b].status \in {"PENDING", "COUNTERED"}
AcceptableSettled(u, j, b)    == b \in BidsOf(j)

\* The offers AcceptBid's UPDATE matches: never the customer's own counter.
Acceptable(u, j, b) ==
    /\ b \in BidsOf(j)
    /\ \/ bids[b].status = "PENDING"
       \/ bids[b].status = "COUNTERED" /\ bids[b].counterBy # u

\* The accepted row takes the current price, every other row of the job is
\* rejected, those already rejected included.
AcceptBid(u, j, b) ==
    /\ Owner[j] = u
    /\ jobs[j] \in Open
    /\ Acceptable(u, j, b)
    /\ bids' = [x \in Bids |->
                  IF x = b THEN Accepted(bids[x])
                  ELSE IF x \in BidsOf(j) THEN Rejected(bids[x])
                  ELSE bids[x]]
    /\ jobs' = [jobs EXCEPT ![j] = "ACCEPTED"]
    /\ UNCHANGED <<ratings, notices, proposed>>

RejectBid(u, j, b) ==
    /\ Owner[j] = u
    /\ jobs[j] \in Open
    /\ b \in BidsOf(j)
    /\ bids[b].status \in {"PENDING", "COUNTERED"}
    /\ bids' = [bids EXCEPT ![b] = Rejected(bids[b])]
    /\ UNCHANGED <<jobs, ratings, notices, proposed>>

\* The price on the table moves into amount, the new one into counter_amount.
CounterBid(u, b, amount) ==
    /\ b \in Rows
    /\ u \in {Owner[bids[b].job], bids[b].provider}
    /\ jobs[bids[b].job] \in Open
    /\ bids[b].status \in {"PENDING", "COUNTERED"}
    /\ bids' = [bids EXCEPT ![b] = Countered(bids[b], u, amount)]
    /\ proposed' = IF u = bids[b].provider THEN [proposed EXCEPT ![b] = amount] ELSE proposed
    /\ UNCHANGED <<jobs, ratings, notices>>

\* Slip: a completion sent again is carried out again, on a table without the
\* unique index (as it was, and as the tests' fixture has it).
CompleteJobAgain(u, j) ==
    /\ Owner[j] = u
    /\ jobs[j] \in {"IN_PROGRESS", "COMPLETED"}
    /\ \E b \in AcceptedBids(j) : ratings' = [ratings EXCEPT ![j] = Append(@, bids[b].provider)]
    /\ jobs' = [jobs EXCEPT ![j] = "COMPLETED"]
    /\ UNCHANGED <<bids, notices, proposed>>

\* Completing a completed job again returns early.
CompleteJob(u, j) ==
    /\ Owner[j] = u
    /\ jobs[j] = "IN_PROGRESS"
    /\ ratings[j] = <<>>                \* the unique index ratings_one_per_job
    /\ \E b \in AcceptedBids(j) : ratings' = [ratings EXCEPT ![j] = Append(@, bids[b].provider)]
    /\ jobs' = [jobs EXCEPT ![j] = "COMPLETED"]
    /\ UNCHANGED <<bids, notices, proposed>>

PreviousAccepted == [EN_ROUTE |-> "ACCEPTED", IN_PROGRESS |-> "ACCEPTED"]   \* slip: a step is skipped

Previous == [EN_ROUTE |-> "ACCEPTED", IN_PROGRESS |-> "EN_ROUTE"]

UpdateJobStatus(u, j, status) ==
    /\ jobs[j] = Previous[status]
    /\ IsAcceptedProvider(u, j)
    /\ jobs' = [jobs EXCEPT ![j] = status]
    /\ UNCHANGED <<bids, ratings, notices, proposed>>

\* Slips: a completed job can be cancelled; so can a cancelled one.
CancellableCompleted(s) == s \notin {"NONE", "CANCELLED", "DISPUTED"}
CancellableTwice(s)     == s \notin {"NONE", "COMPLETED", "DISPUTED"}

\* Cancelling twice returns early; completed and disputed jobs refuse.
Cancellable(s) == s \notin {"NONE", "CANCELLED", "COMPLETED", "DISPUTED"}

\* Bids keep their status when the job is cancelled.
CancelJob(u, j) ==
    /\ Owner[j] = u \/ IsAcceptedProvider(u, j)
    /\ Cancellable(jobs[j])
    /\ jobs' = [jobs EXCEPT ![j] = "CANCELLED"]
    /\ notices' = [notices EXCEPT ![j] = @ + 1]
    /\ UNCHANGED <<bids, ratings, proposed>>

Acceptance == \E u \in Users, j \in Jobs, b \in Bids : AcceptBid(u, j, b)

OtherCalls ==
    \/ \E j \in Jobs : PostJob(j)
    \/ \E p \in Providers, j \in Jobs, b \in Bids, a \in Amounts : PlaceBid(p, j, b, a)
    \/ \E u \in Users, j \in Jobs, b \in Bids : RejectBid(u, j, b)
    \/ \E u \in Users, b \in Bids, a \in Amounts : CounterBid(u, b, a)
    \/ \E u \in Users, j \in Jobs : CompleteJob(u, j)
    \/ \E u \in Users, j \in Jobs, s \in DOMAIN Previous : UpdateJobStatus(u, j, s)
    \/ \E u \in Users, j \in Jobs : CancelJob(u, j)

Next == Acceptance \/ OtherCalls

Spec == Init /\ [][Next]_vars

-----------------------------------------------------------------------------
(* Correctness properties. *)

\* Every table holds rows of its type.
TypeOK == /\ jobs \in [Jobs -> JobStatus]
          /\ bids \in [Bids -> BidRow \union {None}]
          /\ ratings \in [Jobs -> Seq(Providers)]
          /\ notices \in [Jobs -> Nat]
          /\ proposed \in [Bids -> Amounts \union {None}]

\* A job in work or completed has exactly one accepted bid, and accepting it
\* has closed every other offer; a job still open has no accepted bid.  Two
\* acceptances, or an acceptance racing a cancellation, may not break this.
OneAcceptedBid ==
    \A j \in Jobs :
        /\ \A b, c \in AcceptedBids(j) : b = c
        /\ jobs[j] \in Agreed => /\ AcceptedBids(j) # {}
                                 /\ \A b \in BidsOf(j) : bids[b].status \in {"ACCEPTED", "REJECTED"}
        /\ jobs[j] \in Open \union {"NONE"} => AcceptedBids(j) = {}

\* Every open offer stands between the two parties of its job and nobody else:
\* a pending price is the provider's, a countered one names the party that
\* countered, and when that is the provider it is the provider's last word.
OfferIsNamed ==
    \A b \in Rows :
        LET r == bids[b]
        IN  /\ r.provider # Owner[r.job]
            /\ r.status = "PENDING" => r.amount = proposed[b]
            /\ r.status = "COUNTERED" =>
                   /\ r.counter \in Amounts
                   /\ r.counterBy \in {Owner[r.job], r.provider}
                   /\ r.counterBy = r.provider => r.counter = proposed[b]

\* Whatever the order of counters and acceptance, the price of an accepted bid
\* is the one its provider named last: a customer cannot accept an own counter.
AgreedPriceIsProviders ==
    \A b \in Rows : bids[b].status = "ACCEPTED" => bids[b].amount = proposed[b]

\* A completed job has one row in ratings and no more, however often its
\* completion was sent, for the provider whose bid was accepted; no other job,
\* cancelled ones included, has any.
RatedOnceOnCompletion ==
    \A j \in Jobs : IF jobs[j] = "COMPLETED"
                    THEN \E b \in AcceptedBids(j) : ratings[j] = <<bids[b].provider>>
                    ELSE ratings[j] = <<>>

\* Both parties may cancel, twice or at once: the chat gets one notice.
OneCancelNotice ==
    \A j \in Jobs : notices[j] = IF jobs[j] = "CANCELLED" THEN 1 ELSE 0

\* A rejected offer is never revived, and an accepted one never changes again,
\* not by a late counter, a second acceptance or a cancellation.
SettledBidsStaySettled ==
    [][\A b \in Rows : /\ bids[b].status = "REJECTED" => bids'[b].status = "REJECTED"
                       /\ bids[b].status = "ACCEPTED" => bids'[b] = bids[b]]_vars

\* The agreement the accepted bid of each job stands for.
ContractOf == [j \in Jobs |->
    IF AcceptedBids(j) = {} THEN None
    ELSE LET b == CHOOSE x \in AcceptedBids(j) : TRUE
         IN  [provider |-> bids[b].provider, amount |-> bids[b].amount]]

Contract == INSTANCE JobContract WITH status <- jobs, contract <- ContractOf, NoContract <- None

\* The marketplace implements the contract it promises: agreed once, frozen.
ImplementsContract == Contract!Spec

\* IsParticipant of the communication service, which reads these tables.
ParticipantsOf(j) ==
    IF jobs[j] = "NONE" THEN {}
    ELSE {Owner[j]} \union {bids[b].provider : b \in {x \in BidsOf(j) : bids[x].status
                                                     \in {"PENDING", "COUNTERED", "ACCEPTED"}}}

StageOf(j) == CASE jobs[j] = "NONE"    -> "none"
                [] jobs[j] \in Open   -> "open"
                [] jobs[j] \in Agreed -> "agreed"
                [] OTHER              -> "cancelled"

Talk(j) == INSTANCE Conversation WITH Customers <- {Owner[j]}, stage <- StageOf(j), members <- ParticipantsOf(j)

\* Every job's chat is what Conversation says and Chat relies on: an agreement
\* leaves its two parties alone with each other, and no late bid, rejection or
\* cancellation lets anyone else in or sends one of them away.
ImplementsConversation == /\ \A j \in Jobs : Talk(j)!Init
                          /\ [][\A j \in Jobs : UNCHANGED Talk(j)!vars \/ Talk(j)!Next]_vars
=============================================================================
