--------------------------- MODULE BiddingProofs ---------------------------
(***************************************************************************)
(* Proofs about Bidding for every set of jobs, bids, users and amounts.    *)
(* Neither the type invariant nor AgreedPriceIsProviders is inductive      *)
(* alone: accepting a countered bid copies counter_amount into amount, so  *)
(* both need OfferIsNamed, which says whose proposal that is.              *)
(***************************************************************************)
EXTENDS BidReview, TLAPS

OfferInv == TypeOK /\ OfferIsNamed /\ AgreedPriceIsProviders

\* What the three updates of a row set and what they leave alone.
LEMMA AcceptedFields ==
  ASSUME NEW r \in BidRow, Price(r) \in Amounts
  PROVE  LET n == Accepted(r)
         IN  /\ n \in BidRow
             /\ n.status = "ACCEPTED" /\ n.amount = Price(r)
             /\ n.job = r.job /\ n.provider = r.provider
<1> DEFINE a == Price(r)
<1>1. a \in Amounts
  OBVIOUS
<1>2. Accepted(r) = [r EXCEPT !.amount = a, !.status = "ACCEPTED"]
  BY DEF Accepted
<1> HIDE DEF a
<1>3. /\ Accepted(r) \in BidRow
      /\ Accepted(r).status = "ACCEPTED" /\ Accepted(r).amount = a
      /\ Accepted(r).job = r.job /\ Accepted(r).provider = r.provider
  BY <1>1, <1>2 DEF BidRow
<1>. QED
  BY <1>3 DEF a

LEMMA RejectedFields ==
  ASSUME NEW r \in BidRow
  PROVE  LET n == Rejected(r)
         IN  /\ n \in BidRow
             /\ n.status = "REJECTED"
             /\ n.job = r.job /\ n.provider = r.provider
  BY DEF Rejected, BidRow

LEMMA CounteredFields ==
  ASSUME NEW r \in BidRow, Price(r) \in Amounts, NEW u \in Users, NEW amount \in Amounts
  PROVE  LET n == Countered(r, u, amount)
         IN  /\ n \in BidRow
             /\ n.status = "COUNTERED" /\ n.counter = amount /\ n.counterBy = u
             /\ n.job = r.job /\ n.provider = r.provider
<1> DEFINE a == Price(r)
<1>1. a \in Amounts
  OBVIOUS
<1>2. Countered(r, u, amount) = [r EXCEPT !.amount = a, !.status = "COUNTERED",
                                          !.counter = amount, !.counterBy = u]
  BY DEF Countered
<1> HIDE DEF a
<1>. QED
  BY <1>1, <1>2 DEF BidRow

LEMMA OfferInvInit == Init => OfferInv
  BY NoneAssumption DEF Init, OfferInv, TypeOK, OfferIsNamed, AgreedPriceIsProviders, Rows, JobStatus

LEMMA OfferInvNext == OfferInv /\ [Next]_vars => OfferInv'
<1> SUFFICES ASSUME OfferInv, [Next]_vars PROVE OfferInv'
  OBVIOUS
<1> USE AmountsAssumption, OwnerAssumption, NoneAssumption
    DEF OfferInv, TypeOK, OfferIsNamed, AgreedPriceIsProviders, Rows, JobStatus, Open, Agreed
<1>1. ASSUME NEW j \in Jobs, PostJob(j) PROVE OfferInv'
  BY <1>1 DEF PostJob
<1>2. ASSUME NEW p \in Providers, NEW j \in Jobs, NEW b \in Bids, NEW a \in Amounts,
             PlaceBid(p, j, b, a)
      PROVE  OfferInv'
  BY <1>2 DEF PlaceBid, BidRow
<1>3. ASSUME NEW u \in Users, NEW j \in Jobs, NEW b \in Bids, AcceptBid(u, j, b)
      PROVE  OfferInv'
  <2> DEFINE Others == BidsOf(j) \ {b}
  <2>1. b \in BidsOf(j) /\ bids[b] \in BidRow /\ Owner[j] = u /\ bids[b].job = j
    BY <1>3 DEF AcceptBid, Acceptable, BidsOf
  <2>2. Price(bids[b]) = proposed[b] /\ Price(bids[b]) \in Amounts
    BY <1>3, <2>1 DEF AcceptBid, Acceptable, Price, BidRow
  <2>3. /\ Accepted(bids[b]) \in BidRow
        /\ Accepted(bids[b]).status = "ACCEPTED" /\ Accepted(bids[b]).amount = proposed[b]
        /\ Accepted(bids[b]).job = bids[b].job /\ Accepted(bids[b]).provider = bids[b].provider
    BY <2>1, <2>2, AcceptedFields
  <2>4. ASSUME NEW x \in Others
        PROVE  /\ Rejected(bids[x]) \in BidRow
               /\ Rejected(bids[x]).status = "REJECTED"
               /\ Rejected(bids[x]).job = bids[x].job /\ Rejected(bids[x]).provider = bids[x].provider
    BY RejectedFields DEF BidsOf
  <2>5. /\ bids'[b] = Accepted(bids[b])
        /\ \A x \in Others : bids'[x] = Rejected(bids[x])
        /\ \A x \in Bids \ (Others \union {b}) : bids'[x] = bids[x]
        /\ bids' = [x \in Bids |-> bids'[x]]
    BY <1>3, <2>1 DEF AcceptBid, BidsOf
  <2>6. jobs' \in [Jobs -> JobStatus] /\ UNCHANGED <<ratings, notices, proposed>>
    BY <1>3 DEF AcceptBid
  <2> HIDE DEF Others
  <2>7. \A x \in Bids : bids'[x] \in BidRow \union {None}
    BY <2>3, <2>4, <2>5
  <2>8. Others \subseteq Rows /\ b \in Rows
    BY <2>1 DEF Others, BidsOf
  <2>9. TypeOK'
    BY <2>5, <2>6, <2>7
  <2>10. \A x \in Bids : bids'[x] # None <=> bids[x] # None
    BY <2>3, <2>4, <2>5, <2>8
  <2>named. OfferIsNamed /\ AgreedPriceIsProviders
    OBVIOUS
  <2> HIDE DEF OfferInv, TypeOK
  <2>11. OfferIsNamed' /\ AgreedPriceIsProviders'
    BY <2>3, <2>4, <2>5, <2>6, <2>8, <2>10, <2>named
  <2>. QED
    BY <2>9, <2>11 DEF OfferInv
<1>4. ASSUME NEW u \in Users, NEW j \in Jobs, NEW b \in Bids, RejectBid(u, j, b)
      PROVE  OfferInv'
  <2>1. bids[b] \in BidRow /\ b \in Rows
    BY <1>4 DEF RejectBid, BidsOf
  <2> DEFINE n == Rejected(bids[b])
  <2>2. /\ n \in BidRow /\ n.status = "REJECTED"
        /\ n.job = bids[b].job /\ n.provider = bids[b].provider
    BY <2>1, RejectedFields
  <2>3. bids' = [bids EXCEPT ![b] = n] /\ UNCHANGED <<jobs, ratings, notices, proposed>>
    BY <1>4 DEF RejectBid
  <2> HIDE DEF n
  <2>4. TypeOK'
    BY <2>2, <2>3
  <2>5. Rows' = Rows
    BY <2>1, <2>2, <2>3
  <2>6. OfferIsNamed' /\ AgreedPriceIsProviders'
    BY <2>1, <2>2, <2>3, <2>5
  <2>. QED
    BY <2>4, <2>6
<1>5. ASSUME NEW u \in Users, NEW b \in Bids, NEW a \in Amounts, CounterBid(u, b, a)
      PROVE  OfferInv'
  <2>1. b \in Rows /\ bids[b] \in BidRow /\ Price(bids[b]) \in Amounts
    BY <1>5 DEF CounterBid, Price, BidRow
  <2> DEFINE n == Countered(bids[b], u, a)
  <2>2. /\ n \in BidRow
        /\ n.status = "COUNTERED" /\ n.counter = a /\ n.counterBy = u
        /\ n.job = bids[b].job /\ n.provider = bids[b].provider
    BY <2>1, CounteredFields
  <2>3. bids' = [bids EXCEPT ![b] = n] /\ UNCHANGED <<jobs, ratings, notices>>
    BY <1>5 DEF CounterBid
  <2>4. /\ u \in {Owner[bids[b].job], bids[b].provider}
        /\ proposed' = IF u = bids[b].provider THEN [proposed EXCEPT ![b] = a] ELSE proposed
    BY <1>5 DEF CounterBid
  <2> HIDE DEF n
  <2>5. TypeOK'
    BY <2>2, <2>3, <2>4
  <2>6. \A x \in Rows' : x \in Rows
    BY <2>1, <2>3
  <2>7. OfferIsNamed' /\ AgreedPriceIsProviders'
    BY <2>1, <2>2, <2>3, <2>4, <2>6
  <2>. QED
    BY <2>5, <2>7
<1>6. ASSUME NEW u \in Users, NEW j \in Jobs, CompleteJob(u, j) PROVE OfferInv'
  BY <1>6 DEF CompleteJob, AcceptedBids, BidsOf, BidRow
<1>7. ASSUME NEW u \in Users, NEW j \in Jobs, NEW s \in DOMAIN Previous, UpdateJobStatus(u, j, s)
      PROVE  OfferInv'
  BY <1>7 DEF UpdateJobStatus, Previous
<1>8. ASSUME NEW u \in Users, NEW j \in Jobs, CancelJob(u, j) PROVE OfferInv'
  BY <1>8 DEF CancelJob, Cancellable
<1>9. CASE UNCHANGED vars
  BY <1>9 DEF vars
<1>. QED
  BY <1>1, <1>2, <1>3, <1>4, <1>5, <1>6, <1>7, <1>8, <1>9 DEF Next, Acceptance, OtherCalls

\* Tables hold rows of their type, whatever the users do.
THEOREM TypeCorrect == Spec => []TypeOK
<1>1. OfferInv => TypeOK
  BY DEF OfferInv
<1>. QED
  BY <1>1, OfferInvInit, OfferInvNext, PTL DEF Spec

\* The price of an accepted bid is always the last one its provider named,
\* however counters and acceptance are ordered.
THEOREM PriceCorrect == Spec => []AgreedPriceIsProviders
<1>1. OfferInv => AgreedPriceIsProviders
  BY DEF OfferInv
<1>. QED
  BY <1>1, OfferInvInit, OfferInvNext, PTL DEF Spec

\* Every open offer stands between the two parties of its job, and the price
\* an acceptance would copy is the provider's last: amount while the bid is
\* pending, counter_amount while the counter is the provider's.
THEOREM OffersNamed == Spec => []OfferIsNamed
<1>1. OfferInv => OfferIsNamed
  BY DEF OfferInv
<1>. QED
  BY <1>1, OfferInvInit, OfferInvNext, PTL DEF Spec

-----------------------------------------------------------------------------
(* Acceptance: which step changes the accepted bids of a job. *)

\* The accepted bids of job j, and their rows, are those of the state before.
SameAccepted(j) == /\ AcceptedBids(j)' = AcceptedBids(j)
                   /\ \A b \in AcceptedBids(j) : bids'[b] = bids[b]

LEMMA PlaceBidKeeps ==
  ASSUME OfferInv, NEW p \in Providers, NEW k \in Jobs, NEW b \in Bids, NEW a \in Amounts,
         PlaceBid(p, k, b, a), NEW j \in Jobs
  PROVE  SameAccepted(j) /\ (j # k => BidsOf(j)' = BidsOf(j) /\ \A x \in BidsOf(j) : bids'[x] = bids[x])
  BY NoneAssumption DEF OfferInv, TypeOK, PlaceBid, SameAccepted, AcceptedBids, BidsOf, Rows, BidRow

LEMMA RejectBidKeeps ==
  ASSUME OfferInv, NEW u \in Users, NEW k \in Jobs, NEW b \in Bids, RejectBid(u, k, b), NEW j \in Jobs
  PROVE  SameAccepted(j) /\ (j # k => BidsOf(j)' = BidsOf(j) /\ \A x \in BidsOf(j) : bids'[x] = bids[x])
<1>1. b \in BidsOf(k) /\ bids[b] \in BidRow /\ bids[b].status # "ACCEPTED"
  BY DEF RejectBid, BidsOf, Rows, OfferInv, TypeOK
<1> DEFINE n == Rejected(bids[b])
<1>2. n \in BidRow /\ n.status = "REJECTED" /\ n.job = bids[b].job
  BY <1>1, RejectedFields
<1>3. bids' = [bids EXCEPT ![b] = n]
  BY DEF RejectBid
<1> HIDE DEF n
<1>. QED
  BY <1>1, <1>2, <1>3, NoneAssumption DEF OfferInv, TypeOK, SameAccepted, AcceptedBids, BidsOf, Rows

LEMMA CounterBidKeeps ==
  ASSUME OfferInv, NEW u \in Users, NEW b \in Bids, NEW a \in Amounts, CounterBid(u, b, a), NEW j \in Jobs
  PROVE  /\ SameAccepted(j)
         /\ j # bids[b].job => BidsOf(j)' = BidsOf(j) /\ \A x \in BidsOf(j) : bids'[x] = bids[x]
<1>1. b \in Rows /\ bids[b] \in BidRow /\ bids[b].status # "ACCEPTED" /\ Price(bids[b]) \in Amounts
  BY DEF CounterBid, Rows, OfferInv, TypeOK, OfferIsNamed, Price, BidRow
<1> DEFINE n == Countered(bids[b], u, a)
<1>2. n \in BidRow /\ n.status = "COUNTERED" /\ n.job = bids[b].job
  BY <1>1, CounteredFields
<1>3. bids' = [bids EXCEPT ![b] = n]
  BY DEF CounterBid
<1> HIDE DEF n
<1>. QED
  BY <1>1, <1>2, <1>3, NoneAssumption DEF OfferInv, TypeOK, SameAccepted, AcceptedBids, BidsOf, Rows

LEMMA AcceptBidSelects ==
  ASSUME OfferInv, OneAcceptedBid,
         NEW u \in Users, NEW k \in Jobs, NEW b \in Bids, AcceptBid(u, k, b)
  PROVE  /\ AcceptedBids(k)' = {b}
         /\ bids[b] \in BidRow /\ Price(bids[b]) \in Amounts /\ bids'[b] = Accepted(bids[b])
         /\ \A x \in BidsOf(k)' : bids'[x].status \in {"ACCEPTED", "REJECTED"}
         /\ \A j \in Jobs \ {k} : /\ SameAccepted(j)
                                 /\ BidsOf(j)' = BidsOf(j)
                                 /\ \A x \in BidsOf(j) : bids'[x] = bids[x]
<1>1. b \in BidsOf(k) /\ bids[b] \in BidRow /\ Price(bids[b]) \in Amounts
  BY DEF AcceptBid, Acceptable, BidsOf, Rows, OfferInv, TypeOK, OfferIsNamed, Price, BidRow
<1>2. /\ Accepted(bids[b]) \in BidRow
      /\ Accepted(bids[b]).status = "ACCEPTED" /\ Accepted(bids[b]).job = bids[b].job
  BY <1>1, AcceptedFields
<1>3. \A x \in BidsOf(k) : /\ Rejected(bids[x]) \in BidRow
                           /\ Rejected(bids[x]).status = "REJECTED"
                           /\ Rejected(bids[x]).job = bids[x].job
  BY RejectedFields DEF BidsOf, Rows, OfferInv, TypeOK
<1>4. /\ bids'[b] = Accepted(bids[b])
      /\ \A x \in BidsOf(k) \ {b} : bids'[x] = Rejected(bids[x])
      /\ \A x \in Bids \ BidsOf(k) : bids'[x] = bids[x]
  BY <1>1 DEF AcceptBid, BidsOf, Rows
<1>5. BidsOf(k)' = BidsOf(k)
  BY <1>1, <1>2, <1>3, <1>4, NoneAssumption DEF BidsOf, Rows, OfferInv, TypeOK
<1>6. AcceptedBids(k)' = {b}
  BY <1>1, <1>2, <1>3, <1>4, <1>5 DEF AcceptedBids
<1>7. \A x \in BidsOf(k)' : bids'[x].status \in {"ACCEPTED", "REJECTED"}
  BY <1>1, <1>2, <1>3, <1>4, <1>5
<1>8. ASSUME NEW j \in Jobs \ {k}
      PROVE  SameAccepted(j) /\ BidsOf(j)' = BidsOf(j) /\ \A x \in BidsOf(j) : bids'[x] = bids[x]
  <2>1. BidsOf(j) \subseteq Bids \ BidsOf(k)
    BY DEF BidsOf, Rows
  <2>2. BidsOf(j)' \subseteq Bids \ BidsOf(k)
    BY <1>5 DEF BidsOf, Rows
  <2>3. BidsOf(j)' = BidsOf(j) /\ \A x \in BidsOf(j) : bids'[x] = bids[x]
    BY <1>4, <2>1, <2>2 DEF BidsOf, Rows
  <2>. QED
    BY <2>3 DEF SameAccepted, AcceptedBids
<1>. QED
  BY <1>1, <1>4, <1>6, <1>7, <1>8

-----------------------------------------------------------------------------
(* The booking invariant. *)

BookingInv == OfferInv /\ OneAcceptedBid /\ RatedOnceOnCompletion /\ OneCancelNotice

LEMMA BookingInvInit == Init => BookingInv
<1> SUFFICES ASSUME Init PROVE BookingInv
  OBVIOUS
<1>1. OfferInv
  BY OfferInvInit
<1>2. \A j \in Jobs : AcceptedBids(j) = {} /\ jobs[j] = "NONE"
  BY DEF Init, AcceptedBids, BidsOf, Rows
<1>3. OneAcceptedBid /\ RatedOnceOnCompletion /\ OneCancelNotice
  BY <1>2 DEF OneAcceptedBid, RatedOnceOnCompletion, OneCancelNotice, Agreed, Init
<1>. QED
  BY <1>1, <1>3 DEF BookingInv

\* What RatedOnceOnCompletion says of job j.
Rated(j) == IF jobs[j] = "COMPLETED" THEN \E b \in AcceptedBids(j) : ratings[j] = <<bids[b].provider>>
            ELSE ratings[j] = <<>>

\* A job that keeps its accepted bids, its ratings and its notices, and either
\* its status and offers too or an uncompleted status, keeps the invariant.
LEMMA BookingInvNext == BookingInv /\ [Next]_vars => BookingInv'
<1> SUFFICES ASSUME BookingInv, [Next]_vars PROVE BookingInv'
  OBVIOUS
<1>0. OfferInv /\ OfferInv' /\ TypeOK
  BY OfferInvNext DEF BookingInv, OfferInv
<1> DEFINE Quiet(j) == /\ jobs'[j] = jobs[j] /\ notices'[j] = notices[j] /\ ratings'[j] = ratings[j]
                       /\ BidsOf(j)' = BidsOf(j)
                       /\ \A x \in BidsOf(j) : bids'[x] = bids[x]
           Good(j) == /\ \A b, c \in AcceptedBids(j) : b = c
                      /\ jobs[j] \in Agreed => /\ AcceptedBids(j) # {}
                                               /\ \A b \in BidsOf(j) : bids[b].status \in {"ACCEPTED", "REJECTED"}
                      /\ jobs[j] \in Open \union {"NONE"} => AcceptedBids(j) = {}
                      /\ Rated(j)
                      /\ notices[j] = IF jobs[j] = "CANCELLED" THEN 1 ELSE 0
<1>1. \A j \in Jobs : Good(j)
  BY DEF BookingInv, OneAcceptedBid, RatedOnceOnCompletion, OneCancelNotice, Rated
<1>2. SUFFICES ASSUME NEW j \in Jobs PROVE Good(j)'
  BY <1>0 DEF BookingInv, OneAcceptedBid, RatedOnceOnCompletion, OneCancelNotice, Rated
<1>3. Quiet(j) => Good(j)'
  <2> SUFFICES ASSUME Quiet(j) PROVE Good(j)'
    OBVIOUS
  <2>1. AcceptedBids(j)' = AcceptedBids(j) /\ \A b \in AcceptedBids(j) : bids'[b] = bids[b]
    BY DEF AcceptedBids
  <2>2. Rated(j)'
    BY <1>1, <2>1 DEF Rated
  <2>. QED
    BY <1>1, <2>1, <2>2
\* In an open job nothing is accepted, so nothing but the status of its offers matters.
<1>4. /\ jobs[j] \in Open \/ jobs[j] = "NONE"
      /\ jobs'[j] \in Open
      /\ SameAccepted(j) /\ ratings' = ratings /\ notices' = notices
      => Good(j)'
  BY <1>1 DEF SameAccepted, Open, Agreed, Rated
<1>5. ASSUME NEW k \in Jobs, PostJob(k) PROVE Good(j)'
  <2>1. /\ ratings' = ratings /\ notices' = notices /\ bids' = bids
        /\ AcceptedBids(j)' = AcceptedBids(j) /\ BidsOf(j)' = BidsOf(j)
    BY <1>5 DEF PostJob, AcceptedBids, BidsOf, Rows
  <2>2. CASE j = k
    BY <1>4, <1>5, <2>1, <2>2, <1>0 DEF PostJob, SameAccepted, TypeOK, Open
  <2>3. CASE j # k
    BY <1>3, <1>5, <2>1, <2>3, <1>0 DEF PostJob, TypeOK, Rated
  <2>. QED
    BY <2>2, <2>3
<1>6. ASSUME NEW p \in Providers, NEW k \in Jobs, NEW b \in Bids, NEW a \in Amounts, PlaceBid(p, k, b, a)
      PROVE  Good(j)'
  <2>1. UNCHANGED <<jobs, ratings, notices>> /\ jobs[k] \in Open
    BY <1>6 DEF PlaceBid
  <2>2. SameAccepted(j) /\ (j # k => BidsOf(j)' = BidsOf(j) /\ \A x \in BidsOf(j) : bids'[x] = bids[x])
    BY <1>0, <1>6, PlaceBidKeeps
  <2>. QED
    BY <1>3, <1>4, <2>1, <2>2 DEF Rated
<1>7. ASSUME NEW u \in Users, NEW k \in Jobs, NEW b \in Bids, RejectBid(u, k, b)
      PROVE  Good(j)'
  <2>1. UNCHANGED <<jobs, ratings, notices>> /\ jobs[k] \in Open
    BY <1>7 DEF RejectBid
  <2>2. SameAccepted(j) /\ (j # k => BidsOf(j)' = BidsOf(j) /\ \A x \in BidsOf(j) : bids'[x] = bids[x])
    BY <1>0, <1>7, RejectBidKeeps
  <2>. QED
    BY <1>3, <1>4, <2>1, <2>2 DEF Rated
<1>8. ASSUME NEW u \in Users, NEW b \in Bids, NEW a \in Amounts, CounterBid(u, b, a)
      PROVE  Good(j)'
  <2>1. UNCHANGED <<jobs, ratings, notices>> /\ jobs[bids[b].job] \in Open
    BY <1>8 DEF CounterBid
  <2>2. SameAccepted(j) /\ (j # bids[b].job => BidsOf(j)' = BidsOf(j) /\ \A x \in BidsOf(j) : bids'[x] = bids[x])
    BY <1>0, <1>8, CounterBidKeeps
  <2>. QED
    BY <1>3, <1>4, <2>1, <2>2 DEF Rated
<1>9. ASSUME NEW u \in Users, NEW k \in Jobs, NEW b \in Bids, AcceptBid(u, k, b)
      PROVE  Good(j)'
  <2>1. /\ AcceptedBids(k)' = {b}
        /\ \A x \in BidsOf(k)' : bids'[x].status \in {"ACCEPTED", "REJECTED"}
        /\ j # k => /\ BidsOf(j)' = BidsOf(j)
                    /\ \A x \in BidsOf(j) : bids'[x] = bids[x]
    BY <1>0, <1>9, AcceptBidSelects DEF BookingInv
  <2>2. /\ UNCHANGED <<ratings, notices>> /\ jobs[k] \in Open
        /\ jobs' = [jobs EXCEPT ![k] = "ACCEPTED"]
    BY <1>9 DEF AcceptBid
  <2>3. CASE j = k
    BY <1>0, <1>1, <2>1, <2>2, <2>3 DEF TypeOK, Open, Agreed, Rated
  <2>4. CASE j # k
    BY <1>0, <1>3, <2>1, <2>2, <2>4 DEF TypeOK, Rated
  <2>. QED
    BY <2>3, <2>4
<1>10. ASSUME NEW u \in Users, NEW k \in Jobs, CompleteJob(u, k) PROVE Good(j)'
  <2>1. /\ jobs[k] = "IN_PROGRESS" /\ jobs' = [jobs EXCEPT ![k] = "COMPLETED"]
        /\ UNCHANGED <<bids, notices>>
    BY <1>10 DEF CompleteJob
  <2>2. PICK b \in AcceptedBids(k) : ratings' = [ratings EXCEPT ![k] = Append(@, bids[b].provider)]
    BY <1>10 DEF CompleteJob
  <2>3. AcceptedBids(j)' = AcceptedBids(j) /\ BidsOf(j)' = BidsOf(j)
    BY <2>1 DEF AcceptedBids, BidsOf, Rows
  <2>4. CASE j # k
    <3>1. ratings'[j] = ratings[j]
      BY <1>0, <2>2, <2>4 DEF TypeOK
    <3>. QED
      BY <1>0, <1>3, <2>1, <2>3, <2>4, <3>1 DEF TypeOK
  <2>5. CASE j = k
    <3>1. AcceptedBids(j) = {b}
      BY <1>1, <2>2, <2>5
    <3>2. ratings'[j] = Append(<<>>, bids[b].provider)
      BY <1>0, <1>10, <2>2, <2>5 DEF CompleteJob, TypeOK
    <3>3. bids'[b] = bids[b] /\ b \in AcceptedBids(j)'
      BY <2>1, <2>3, <3>1
    <3>4. jobs'[j] = "COMPLETED" /\ notices'[j] = notices[j]
      BY <1>0, <2>1, <2>5 DEF TypeOK
    <3>5. Rated(j)'
      BY <3>2, <3>3, <3>4 DEF Rated
    <3>. QED
      BY <1>1, <2>1, <2>3, <2>5, <3>1, <3>4, <3>5 DEF Open, Agreed
  <2>. QED
    BY <2>4, <2>5
<1>11. ASSUME NEW u \in Users, NEW k \in Jobs, NEW s \in DOMAIN Previous, UpdateJobStatus(u, k, s)
       PROVE  Good(j)'
  <2>1. /\ jobs[k] \in {"ACCEPTED", "EN_ROUTE"} /\ s \in {"EN_ROUTE", "IN_PROGRESS"}
        /\ jobs' = [jobs EXCEPT ![k] = s] /\ UNCHANGED <<bids, ratings, notices>>
    BY <1>11 DEF UpdateJobStatus, Previous
  <2>2. AcceptedBids(j)' = AcceptedBids(j) /\ BidsOf(j)' = BidsOf(j) /\ ratings'[j] = ratings[j]
    BY <2>1 DEF AcceptedBids, BidsOf, Rows
  <2>. QED
    BY <1>0, <1>1, <2>1, <2>2 DEF TypeOK, Open, Agreed, Rated
<1>12. ASSUME NEW u \in Users, NEW k \in Jobs, CancelJob(u, k) PROVE Good(j)'
  <2>1. /\ jobs[k] \notin {"NONE", "CANCELLED", "COMPLETED", "DISPUTED"}
        /\ jobs' = [jobs EXCEPT ![k] = "CANCELLED"] /\ notices' = [notices EXCEPT ![k] = @ + 1]
        /\ UNCHANGED <<bids, ratings>>
    BY <1>12 DEF CancelJob, Cancellable
  <2>2. AcceptedBids(j)' = AcceptedBids(j) /\ BidsOf(j)' = BidsOf(j) /\ ratings'[j] = ratings[j]
    BY <2>1 DEF AcceptedBids, BidsOf, Rows
  <2>. QED
    <3>1. jobs'[j] = IF j = k THEN "CANCELLED" ELSE jobs[j]
      BY <1>0, <2>1 DEF TypeOK
    <3>2. notices'[j] = IF j = k THEN 1 ELSE notices[j]
      BY <1>0, <1>1, <2>1 DEF TypeOK
    <3>. QED
      BY <1>1, <2>1, <2>2, <3>1, <3>2 DEF Open, Agreed, Rated
<1>13. CASE UNCHANGED vars
  <2>1. AcceptedBids(j)' = AcceptedBids(j) /\ BidsOf(j)' = BidsOf(j) /\ ratings'[j] = ratings[j]
    BY <1>13 DEF AcceptedBids, BidsOf, Rows, vars
  <2>. QED
    BY <1>3, <1>13, <2>1 DEF vars
<1>. QED
  BY <1>5, <1>6, <1>7, <1>8, <1>9, <1>10, <1>11, <1>12, <1>13 DEF Next, Acceptance, OtherCalls

\* However calls interleave, an agreed job has one accepted bid and no open
\* offer beside it, and a job that is not agreed has none.
THEOREM BookingCorrect == Spec => []OneAcceptedBid
<1>1. BookingInv => OneAcceptedBid
  BY DEF BookingInv
<1>. QED
  BY <1>1, BookingInvInit, BookingInvNext, PTL DEF Spec

\* However often completing is retried and whoever cancels meanwhile, a completed
\* job has one row in ratings, of its accepted provider, and any other job none.
THEOREM RatedOnce == Spec => []RatedOnceOnCompletion
<1>1. BookingInv => RatedOnceOnCompletion
  BY DEF BookingInv
<1>. QED
  BY <1>1, BookingInvInit, BookingInvNext, PTL DEF Spec

\* Customer and provider may both cancel, and again: the conversation gets one
\* JOB_CANCELLED notice.
THEOREM NoticeOnce == Spec => []OneCancelNotice
<1>1. BookingInv => OneCancelNotice
  BY DEF BookingInv
<1>. QED
  BY <1>1, BookingInvInit, BookingInvNext, PTL DEF Spec

-----------------------------------------------------------------------------
(* Refinement: the marketplace implements JobContract. *)

LEMMA SameContract ==
  ASSUME \A j \in Jobs : SameAccepted(j)
  PROVE  ContractOf' = ContractOf
<1>1. ASSUME NEW j \in Jobs PROVE ContractOf'[j] = ContractOf[j]
  <2> DEFINE b == CHOOSE x \in AcceptedBids(j) : TRUE
  <2>1. AcceptedBids(j)' = AcceptedBids(j)
    BY DEF SameAccepted
  <2>2. CASE AcceptedBids(j) = {}
    BY <2>1, <2>2 DEF ContractOf
  <2>3. CASE AcceptedBids(j) # {}
    <3>1. b \in AcceptedBids(j)
      BY <2>3
    <3>2. bids'[b] = bids[b]
      BY <3>1 DEF SameAccepted
    <3>3. ContractOf[j] = [provider |-> bids[b].provider, amount |-> bids[b].amount]
      BY <2>3, Zenon DEF ContractOf
    <3>4. ContractOf'[j] = [provider |-> bids'[b].provider, amount |-> bids'[b].amount]
      BY <2>1, <2>3, Zenon DEF ContractOf
    <3>. QED
      BY <3>2, <3>3, <3>4
  <2>. QED
    BY <2>2, <2>3
<1>. QED
  BY <1>1, Zenon DEF ContractOf

LEMMA ContractInit == Init => Contract!Init
<1> SUFFICES ASSUME Init PROVE Contract!Init
  OBVIOUS
<1>1. \A j \in Jobs : AcceptedBids(j) = {}
  BY DEF Init, AcceptedBids, BidsOf, Rows
<1>. QED
  BY <1>1 DEF Init, Contract!Init, ContractOf

LEMMA ContractNext == BookingInv /\ [Next]_vars => [Contract!Next]_(Contract!vars)
<1> SUFFICES ASSUME BookingInv, [Next]_vars PROVE [Contract!Next]_(Contract!vars)
  OBVIOUS
<1> USE DEF Contract!Open, Contract!Agreed, Contract!Status, Contract!Move, Open
<1>0. OfferInv /\ OneAcceptedBid /\ TypeOK
  BY DEF BookingInv, OfferInv
\* Steps that leave bids alone leave every agreement alone.
<1>1. bids' = bids => ContractOf' = ContractOf
  <2> SUFFICES ASSUME bids' = bids PROVE ContractOf' = ContractOf
    OBVIOUS
  <2>1. \A j \in Jobs : SameAccepted(j)
    BY DEF SameAccepted, AcceptedBids, BidsOf, Rows
  <2>. QED
    BY <2>1, SameContract
<1>2. ASSUME NEW k \in Jobs, PostJob(k) PROVE Contract!Post(k)
  BY <1>1, <1>2 DEF PostJob, Contract!Post
<1>3. ASSUME NEW p \in Providers, NEW k \in Jobs, NEW b \in Bids, NEW a \in Amounts, PlaceBid(p, k, b, a)
      PROVE  UNCHANGED Contract!vars
  BY <1>0, <1>3, PlaceBidKeeps, SameContract DEF PlaceBid, Contract!vars
<1>4. ASSUME NEW u \in Users, NEW k \in Jobs, NEW b \in Bids, RejectBid(u, k, b)
      PROVE  UNCHANGED Contract!vars
  BY <1>0, <1>4, RejectBidKeeps, SameContract DEF RejectBid, Contract!vars
<1>5. ASSUME NEW u \in Users, NEW b \in Bids, NEW a \in Amounts, CounterBid(u, b, a)
      PROVE  UNCHANGED Contract!vars
  BY <1>0, <1>5, CounterBidKeeps, SameContract DEF CounterBid, Contract!vars
<1>6. ASSUME NEW u \in Users, NEW k \in Jobs, NEW b \in Bids, AcceptBid(u, k, b) PROVE Contract!Agree(k)
  <2>1. /\ AcceptedBids(k)' = {b}
        /\ bids[b] \in BidRow /\ Price(bids[b]) \in Amounts /\ bids'[b] = Accepted(bids[b])
        /\ \A j \in Jobs \ {k} : SameAccepted(j)
    BY <1>0, <1>6, AcceptBidSelects
  <2> DEFINE d == [provider |-> bids'[b].provider, amount |-> bids'[b].amount]
  <2>2. d \in Contract!Deal
    BY <2>1, AcceptedFields DEF BidRow, Contract!Deal
  <2>3. ContractOf'[k] = d
    <3>1. (CHOOSE x \in {b} : TRUE) = b
      OBVIOUS
    <3>. QED
      BY <2>1, <3>1, Zenon DEF ContractOf
  <2>4. ASSUME NEW j \in Jobs \ {k} PROVE ContractOf'[j] = ContractOf[j]
    <3> DEFINE c == CHOOSE x \in AcceptedBids(j) : TRUE
    <3>1. AcceptedBids(j)' = AcceptedBids(j) /\ (AcceptedBids(j) # {} => c \in AcceptedBids(j) /\ bids'[c] = bids[c])
      BY <2>1 DEF SameAccepted
    <3>2. ContractOf[j] = IF AcceptedBids(j) = {} THEN None
                          ELSE [provider |-> bids[c].provider, amount |-> bids[c].amount]
      BY Zenon DEF ContractOf
    <3>3. ContractOf'[j] = IF AcceptedBids(j) = {} THEN None
                           ELSE [provider |-> bids'[c].provider, amount |-> bids'[c].amount]
      BY <3>1, Zenon DEF ContractOf
    <3>. QED
      BY <3>1, <3>2, <3>3
  <2>5. ContractOf' = [ContractOf EXCEPT ![k] = d]
    <3> HIDE DEF d
    <3>1. ContractOf = [j \in Jobs |-> ContractOf[j]] /\ ContractOf' = [j \in Jobs |-> ContractOf'[j]]
      BY DEF ContractOf
    <3> DEFINE f == ContractOf  g == ContractOf'
    <3>2. /\ f = [j \in Jobs |-> f[j]] /\ g = [j \in Jobs |-> g[j]]
          /\ g[k] = d /\ \A j \in Jobs \ {k} : g[j] = f[j]
      BY <2>3, <2>4, <3>1
    <3> HIDE DEF f, g
    <3>3. g = [f EXCEPT ![k] = d]
      BY <3>2
    <3>. QED
      BY <3>3 DEF f, g
  <2>. QED
    BY <1>6, <2>2, <2>5 DEF AcceptBid, Contract!Agree
<1>7. ASSUME NEW u \in Users, NEW k \in Jobs, CompleteJob(u, k) PROVE Contract!Advance(k)
  BY <1>1, <1>7 DEF CompleteJob, Contract!Advance
<1>8. ASSUME NEW u \in Users, NEW k \in Jobs, NEW s \in DOMAIN Previous, UpdateJobStatus(u, k, s)
      PROVE  Contract!Advance(k)
  <2>1. bids' = bids /\ jobs[k] = Previous[s] /\ jobs' = [jobs EXCEPT ![k] = s]
    BY <1>8 DEF UpdateJobStatus
  <2>2. \/ s = "EN_ROUTE" /\ jobs[k] = "ACCEPTED"
        \/ s = "IN_PROGRESS" /\ jobs[k] = "EN_ROUTE"
    BY <2>1 DEF Previous
  <2>. QED
    BY <1>1, <2>1, <2>2 DEF Contract!Advance
<1>9. ASSUME NEW u \in Users, NEW k \in Jobs, CancelJob(u, k) PROVE Contract!Cancel(k)
  BY <1>0, <1>1, <1>9 DEF CancelJob, Cancellable, Contract!Cancel, TypeOK, JobStatus, Agreed
<1>10. CASE UNCHANGED vars
  BY <1>1, <1>10 DEF vars, Contract!vars
<1>. QED
  BY <1>2, <1>3, <1>4, <1>5, <1>6, <1>7, <1>8, <1>9, <1>10 DEF Next, Acceptance, OtherCalls, Contract!Next

\* Every behaviour of the marketplace is one of JobContract: a provider and a
\* price are agreed at most once per job and never change afterwards.
THEOREM MarketplaceImplementsContract == Spec => ImplementsContract
<1>. QED
  BY BookingInvInit, BookingInvNext, ContractInit, ContractNext, PTL
  DEF Spec, Contract!Spec, ImplementsContract

-----------------------------------------------------------------------------
(* Refinement: who takes part in each job's chat is what Conversation says. *)

\* Nobody has bid on a job that does not exist, so posting it lets in its
\* customer only.
TalkInv == BookingInv /\ \A j \in Jobs : jobs[j] = "NONE" => BidsOf(j) = {}

TalkStep(j) == UNCHANGED Talk(j)!vars \/ Talk(j)!Next

\* Job j and its bids are left alone.
JobUntouched(j) == /\ jobs'[j] = jobs[j]
                   /\ BidsOf(j)' = BidsOf(j) /\ \A x \in BidsOf(j) : bids'[x] = bids[x]

LEMMA UntouchedTalk ==
  ASSUME NEW j \in Jobs, JobUntouched(j)
  PROVE  TalkStep(j)
<1>1. StageOf(j)' = StageOf(j)
  BY DEF JobUntouched, StageOf
<1>2. ParticipantsOf(j)' = ParticipantsOf(j)
  BY DEF JobUntouched, ParticipantsOf
<1>. QED
  BY <1>1, <1>2 DEF TalkStep, Talk!vars

\* The step is one about job k.
StepOn(k) ==
    \/ PostJob(k)
    \/ \E p \in Providers, b \in Bids, a \in Amounts : PlaceBid(p, k, b, a)
    \/ \E u \in Users, b \in Bids : RejectBid(u, k, b) \/ AcceptBid(u, k, b)
    \/ \E u \in Users, b \in Bids, a \in Amounts : CounterBid(u, b, a) /\ bids[b].job = k
    \/ \E u \in Users : CompleteJob(u, k) \/ CancelJob(u, k) \/ \E s \in DOMAIN Previous : UpdateJobStatus(u, k, s)

LEMMA EveryStep == BookingInv /\ Next => \E k \in Jobs : StepOn(k)
<1> SUFFICES ASSUME BookingInv, Next PROVE \E k \in Jobs : StepOn(k)
  OBVIOUS
<1>1. ASSUME NEW u \in Users, NEW b \in Bids, NEW a \in Amounts, CounterBid(u, b, a)
      PROVE  \E k \in Jobs : StepOn(k)
  <2>1. bids[b].job \in Jobs
    BY <1>1 DEF CounterBid, Rows, BookingInv, OfferInv, TypeOK, BidRow
  <2>. QED
    BY <1>1, <2>1 DEF StepOn
<1>2. CASE Acceptance
  BY <1>2 DEF Acceptance, StepOn
<1>3. CASE OtherCalls
  BY <1>1, <1>3 DEF OtherCalls, StepOn
<1>. QED
  BY <1>2, <1>3 DEF Next

LEMMA Elsewhere ==
  ASSUME BookingInv, NEW k \in Jobs, StepOn(k), NEW j \in Jobs \ {k}
  PROVE  JobUntouched(j)
<1>0. OfferInv /\ OneAcceptedBid /\ TypeOK
  BY DEF BookingInv, OfferInv
<1>1. CASE jobs' = [jobs EXCEPT ![k] = jobs'[k]] /\ bids' = bids
  BY <1>0, <1>1 DEF TypeOK, JobUntouched, BidsOf, Rows
<1>2. ASSUME NEW u \in Users, NEW b \in Bids, AcceptBid(u, k, b) PROVE JobUntouched(j)
  <2>1. BidsOf(j)' = BidsOf(j) /\ \A x \in BidsOf(j) : bids'[x] = bids[x]
    BY <1>0, <1>2, AcceptBidSelects
  <2>. QED
    BY <1>0, <1>2, <2>1 DEF AcceptBid, JobUntouched, TypeOK
<1>3. ASSUME NEW p \in Providers, NEW b \in Bids, NEW a \in Amounts, PlaceBid(p, k, b, a) PROVE JobUntouched(j)
  BY <1>0, <1>3, PlaceBidKeeps DEF PlaceBid, JobUntouched
<1>4. ASSUME NEW u \in Users, NEW b \in Bids, RejectBid(u, k, b) PROVE JobUntouched(j)
  BY <1>0, <1>4, RejectBidKeeps DEF RejectBid, JobUntouched
<1>5. ASSUME NEW u \in Users, NEW b \in Bids, NEW a \in Amounts, CounterBid(u, b, a), bids[b].job = k
      PROVE  JobUntouched(j)
  BY <1>0, <1>5, CounterBidKeeps DEF CounterBid, JobUntouched
<1>6. CASE PostJob(k) \/ \E u \in Users : CompleteJob(u, k) \/ CancelJob(u, k)
                                          \/ \E s \in DOMAIN Previous : UpdateJobStatus(u, k, s)
  <2>1. bids' = bids /\ \E st : jobs' = [jobs EXCEPT ![k] = st]
    BY <1>6 DEF PostJob, CompleteJob, CancelJob, UpdateJobStatus
  <2>. QED
    BY <1>0, <2>1 DEF TypeOK, JobUntouched, BidsOf, Rows
<1>. QED
  BY <1>2, <1>3, <1>4, <1>5, <1>6 DEF StepOn

LEMMA TalkInvNext == TalkInv /\ [Next]_vars => TalkInv'
<1> SUFFICES ASSUME TalkInv, [Next]_vars PROVE TalkInv'
  OBVIOUS
<1>1. BookingInv'
  BY BookingInvNext DEF TalkInv
<1>2. CASE UNCHANGED vars
  BY <1>1, <1>2 DEF TalkInv, vars, BidsOf, Rows
<1>3. ASSUME NEW k \in Jobs, StepOn(k) PROVE TalkInv'
  <2>1. jobs'[k] # "NONE"
    BY <1>3 DEF StepOn, PostJob, PlaceBid, RejectBid, AcceptBid, CounterBid, CompleteJob, CancelJob,
                UpdateJobStatus, Previous, Open, Cancellable, TalkInv, BookingInv, OfferInv, TypeOK
  <2>2. ASSUME NEW j \in Jobs, jobs'[j] = "NONE" PROVE BidsOf(j)' = {}
    BY <1>3, <2>1, <2>2, Elsewhere DEF TalkInv, JobUntouched
  <2>. QED
    BY <1>1, <2>2 DEF TalkInv
<1>. QED
  BY <1>2, <1>3, EveryStep DEF TalkInv

\* The providers with an offer that still stands, or was accepted.
Seated(j) == {bids[b].provider : b \in {x \in BidsOf(j) : bids[x].status \in {"PENDING", "COUNTERED", "ACCEPTED"}}}

LEMMA Stage ==
  ASSUME NEW j \in Jobs
  PROVE  /\ jobs[j] = "NONE" => StageOf(j) = "none" /\ ParticipantsOf(j) = {}
         /\ jobs[j] # "NONE" => ParticipantsOf(j) = {Owner[j]} \union Seated(j)
         /\ jobs[j] \in Open => StageOf(j) = "open"
         /\ jobs[j] \in Agreed => StageOf(j) = "agreed"
         /\ jobs[j] = "CANCELLED" => StageOf(j) = "cancelled"
  BY DEF StageOf, ParticipantsOf, Seated, Open, Agreed

LEMMA TalkMoves ==
  ASSUME TalkInv, NEW k \in Jobs, StepOn(k)
  PROVE  TalkStep(k)
<1> USE DEF Open, Agreed
<1> DEFINE stage == StageOf(k)  members == ParticipantsOf(k)
<1>0. OfferInv /\ OneAcceptedBid /\ TypeOK
  BY DEF TalkInv, BookingInv, OfferInv
<1>1. bids' = bids => Seated(k)' = Seated(k)
  BY DEF Seated, BidsOf, Rows
<1>2. CASE PostJob(k)
  <2>1. jobs[k] = "NONE" /\ jobs'[k] = "PUBLISHED" /\ Seated(k) = {} /\ bids' = bids
    BY <1>0, <1>2 DEF PostJob, TypeOK, TalkInv, Seated
  <2>2. stage = "none" /\ stage' = "open" /\ members' = {Owner[k]}
    BY <1>1, <2>1, Stage DEF StageOf, ParticipantsOf, Seated
  <2>. QED
    BY <2>2 DEF TalkStep, Talk!Next, Talk!Post, Talk!Begun
<1>3. ASSUME NEW p \in Providers, NEW b \in Bids, NEW a \in Amounts, PlaceBid(p, k, b, a) PROVE TalkStep(k)
  <2>1. jobs[k] \in Open /\ jobs' = jobs
    BY <1>3 DEF PlaceBid
  <2>2. BidsOf(k)' = BidsOf(k) \union {b} /\ b \notin BidsOf(k) /\ \A x \in BidsOf(k) : bids'[x] = bids[x]
    BY <1>0, <1>3, NoneAssumption DEF PlaceBid, BidsOf, Rows, TypeOK, BidRow
  <2>3. bids'[b].provider = p /\ bids'[b].status = "PENDING"
    BY <1>0, <1>3 DEF PlaceBid, TypeOK
  <2>4. Seated(k)' = Seated(k) \union {p}
    BY <2>2, <2>3 DEF Seated
  <2>5. stage = "open" /\ stage' = stage /\ members' = members \union {p}
    BY <2>1, <2>4, Stage DEF StageOf, ParticipantsOf, Seated
  <2>. QED
    BY <2>5 DEF TalkStep, Talk!Next, Talk!Bidders, Talk!Join
<1>4. ASSUME NEW u \in Users, NEW b \in Bids, RejectBid(u, k, b) PROVE TalkStep(k)
  <2> DEFINE p == bids[b].provider
  <2>1. jobs[k] \in Open /\ jobs' = jobs /\ b \in BidsOf(k) /\ bids[b] \in BidRow
    BY <1>0, <1>4 DEF RejectBid, BidsOf, Rows, TypeOK
  <2>2. p \in Providers /\ p # Owner[k]
    BY <1>0, <2>1 DEF OfferInv, OfferIsNamed, BidsOf, BidRow
  <2>3. /\ bids'[b] = Rejected(bids[b]) /\ bids'[b] \in BidRow
        /\ bids'[b].status = "REJECTED" /\ bids'[b].job = k
        /\ \A x \in Bids \ {b} : bids'[x] = bids[x]
    BY <1>0, <1>4, <2>1, RejectedFields DEF RejectBid, TypeOK, BidsOf
  <2>4. BidsOf(k)' = BidsOf(k)
    BY <2>1, <2>3, NoneAssumption DEF BidsOf, Rows
  <2>5. Seated(k)' \subseteq Seated(k) /\ Seated(k) \subseteq Seated(k)' \union {p}
    BY <2>3, <2>4 DEF Seated, BidsOf, Rows
  <2>6. stage = "open" /\ stage' = stage
    BY <2>1, Stage DEF StageOf
  <2>7. members = {Owner[k]} \union Seated(k) /\ members' = {Owner[k]} \union Seated(k)'
    BY <2>1, Stage DEF ParticipantsOf, Seated
  <2>8. CASE p \in Seated(k)'
    BY <2>5, <2>6, <2>7, <2>8 DEF TalkStep, Talk!vars
  <2>9. CASE p \notin Seated(k)'
    <3>1. members' = members \ {p}
      BY <2>2, <2>5, <2>7, <2>9
    <3>. QED
      BY <2>2, <2>6, <3>1 DEF TalkStep, Talk!Next, Talk!Bidders, Talk!Leave
  <2>. QED
    BY <2>8, <2>9
<1>5. ASSUME NEW u \in Users, NEW b \in Bids, AcceptBid(u, k, b) PROVE TalkStep(k)
  <2> DEFINE p == bids[b].provider
  <2>1. /\ AcceptedBids(k)' = {b} /\ bids[b] \in BidRow /\ bids'[b] = Accepted(bids[b])
        /\ Price(bids[b]) \in Amounts
        /\ \A x \in BidsOf(k)' : bids'[x].status \in {"ACCEPTED", "REJECTED"}
    BY <1>0, <1>5, AcceptBidSelects
  <2>2. bids'[b].provider = p /\ p \in Providers
    BY <2>1, AcceptedFields DEF BidRow
  <2>3. Seated(k)' = {p}
    BY <2>1, <2>2 DEF Seated, AcceptedBids
  <2>4. p \in Seated(k)
    BY <1>5 DEF AcceptBid, Acceptable, Seated
  <2>5. jobs[k] \in Open /\ jobs'[k] = "ACCEPTED"
    BY <1>0, <1>5 DEF AcceptBid, TypeOK
  <2>6. stage = "open" /\ stage' = "agreed" /\ p \in members /\ members' = {Owner[k]} \union {p}
    BY <2>3, <2>4, <2>5, Stage DEF StageOf, ParticipantsOf, Seated
  <2>. QED
    BY <2>2, <2>6 DEF TalkStep, Talk!Next, Talk!Bidders, Talk!Agree
<1>6. ASSUME NEW u \in Users, NEW b \in Bids, NEW a \in Amounts, CounterBid(u, b, a), bids[b].job = k
      PROVE  TalkStep(k)
  <2>1. jobs[k] \in Open /\ jobs' = jobs /\ b \in BidsOf(k) /\ bids[b] \in BidRow
        /\ bids[b].status \in {"PENDING", "COUNTERED"} /\ Price(bids[b]) \in Amounts
    BY <1>0, <1>6 DEF CounterBid, BidsOf, Rows, TypeOK, OfferInv, OfferIsNamed, Price, BidRow
  <2>2. /\ bids'[b] = Countered(bids[b], u, a) /\ bids'[b] \in BidRow
        /\ bids'[b].status = "COUNTERED" /\ bids'[b].job = k /\ bids'[b].provider = bids[b].provider
        /\ \A x \in Bids \ {b} : bids'[x] = bids[x]
    BY <1>0, <1>6, <2>1, CounteredFields DEF CounterBid, TypeOK, BidsOf
  <2>3. BidsOf(k)' = BidsOf(k)
    BY <2>1, <2>2, NoneAssumption DEF BidsOf, Rows
  <2>4. Seated(k)' = Seated(k)
    BY <2>1, <2>2, <2>3 DEF Seated, BidsOf, Rows
  <2>5. stage' = stage /\ members' = members
    BY <2>1, <2>4, Stage DEF StageOf, ParticipantsOf, Seated
  <2>. QED
    BY <2>5 DEF TalkStep, Talk!vars
<1>7. ASSUME NEW u \in Users, CompleteJob(u, k) \/ \E s \in DOMAIN Previous : UpdateJobStatus(u, k, s)
      PROVE  TalkStep(k)
  <2>1. jobs[k] \in Agreed /\ jobs'[k] \in Agreed /\ bids' = bids
    BY <1>0, <1>7 DEF CompleteJob, UpdateJobStatus, Previous, TypeOK
  <2>2. stage' = stage /\ members' = members
    BY <1>1, <2>1, Stage DEF StageOf, ParticipantsOf, Seated
  <2>. QED
    BY <2>2 DEF TalkStep, Talk!vars
<1>8. ASSUME NEW u \in Users, CancelJob(u, k) PROVE TalkStep(k)
  <2>1. jobs[k] \in Open \union Agreed /\ jobs'[k] = "CANCELLED" /\ bids' = bids
    BY <1>0, <1>8 DEF CancelJob, Cancellable, JobStatus, TypeOK
  <2>2. stage \in {"open", "agreed"} /\ stage' = "cancelled" /\ members' = members
    BY <1>1, <2>1, Stage DEF StageOf, ParticipantsOf, Seated
  <2>. QED
    BY <2>2 DEF TalkStep, Talk!Next, Talk!Cancel
<1>. QED
  BY <1>2, <1>3, <1>4, <1>5, <1>6, <1>7, <1>8 DEF StepOn

\* The chat's right to read and write follows the marketplace: an agreement
\* leaves its two parties alone with each other for good (chat_repo.go:53-58).
THEOREM ChatFollowsMarket == Spec => ImplementsConversation
<1>1. Init => TalkInv /\ \A j \in Jobs : Talk(j)!Init
  <2> SUFFICES ASSUME Init PROVE TalkInv /\ \A j \in Jobs : Talk(j)!Init
    OBVIOUS
  <2>1. \A j \in Jobs : jobs[j] = "NONE" /\ BidsOf(j) = {}
    BY DEF Init, BidsOf, Rows
  <2>. QED
    BY <2>1, BookingInvInit, Stage DEF TalkInv, Talk!Init
<1>2. TalkInv /\ [Next]_vars => \A j \in Jobs : TalkStep(j)
  <2> SUFFICES ASSUME TalkInv, [Next]_vars, NEW j \in Jobs PROVE TalkStep(j)
    OBVIOUS
  <2>1. CASE UNCHANGED vars
    BY <2>1, UntouchedTalk DEF vars, JobUntouched, BidsOf, Rows
  <2>2. ASSUME NEW k \in Jobs, StepOn(k) PROVE TalkStep(j)
    BY <2>2, TalkMoves, Elsewhere, UntouchedTalk DEF TalkInv
  <2>. QED
    BY <2>1, <2>2, EveryStep DEF TalkInv
<1>. QED
  BY <1>1, <1>2, TalkInvNext, PTL DEF Spec, ImplementsConversation, TalkStep

-----------------------------------------------------------------------------

\* A rejected offer is never revived and an accepted one never changes again.
\* That an acceptance rejects every other bid of the job, accepted ones too, is
\* harmless only because an open job has no accepted bid.
THEOREM SettledBidsStay == Spec => SettledBidsStaySettled
<1> DEFINE Stays(b) == /\ bids[b].status = "REJECTED" => bids'[b].status = "REJECTED"
                       /\ bids[b].status = "ACCEPTED" => bids'[b] = bids[b]
<1>1. BookingInv /\ [Next]_vars => \A b \in Rows : Stays(b)
  <2> SUFFICES ASSUME BookingInv, [Next]_vars, NEW b \in Rows PROVE Stays(b)
    OBVIOUS
  <2>0. /\ TypeOK /\ OneAcceptedBid
        /\ b \in Bids /\ bids[b] \in BidRow
    BY DEF BookingInv, OfferInv, TypeOK, Rows
  <2>1. bids'[b] = bids[b] => Stays(b)
    OBVIOUS
  <2>2. ASSUME NEW u \in Users, NEW j \in Jobs, NEW c \in Bids, AcceptBid(u, j, c) PROVE Stays(b)
    <3>1. AcceptedBids(j) = {} /\ c \in BidsOf(j)
      BY <2>0, <2>2 DEF AcceptBid, Acceptable, OneAcceptedBid
    <3>2. CASE b \notin BidsOf(j)
      BY <2>0, <2>1, <2>2, <3>1, <3>2 DEF AcceptBid
    <3>3. CASE b = c
      BY <2>2, <3>3 DEF AcceptBid, Acceptable
    <3>4. CASE b \in BidsOf(j) /\ b # c
      <4>1. bids'[b] = Rejected(bids[b])
        BY <2>0, <2>2, <3>4 DEF AcceptBid
      <4>2. bids[b].status # "ACCEPTED"
        BY <3>1, <3>4 DEF AcceptedBids
      <4>. QED
        BY <2>0, <4>1, <4>2, RejectedFields
    <3>. QED
      BY <3>2, <3>3, <3>4
  <2>3. ASSUME NEW j \in Jobs, PostJob(j) PROVE Stays(b)
    BY <2>1, <2>3 DEF PostJob
  <2>4. ASSUME NEW p \in Providers, NEW j \in Jobs, NEW c \in Bids, NEW a \in Amounts, PlaceBid(p, j, c, a)
        PROVE Stays(b)
    BY <2>0, <2>1, <2>4 DEF PlaceBid, TypeOK, Rows
  <2>5. ASSUME NEW u \in Users, NEW j \in Jobs, NEW c \in Bids, RejectBid(u, j, c) PROVE Stays(b)
    BY <2>0, <2>1, <2>5 DEF RejectBid, TypeOK
  <2>6. ASSUME NEW u \in Users, NEW c \in Bids, NEW a \in Amounts, CounterBid(u, c, a) PROVE Stays(b)
    BY <2>0, <2>1, <2>6 DEF CounterBid, TypeOK
  <2>7. ASSUME NEW u \in Users, NEW j \in Jobs,
               CompleteJob(u, j) \/ CancelJob(u, j) \/ \E s \in DOMAIN Previous : UpdateJobStatus(u, j, s)
        PROVE Stays(b)
    BY <2>1, <2>7 DEF CompleteJob, CancelJob, UpdateJobStatus
  <2>8. CASE UNCHANGED vars
    BY <2>1, <2>8 DEF vars
  <2>. QED
    BY <2>2, <2>3, <2>4, <2>5, <2>6, <2>7, <2>8 DEF Next, Acceptance, OtherCalls
<1>. QED
  BY <1>1, BookingInvInit, BookingInvNext, PTL DEF Spec, SettledBidsStaySettled

-----------------------------------------------------------------------------
(* The Review Bids screen: what may have happened to a row since it was      *)
(* listed.                                                                   *)

\* A bid that still waits for its first answer is as the screen listed it:
\* no operation makes a bid pending again, and none but PlaceBid writes a
\* pending one.
ReviewInv == /\ TypeOK
             /\ \A b \in Bids : screen[b] # None =>
                    b \in Rows /\ (bids[b].status = "PENDING" => screen[b] = bids[b])

\* An operation of the marketplace takes no listed row back to PENDING.
LEMMA PendingIsUntouched ==
  ASSUME OfferInv, Next \/ UNCHANGED vars, NEW b \in Rows
  PROVE  b \in Rows' /\ (bids'[b].status = "PENDING" => bids'[b] = bids[b])
<1> DEFINE Untouched == b \in Rows' /\ (bids'[b].status = "PENDING" => bids'[b] = bids[b])
<1>row. /\ bids \in [Bids -> BidRow \union {None}]
        /\ b \in Bids /\ bids[b] \in BidRow
  BY DEF OfferInv, TypeOK, Rows
<1>same. ASSUME bids'[b] = bids[b] PROVE Untouched
  BY <1>row, <1>same, NoneAssumption DEF Rows
<1>moved. ASSUME bids'[b] \in BidRow, bids'[b].status # "PENDING" PROVE Untouched
  BY <1>row, <1>moved, NoneAssumption DEF Rows
<1>price. bids[b].status \in {"PENDING", "COUNTERED"} => Price(bids[b]) \in Amounts
  BY <1>row DEF OfferInv, OfferIsNamed, Price, BidRow
<1>1. ASSUME NEW u \in Users, NEW j \in Jobs, NEW c \in Bids, AcceptBid(u, j, c) PROVE Untouched
  <2>1. bids'[b] = IF b = c THEN Accepted(bids[b])
                   ELSE IF b \in BidsOf(j) THEN Rejected(bids[b]) ELSE bids[b]
    BY <1>row, <1>1 DEF AcceptBid
  <2>2. CASE b = c
    BY <1>row, <1>moved, <1>price, <1>1, <2>1, <2>2, AcceptedFields DEF AcceptBid, Acceptable
  <2>3. CASE b # c /\ b \in BidsOf(j)
    BY <1>row, <1>moved, <2>1, <2>3, RejectedFields
  <2>4. CASE b # c /\ b \notin BidsOf(j)
    BY <1>same, <2>1, <2>4
  <2>. QED
    BY <2>2, <2>3, <2>4
<1>2. ASSUME NEW p \in Providers, NEW j \in Jobs, NEW c \in Bids, NEW a \in Amounts, PlaceBid(p, j, c, a)
      PROVE  Untouched
  <2>1. b # c
    BY <1>2 DEF PlaceBid, Rows
  <2>. QED
    BY <1>row, <1>same, <1>2, <2>1 DEF PlaceBid
<1>3. ASSUME NEW u \in Users, NEW j \in Jobs, NEW c \in Bids, RejectBid(u, j, c) PROVE Untouched
  <2>1. bids'[b] = IF b = c THEN Rejected(bids[b]) ELSE bids[b]
    BY <1>row, <1>3 DEF RejectBid
  <2>. QED
    BY <1>row, <1>same, <1>moved, <2>1, RejectedFields
<1>4. ASSUME NEW u \in Users, NEW c \in Bids, NEW a \in Amounts, CounterBid(u, c, a) PROVE Untouched
  <2>1. bids'[b] = IF b = c THEN Countered(bids[b], u, a) ELSE bids[b]
    BY <1>row, <1>4 DEF CounterBid
  <2>2. CASE b = c
    BY <1>row, <1>moved, <1>price, <1>4, <2>1, <2>2, CounteredFields DEF CounterBid
  <2>. QED
    BY <1>same, <2>1, <2>2
<1>5. ASSUME bids' = bids PROVE Untouched
  BY <1>same, <1>5
<1>. QED
  BY <1>1, <1>2, <1>3, <1>4, <1>5
  DEF Next, Acceptance, OtherCalls, PostJob, CompleteJob, UpdateJobStatus, CancelJob, vars

\* The screen adds no operation of its own to the marketplace.
LEMMA ScreenStep == ASSUME [RNext]_rvars PROVE Next \/ UNCHANGED vars
<1>1. ASSUME NEW j \in Jobs, NEW b \in Bids, TapAccept(j, b) PROVE Next
  BY <1>1, OwnerAssumption DEF TapAccept, Next, Acceptance, Users
<1>. QED
  BY <1>1 DEF RNext, ListBids, Next, rvars, vars

LEMMA ReviewInvInit == RInit => ReviewInv
  BY OfferInvInit DEF RInit, ReviewInv, OfferInv

LEMMA ReviewInvNext ==
  ASSUME OfferInv, ReviewInv, [RNext]_rvars PROVE ReviewInv'
<1>1. Next \/ UNCHANGED vars
  BY ScreenStep
<1>2. TypeOK'
  BY <1>1, OfferInvNext DEF OfferInv
<1>3. ASSUME NEW b \in Bids, screen'[b] # None
      PROVE  b \in Rows' /\ (bids'[b].status = "PENDING" => screen'[b] = bids'[b])
  <2>1. CASE screen' = screen
    BY <1>1, <1>3, <2>1, PendingIsUntouched DEF ReviewInv
  <2>2. ASSUME NEW j \in Jobs, ListBids(j)
        PROVE  b \in Rows' /\ (bids'[b].status = "PENDING" => screen'[b] = bids'[b])
    BY <1>3, <2>2 DEF ListBids, Listing, BidsOf, Rows, vars
  <2>. QED
    BY <2>1, <2>2 DEF RNext, TapAccept, rvars
<1>. QED
  BY <1>2, <1>3 DEF ReviewInv

\* A customer who accepts from a stale list can only be surprised by a counter
\* of the provider's: their own counter, or a price nobody named, is never what
\* an acceptance fixes.
THEOREM StaleScreenIsHarmless == RSpec => UnseenPriceIsProvidersCounter
<1> DEFINE Inv == OfferInv /\ ReviewInv
           Fair(j, b) == TapAccept(j, b) =>
               \/ bids'[b].amount = Price(screen[b])
               \/ bids[b].status = "COUNTERED" /\ bids[b].counterBy = bids[b].provider
<1>1. RInit => Inv
  BY OfferInvInit, ReviewInvInit DEF RInit
<1>2. Inv /\ [RNext]_rvars => Inv'
  BY ScreenStep, OfferInvNext, ReviewInvNext
<1>3. Inv /\ [RNext]_rvars => [\A j \in Jobs, b \in Bids : Fair(j, b)]_rvars
  <2> SUFFICES ASSUME Inv, NEW j \in Jobs, NEW b \in Bids, TapAccept(j, b)
               PROVE  \/ bids'[b].amount = Price(screen[b])
                      \/ bids[b].status = "COUNTERED" /\ bids[b].counterBy = bids[b].provider
    BY DEF rvars
  <2>1. /\ b \in Rows /\ bids[b] \in BidRow /\ screen[b] # None
        /\ bids[b].job = j /\ Acceptable(Owner[j], j, b)
    BY DEF TapAccept, Shown, AcceptBid, Acceptable, BidsOf, Rows, OfferInv, TypeOK
  <2>2. bids'[b].amount = Price(bids[b])
    BY <2>1 DEF TapAccept, AcceptBid, Accepted, BidRow
  <2>3. CASE bids[b].status = "PENDING"
    BY <2>1, <2>2, <2>3 DEF ReviewInv
  <2>4. CASE bids[b].status = "COUNTERED" /\ bids[b].counterBy # Owner[j]
    BY <2>1, <2>4 DEF OfferInv, OfferIsNamed
  <2>. QED
    BY <2>1, <2>3, <2>4 DEF Acceptable
<1>. QED
  BY <1>1, <1>2, <1>3, PTL DEF RSpec, UnseenPriceIsProvidersCounter
=============================================================================
