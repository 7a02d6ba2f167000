---------------------------- MODULE BookingProofs ----------------------------
(***************************************************************************)
(* Proofs about Booking, from the theorems of its two components.  That    *)
(* Bidding implements JobContract and Escrow is proved over JobContract    *)
(* gives the payment service's results over the real marketplace; what     *)
(* relates the tables of both sides needs the invariants of both.          *)
(***************************************************************************)
EXTENDS Booking, TLAPS

\* The assumptions of the two components, as Booking instantiates them.
LEMMA MarketAssumptions ==
  /\ Amounts \subseteq Nat \ {0}
  /\ [j \in {Job} |-> Customer] \in [{Job} -> {Customer}]
  /\ None \notin Market!Users \union Amounts \union Market!BidRow
  /\ None \notin [provider : Providers, amount : Amounts]
  BY AmountsAssumption, NoneAssumption DEF Market!Users

LEMMA PaymentAssumptions ==
  None \notin Keys \union Sessions \union Payment!Verbs \union Payment!Row \union Payment!Money
                   \union [provider : Providers, amount : Amounts]
  BY NoneAssumption

-----------------------------------------------------------------------------
(* The marketplace's part of a behaviour is one of Bidding. *)

LEMMA MarketNext == [Next]_vars => [Market!Next]_(Market!vars)
  BY DEF Next, MarketStep, PaymentStep, vars, marketVars, Market!vars

LEMMA MarketInvHolds == Spec => []Market!BookingInv
<1>1. Init => Market!BookingInv
  BY MarketAssumptions, Market!BookingInvInit DEF Init
<1>2. Market!BookingInv /\ [Next]_vars => Market!BookingInv'
  BY MarketAssumptions, MarketNext, Market!BookingInvNext
<1>. QED
  BY <1>1, <1>2, PTL DEF Spec

-----------------------------------------------------------------------------
(* The payment's part is one of Escrow. *)

\* JobContract as the marketplace implements it and as Escrow uses it.
LEMMA SameContracts ==
  Market!Contract!Next => Payment!Market!Next
  BY DEF Market!Contract!Next, Market!Contract!Post, Market!Contract!Agree, Market!Contract!Advance,
         Market!Contract!Cancel, Market!Contract!Move, Market!Contract!Open, Market!Contract!Agreed,
         Market!Contract!Status, Market!Contract!Deal,
         Payment!Market!Next, Payment!Market!Post, Payment!Market!Agree, Payment!Market!Advance,
         Payment!Market!Cancel, Payment!Market!Move, Payment!Market!Open, Payment!Market!Agreed,
         Payment!Market!Status, Payment!Market!Deal

LEMMA PaymentNext == Market!BookingInv /\ [Next]_vars => [Payment!Next]_(Payment!vars)
<1> SUFFICES ASSUME Market!BookingInv, [Next]_vars PROVE [Payment!Next]_(Payment!vars)
  OBVIOUS
<1>1. CASE MarketStep
  <2>1. [Market!Contract!Next]_(Market!Contract!vars)
    BY <1>1, MarketAssumptions, Market!ContractNext DEF MarketStep
  <2>2. CASE Market!Contract!Next
    BY <1>1, <2>2, SameContracts
    DEF MarketStep, paymentVars, Payment!MarketStep, Payment!Next, Payment!stripeVars
  <2>3. CASE UNCHANGED Market!Contract!vars
    BY <1>1, <2>3 DEF MarketStep, paymentVars, Market!Contract!vars, Payment!vars
  <2>. QED
    BY <2>1, <2>2, <2>3
<1>2. CASE PaymentStep
  BY <1>2 DEF PaymentStep, Payment!Next
<1>3. CASE UNCHANGED vars
  <2>1. UNCHANGED Market!ContractOf
    BY <1>3 DEF vars, marketVars, Market!ContractOf, Market!AcceptedBids, Market!BidsOf, Market!Rows
  <2>. QED
    BY <1>3, <2>1 DEF vars, marketVars, paymentVars, Payment!vars
<1>. QED
  BY <1>1, <1>2, <1>3 DEF Next

\* Whatever is proved of Escrow over the contract holds over the marketplace.
THEOREM BookingImplementsEscrow == Spec => ImplementsEscrow
<1>1. Init => Payment!Init
  BY DEF Init
<1>. QED
  BY <1>1, PaymentNext, MarketInvHolds, PTL DEF Spec, ImplementsEscrow, Payment!Spec

\* With the real marketplace under it too, the escrow charges once, writes the
\* truth and keeps its promise.
THEOREM BookingIsSafe == Spec => PaymentIsSafe
<1>1. ImplementsEscrow => Payment!KeepsPromise /\ []Payment!OneLiveCharge /\ []Payment!LedgerTruth
  BY PaymentAssumptions, Payment!EscrowKeepsPromise, Payment!ChargedOnce, Payment!LedgerIsTrue DEF ImplementsEscrow
<1>. QED
  BY <1>1, BookingImplementsEscrow, PTL DEF PaymentIsSafe

-----------------------------------------------------------------------------
(* Money that was taken, from the invariants of both sides. *)

\* A job posted here has no payment of before checkout.
BothInv == Market!BookingInv /\ Payment!EscrowInv /\ Payment!PaidInv

LEMMA BothInvHolds == Spec => []BothInv
<1>1. Init => Payment!PaidInv /\ Payment!EscrowInv
  <2> SUFFICES ASSUME Init PROVE Payment!PaidInv /\ Payment!EscrowInv
    OBVIOUS
  <2>1. jobs[Job] = "NONE"
    BY DEF Init, Market!Init
  <2>2. ~Payment!LegacyJob
    BY <2>1 DEF Payment!LegacyJob, Payment!Market!Agreed
  <2>3. Payment!PaidInv
    BY <2>2 DEF Init, Payment!Init, Payment!NewJob, Payment!Blank, Payment!PaidInv
  <2>. QED
    BY <2>3, PaymentAssumptions, Payment!EscrowInvInit DEF Init
<1>2. Market!BookingInv /\ Payment!EscrowInv /\ Payment!PaidInv /\ [Next]_vars
         => Payment!EscrowInv' /\ Payment!PaidInv'
  BY PaymentAssumptions, PaymentNext, Payment!EscrowInvNext, Payment!PaidInvNext
<1>. QED
  BY <1>1, <1>2, MarketInvHolds, PTL DEF Spec, BothInv

\* What the payment service reads through its join is the one accepted bid.
LEMMA AgreementIsBid ==
  ASSUME Market!BookingInv, Market!ContractOf[Job] # None
  PROVE  \E b \in Market!AcceptedBids(Job) :
            /\ Market!ContractOf[Job].amount = proposed[b]
            /\ jobs[Job] = "COMPLETED" => ratings[Job] = <<bids[b].provider>>
<1> DEFINE A == Market!AcceptedBids(Job)
<1>1. A # {}
  BY DEF Market!ContractOf
<1> DEFINE b == CHOOSE x \in A : TRUE
<1>2. b \in A /\ Market!ContractOf[Job] = [provider |-> bids[b].provider, amount |-> bids[b].amount]
  BY <1>1 DEF Market!ContractOf
<1>3. Market!ContractOf[Job].amount = bids[b].amount
  BY <1>2
<1>4. bids[b].amount = proposed[b]
  BY <1>2 DEF Market!BookingInv, Market!OfferInv, Market!AgreedPriceIsProviders, Market!AcceptedBids, Market!BidsOf
<1>5. A = {b}
  BY <1>2 DEF Market!BookingInv, Market!OneAcceptedBid
<1>6. ASSUME jobs[Job] = "COMPLETED" PROVE ratings[Job] = <<bids[b].provider>>
  <2>1. \E c \in A : ratings[Job] = <<bids[c].provider>>
    BY <1>6 DEF Market!BookingInv, Market!RatedOnceOnCompletion
  <2>. QED
    BY <1>5, <2>1
<1>. QED
  BY <1>2, <1>3, <1>4, <1>6

\* What a provider is paid: once, for completed and rated work, at the price
\* that provider named last, whatever either side retried.
THEOREM PaymentAsAgreed == Spec => []PaidAsAgreed
<1>1. BothInv => PaidAsAgreed
  <2> SUFFICES ASSUME BothInv, NEW s \in Sessions, sess[s].intent = "captured"
               PROVE  /\ jobs[Job] = "COMPLETED"
                      /\ \E b \in Market!AcceptedBids(Job) :
                            /\ sess[s].money = [amount |-> proposed[b], currency |-> "PHP"]
                            /\ ratings[Job] = <<bids[b].provider>>
                      /\ \A t \in Sessions \ {s} : sess[t].intent \notin {"authorized", "captured", "refunded"}
    BY DEF PaidAsAgreed
  <2>1. jobs[Job] = "COMPLETED" /\ sess[s].state # "bare"
    BY DEF BothInv, Payment!PaidInv
  <2>2. s \in known
    BY <2>1 DEF BothInv, Payment!EscrowInv, Payment!SessionInv, Payment!SessionOK, Payment!Live
  <2>3. /\ Market!ContractOf[Job] # None
        /\ sess[s].money = [amount |-> Market!ContractOf[Job].amount, currency |-> "PHP"]
    BY <2>2, PaymentAssumptions, Payment!KnownAskPrice DEF BothInv
  <2>4. \E b \in Market!AcceptedBids(Job) :
           /\ Market!ContractOf[Job].amount = proposed[b]
           /\ ratings[Job] = <<bids[b].provider>>
    BY <2>1, <2>3, AgreementIsBid DEF BothInv
  <2>5. Payment!OneLiveCharge
    BY PaymentAssumptions, Payment!OneCharge DEF BothInv
  <2>6. ASSUME NEW t \in Sessions \ {s} PROVE sess[t].intent \notin {"authorized", "captured", "refunded"}
    BY <2>5 DEF Payment!OneLiveCharge, Payment!Charged
  <2>. QED
    BY <2>1, <2>3, <2>4, <2>6
<1>. QED
  BY <1>1, BothInvHolds, PTL

\* Captured money stays where it is: no cancellation can reach a completed job
\* in front of a refund that was already decided.
THEOREM PaymentIsFinal == Spec => PaidIsFinal
<1>1. BothInv /\ [Next]_vars => \A s \in Sessions : sess[s].intent = "captured" => sess'[s] = sess[s]
  <2> SUFFICES ASSUME BothInv, [Next]_vars, NEW s \in Sessions, sess[s].intent = "captured"
               PROVE  sess'[s] = sess[s]
    OBVIOUS
  <2>1. jobs[Job] = "COMPLETED"
    BY DEF BothInv, Payment!PaidInv
  <2>2. [Payment!Next]_(Payment!vars)
    BY PaymentNext DEF BothInv
  <2>. QED
    BY <2>1, <2>2, PaymentAssumptions, Payment!Captures DEF BothInv
<1>. QED
  BY <1>1, BothInvHolds, PTL DEF Spec, PaidIsFinal
=============================================================================
