------------------------------- MODULE Escrow -------------------------------
(***************************************************************************)
(* The payment service for one job: the transactions row, the operations   *)
(* that hold the job's row lock while they talk to Stripe, and Stripe      *)
(* itself as far as the service uses it.  Rows, locks, idempotency keys    *)
(* and sessions belong to one job each, so one job shows all of it but the *)
(* order in which the reconciler visits jobs.  The marketplace is present  *)
(* through the contract it implements (JobContract).                       *)
(***************************************************************************)
EXTENDS Naturals

CONSTANTS Job, Providers, Amounts,
          Keys,       \* transaction ids, which are the idempotency keys
          Sessions,   \* Stripe's checkout sessions and payment intents
          None        \* SQL NULL, the empty string, "no request"

VARIABLES status, contract,  \* the job, see JobContract
          method,      \* jobs.payment_method
          row,         \* the committed row of transactions, None before it exists
          old,         \* the row is more than 23 hours old
          op,          \* the operation that holds the job's row lock
          listed,      \* the job is in the batch the reconciler is working through
          net,         \* requests to Stripe that may still be executed
          sess,        \* Stripe: every session with its payment intent
          remembered,  \* Stripe: the session each idempotency key stands for
          known,       \* the sessions whose URL the customer was given
          keysSent     \* history: keys used to ask for a session

Market == INSTANCE JobContract WITH Jobs <- {Job}, NoContract <- None

marketVars == <<status, contract>>
stripeVars == <<sess, remembered>>
vars == <<status, contract, method, row, old, op, listed, net, sess, remembered, known, keysSent>>

Money    == [amount : Amounts, currency : {"PHP", "USD"}]
TxStatus == {"PENDING", "HELD", "RELEASED", "REFUNDED", "EXPIRED"}

Row == [key : Keys, money : Money, status : TxStatus,
        checkout : Sessions \union {None},    \* checkout_session_id
        intent   : Sessions \union {None}]    \* stripe_intent_id, named by its session

\* A "bare" intent was created before checkout sessions existed; the code then
\* addresses it as the checkout "intent:<id>".  "unpaid" stands for every
\* status of an intent before its authorization.  lapsed is a history: the
\* session or the hold ran out, and no call of the service ended it.  Stripe's
\* status is the same, and the code never asks for the reason.
Session == [state  : {"none", "bare", "open", "complete", "expired"},
            intent : {"none", "unpaid", "authorized", "captured", "canceled", "refunded"},
            money  : Money \union {None},
            lapsed : BOOLEAN]

Verbs   == {"create", "capture", "expire", "cancel", "refund"}
Request == [verb : Verbs, key : Keys, money : Money, session : Sessions \union {None}]

Kinds == {"idle", "init", "customerRead", "providerRead", "release", "refund", "reconcile"}
Steps == {"idle", "sync", "decide", "waiting", "replied", "done", "failed"}

\* tx is what the transaction has written so far, verb the call it waits for.
Op == [kind : Kinds, step : Steps, tx : Row \union {None}, verb : Verbs \union {None}]

Idle == [kind |-> "idle", step |-> "idle", tx |-> None, verb |-> None]

ASSUME NoneAssumption == None \notin Keys \union Sessions \union Verbs \union Row \union Money
                                     \union [provider : Providers, amount : Amounts]

Price       == [amount |-> contract[Job].amount, currency |-> "PHP"]
RequestOf(verb, tx) == [verb |-> verb, key |-> tx.key, money |-> tx.money, session |-> tx.checkout]

-----------------------------------------------------------------------------
(* Initial states: a new job, or one whose payment predates checkout.     *)

Blank == [state |-> "none", intent |-> "none", money |-> None, lapsed |-> FALSE]

NewJob == /\ Market!Init
          /\ row = None
          /\ old = FALSE
          /\ sess = [s \in Sessions |-> Blank]

\* Rows of before migration 000007: an intent in USD and no checkout, recorded
\* as held, released or refunded according to the state of the intent; nobody
\* had noticed yet when a hold ran out.
LegacyJob ==
    \E s \in Sessions, k \in Keys, a \in Amounts, d \in Market!Deal,
       st \in Market!Agreed \union {"CANCELLED"},
       pay \in {<<"HELD", "authorized">>, <<"HELD", "canceled">>, <<"RELEASED", "captured">>,
                <<"REFUNDED", "canceled">>, <<"REFUNDED", "refunded">>} :
        LET usd == [amount |-> a, currency |-> "USD"]
        IN  /\ status = [j \in {Job} |-> st]
            /\ contract = [j \in {Job} |-> d]
            /\ row = [key |-> k, money |-> usd, status |-> pay[1], checkout |-> None, intent |-> s]
            /\ old \in BOOLEAN
            /\ sess = [x \in Sessions |->
                          IF x = s THEN [state |-> "bare", intent |-> pay[2], money |-> usd,
                                         lapsed |-> pay = <<"HELD", "canceled">>]
                          ELSE Blank]

Init == /\ NewJob \/ LegacyJob
        /\ method \in {"ONLINE", "CASH"}
        /\ op = Idle
        /\ listed = FALSE
        /\ net = {}
        /\ remembered = [k \in Keys |-> None]
        /\ known = {}
        /\ keysSent = {}

-----------------------------------------------------------------------------
(* The marketplace.  Every one of its writes needs the job's row lock.     *)

MarketStep == /\ op = Idle
              /\ Market!Next
              /\ UNCHANGED <<method, row, old, op, listed, net, stripeVars, known, keysSent>>

-----------------------------------------------------------------------------
(* Beginning an operation: WithJob takes the lock and reads job and row.   *)
(* Calls that change nothing and call nobody (a wrong state, an old        *)
(* ambiguous attempt) are left out.                                        *)

Begin(kind, step, tx) ==
    /\ op = Idle
    /\ op' = [kind |-> kind, step |-> step, tx |-> tx, verb |-> None]
    /\ UNCHANGED <<marketVars, method, row, old, stripeVars, known>>

\* Send the request of an operation that has just begun with row tx.
BeginCall(kind, tx) ==
    /\ op = Idle
    /\ op' = [kind |-> kind, step |-> "waiting", tx |-> tx, verb |-> "create"]
    /\ net' = net \union {RequestOf("create", tx)}
    /\ keysSent' = keysSent \union {tx.key}
    /\ UNCHANGED <<marketVars, method, row, stripeVars, known>>

Fundable == /\ method = "ONLINE"
            /\ contract[Job] # None
            /\ status[Job] \in {"ACCEPTED", "EN_ROUTE", "IN_PROGRESS"}

\* No row yet: reserve a fresh key, save it as PENDING and ask for a session.
InitializeEscrow(k) ==
    /\ Fundable
    /\ row = None
    /\ k \notin keysSent
    /\ BeginCall("init", [key |-> k, money |-> Price, status |-> "PENDING",
                          checkout |-> None, intent |-> None])
    /\ UNCHANGED <<old, listed>>

\* Slip: a pending payment asks for a session again, whatever was saved and when.
RetryEscrowAnyway ==
    /\ Fundable
    /\ row # None /\ row.money = Price
    /\ BeginCall("init", row)
    /\ UNCHANGED <<old, listed>>

\* A session was asked for, but its id never came back: ask again with the same key.
RetryEscrow ==
    /\ Fundable
    /\ row # None /\ row.money = Price
    /\ row.checkout = None /\ ~old
    /\ BeginCall("init", row)
    /\ UNCHANGED <<old, listed>>

ResumeEscrow ==
    /\ Fundable
    /\ row # None /\ row.money = Price
    /\ row.checkout # None
    /\ Begin("init", "sync", row) /\ UNCHANGED <<listed, net, keysSent>>

\* sync has something to ask Stripe about.
Traceable == row # None /\ ~(row.checkout = None /\ row.intent = None)

GetEscrow(kind) ==
    /\ kind \in {"customerRead", "providerRead"}
    /\ Traceable
    /\ Begin(kind, "sync", row) /\ UNCHANGED <<listed, net, keysSent>>

\* Slip: the money is released while the job is still in work.
ReleaseEscrowEarly ==
    /\ status[Job] \in Market!Agreed
    /\ Traceable
    /\ Begin("release", "sync", row) /\ UNCHANGED <<listed, net, keysSent>>

ReleaseEscrow ==
    /\ status[Job] = "COMPLETED"
    /\ Traceable
    /\ Begin("release", "sync", row) /\ UNCHANGED <<listed, net, keysSent>>

RefundEscrow ==
    /\ status[Job] = "CANCELLED"
    /\ Traceable
    /\ Begin("refund", "sync", row) /\ UNCHANGED <<listed, net, keysSent>>

\* Slip: released payments of cancelled jobs are not listed.
ReconciliationJobsUnpaid ==
    /\ ~listed
    /\ row # None
    /\ row.status \in {"PENDING", "HELD"}
    /\ listed' = TRUE
    /\ UNCHANGED <<marketVars, method, row, old, op, net, stripeVars, known, keysSent>>

\* ReconciliationJobs reads committed rows without the lock.
ReconciliationJobs ==
    /\ ~listed
    /\ row # None
    /\ row.status \in {"PENDING", "HELD"} \/ (status[Job] = "CANCELLED" /\ row.status = "RELEASED")
    /\ listed' = TRUE
    /\ UNCHANGED <<marketVars, method, row, old, op, net, stripeVars, known, keysSent>>

\* The job's turn in the batch: its row may have changed since it was listed.
\* A row with nothing to trace asks for its session again, unless it is old.
Reconcile ==
    /\ listed
    /\ listed' = FALSE
    /\ \/ Traceable /\ Begin("reconcile", "sync", row) /\ UNCHANGED <<net, keysSent>>
       \/ ~Traceable /\ ~old /\ BeginCall("reconcile", row) /\ UNCHANGED old

\* The batch dies before the job's turn, or refuses an old ambiguous attempt.
SkipReconcile ==
    /\ listed
    /\ listed' = FALSE
    /\ UNCHANGED <<marketVars, method, row, old, op, net, stripeVars, known, keysSent>>

-----------------------------------------------------------------------------
(* Inside an operation. *)

\* Slip: Stripe's word for the session is passed on.
CheckoutStatusRaw(s) ==
    CASE s.intent = "authorized"               -> "HELD"
      [] s.intent \in {"captured", "refunded"} -> "RELEASED"
      [] OTHER                                 -> s.state

\* What Checkout makes of a session and its intent.
CheckoutStatus(s) ==
    CASE s.intent = "authorized"               -> "HELD"
      [] s.intent \in {"captured", "refunded"} -> "RELEASED"
      [] s.intent = "canceled"                 -> "EXPIRED"
      [] OTHER -> IF s.state = "expired" THEN "EXPIRED" ELSE "PENDING"

\* Slip: the terminal status is not kept.
SyncedAlways(tx) ==
    LET id == IF tx.checkout # None THEN tx.checkout ELSE tx.intent
    IN  [tx EXCEPT !.checkout = id,
                   !.intent   = IF sess[id].intent = "none" THEN None ELSE id,
                   !.status   = CheckoutStatus(sess[id])]

\* sync: the row after a successful look at its session, whose amount must match.
Synced(tx) ==
    LET id == IF tx.checkout # None THEN tx.checkout ELSE tx.intent
    IN  [tx EXCEPT !.checkout = id,
                   !.intent   = IF sess[id].intent = "none" THEN None ELSE id,
                   !.status   = IF tx.status = "REFUNDED" THEN "REFUNDED" ELSE CheckoutStatus(sess[id])]

\* Slip: a payment that is not settled is given back, whatever became of the job.
GivesBackAny(tx) == tx.status \notin {"REFUNDED", "EXPIRED"}

\* A payment of a cancelled job that is not settled yet goes on to its refund.
GivesBack(tx) == status[Job] = "CANCELLED" /\ tx.status \notin {"REFUNDED", "EXPIRED"}

\* Where the operation goes from there; "capture" sends the capture.
AfterSync(kind, tx) ==
    CASE kind = "init" -> IF tx.status \in {"PENDING", "HELD"} THEN "done" ELSE "failed"
      [] kind = "release" -> IF tx.status = "HELD" THEN "capture"
                             ELSE IF tx.status = "RELEASED" THEN "done" ELSE "failed"
      [] OTHER -> IF GivesBack(tx) THEN "decide" ELSE "done"

\* Send the call the operation waits for next.
Call(tx, verb) ==
    /\ op' = [op EXCEPT !.step = "waiting", !.tx = tx, !.verb = verb]
    /\ net' = net \union {RequestOf(verb, tx)}

Unmoved == UNCHANGED <<marketVars, method, row, old, listed, stripeVars, known, keysSent>>

Sync ==
    /\ op.step = "sync"
    /\ LET tx   == Synced(op.tx)
           next == AfterSync(op.kind, tx)
       IN  /\ sess[tx.checkout].money = tx.money
           /\ IF next = "capture" THEN Call(tx, "capture")
              ELSE op' = [op EXCEPT !.step = next, !.tx = tx] /\ UNCHANGED net
    /\ Unmoved

\* Stripe.Refund looks again, then picks the call, if one is needed at all.
RefundCall(s) ==
    CASE s.intent = "none"                     -> IF s.state = "expired" THEN None ELSE "expire"
      [] s.intent = "canceled"                 -> None
      [] s.intent \in {"captured", "refunded"} -> "refund"
      [] OTHER                                 -> "cancel"

Refunded(tx) == [tx EXCEPT !.status = "REFUNDED"]

Decide ==
    /\ op.step = "decide"
    /\ LET verb == RefundCall(sess[op.tx.checkout])
       IN  IF verb # None THEN Call(op.tx, verb)
           ELSE op' = [op EXCEPT !.step = "done", !.tx = Refunded(op.tx)] /\ UNCHANGED net
    /\ Unmoved

\* The answer to the call: the row takes the session id, or its new status.
TakeReply ==
    /\ op.step = "replied"
    /\ op' = [op EXCEPT
                !.step = IF op.verb = "create" THEN "sync" ELSE "done",
                !.verb = None,
                !.tx   = CASE op.verb = "create"  -> [op.tx EXCEPT !.checkout = remembered[op.tx.key]]
                           [] op.verb = "capture" -> [op.tx EXCEPT !.status = "RELEASED"]
                           [] OTHER               -> Refunded(op.tx)]
    /\ UNCHANGED net
    /\ Unmoved

\* Stripe is down, refuses, answers too late or with something unexpected.
CallFails ==
    /\ op.step \in {"sync", "decide", "waiting", "replied"}
    /\ op' = [op EXCEPT !.step = "failed", !.verb = None]
    /\ UNCHANGED net
    /\ Unmoved

\* WithJob commits what was written even when the operation failed.  A caller
\* whose operation succeeded sees the row, the customer with a pending URL.
Commit ==
    /\ op.step \in {"done", "failed"}
    /\ row' = op.tx
    /\ known' = IF op.step = "done" /\ op.kind \in {"init", "customerRead"} /\ op.tx.status = "PENDING"
                THEN known \union {op.tx.checkout} ELSE known
    /\ op' = Idle
    /\ UNCHANGED <<marketVars, method, old, listed, net, stripeVars, keysSent>>

\* The request's context ends (the client hung up, the reconciler's 50 seconds
\* are over) or the process dies: the database rolls the transaction back.
Abort ==
    /\ op # Idle
    /\ op' = Idle
    /\ UNCHANGED net
    /\ Unmoved

-----------------------------------------------------------------------------
(* Stripe, the customer's browser, and time. *)

\* Whether Stripe carries the request out, and what becomes of the session.
Applies(verb, s) ==
    CASE verb = "expire"  -> s.state = "open"
      [] verb = "cancel"  -> s.intent = "authorized" \/ (s.intent = "unpaid" /\ s.state # "open")
      [] verb = "capture" -> s.intent \in {"authorized", "captured"}
      [] verb = "refund"  -> s.intent \in {"captured", "refunded"}
      [] OTHER            -> TRUE

Applied(verb, s) ==
    CASE verb = "expire"  -> [s EXCEPT !.state = "expired",
                                       !.intent = IF s.intent = "unpaid" THEN "canceled" ELSE s.intent]
      [] verb = "cancel"  -> [s EXCEPT !.intent = "canceled"]
      [] verb = "capture" -> [s EXCEPT !.intent = "captured"]
      [] verb = "refund"  -> [s EXCEPT !.intent = "refunded"]
      [] OTHER            -> s

\* Slip: the HTTP status of the answer is not looked at.
AnswerTaken(r, ok) ==
    op' = IF op.step = "waiting" /\ RequestOf(op.verb, op.tx) = r
          THEN [op EXCEPT !.step = "replied"] ELSE op

\* The operation hears the answer if it still waits for this very call.
Answer(r, ok) ==
    op' = IF op.step = "waiting" /\ RequestOf(op.verb, op.tx) = r
          THEN [op EXCEPT !.step = IF ok THEN "replied" ELSE "failed"] ELSE op

\* A key Stripe remembers replays its session, any other opens a new one.
CreateSession(r, s) ==
    /\ r \in net /\ r.verb = "create"
    /\ IF remembered[r.key] # None THEN UNCHANGED stripeVars
       ELSE /\ sess[s] = Blank
            /\ \E pi \in {"none", "unpaid"} :
                   sess' = [sess EXCEPT ![s] = [Blank EXCEPT !.state = "open", !.intent = pi, !.money = r.money]]
            /\ remembered' = [remembered EXCEPT ![r.key] = s]
    /\ Answer(r, TRUE)
    /\ net' = net \ {r}
    /\ UNCHANGED <<marketVars, method, row, old, listed, known, keysSent>>

Execute(r) ==
    /\ r \in net /\ r.verb # "create"
    /\ LET ok == Applies(r.verb, sess[r.session])
       IN  /\ sess' = IF ok THEN [sess EXCEPT ![r.session] = Applied(r.verb, @)] ELSE sess
           /\ Answer(r, ok)
    /\ net' = net \ {r}
    /\ UNCHANGED <<marketVars, method, row, old, listed, remembered, known, keysSent>>

MoveSession(s, state, intent, lapsed) ==
    /\ sess' = [sess EXCEPT ![s].state = state, ![s].intent = intent, ![s].lapsed = lapsed]
    /\ UNCHANGED <<marketVars, method, row, old, op, listed, net, remembered, known, keysSent>>

\* The customer pays on the hosted page, for which the URL is needed.
EnterCard(s) == s \in known /\ sess[s].state = "open" /\ sess[s].intent = "none"
                /\ MoveSession(s, "open", "unpaid", FALSE)
Authorize(s) == s \in known /\ sess[s].state = "open" /\ sess[s].intent \in {"none", "unpaid"}
                /\ MoveSession(s, "complete", "authorized", FALSE)

\* An unused session expires after a day, a hold within days.
SessionExpires(s) == sess[s].state = "open"
                     /\ MoveSession(s, "expired",
                                    IF sess[s].intent = "unpaid" THEN "canceled" ELSE sess[s].intent, TRUE)
HoldExpires(s)    == sess[s].intent = "authorized"
                     /\ MoveSession(s, sess[s].state, "canceled", TRUE)

\* A day goes by: no request is still under way and Stripe forgets old keys.
\* The hour between the code's 23 hours and Stripe's 24 is longer than any call.
DayPasses ==
    /\ op = Idle
    /\ row # None /\ ~old
    /\ old' = TRUE
    /\ net' = {}
    /\ remembered' = [k \in Keys |-> None]
    /\ UNCHANGED <<marketVars, method, row, op, listed, sess, known, keysSent>>

-----------------------------------------------------------------------------
Requests  == (\E k \in Keys : InitializeEscrow(k)) \/ RetryEscrow \/ ResumeEscrow
             \/ (\E kind \in Kinds : GetEscrow(kind)) \/ ReleaseEscrow \/ RefundEscrow
Worker    == ReconciliationJobs \/ Reconcile \/ SkipReconcile
Operation == Sync \/ Decide \/ TakeReply \/ CallFails \/ Commit \/ Abort
Stripe    == \/ \E r \in net : Execute(r) \/ \E s \in Sessions : CreateSession(r, s)
             \/ \E s \in Sessions : EnterCard(s) \/ Authorize(s) \/ SessionExpires(s) \/ HoldExpires(s)

Next == MarketStep \/ Requests \/ Worker \/ Operation \/ Stripe \/ DayPasses

Spec == Init /\ [][Next]_vars

\* What the reconciler may count on.  It runs again and again, some of its
\* batches find the job's row unlocked, no call blocks for ever, and Stripe is
\* not down, or the database gone, every time.  Sessions do expire.
Reconciling(A) == op.kind = "reconcile" /\ A

Fairness ==
    /\ SF_vars(ReconciliationJobs /\ op = Idle) /\ SF_vars(Reconcile)
    /\ WF_vars(Operation)
    /\ SF_vars(Reconciling(Sync)) /\ SF_vars(Reconciling(Decide)) /\ SF_vars(Reconciling(TakeReply))
    /\ SF_vars(Reconciling(op.step = "done" /\ Commit))
    /\ SF_vars(Reconciling(op.step = "waiting" /\ Stripe /\ op'.step = "replied"))
    /\ \A s \in Sessions : WF_vars(SessionExpires(s))

FairSpec == Spec /\ Fairness

-----------------------------------------------------------------------------
(* Correctness properties. *)

\* Every variable has its type.
TypeOK == /\ status \in [{Job} -> Market!Status]
          /\ contract \in [{Job} -> Market!Deal \union {None}]
          /\ method \in {"ONLINE", "CASH"}
          /\ row \in Row \union {None}
          /\ old \in BOOLEAN
          /\ op \in Op
          /\ listed \in BOOLEAN
          /\ net \subseteq Request
          /\ sess \in [Sessions -> Session]
          /\ remembered \in [Keys -> Sessions \union {None}]
          /\ known \subseteq Sessions
          /\ keysSent \subseteq Keys

\* A session that was paid at some time, even if the money was given back or the
\* hold ran out since.
Charged(s) == s.state \in {"complete", "bare"} \/ s.intent \in {"authorized", "captured", "refunded"}

\* However often an attempt is aborted, retried or answered late, no two
\* payments for the job are ever authorized, not even one after the other: all
\* the money there ever was went through one session.
OneLiveCharge == \A s, t \in Sessions : Charged(sess[s]) /\ Charged(sess[t]) => s = t

\* Nothing can be charged through the session any more.
Closed(s) == s.intent = "canceled" \/ (s.intent = "none" /\ s.state = "expired")

\* What the committed row says of the money is so at Stripe, calls that were
\* cut off included: RELEASED money was captured, and nothing can ever be
\* charged once the row says EXPIRED or REFUNDED.
LedgerTruth ==
    row # None /\ Traceable =>
        LET s == sess[IF row.checkout # None THEN row.checkout ELSE row.intent]
        IN  /\ row.status = "RELEASED" => s.intent \in {"captured", "refunded"}
            /\ row.status = "HELD" => s.intent \notin {"none", "unpaid"}
            /\ row.status = "EXPIRED" => Closed(s)
            /\ row.status = "REFUNDED" => Closed(s) \/ s.intent = "refunded"

\* A committed row keeps its key, its money and, once it has one, its session;
\* its status never goes back, though every read of the payment rewrites it.
RowNeverGoesBack ==
    [][row # None =>
         /\ row' # None
         /\ row'.key = row.key /\ row'.money = row.money
         /\ row.checkout # None => row'.checkout = row.checkout
         /\ row'.status # row.status =>
               <<row.status, row'.status>> \in
                   {<<"PENDING", "HELD">>, <<"PENDING", "RELEASED">>, <<"PENDING", "EXPIRED">>,
                    <<"PENDING", "REFUNDED">>, <<"HELD", "RELEASED">>, <<"HELD", "EXPIRED">>,
                    <<"HELD", "REFUNDED">>, <<"RELEASED", "REFUNDED">>}]_vars

\* The sessions someone can pay: those the customer was sent to, and intents of
\* before checkout.
Payable == known \union {s \in Sessions : sess[s].state = "bare"}

\* Where the money of a session is.
Place(s) == CASE s.intent = "authorized" -> "held"
              [] s.intent = "captured"   -> "captured"
              [] s.intent = "refunded"   -> "returned"
              [] Closed(s)               -> IF s.lapsed THEN "lapsed" ELSE "returned"
              [] OTHER                   -> "none"

Purse(s) == [state |-> Place(s), money |-> IF Place(s) = "none" THEN None ELSE s.money]

\* What became of the customer's money.
Funds == IF Payable = {} THEN Purse(Blank) ELSE Purse(sess[CHOOSE s \in Payable : TRUE])

Promise == INSTANCE EscrowPromise WITH funds <- Funds

\* Payment service, Stripe and marketplace together keep the escrow's promise:
\* the agreed price is held once, paid out only for a completed job, and no call
\* gives it back or closes the way to pay but for a cancelled one.  Without a
\* call it comes back only when Stripe's session or hold runs out.
KeepsPromise == Promise!Spec

\* The row is settled, or nothing tells an old attempt from no attempt at all.
Settled == row.status \in {"REFUNDED", "EXPIRED"} \/ (old /\ ~Traceable)

\* Once a job is cancelled its payment is cancelled, refunded or expired in
\* the end, whoever else calls and however many calls fail on the way.
CancelledMoneyReturned == (status[Job] = "CANCELLED" /\ row # None) ~> (row # None /\ Settled)

\* payment_repo.go:34 "persist a PENDING reservation after a network timeout.
\* Retrying must use the same idempotency key, never create a fresh charge
\* identity": one key is ever sent for a job.
OneChargeIdentity == \A k, l \in keysSent : k = l
=============================================================================
