# TLA+ models of the service marketplace

This directory holds a verification development for the program in `src/`: a
marketplace where customers post jobs, providers bid on them and the two haggle,
do the work, pay through an escrow and talk in a chat. The modules are
translations of the Go services and of the Flutter screens that drive them. TLC
checks them on small instances; TLAPS proves the most important properties for
instances of every size.

- [1. The system](#1-the-system)
- [2. The modules and the code](#2-the-modules-and-the-code)
- [3. What TLC checks](#3-what-tlc-checks)
- [4. What is proved](#4-what-is-proved)
- [5. Where the code disagrees with itself](#5-where-the-code-disagrees-with-itself)
- [6. Not modelled](#6-not-modelled)
- [7. Running the checks](#7-running-the-checks)

## 1. The system

Six Go services share one PostgreSQL database. Two Flutter apps, one for
customers and one for providers, reach them through a gateway that checks the
token and forwards the request. The services never call each other: they meet
in the tables. That makes the database's row locks and transactions the only
coordination there is, and the interesting question everywhere is what a
transaction protects and what happens to everything outside it: Stripe, sockets,
screens that show what was true a moment ago.

| Component | State it keeps | Operations | What is hard | What makes it correct |
|---|---|---|---|---|
| marketplace-service (`marketplace_repo.go`, `marketplace_service.go`) | `jobs`, `bids`, `ratings`, the `JOB_CANCELLED` rows of `messages` | post, bid, counter, accept, reject, advance the work, complete with a rating, cancel | both parties act at once; a chain of counters moves prices between two columns; calls are retried | one accepted bid per job, at a price its provider named; settled bids stay settled; one rating, one notice; an agreement never changes |
| payment-service (`payment_service.go`, `payment_repo.go`, `stripe.go`, `main.go`) | one row of `transactions` per job; at Stripe, sessions, payment intents and remembered idempotency keys | initialize, read, release, refund; the reconciler's pass every 30 s | Stripe is called inside a database transaction that a hang-up rolls back; requests outlive their caller; the customer pays at any moment; keys are forgotten after a day; holds expire; a pass serves at most 100 jobs in 50 s | one charge per job; the row tells the truth about the money; a status never goes back; money moves only as the booking allows; a cancelled job's money comes back; every unsettled job's turn comes |
| identity-service, boosts (`user_repo.go`) | the wallet, its ledger, two expiries and a switch | buy either boost, switch the coverage boost | overlapping purchases wait for a lock with a clock that stopped when they began | the ledger accounts for the wallet; one charge a week; no benefit unpaid |
| identity-service, accounts (`user_repo.go`, `auth_service.go`) | profile and verification flag, twice: in `users` and in `providers` | register, save the profile, log in | transactions of several statements hold rows and wait for one another; a save is prepared from a user read earlier | the two copies agree; an account is whole or not there; nobody waits in a circle |
| verification (`user_repo.go`, `admin-service`) | `verification_requests`, the flag | request, approve, reject | two admins decide at once; a profile is saved meanwhile; a rejected provider asks again | one decision per request, and the flag agrees with it |
| posting a job (`create_job_screen.dart`, `marketplace_service.go`) | the form, the last submission's fingerprint and identity; the attempts under way | submit, retry, edit, go back, start anew; look, insert, look again | the screen gives up after ten seconds and the request goes on, so attempts of one posting overlap | one draft makes one job; what the success page shows is what is stored |
| communication-service and chat screen (`chat_handler.go`, `chat_service.go`, `chat_repo.go`, `chat_screen.dart`) | `messages`; in memory the list of sockets; on a screen the list of messages | load the history, open a socket, send, broadcast, poll every 15 s | one goroutine per socket; a broadcast works through a copy of the list; rights are revoked by the marketplace meanwhile; everything can fail | nothing listed twice, nothing shown unsaved, nothing sent to those who were out, everything shown in the end |
| Review Bids screen (`view_bids_screen.dart`) | the bids as last listed | list, accept, decline, counter | the list is stale as soon as it is shown | what the customer agrees to is what the customer saw |
| dispatch-service | last known location per provider | update, find the nearest, check whether near | nothing: an upsert and two queries | geometry |
| api-gateway and shared middleware | none | authenticate, check roles, forward | nothing: no state between requests | every request carries the user its token names |
| mobile apps, other screens | work status, checkout, dashboard | call the services | stale views; double taps; work that goes on after a screen is gone | a screen offers only what the service still takes |
| migrations, load tester, scripts | the schema | | | constraints such as one rating per job |

How they interact:

- **Marketplace and payment** share the row of `jobs`. Every write of the
  marketplace and every operation of the payment service (`WithJob`) lock that
  row first, so a booking stands still while its money is worked on. The payment
  service reads job status and the accepted bid and never writes them.
- **Payment and Stripe** talk over HTTP with an idempotency key per attempt. The
  customer's browser and the passing of time change Stripe's side without the
  service hearing of it; it looks (`sync`) whenever it is called, and in a
  reconciling pass every 30 seconds.
- **Marketplace and chat** share `bids` (who may take part, `IsParticipant`) and
  `messages` (the cancellation notice, which is written and never broadcast).
- **Identity and admin service** write the same rows of `users` and `providers`,
  each in transactions of its own; boosts lock the same `providers` row.
- **Chat service and screens** exchange history requests and frames on a socket.

## 2. The modules and the code

| Module | Models | Built on |
|---|---|---|
| `JobContract` | abstract: one booking as others may rely on it | |
| `Conversation` | abstract: who takes part in a job's chat | |
| `Bidding` | marketplace-service, all operations that write | implements `JobContract` and `Conversation` |
| `BidReview` | the Review Bids screen over `Bidding` | extends `Bidding` |
| `EscrowPromise` | abstract: what the parties are promised about the money | uses `JobContract` |
| `Escrow` | payment-service, reconciler, Stripe, for one job | uses `JobContract`, implements `EscrowPromise` |
| `Booking` | marketplace and payment of one job, run together | composes `Bidding` and `Escrow`, implements `Escrow` |
| `Boosts` | wallet and boosts of one provider | |
| `Chat` | chat service, sockets and screens of one job | uses `Conversation` |
| `AccountContract` | abstract: a provider's account to whoever reads it | |
| `Accounts` | registration, profile and verification of one provider, statement by statement | implements `AccountContract`, once per copy |
| `ReconcileQueue` | the reconciler, its callers and the order among many jobs | |
| `Posting` | the create-job screen and `PostJob`, attempt by attempt | |
| `BiddingProofs`, `EscrowProofs`, `BookingProofs`, `BoostsProofs`, `ChatProofs`, `AccountsProofs`, `QueueProofs`, `PostingProofs` | the theorems | extend the module they are about (`BiddingProofs` extends `BidReview`) |
| `MCBidReview`, `MCEscrow`, `MCBooking`, `MCBoosts`, `MCChat`, `MCAccounts`, `MCReconcileQueue`, `MCPosting` | instances for TLC | extend the module they check |

`Escrow` composes the payment service with the *abstract* marketplace. That is
sound because `Bidding` is shown to implement `JobContract`: whatever the payment
service may see of a job in the real marketplace, it may see there. `Booking` carries
the composition out with the real marketplace in its place, and shows that it
implements `Escrow`. In the same way `Chat` lets `Conversation` decide who takes part,
which `Bidding` implements job by job.

Operators called *Slip* in a comment are wrong on purpose. No specification uses
them; each is a plausible bug in the definition it stands before, and putting it in
that definition's place must break a property. They show what the properties notice.

### Bidding

`jobs`, `bids`, `ratings` and `notices` are the tables; `proposed` is a history
variable with the amount each bid's provider named last. `ratings` has for each job the providers of its
rows in the order they were inserted, so a second rating of a job is a second entry; the early return for a completed
job and the unique index of migration 000007 keep it out. Each operation of
`marketplace_repo.go` is one action, because each is a transaction that starts
with `lockJob` or a single conditional `UPDATE` of the job's row. Guards are the
code's early returns and `WHERE` clauses in their order; any user may try any
call, so the roles the gateway checks are not relied on. The `CASE` in `AcceptBid`
(a countered bid is accepted at `counter_amount`) is `Price`; the shift of the old
price into `amount` in `CounterBid` is `Countered`. A provider may bid on the same
job twice, as in the code. Calls that succeed and change nothing (completing
or cancelling again, the second posting of the same request) are stutters.

### BidReview

`screen` holds the rows as last fetched, rejected ones dropped. `TapAccept` sends
the bid's id only, as `_acceptBid` does: `AcceptBid` then runs against the table,
not the screen. The other calls of `Bidding` go on around it, so the run `bidding`
checks the marketplace and the screen together.

### Escrow

One job's row, lock, keys and sessions; jobs do not share any of these. An
operation that holds the lock is `op`: its `kind` is the caller, `tx` the row as
the transaction would write it, `step` where it stands. `Begin` and `BeginCall` are `WithJob`
up to its callback; `Sync`, `Decide`, `Call`, `TakeReply` and `CallFails` are
the callback between its calls to Stripe; `Commit` is the end of `WithJob`, which
saves what was written *also when the callback failed*; `Abort` is everything
that rolls the transaction back instead: a hang-up, the reconciler's 50-second
deadline, a crash. A request on its way is in `net` and stays there when its
caller is gone, so Stripe may execute it later or never. `Execute`, `CreateSession`, `EnterCard`,
`Authorize`, `SessionExpires` and `HoldExpires` are Stripe and the customer's
browser, modelled from the way `stripe.go` uses them. `DayPasses` makes the row
older than the code's 23 hours and lets Stripe forget its keys; it needs
no operation to be under way, since no call lasts the hour between 23 and 24.
`lapsed` is a history variable of a session: it, or its hold, ran out by itself and was not ended by a call.
Stripe reports both as canceled or expired and the code does not tell them apart; the promise does.
`Init` is a new job, or one of before migration 000007 with an intent in USD and
no checkout session.

### Booking

The tables of `Bidding` and the state of `Escrow` side by side, with the row of `jobs` they share: `status` of
`Escrow` *is* the job's status in the marketplace's table, and its `contract` is read off the accepted bid, as
`WithJob` joins it. `MarketStep` is an operation of the marketplace, which waits while a payment operation holds
the job's row (`lockJob` and `WithJob` lock the same row); `PaymentStep` is anything of the payment service, Stripe or the customer's
browser. No reading of the marketplace in `Escrow` remains as an assumption here, so properties can relate what
Stripe took to what was bid, countered, worked and rated.

### Boosts

Several calls can be in flight. `began` is a transaction's `NOW()`, which in
PostgreSQL stays the time it began however long it waited for `FOR UPDATE`. `Lock`
reads under the lock, `AlreadyActive` is the early return, `Pay` is the rest of
the transaction, whose effects nobody sees before the commit. `Fund` is external: the
repository has no code that credits a wallet.

### Chat

Per screen: `screen` (its life and its list), `fetch` (its history request),
`conn` (its socket), `inbox` and `wire` (frames either way), and `worker`, the goroutine
serving the socket, with the message in hand and the part of the broadcast's copy still to be
served. `members` is what `IsParticipant` answers and `stage` how far the job is; both move as `Conversation` says:
providers come and go with their bids while the job is open, an agreement leaves its two parties, and after an agreement or a cancellation
nobody comes or goes. The cancellation is also the step that writes its notice. Authorizing a client and writing to it
are one step (`Deliver`): the write follows at once and no step in between reads what it
changes; a revocation in that gap counts as one just after it. The two queries
of the history are two steps. `HistoryFails` is faithful to two oddities: any error is answered 403, and a
result set that breaks off halfway is answered as complete. `entitled` is a history variable: who
had the right to read at some moment since a message was saved. Left out: typing indicators,
the order of messages, the bids shown among them, several jobs (nothing is shared
between them).

### Accounts

`db` holds the committed rows of one provider: `users`, `providers`, the wallet, the request
for verification. A transaction is a `Path` of rows in the order of its statements; `Statement`
waits until the next row's lock is free and takes it, `Commit` writes all rows at once and
releases them, `Rollback` stands for a row that does not match (409, e-mail taken), a failure,
a hang-up or a crash, all of which end in the deferred `tx.Rollback`. A profile save first
*reads* the user, outside its transaction (`UpdateProfile` in `auth_service.go`), and what it
read may be out of date when it writes; only the columns it sets are written (`Saved`). A boost
purchase is there for its locks alone; `Boosts` has its effects. `RequestVerification` is one
statement, `ON CONFLICT DO NOTHING`, so asking again changes nothing. Two accounts share no row,
so one is enough. `AccountContract` is the account as one record that every call changes in one step; `Accounts` is
shown to implement it twice, reading the record off `users` and off `providers`. `Init` also has accounts from before migration 000007, verified or not, without a request.

### ReconcileQueue

`Escrow` follows one job through a visit and assumes visits go on; this module is about whose
turn it is. Times are kept as an order only: `older` relates the `updated_at` of due jobs and the
`NOW()` of open transactions, which PostgreSQL fixes when a transaction begins. `Commit` puts the job
where its transaction's `NOW()` stands, behind everything older, *also when the callback failed*;
`Rollback` leaves it in place. A pass lists at most `Limit` jobs (100 in the code), visits them in that
order, and is cut off by its deadline or a restart at any point (`PassEnds`). The callback may settle
the job, keep it due, or reserve a row; which of these is `Escrow`'s business and free here.
`since` is a history variable: whom the reconciler served since a due job last had its turn.

### Posting

A request's identity is the number of the attempt that drew it, `details` what the
customer sees on the review page; the fingerprint of `_submit` is the details themselves. `Submit` keeps the identity when
the fingerprint is that of the last submission and draws a new one otherwise. `TimeOut` leaves the handler running: `Look`,
`CreateJob` and `Reread` are the three database calls of `PostJob`, and attempts of
the same and of other requests interleave between them. A failing look counts as "not there", as in the code. Two
attempts build different jobs even from the same details (`by`), since emergency start and creation
time are the service's clock. `draft` is a history variable: how often the form was
edited or started anew.

## 3. What TLC checks

Every passing run is exhaustive within its bounds. Symmetry is used for
sets whose members are interchangeable (in `bidding` also for the two customers together
with their jobs) and only for safety properties.

| Run | Instance | Properties | Distinct states |
|---|---|---|---|
| `bidding` | 2 jobs of 2 customers, 2 providers, 2 bids, 2 amounts, the customers' screen | `TypeOK`, `OneAcceptedBid`, `OfferIsNamed`, `AgreedPriceIsProviders`, `RatedOnceOnCompletion`, `OneCancelNotice`, `SettledBidsStaySettled`, `ImplementsContract`, `ImplementsConversation`, `UnseenPriceIsProvidersCounter` | 640 thousand |
| `escrow` | 1 amount, 1 key, 2 sessions, new and old payments, fairness | `TypeOK`, `OneLiveCharge`, `LedgerTruth`, `RowNeverGoesBack`, `KeepsPromise`, `CancelledMoneyReturned` | 49 thousand |
| `booking` | 1 job, 1 provider with 1 bid, 2 amounts, 2 keys, 2 sessions | `PaidAsAgreed`, `ImplementsEscrow`, `PaymentIsSafe`, `PaidIsFinal` | 411 thousand |
| `boosts` | 2 calls, a week of 2, time up to 5, fundings of 250 or 300 up to 800 | `TypeOK`, `WalletBalanced`, `PaidOncePerWeek`, `BenefitIsPaid` | 225 thousand |
| `chat` | 2 screens, one of each party, 2 messages | `TypeOK`, `ListedOnce`, `ShownIsSaved`, `HeardWhileEntitled` | 2.9 million |
| `chat_shown` | the provider's screen, 2 messages, fairness | `EveryMessageShown` | 11 thousand |
| `accounts` | 3 transactions at once, 2 profiles | `TypeOK`, `CopiesAgree`, `VerdictStands`, `NoDeadlock`, `ImplementsAccount` | 10 thousand |
| `queue` | 2 jobs, a pass of 1, 2 callers, fairness | `TypeOK`, `ServedOnceBetween`, `TurnComes` | 9 thousand |
| `posting` | 4 attempts, 3 edits, 2 details | `TypeOK`, `ShownIsStored`, `OneJobPerDraft` | 795 thousand |
| `stale_price` | as `bidding` | one, violated | |
| `escrow_identity` | as `escrow`, 2 keys, no fairness | one, violated | |
| `chat_outage` | as `chat`, 1 message | one, violated | |

**Why the bounds are enough.** A job's bids interfere only through acceptance and
rejection, which two bids show, and two amounts tell an old price from a new one; a chain of
counters returns to the same states. In `Escrow` a second key or a second session
is what goes wrong, and a third adds nothing the second does not. The run `escrow`, whose liveness check is costly, has two sessions
under one key that Stripe forgets, and the payments inherited from before checkout. With one key an attempt whose
reservation was rolled back cannot go on with a fresh one: that case is exercised in `booking` and proved in `EscrowProofs`. `booking` has two keys, two
sessions and two amounts, and checks the same safety properties again (`ImplementsEscrow`, `PaymentIsSafe`); `EscrowProofs`
confirms them for every number. In `booking` one bid is enough, since the price can be countered by both and the
payment sees accepted bids only; that several bids never make two agreements is checked in `bidding`, and `BookingProofs`
covers every number. In `bidding` one provider can have both bids on a job and lose one of them, which is where
a rejection could send away somebody who still belongs there. In `Boosts` a purchase can wait while another one is paid for
and while the boost runs out (time 5 is two weeks after the first charge), and 800 pays for
three boosts and not for a fourth. In `Chat` one message can come by history, poll and socket at
once, two can be in the middle of two broadcasts; `OneRequest` allows one history
request at a time, since requests of two screens read shared state and change none. In `chat_shown` the
other party's messages appear through `CancelNotice`, which no socket ever carries: the hardest
case for a screen. In `accounts` two decisions and a save, or a decision, a save and a purchase, are
open at once, the most that four rows in one order let collide. In `queue` a pass of one with two
jobs is the smallest queue with somebody left out, and two callers can hold both jobs at once;
`ServedOnce` is proved for every number. In `posting` a request can have three
attempts under way while a fourth belongs to another draft, and three edits let the
details change, change back and be submitted in between.

**Deadlock** is checked in `queue`, where somebody can always go on. It is not checked elsewhere, since jobs,
screens, wallets and postings come to rest; that transactions do not wait in a circle is `NoDeadlock`.

**What the properties say**, beyond the table in section 1:

- `OneAcceptedBid` together with `ImplementsContract`: a booking is agreed at most once and its
  provider and price are frozen from then on, however acceptance, rejection,
  counters and cancellation interleave.
- `UnseenPriceIsProvidersCounter`: a customer accepting from a stale screen can
  be surprised only by a newer counter of the provider's. `AcceptedPriceWasShown`
  (section 5) is the stronger statement that fails.
- `OneLiveCharge`: all the money there ever was went through one session: a session that was paid once and gave
  the money back, or whose hold ran out, still counts, so that no second payment follows it. An aborted attempt can leave
  a second session behind. It cannot be paid, because its URL was
  never given to anybody.
- `LedgerTruth`: the committed row can lag behind Stripe, and does whenever an answer
  is lost, but what it says is never false.
- `KeepsPromise`: the money is held once, at the agreed price, and captured only for a completed job. No call of the
  service gives it back, or closes the session it could still be paid in, unless the job is cancelled, even if the call is
  carried out long after it was sent. That a session or a hold runs out at Stripe is a step of its own in
  `EscrowPromise` (`Lapse`), told apart from `GiveBack`.
- `PaidAsAgreed`: across both services. The money was captured for a job that is completed, and its amount is the
  *last* price named by the provider who was rated for it, however the haggling went, whatever
  a late request carries, and although the payment service keeps an amount of its own for days.
- `PaidIsFinal`: `stripe.go` can refund captured money, and `RefundEscrow` and the reconciler would for a cancelled job;
  that a completed job is never cancelled, and a job not completed never captured, keeps every booking made in this
  system away from that code. It is there for payments of before migration 000007, which can be captured in a job that is then
  cancelled: `LegacyJob` of `Escrow` reaches it (`booking` begins with a new job), and `CancelledMoneyReturned` covers it.
- `ImplementsConversation`: `Chat` takes for granted that nobody joins or leaves once the job is agreed or cancelled and that an
  agreement is with someone who was there. The tables have no such list of people: it is read off the bids' statuses.
- `ImplementsAccount`: no reader can tell that a save or a review was several statements, nor that the save was
  prepared from a user read before another transaction committed.
- `CancelledMoneyReturned`: whoever else calls, the reconciler settles a
  cancelled job's payment, except for an attempt that is more than 23
  hours old and has left no trace but its key; the code refuses to touch that one.
- `PaidOncePerWeek`: also for a purchase that began before another one's charge and got the lock after it.
- `HeardWhileEntitled`: the list of clients can be as stale as it likes.
- `EveryMessageShown`: no socket is needed for it.
- `VerdictStands`: the flag is the verdict once there is one, though a profile
  save began before the decision and commits after it, and though two admins decide at once.
- `NoDeadlock`: every transaction takes request, users, providers, wallet in this order, each
  possibly skipping some; a statement moved would let two of them wait for each other.
- `ServedOnceBetween`: a job that fails, or that is asked about, or whose visit is
  rolled back, never gets a second visit before a waiting job's first, unless that job has had a caller meanwhile.
- `TurnComes`: with it, no due job is passed over for ever. A call counts as a turn, because it
  renews `updated_at`: a job about which somebody calls again and again (even in vain: a refused call
  commits too) can be kept at the end of the queue by those calls, and then those calls are its visits.
- `OneJobPerDraft`: a draft is what the customer sees between two edits. Details changed, submitted, and changed
  back are a new draft to the screen too (its fingerprint remembers the last submission only).
- `ShownIsStored`: also after an older attempt of the same request, cut off long ago, has run to its end.

**Fairness.** `escrow` assumes what `main.go:46-55` provides: the loop
runs again and again (`SF` on listing the job while it is unlocked and on
its turn); an operation does not sit still, since every call has a time-out (`WF`
on `Operation`); and of the reconciler's own looks, decisions, replies and commits
not all fail for ever (`SF` on each). Nothing is assumed of the
customer, the other callers, or Stripe's willingness to hold money; checkout sessions do expire (`WF`).
`chat_shown` assumes the periodic timer ticks and a screen gets on with its start (`WF`), that a
request is answered or times out (`WF`), that the service works on a request
that is made again and again (`SF`), and that neither all the refusals nor all the complete answers get
lost (`SF`). Nothing is assumed of sockets.
`queue` assumes the loop of `main.go:46-55` lists again after every pass (`WF` on `ReconciliationJobs`), and,
for each job, that of its visits not all are cut off: the deadline does not for ever come just before its turn
(`SF` on `Visit`), while the visit waits for a caller's lock (`SF` on `MakesWay`: the caller's transaction ends, as its
request and every Stripe call have time-outs; and on `Lock`), or before its commit (`SF` on `Commit` of the reconciler). Fifty seconds
against calls of at most some seconds each justify this for the job at the head; the next pass makes
every job the head in its turn. Nothing is assumed of callers beyond that, of rollbacks, or of the outcome of a visit.

## 4. What is proved

All proofs are checked by TLAPS without unproved leaves, for arbitrary
sets of jobs, bids, users, amounts, keys, sessions, messages, screens and calls. The only assumptions are those in the
modules: amounts are positive naturals, jobs have owners, a week is not empty, a pass lists at least
one job, the reconciler is not one of its callers, bounds are naturals, and `None` is none of the values it is compared with.

| Module | Theorem | Says |
|---|---|---|
| `BiddingProofs` | `TypeCorrect`, `PriceCorrect`, `OffersNamed`, `BookingCorrect`, `RatedOnce`, `NoticeOnce`, `SettledBidsStay`, `StaleScreenIsHarmless` | the properties of the run `bidding` |
| | `MarketplaceImplementsContract` | `Bidding` refines `JobContract` |
| | `ChatFollowsMarket` | `Bidding` refines `Conversation`, for each job |
| `EscrowProofs` | `TypeCorrect`, `ChargedOnce`, `LedgerIsTrue`, `RowOnlyAdvances` | the safety properties of the run `escrow` |
| | `EscrowKeepsPromise` | `Escrow` refines `EscrowPromise` |
| `BookingProofs` | `BookingImplementsEscrow` | `Booking` refines `Escrow` |
| | `BookingIsSafe` | and with it `EscrowPromise`, charging once and truthfully |
| | `PaymentAsAgreed`, `PaymentIsFinal` | the other properties of the run `booking` |
| `BoostsProofs` | `TypeCorrect`, `LedgerBalances`, `ChargedOncePerWeek`, `NoUnpaidBenefit` | the properties of the run `boosts` |
| `ChatProofs` | `TypeCorrect`, `NothingListedTwice`, `ShownSaved`, `HeardEntitled` | the properties of the run `chat` |
| `AccountsProofs` | `TypeCorrect`, `CopiesStayAlike`, `VerdictsStand`, `DeadlockFree` | the properties of the run `accounts` |
| | `AccountIsAtomic`, `ReviewedOnce` | `Accounts` refines `AccountContract`; in particular a request is reviewed once (`OnlyReviewVerifies`) |
| `QueueProofs` | `TypeCorrect`, `ServedOnce` | the safety properties of the run `queue` |
| `PostingProofs` | `TypeCorrect`, `ShownStored`, `OneDraftOneJob` | the properties of the run `posting` |

**Bidding.** Two invariants. `OfferInv` (types, `OfferIsNamed`: each open offer is named by a party
of its job, and `AgreedPriceIsProviders`) is inductive by itself: an offer changes only together with its
history. `BookingInv` adds `OneAcceptedBid`, `RatedOnceOnCompletion` and `OneCancelNotice`, which are
inductive only together with it: the row that an accepting bid reads must have its type before
anything can be said of the rows it closes. The refinement maps `contract` to the accepted bid;
`SameContract` shows that a step which leaves a job's accepted bid alone leaves
its contract alone, although the mapping chooses the bid with `CHOOSE`. `ReviewInv` adds the
screen: a bid that is still pending is as it was listed, because no operation makes one pending again; so an
acceptance at another price than the listed one takes a counter, and `Acceptable` leaves only the provider's.
`TalkInv`, under the refinement of `Conversation`, adds that nobody has bid on a job that is not there, so that
its conversation begins with the customer alone. `EveryStep` and `Elsewhere` split a step into the one job it is about, where `TalkMoves`
finds the step of the conversation, and all others, whose participants stay.

**Escrow.** `OneLiveCharge` and `LedgerTruth` say nothing of operations under way or requests in
flight, so neither is inductive. `EscrowInv` adds, one named part each: `RowInv`, the row is for
the agreed price or inherited, and its status is true of the session it names; `OpInv`, the
transaction of an operation continues the committed row, and what it may have learned from
Stripe fits the step it is at; `NetInv`, a request in flight fits the job (a capture needs it completed, a
cancellation or refund needs it cancelled); `SessionInv`, which shapes a
session can take, and that live money is only in sessions the customer knows or in the inherited one;
`ReturnInv`, a session that did not lapse and is closed all the same belongs to a cancelled job; `KnownInv`, the customer knows only the session the committed row names. From these, at most one
session is ever *payable*, and it is the row's; the four theorems follow. The refinement reads
`funds` off that one session: the customer's authorization is
`Hold`; a capture, cancellation, expiry or refund that reaches Stripe is `PayOut` or `GiveBack` *when it is executed*, not when the row
learns of it, and `NetInv` says that the job is then still what it was for; a session or hold that runs out is `Lapse`. A commit is a
stutter, unless it sends the customer to a session that is over already, and `ReturnInv` says which of the two that is.
`PaidInv`, inductive only with `EscrowInv`, says of captured money that its job is completed; it is stated here and needed below.

**Booking.** The theorems about `Bidding` and `Escrow` are used as they stand, through instances of `BiddingProofs` and
`EscrowProofs`: `MarketAssumptions` and `PaymentAssumptions` show that this module's assumptions give theirs,
`MarketNext` and `PaymentNext` that its steps are steps of theirs or leave them alone. A step of the marketplace is a step of
`JobContract`, by the lemma behind `MarketplaceImplementsContract`, and therefore a step `Escrow` allows the marketplace (`SameContracts`: the contract
the one implements is the contract the other uses); it waits for the job's row as `Escrow` demands. A step of the payment service leaves tables and agreement
as they are. `PaidAsAgreed` needs both inductive
invariants at once (`BothInvHolds`): `Escrow`'s says which session was captured and that its amount is the agreement's,
`Bidding`'s that the agreement is a bid at its provider's last price (`AgreementIsBid`) and who was rated for it.

**Boosts.** `BoostInv` adds who holds the lock: a call that is past the lock has seen the boost
inactive at a time not before its last expiry, and while it holds the lock nobody can pay. Without it
`PaidOncePerWeek` is not inductive: a second call could pay in between. `WeekApart` extends the spacing from neighbours to all charges.

**Chat.** Everything on its way to a screen must already be saved: `FetchInv`, `WorkerInv` and `WireInv` say so
of history answers, of a goroutine's message in hand and of frames on the wire, and `WireInv` adds that the
receiver was entitled to what was put there. `StartInv` is the part one overlooks: a socket that was never open has
no goroutine, is in no list of clients and in nobody's copy of it, so that a screen that opens late starts with an empty
wire. The lemmas `AppStep` and `WorkerStep` say once what a step of one screen or one socket has to leave in order.

**Accounts.** What the rows say follows from who holds their locks. `LocksHeld`: a transaction holds exactly the rows of the
statements it has carried out. `StillSo`: what a statement found, a request still pending or an e-mail address still
free, stays so until the transaction ends, because every other path to that row needs its lock. `CopiesAgree` and
`VerdictStands` are inductive only with these. `DeadlockFree` goes through the rows from the last
of the order to the first: nobody holds a wallet and waits, so nobody in a circle waits for a wallet, nor then for a
providers row, a users row, a request. The refinement of `AccountContract` finds the step at the *commit*: `StillSo` makes
what the transaction found at its statements true of the rows it writes at its end, so a review is of a request still pending and a save
changes the profile of the row as it then is; `CopiesAgree` carries it from one copy to the other.

**ReconcileQueue.** `ServedOnceBetween` speaks of the visit under way and not of the list it came from. `ServedBehind` does: a job
served since a waiting job's last turn stands behind it in the order of times, and if
both are still in the list, behind it there too. It is kept because a commit puts its job at its own transaction's time, and `Served` counts
only jobs that were older than that. With `WorkInv` (a job under visit has left the list) and the asymmetry of both orders it
is inductive.

**Posting.** `DraftInv`: attempts of one draft carry one identity, the screen's, as long as the draft is current.
`RequestInv`: the attempts of the current identity all carry the details last submitted. `JobInv`: a row belongs to the
identity and details of the attempt that built it. `AnswerInv`: an answer is the stored row, and rows never change, which is
why no older attempt can make a success page wrong afterwards.

**Only model-checked:** liveness (`CancelledMoneyReturned`, `EveryMessageShown`, `TurnComes`), which
TLAPS does not reach: their fairness conditions and ENABLED are beyond its backends. Every other property of a passing run is a theorem.

## 5. Where the code disagrees with itself

Each of these is a run that TLC finishes with a counterexample.

- `escrow_identity`: `payment_repo.go:34` wants a retry to reuse the idempotency
  key. The reservation of the key is committed after the call to Stripe, under
  the caller's context; if the caller hangs up, or the process dies, it is rolled
  back, and the next attempt draws a fresh key. No money is taken twice
  (`OneLiveCharge`), since nobody was given the first session's URL; the session is orphaned.
- `stale_price`: the terms say the customer decides about a
  provider's different amount. `AcceptBid` takes no price, so a counter that
  arrives after the list was fetched is accepted unseen.
- `chat_outage`: the chat service answers a database failure with 403, which the
  screen takes for a revocation. It closes its socket and stops
  polling, although its comment says it retries after an outage.

More came up while reading. They are plain from a line or two and need no run:

- The badge of a countered bid reads *received* whenever `counter_by` is set (`view_bids_screen.dart:184`), and
  `CounterBid` sets it for both parties, so the customer's own counter is shown as received. The Renegotiate button of an accepted bid
  (line 235) sends a counter the marketplace refuses in every state such a bid can be in.
- Buying a coverage boost that is paid for and switched off returns early (`user_repo.go:182`), is answered
  "activated" (`auth_handler.go:127`) and leaves it off.
- A provider whose verification was rejected asks again and is answered that the request was submitted, while the
  insert does nothing (`user_repo.go:221`).
- "Accept Direct" on the job screen places a bid and accepts it as the provider, which the marketplace
  refuses; each tap leaves a pending bid behind (`job_detail_screen.dart:189`).
- A retried posting whose look fails after its service date went by is refused as a bad date although
  the job is posted (`marketplace_service.go:53`).
- The dispatch handler refuses a coordinate of exactly zero (`dispatch_handler.go:29`).

## 6. Not modelled

- **The other screens** (`job_detail_screen.dart`, the dashboards). The job screen's status is a copy
  that its own calls move. `Bidding` lets any user try any call in any state, so whatever a stale screen sends is covered
  on the service's side; what it shows in vain is listed under the hazards. The form of the create-job screen, beyond submitting
  it, is layout and per-field checks.
- **Login** writes nothing; **what a viewer is shown** of a booking (`ForViewer`) is a filter on one row without state.
- **Dispatch** is an upsert and two queries whose content is geometry.
- **Gateway and middleware** keep nothing between requests; every model lets any user try any call.
- **Migrations**: their constraints appear as guards and invariants.
- **The load tester and the scripts** are tools the system does not depend on.
- Within modelled parts: order and time of messages and typing indicators (`Chat`),
  a boost's effect on dispatch (`Boosts`), accounts whose two copies disagree already when the
  model begins (`Accounts`), ties of
  `updated_at` (`ReconcileQueue`, whose order is strict), the texts and photographs of a booking (`Posting`).

## 7. Running the checks

```
tlc -workers 2 -config MCEscrow.cfg MCEscrow
tlapm EscrowProofs.tla
```

Each run is a `.cfg` with the `MC` module that `PROJECT.json` names for it. `PROJECT.json` also
maps every definition to its lines of the source, lists the hazards with the properties that guard against
them, and gives for each property a slip that breaks it.
