---------------------------- MODULE EscrowProofs ----------------------------
(***************************************************************************)
(* Proofs about Escrow for every set of keys, sessions, providers and      *)
(* amounts.  None of its properties is inductive: each depends on what the *)
(* operation in progress has written but not committed, on what it waits   *)
(* for, and on what the customer was told.  EscrowInv says all of that.    *)
(* Its parts take the state they speak of as arguments, so that a step     *)
(* that leaves that state alone keeps the part without a look inside.      *)
(***************************************************************************)
EXTENDS Escrow, TLAPS

Live     == {"authorized", "captured", "refunded"}
Returns  == {"expire", "cancel", "refund"}

\* Nothing can be charged through the session any more, or the money is back.
GivenUp(s)  == Closed(s) \/ s.intent = "refunded"

\* The session a row stands for.
SessionOf(tx) == IF tx.checkout # None THEN tx.checkout ELSE tx.intent

\* A row's status as a claim about its session.
TrueOf(st, s) ==
    /\ st = "RELEASED" => s.intent \in {"captured", "refunded"}
    /\ st = "HELD"     => s.intent \notin {"none", "unpaid"}
    /\ st = "EXPIRED"  => Closed(s)
    /\ st = "REFUNDED" => GivenUp(s)

Later(a, b) == b = a \/ <<a, b>> \in
    {<<"PENDING", "HELD">>, <<"PENDING", "RELEASED">>, <<"PENDING", "EXPIRED">>,
     <<"PENDING", "REFUNDED">>, <<"HELD", "RELEASED">>, <<"HELD", "EXPIRED">>,
     <<"HELD", "REFUNDED">>, <<"RELEASED", "REFUNDED">>}

\* A row, committed or about to be, is for the agreed price or belongs to an
\* intent of before checkout, and its status is true.
Sound(tx, deal, ss) ==
    /\ tx.money.currency = "PHP" => deal # None /\ tx.money = [amount |-> deal.amount, currency |-> "PHP"]
    /\ tx.money.currency = "USD" => /\ tx.status # "PENDING"
                                    /\ SessionOf(tx) # None
                                    /\ ss[SessionOf(tx)].state = "bare"
    /\ tx.money.currency = "PHP" /\ tx.checkout = None => tx.intent = None
    /\ SessionOf(tx) = None => tx.status = "PENDING"
    /\ SessionOf(tx) # None => TrueOf(tx.status, ss[SessionOf(tx)])

\* Row tx continues row r.
Continues(r, tx) == /\ tx.key = r.key /\ tx.money = r.money
                    /\ r.checkout # None => tx.checkout = r.checkout
                    /\ SessionOf(r) # None => SessionOf(tx) = SessionOf(r)
                    /\ Later(r.status, tx.status)

\* A request, or a call an operation waits for, fits the status of the job.
Fits(verb, st) == /\ verb = "capture" => st = "COMPLETED"
                  /\ verb \in Returns => st = "CANCELLED"

Calling(o) == o.step \in {"waiting", "replied"}

\* What an operation has found out so far, by the step it is at.
Informed(o, st, ss) ==
    /\ o.kind = "release" => st = "COMPLETED"
    /\ o.step = "sync"    => SessionOf(o.tx) # None
    /\ o.step = "decide"  => st = "CANCELLED" /\ o.tx.status \notin {"REFUNDED", "EXPIRED"}
    /\ Calling(o) => /\ o.verb \in Verbs
                     /\ Fits(o.verb, st)
                     /\ o.verb = "create" => SessionOf(o.tx) = None
                     /\ o.verb = "capture" => o.tx.status = "HELD"
                     /\ o.verb \in Returns => o.tx.status \notin {"REFUNDED", "EXPIRED"}
    /\ o.step \in {"decide", "done"} \/ (Calling(o) /\ o.verb # "create") =>
          o.tx.checkout # None /\ ss[o.tx.checkout].money = o.tx.money

\* What an answer that came back means.
Answered(o, ss, rem) == o.step = "replied" =>
    /\ o.verb = "create"  => rem[o.tx.key] # None
    /\ o.verb = "capture" => ss[o.tx.checkout].intent \in {"captured", "refunded"}
    /\ o.verb \in Returns => GivenUp(ss[o.tx.checkout])

\* A session, its state and its money; old intents belong to the row.
SessionOK(s, x, r, kn) ==
    /\ x.state = "none"    => x = Blank
    /\ x.state # "none"    => x.money \in Money
    /\ x.state = "open"    => x.intent \in {"none", "unpaid"}
    /\ x.state = "expired" => x.intent # "unpaid"
    /\ x.state = "bare"    => /\ x.intent \notin {"none", "unpaid"}
                              /\ r # None /\ SessionOf(r) = s
                              /\ r.money.currency = "USD" /\ x.money = r.money
    /\ x.intent \in Live   => s \in kn \/ x.state = "bare"
    /\ x.state = "complete" => s \in kn

\* A session that a call of the service closed, in a job of status st.
Withdrawn(x, st) == Closed(x) /\ ~x.lapsed /\ x.state # "bare" => st = "CANCELLED"

\* The customer knows the row's session and no other.
KnownOK(s, r, ss) == /\ r # None /\ r.checkout = s
                     /\ r.money.currency = "PHP" /\ ss[s].money = r.money

BookInv == contract[Job] # None => status[Job] \notin Market!Open \union {"NONE"}

RowInv == /\ row # None => Sound(row, contract[Job], sess)
          /\ listed => row # None

OpInv == op # Idle => /\ op.kind # "idle" /\ op.step # "idle" /\ op.tx \in Row
                      /\ row = None => op.kind = "init"
                      /\ row # None => Continues(row, op.tx)
                      /\ Sound(op.tx, contract[Job], sess)
                      /\ Informed(op, status[Job], sess)
                      /\ Answered(op, sess, remembered)

NetInv     == \A r \in net : Fits(r.verb, status[Job]) /\ (r.verb # "create" => r.session # None)
SessionInv == \A s \in Sessions : SessionOK(s, sess[s], row, known)
KnownInv   == \A s \in known : KnownOK(s, row, sess)
ReturnInv  == \A s \in Sessions : Withdrawn(sess[s], status[Job])

EscrowInv == TypeOK /\ BookInv /\ RowInv /\ OpInv /\ NetInv /\ SessionInv /\ KnownInv /\ ReturnInv

-----------------------------------------------------------------------------

LEMMA EscrowInvInit == Init => EscrowInv
<1> SUFFICES ASSUME Init PROVE EscrowInv
  OBVIOUS
<1> USE NoneAssumption
<1>1. /\ op = Idle /\ net = {} /\ known = {} /\ listed = FALSE /\ keysSent = {}
      /\ method \in {"ONLINE", "CASH"} /\ remembered = [k \in Keys |-> None]
  BY DEF Init
<1>2. OpInv /\ NetInv /\ KnownInv /\ op \in Op
  BY <1>1 DEF OpInv, NetInv, KnownInv, Op, Idle, Kinds, Steps
<1>3. CASE NewJob
  <2>1. /\ status = [j \in {Job} |-> "NONE"] /\ contract = [j \in {Job} |-> None]
        /\ row = None /\ old = FALSE /\ sess = [s \in Sessions |-> Blank]
    BY <1>3 DEF NewJob, Market!Init
  <2>2. TypeOK
    BY <1>1, <1>2, <2>1 DEF TypeOK, Market!Status, Session, Blank
  <2>3. BookInv /\ RowInv /\ SessionInv /\ ReturnInv
    BY <1>1, <2>1 DEF BookInv, RowInv, SessionInv, SessionOK, Blank, Live, ReturnInv, Withdrawn, Closed
  <2>. QED
    BY <1>2, <2>2, <2>3 DEF EscrowInv
<1>4. CASE LegacyJob
  <2>1. PICK s \in Sessions, k \in Keys, a \in Amounts, d \in Market!Deal,
             st \in Market!Agreed \union {"CANCELLED"},
             pay \in {<<"HELD", "authorized">>, <<"HELD", "canceled">>, <<"RELEASED", "captured">>,
                      <<"REFUNDED", "canceled">>, <<"REFUNDED", "refunded">>} :
           LET usd == [amount |-> a, currency |-> "USD"]
           IN  /\ status = [j \in {Job} |-> st]
               /\ contract = [j \in {Job} |-> d]
               /\ row = [key |-> k, money |-> usd, status |-> pay[1], checkout |-> None, intent |-> s]
               /\ old \in BOOLEAN
               /\ sess = [x \in Sessions |->
                             IF x = s THEN [state |-> "bare", intent |-> pay[2], money |-> usd,
                                            lapsed |-> pay = <<"HELD", "canceled">>]
                             ELSE Blank]
    BY <1>4 DEF LegacyJob
  <2> DEFINE usd == [amount |-> a, currency |-> "USD"]
             bare == [state |-> "bare", intent |-> pay[2], money |-> usd,
                      lapsed |-> pay = <<"HELD", "canceled">>]
  <2>2. usd \in Money /\ usd.currency = "USD"
    BY DEF Money
  <2>3. /\ row \in Row /\ row # None
        /\ row.money = usd /\ row.status = pay[1] /\ row.checkout = None /\ row.intent = s
    BY <2>1, <2>2 DEF Row, TxStatus
  <2>4. /\ bare \in Session
        /\ bare.state = "bare" /\ bare.intent = pay[2] /\ bare.money = usd
    BY <2>2 DEF Session
  <2>5. SessionOf(row) = s
    BY <2>3 DEF SessionOf
  <2>6. sess[s] = bare /\ \A x \in Sessions \ {s} : sess[x] = Blank
    BY <2>1
  <2> HIDE DEF usd, bare
  <2>7. sess \in [Sessions -> Session]
    BY <2>1, <2>4, <2>6 DEF Session, Blank
  <2>8. TypeOK
    BY <1>1, <1>2, <2>1, <2>3, <2>7 DEF TypeOK, Market!Status, Market!Agreed
  <2>9. TrueOf(row.status, sess[s])
    BY <2>1, <2>3, <2>4, <2>6 DEF TrueOf, GivenUp, Closed
  <2>10. BookInv /\ RowInv
    BY <1>1, <2>1, <2>2, <2>3, <2>4, <2>5, <2>6, <2>9
    DEF BookInv, RowInv, Sound, Market!Open, Market!Agreed
  <2>11. SessionOK(s, sess[s], row, known)
    BY <2>1, <2>2, <2>3, <2>4, <2>5, <2>6 DEF SessionOK, Live
  <2>12. SessionInv
    <3>1. \A x \in Sessions : SessionOK(x, Blank, row, known)
      BY DEF SessionOK, Blank, Live
    <3>. QED
      BY <2>6, <2>11, <3>1 DEF SessionInv
  <2>13. ReturnInv
    <3>1. Withdrawn(Blank, status[Job]) /\ Withdrawn(bare, status[Job])
      BY <2>4 DEF Withdrawn, Closed, Blank
    <3>. QED
      BY <2>6, <3>1 DEF ReturnInv
  <2>. QED
    BY <1>2, <2>8, <2>10, <2>12, <2>13 DEF EscrowInv
<1>. QED
  BY <1>3, <1>4 DEF Init

\* The job moves only while no operation is under way, never leaves a state the
\* requests in flight were sent for, and never changes an agreement.
LEMMA MarketMoves ==
  ASSUME TypeOK, BookInv, Market!Next
  PROVE  /\ status' \in [{Job} -> Market!Status]
         /\ contract' \in [{Job} -> Market!Deal \union {None}]
         /\ BookInv'
         /\ contract[Job] # None => contract'[Job] = contract[Job]
         /\ \A verb : Fits(verb, status[Job]) => Fits(verb, status'[Job])
<1> USE NoneAssumption DEF Market!Open, Market!Agreed, Market!Status, Market!Deal, Market!Move, TypeOK, BookInv, Fits
<1>1. CASE Market!Post(Job)
  BY <1>1 DEF Market!Post
<1>2. CASE Market!Agree(Job)
  BY <1>2 DEF Market!Agree
<1>3. CASE Market!Advance(Job)
  BY <1>3 DEF Market!Advance
<1>4. CASE Market!Cancel(Job)
  BY <1>4 DEF Market!Cancel
<1>. QED
  BY <1>1, <1>2, <1>3, <1>4 DEF Market!Next

LEMMA MarketStepKeeps == EscrowInv /\ MarketStep => EscrowInv'
<1> SUFFICES ASSUME EscrowInv, MarketStep PROVE EscrowInv'
  OBVIOUS
<1>0. op = Idle /\ UNCHANGED <<method, row, old, op, listed, net, sess, remembered, known, keysSent>>
  BY DEF MarketStep, stripeVars
<1>1. /\ TypeOK' /\ BookInv'
      /\ contract[Job] # None => contract'[Job] = contract[Job]
      /\ \A verb : Fits(verb, status[Job]) => Fits(verb, status'[Job])
  BY <1>0, MarketMoves DEF EscrowInv, MarketStep, TypeOK
<1>2. RowInv'
  BY <1>0, <1>1 DEF EscrowInv, RowInv, Sound, TypeOK, Row, Money
<1>3. OpInv' /\ NetInv' /\ SessionInv' /\ KnownInv'
  BY <1>0, <1>1 DEF EscrowInv, OpInv, NetInv, SessionInv, KnownInv
\* A cancellation is final.
<1>4. status[Job] = "CANCELLED" => status'[Job] = "CANCELLED"
  <2>1. \A st : Fits("cancel", st) <=> st = "CANCELLED"
    BY DEF Fits, Returns
  <2>. QED
    BY <1>1, <2>1
<1>5. ReturnInv'
  BY <1>0, <1>4 DEF EscrowInv, ReturnInv, Withdrawn, Closed
<1>. QED
  BY <1>1, <1>2, <1>3, <1>5 DEF EscrowInv

-----------------------------------------------------------------------------
(* Operations begin. *)

LEMMA RequestOfFields ==
  ASSUME NEW verb \in Verbs, NEW tx \in Row
  PROVE  LET r == RequestOf(verb, tx)
         IN  /\ r \in Request
             /\ r.verb = verb /\ r.key = tx.key /\ r.money = tx.money /\ r.session = tx.checkout
  BY DEF RequestOf, Request, Row

\* What leaves Stripe, the row and the job alone keeps all but what is said of
\* the operation and the requests.
LEMMA Unmoving ==
  ASSUME EscrowInv, UNCHANGED <<marketVars, method, row, stripeVars, known>>,
         old' \in BOOLEAN, listed' \in BOOLEAN, listed' => row # None, keysSent' \subseteq Keys,
         op' \in Op, OpInv', net' \subseteq Request, NetInv'
  PROVE  EscrowInv'
  BY DEF EscrowInv, TypeOK, BookInv, RowInv, SessionInv, KnownInv, ReturnInv, marketVars, stripeVars

LEMMA SoundContinues ==
  ASSUME NEW r \in Row PROVE Continues(r, r)
  BY DEF Continues, Later

LEMMA BeginKeeps ==
  ASSUME EscrowInv, NEW kind \in Kinds \ {"idle"}, Begin(kind, "sync", row), Traceable,
         kind = "release" => status[Job] = "COMPLETED",
         UNCHANGED <<net, keysSent>>, listed' \in BOOLEAN, listed' => row # None
  PROVE  EscrowInv'
<1> DEFINE o == [kind |-> kind, step |-> "sync", tx |-> row, verb |-> None]
<1>1. op' = o /\ UNCHANGED <<marketVars, method, row, old, stripeVars, known>>
  BY DEF Begin
<1>2. row \in Row /\ row # None /\ SessionOf(row) # None
  BY NoneAssumption DEF EscrowInv, TypeOK, Traceable, SessionOf
<1>3. o \in Op /\ o.kind = kind /\ o.step = "sync" /\ o.tx = row
  BY <1>2 DEF Op, Steps
<1> HIDE DEF o
<1>4. Informed(o, status[Job], sess) /\ Answered(o, sess, remembered)
  BY <1>2, <1>3 DEF Informed, Answered, Calling
<1>5. Sound(row, contract[Job], sess) /\ Continues(row, row)
  BY <1>2, SoundContinues DEF EscrowInv, RowInv
<1>6. OpInv'
  BY <1>1, <1>2, <1>3, <1>4, <1>5 DEF OpInv, marketVars, stripeVars
<1>. QED
  BY <1>1, <1>3, <1>6, Unmoving DEF EscrowInv, TypeOK, NetInv, marketVars

LEMMA BeginCallKeeps ==
  ASSUME EscrowInv, NEW kind \in {"init", "reconcile"}, NEW tx \in Row, BeginCall(kind, tx), SessionOf(tx) = None,
         \/ row # None /\ tx = row
         \/ row = None /\ kind = "init" /\ Sound(tx, contract[Job], sess),
         old' \in BOOLEAN, listed' \in BOOLEAN, listed' => row # None
  PROVE  EscrowInv'
<1> DEFINE o == [kind |-> kind, step |-> "waiting", tx |-> tx, verb |-> "create"]
           r == RequestOf("create", tx)
<1>1. op' = o /\ UNCHANGED <<marketVars, method, row, stripeVars, known>>
  BY DEF BeginCall
<1>2. /\ o \in Op /\ o.kind = kind /\ o.step = "waiting" /\ o.tx = tx /\ o.verb = "create"
  BY DEF Op, Steps, Kinds, Verbs
<1> HIDE DEF o
<1>3. Informed(o, status[Job], sess) /\ Answered(o, sess, remembered)
  BY <1>2 DEF Informed, Answered, Calling, Fits, Verbs, Returns
<1>4. Sound(tx, contract[Job], sess) /\ (row # None => Continues(row, tx))
  BY SoundContinues DEF EscrowInv, RowInv
<1>5. OpInv'
  BY <1>1, <1>2, <1>3, <1>4 DEF OpInv, marketVars, stripeVars
<1>6. r \in Request /\ r.verb = "create"
  BY RequestOfFields DEF Verbs
<1>7. net' = net \union {r} /\ keysSent' = keysSent \union {tx.key} /\ tx.key \in Keys
  BY DEF BeginCall, Row
<1> HIDE DEF r
<1>8. net' \subseteq Request /\ keysSent' \subseteq Keys
  BY <1>6, <1>7 DEF EscrowInv, TypeOK
<1>9. NetInv'
  BY <1>1, <1>6, <1>7 DEF EscrowInv, NetInv, marketVars, Fits, Returns
<1>. QED
  BY <1>1, <1>2, <1>5, <1>8, <1>9, Unmoving

LEMMA RequestsKeep == EscrowInv /\ Requests => EscrowInv'
<1> SUFFICES ASSUME EscrowInv, Requests PROVE EscrowInv'
  OBVIOUS
<1>1. ASSUME NEW k \in Keys, InitializeEscrow(k) PROVE EscrowInv'
  <2> DEFINE tx == [key |-> k, money |-> Price, status |-> "PENDING", checkout |-> None, intent |-> None]
  <2>1. contract[Job] \in Market!Deal /\ contract[Job] # None
    BY <1>1 DEF InitializeEscrow, Fundable, EscrowInv, TypeOK
  <2>2. Price \in Money /\ Price.currency = "PHP"
    BY <2>1 DEF Price, Money, Market!Deal
  <2>3. /\ tx \in Row /\ tx.money = Price /\ tx.status = "PENDING" /\ tx.checkout = None /\ tx.intent = None
    BY <2>2 DEF Row, TxStatus
  <2>4. row = None /\ BeginCall("init", tx) /\ UNCHANGED <<old, listed>>
    BY <1>1 DEF InitializeEscrow
  <2> HIDE DEF tx
  <2>5. Sound(tx, contract[Job], sess) /\ SessionOf(tx) = None
    BY <2>1, <2>2, <2>3 DEF Sound, SessionOf, Price
  <2>. QED
    BY <2>3, <2>4, <2>5, BeginCallKeeps DEF EscrowInv, TypeOK, RowInv
<1>2. CASE RetryEscrow
  <2>1. row \in Row /\ row # None /\ Sound(row, contract[Job], sess) /\ row.money = Price /\ row.checkout = None
    BY <1>2 DEF RetryEscrow, EscrowInv, TypeOK, RowInv
  <2>2. SessionOf(row) = None
    BY <2>1 DEF Sound, SessionOf, Price
  <2>. QED
    BY <1>2, <2>1, <2>2, BeginCallKeeps DEF RetryEscrow, EscrowInv, TypeOK, RowInv
<1>3. CASE ResumeEscrow
  BY <1>3, BeginKeeps DEF ResumeEscrow, EscrowInv, TypeOK, RowInv, Traceable, Kinds
<1>4. ASSUME NEW kind \in Kinds, GetEscrow(kind) PROVE EscrowInv'
  BY <1>4, BeginKeeps DEF GetEscrow, EscrowInv, TypeOK, RowInv, Kinds
<1>5. CASE ReleaseEscrow
  BY <1>5, BeginKeeps DEF ReleaseEscrow, EscrowInv, TypeOK, RowInv, Kinds
<1>6. CASE RefundEscrow
  BY <1>6, BeginKeeps DEF RefundEscrow, EscrowInv, TypeOK, RowInv, Kinds
<1>. QED
  BY <1>1, <1>2, <1>3, <1>4, <1>5, <1>6 DEF Requests

LEMMA WorkerKeeps == EscrowInv /\ Worker => EscrowInv'
<1> SUFFICES ASSUME EscrowInv, Worker PROVE EscrowInv'
  OBVIOUS
<1>1. ASSUME UNCHANGED <<marketVars, method, row, old, op, net, stripeVars, known, keysSent>>,
             listed' \in BOOLEAN, listed' => row # None
      PROVE  EscrowInv'
  BY <1>1, Unmoving DEF EscrowInv, TypeOK, OpInv, NetInv, marketVars, stripeVars
<1>2. CASE ReconciliationJobs
  BY <1>1, <1>2 DEF ReconciliationJobs
<1>3. CASE SkipReconcile
  BY <1>1, <1>3 DEF SkipReconcile
<1>4. CASE Reconcile
  <2>1. CASE Traceable /\ Begin("reconcile", "sync", row) /\ UNCHANGED <<net, keysSent>>
    BY <1>4, <2>1, BeginKeeps DEF Reconcile, Kinds
  <2>2. CASE ~Traceable /\ ~old /\ BeginCall("reconcile", row) /\ UNCHANGED old
    BY <1>4, <2>2, BeginCallKeeps DEF Reconcile, EscrowInv, TypeOK, RowInv, Traceable, SessionOf
  <2>. QED
    BY <1>4, <2>1, <2>2 DEF Reconcile
<1>. QED
  BY <1>2, <1>3, <1>4 DEF Worker

-----------------------------------------------------------------------------
(* Operations go on and end. *)

LEMMA OpMoves ==
  ASSUME EscrowInv, op # Idle, Unmoved,
         NEW o \in Op, op' = o, o.kind = op.kind, o.step # "idle", o.tx \in Row,
         Sound(o.tx, contract[Job], sess), row # None => Continues(row, o.tx),
         Informed(o, status[Job], sess), Answered(o, sess, remembered),
         net' \subseteq Request,
         \A r \in net' \ net : Fits(r.verb, status[Job]) /\ r.session # None
  PROVE  EscrowInv'
<1>1. UNCHANGED <<marketVars, method, row, stripeVars, known>> /\ UNCHANGED <<old, listed, keysSent>>
  BY DEF Unmoved
<1>2. OpInv'
  BY <1>1 DEF EscrowInv, OpInv, marketVars, stripeVars
<1>3. NetInv'
  BY <1>1 DEF EscrowInv, NetInv, marketVars
<1>. QED
  BY <1>1, <1>2, <1>3, Unmoving DEF EscrowInv, TypeOK, RowInv

\* What is known of an operation that is under way.
LEMMA UnderWay ==
  ASSUME EscrowInv, op.step # "idle"
  PROVE  /\ op # Idle /\ op \in Op /\ op.kind \in Kinds /\ op.tx \in Row
         /\ Sound(op.tx, contract[Job], sess) /\ (row # None => Continues(row, op.tx))
         /\ Informed(op, status[Job], sess) /\ Answered(op, sess, remembered)
<1>1. Idle.step = "idle"
  BY DEF Idle
<1>. QED
  BY <1>1 DEF EscrowInv, OpInv, TypeOK, Op

LEMMA LaterTransitive ==
  ASSUME NEW a \in TxStatus, NEW b \in TxStatus, NEW c \in TxStatus, Later(a, b), Later(b, c)
  PROVE  Later(a, c)
  BY DEF Later, TxStatus

LEMMA ContinuesTransitive ==
  ASSUME NEW r \in Row, NEW t \in Row, NEW u \in Row, Continues(r, t), Continues(t, u)
  PROVE  Continues(r, u)
<1>1. r.status \in TxStatus /\ t.status \in TxStatus /\ u.status \in TxStatus
  BY DEF Row
<1>2. Later(r.status, u.status)
  BY <1>1, LaterTransitive DEF Continues
<1>. QED
  BY <1>2 DEF Continues

LEMMA CheckoutStatusIsTrue ==
  ASSUME NEW s \in Session, s.state = "expired" => s.intent # "unpaid"
  PROVE  LET c == CheckoutStatus(s)
         IN  /\ c \in TxStatus \ {"REFUNDED"}
             /\ TrueOf(c, s)
             /\ c = "PENDING" => s.intent \in {"none", "unpaid"}
             /\ \A a \in TxStatus \ {"REFUNDED"} : TrueOf(a, s) => Later(a, c)
<1> USE DEF TrueOf, Closed, GivenUp, TxStatus, Later
<1>1. CASE s.intent = "authorized"
  <2>1. CheckoutStatus(s) = "HELD"
    BY <1>1 DEF CheckoutStatus
  <2>. QED
    BY <1>1, <2>1
<1>2. CASE s.intent \in {"captured", "refunded"}
  <2>1. CheckoutStatus(s) = "RELEASED"
    BY <1>2 DEF CheckoutStatus
  <2>. QED
    BY <1>2, <2>1
<1>3. CASE s.intent = "canceled"
  <2>1. CheckoutStatus(s) = "EXPIRED"
    BY <1>3 DEF CheckoutStatus
  <2>. QED
    BY <1>3, <2>1
<1>4. CASE s.intent \in {"none", "unpaid"}
  <2>1. CheckoutStatus(s) = IF s.state = "expired" THEN "EXPIRED" ELSE "PENDING"
    BY <1>4 DEF CheckoutStatus
  <2>. QED
    BY <1>4, <2>1
<1>. QED
  BY <1>1, <1>2, <1>3, <1>4 DEF Session

LEMMA SyncedFields ==
  ASSUME TypeOK, NEW tx \in Row, SessionOf(tx) # None
  PROVE  LET n  == Synced(tx)
             id == SessionOf(tx)
         IN  /\ id \in Sessions
             /\ n \in Row
             /\ n.key = tx.key /\ n.money = tx.money /\ n.checkout = id
             /\ n.status = IF tx.status = "REFUNDED" THEN "REFUNDED" ELSE CheckoutStatus(sess[id])
<1> DEFINE id == SessionOf(tx)
           pi == IF sess[id].intent = "none" THEN None ELSE id
           st == IF tx.status = "REFUNDED" THEN "REFUNDED" ELSE CheckoutStatus(sess[id])
<1>1. id \in Sessions /\ pi \in Sessions \union {None}
  BY DEF SessionOf, Row
<1>2. st \in TxStatus
  <2>1. sess[id] \in Session
    BY <1>1 DEF TypeOK
  <2>. QED
    BY <2>1 DEF CheckoutStatus, TxStatus
<1>3. Synced(tx) = [tx EXCEPT !.checkout = id, !.intent = pi, !.status = st]
  BY DEF Synced, SessionOf
<1> HIDE DEF id, pi, st
<1>4. /\ Synced(tx) \in Row
      /\ Synced(tx).key = tx.key /\ Synced(tx).money = tx.money /\ Synced(tx).checkout = id
      /\ Synced(tx).status = st
  BY <1>1, <1>2, <1>3 DEF Row
<1>. QED
  BY <1>1, <1>4 DEF id, st

LEMMA SyncedIsSound ==
  ASSUME EscrowInv, NEW tx \in Row, SessionOf(tx) # None, Sound(tx, contract[Job], sess)
  PROVE  Sound(Synced(tx), contract[Job], sess) /\ Continues(tx, Synced(tx))
<1> DEFINE n == Synced(tx)  id == SessionOf(tx)
<1>1. /\ id \in Sessions /\ n \in Row
      /\ n.key = tx.key /\ n.money = tx.money /\ n.checkout = id
      /\ n.status = IF tx.status = "REFUNDED" THEN "REFUNDED" ELSE CheckoutStatus(sess[id])
  BY SyncedFields DEF EscrowInv
<1> HIDE DEF n, id
<1>2. sess[id] \in Session /\ SessionOK(id, sess[id], row, known)
  BY <1>1 DEF EscrowInv, TypeOK, SessionInv
<1>3. /\ CheckoutStatus(sess[id]) \in TxStatus \ {"REFUNDED"}
      /\ TrueOf(CheckoutStatus(sess[id]), sess[id])
      /\ CheckoutStatus(sess[id]) = "PENDING" => sess[id].intent \in {"none", "unpaid"}
      /\ \A a \in TxStatus \ {"REFUNDED"} : TrueOf(a, sess[id]) => Later(a, CheckoutStatus(sess[id]))
  BY <1>2, CheckoutStatusIsTrue DEF SessionOK
<1>4. SessionOf(n) = id /\ id # None
  BY <1>1, NoneAssumption DEF SessionOf
<1>5. TrueOf(tx.status, sess[id]) /\ tx.status \in TxStatus
  BY DEF Sound, id, Row
<1>6. TrueOf(n.status, sess[id]) /\ Later(tx.status, n.status)
  BY <1>1, <1>3, <1>5 DEF Later
<1>7. Continues(tx, n)
  BY <1>1, <1>4, <1>6 DEF Continues, SessionOf, id
<1>8. tx.money.currency = "USD" => n.status # "PENDING"
  BY <1>1, <1>2, <1>3 DEF Sound, id, SessionOK
<1>9. Sound(n, contract[Job], sess)
  BY <1>1, <1>4, <1>6, <1>8 DEF Sound, id
<1>. QED
  BY <1>7, <1>9 DEF n

LEMMA AfterSyncCases ==
  ASSUME NEW kind \in Kinds, NEW tx \in Row, kind = "release" => status[Job] = "COMPLETED"
  PROVE  LET a == AfterSync(kind, tx)
         IN  /\ a \in {"done", "failed", "capture", "decide"}
             /\ a = "capture" => status[Job] = "COMPLETED" /\ tx.status = "HELD"
             /\ a = "decide" => status[Job] = "CANCELLED" /\ tx.status \notin {"REFUNDED", "EXPIRED"}
<1>1. CASE kind = "init"
  BY <1>1 DEF AfterSync
<1>2. CASE kind = "release"
  BY <1>2 DEF AfterSync
<1>3. CASE kind \notin {"init", "release"}
  <2>1. AfterSync(kind, tx) = IF status[Job] = "CANCELLED" /\ tx.status \notin {"REFUNDED", "EXPIRED"}
                              THEN "decide" ELSE "done"
    BY <1>3 DEF AfterSync, GivesBack
  <2>. QED
    BY <2>1
<1>. QED
  BY <1>1, <1>2, <1>3

\* An operation sends the next call, about a session it has looked at.
LEMMA CallKeeps ==
  ASSUME EscrowInv, op # Idle, op \in Op, Unmoved, NEW tx \in Row, NEW verb \in Verbs \ {"create"},
         Call(tx, verb), op.kind = "release" => status[Job] = "COMPLETED",
         Fits(verb, status[Job]), verb = "capture" => tx.status = "HELD",
         verb \in Returns => tx.status \notin {"REFUNDED", "EXPIRED"},
         tx.checkout # None, sess[tx.checkout].money = tx.money,
         Sound(tx, contract[Job], sess), row # None => Continues(row, tx)
  PROVE  EscrowInv'
<1> DEFINE o == [op EXCEPT !.step = "waiting", !.tx = tx, !.verb = verb]
           r == RequestOf(verb, tx)
<1>1. o \in Op /\ o.kind = op.kind /\ o.step = "waiting" /\ o.tx = tx /\ o.verb = verb
  BY DEF Op, Steps
<1>2. op' = o /\ net' = net \union {r}
  BY DEF Call
<1>3. r \in Request /\ r.verb = verb /\ r.session = tx.checkout
  BY RequestOfFields
<1> HIDE DEF o, r
<1>4. Informed(o, status[Job], sess) /\ Answered(o, sess, remembered)
  BY <1>1 DEF Informed, Answered, Calling
<1>5. net' \subseteq Request /\ \A q \in net' \ net : Fits(q.verb, status[Job]) /\ q.session # None
  BY <1>2, <1>3 DEF EscrowInv, TypeOK
<1>. QED
  BY <1>1, <1>2, <1>4, <1>5, OpMoves

LEMMA SyncKeeps == EscrowInv /\ Sync => EscrowInv'
<1> SUFFICES ASSUME EscrowInv, Sync PROVE EscrowInv'
  OBVIOUS
<1> DEFINE tx == Synced(op.tx)
           next == AfterSync(op.kind, tx)
<1>0. /\ op.step = "sync" /\ Unmoved
      /\ sess[tx.checkout].money = tx.money
      /\ IF next = "capture" THEN Call(tx, "capture")
         ELSE op' = [op EXCEPT !.step = next, !.tx = tx] /\ UNCHANGED net
  BY DEF Sync
<1>1. /\ op # Idle /\ op \in Op /\ op.kind \in Kinds /\ op.tx \in Row
      /\ Sound(op.tx, contract[Job], sess) /\ (row # None => Continues(row, op.tx))
      /\ Informed(op, status[Job], sess)
  BY <1>0, UnderWay
<1>2. SessionOf(op.tx) # None /\ (op.kind = "release" => status[Job] = "COMPLETED")
  BY <1>0, <1>1 DEF Informed
<1>3. tx \in Row /\ tx.checkout # None
  BY <1>1, <1>2, SyncedFields DEF EscrowInv
<1>4. Sound(tx, contract[Job], sess) /\ Continues(op.tx, tx)
  BY <1>1, <1>2, SyncedIsSound
<1>5. row # None => Continues(row, tx)
  BY <1>1, <1>3, <1>4, ContinuesTransitive DEF EscrowInv, TypeOK
<1> HIDE DEF tx
<1>6. /\ next \in {"done", "failed", "capture", "decide"}
      /\ next = "capture" => status[Job] = "COMPLETED" /\ tx.status = "HELD"
      /\ next = "decide" => status[Job] = "CANCELLED" /\ tx.status \notin {"REFUNDED", "EXPIRED"}
  BY <1>1, <1>2, <1>3, AfterSyncCases
<1> HIDE DEF next
<1>7. CASE next = "capture"
  BY <1>0, <1>1, <1>2, <1>3, <1>4, <1>5, <1>6, <1>7, CallKeeps DEF Verbs, Fits, Returns
<1>8. CASE next # "capture"
  <2> DEFINE o == [op EXCEPT !.step = next, !.tx = tx]
  <2>1. o \in Op /\ o.kind = op.kind /\ o.step = next /\ o.tx = tx
    BY <1>1, <1>3, <1>6, <1>8 DEF Op, Steps
  <2>2. op' = o /\ UNCHANGED net
    BY <1>0, <1>8
  <2> HIDE DEF o
  <2>3. Informed(o, status[Job], sess) /\ Answered(o, sess, remembered)
    BY <1>0, <1>2, <1>3, <1>6, <1>8, <2>1 DEF Informed, Answered, Calling
  <2>. QED
    BY <1>0, <1>1, <1>3, <1>4, <1>5, <1>6, <1>8, <2>1, <2>2, <2>3, OpMoves DEF EscrowInv, TypeOK
<1>. QED
  BY <1>7, <1>8

LEMMA RefundedFields ==
  ASSUME NEW tx \in Row
  PROVE  LET n == Refunded(tx)
         IN  /\ n \in Row
             /\ n.status = "REFUNDED" /\ SessionOf(n) = SessionOf(tx)
             /\ n.key = tx.key /\ n.money = tx.money /\ n.checkout = tx.checkout
  BY DEF Refunded, Row, TxStatus, SessionOf

\* Writing REFUNDED once nothing can be charged any more.
LEMMA RefundedIsSound ==
  ASSUME NEW tx \in Row, tx.checkout # None, tx.status \notin {"REFUNDED", "EXPIRED"},
         Sound(tx, contract[Job], sess), GivenUp(sess[tx.checkout])
  PROVE  Sound(Refunded(tx), contract[Job], sess) /\ Continues(tx, Refunded(tx))
<1> DEFINE n == Refunded(tx)
<1>1. /\ n \in Row /\ n.status = "REFUNDED" /\ SessionOf(n) = SessionOf(tx)
      /\ n.key = tx.key /\ n.money = tx.money /\ n.checkout = tx.checkout
  BY RefundedFields
<1> HIDE DEF n
<1>2. SessionOf(tx) = tx.checkout
  BY DEF SessionOf
<1>3. TrueOf(n.status, sess[SessionOf(n)])
  BY <1>1, <1>2 DEF TrueOf
<1>4. Later(tx.status, n.status)
  BY <1>1 DEF Later, Row, TxStatus
<1>5. Sound(n, contract[Job], sess) /\ Continues(tx, n)
  BY <1>1, <1>2, <1>3, <1>4 DEF Sound, Continues
<1>. QED
  BY <1>5 DEF n

LEMMA DecideKeeps == EscrowInv /\ Decide => EscrowInv'
<1> SUFFICES ASSUME EscrowInv, Decide PROVE EscrowInv'
  OBVIOUS
<1> DEFINE s == sess[op.tx.checkout]
           verb == RefundCall(s)
<1>0. /\ op.step = "decide" /\ Unmoved
      /\ IF verb # None THEN Call(op.tx, verb)
         ELSE op' = [op EXCEPT !.step = "done", !.tx = Refunded(op.tx)] /\ UNCHANGED net
  BY DEF Decide
<1>1. /\ op # Idle /\ op \in Op /\ op.tx \in Row
      /\ Sound(op.tx, contract[Job], sess) /\ (row # None => Continues(row, op.tx))
      /\ Informed(op, status[Job], sess)
  BY <1>0, UnderWay
<1>2. /\ status[Job] = "CANCELLED" /\ op.tx.status \notin {"REFUNDED", "EXPIRED"}
      /\ op.tx.checkout # None /\ s.money = op.tx.money
      /\ (op.kind = "release" => status[Job] = "COMPLETED")
  BY <1>0, <1>1 DEF Informed
<1>3. verb \in Returns \union {None} /\ (verb = None => GivenUp(s))
  BY NoneAssumption DEF RefundCall, Returns, GivenUp, Closed, Verbs
<1>4. CASE verb # None
  <2>1. verb \in Verbs \ {"create"} /\ Fits(verb, status[Job]) /\ verb # "capture"
    BY <1>2, <1>3, <1>4 DEF Returns, Verbs, Fits
  <2> HIDE DEF verb
  <2>. QED
    BY <1>0, <1>1, <1>2, <1>4, <2>1, CallKeeps
<1>5. CASE verb = None
  <2> DEFINE n == Refunded(op.tx)
             o == [op EXCEPT !.step = "done", !.tx = n]
  <2>1. /\ n \in Row /\ n.checkout = op.tx.checkout /\ n.money = op.tx.money
    BY <1>1, RefundedFields
  <2>2. Sound(n, contract[Job], sess) /\ Continues(op.tx, n)
    BY <1>1, <1>2, <1>3, <1>5, RefundedIsSound
  <2>3. op' = o /\ UNCHANGED net
    BY <1>0, <1>5
  <2> HIDE DEF n
  <2>4. o \in Op /\ o.kind = op.kind /\ o.step = "done" /\ o.tx = n
    BY <1>1, <2>1 DEF Op, Steps
  <2> HIDE DEF o
  <2>5. Informed(o, status[Job], sess) /\ Answered(o, sess, remembered)
    BY <1>2, <2>1, <2>4 DEF Informed, Answered, Calling
  <2>6. row # None => Continues(row, n)
    BY <1>1, <2>1, <2>2, ContinuesTransitive DEF EscrowInv, TypeOK
  <2>. QED
    BY <1>0, <1>1, <2>1, <2>2, <2>3, <2>4, <2>5, <2>6, OpMoves DEF EscrowInv, TypeOK
<1>. QED
  BY <1>4, <1>5

\* The row after the answer to a call.
Replied(o, rem) == CASE o.verb = "create"  -> [o.tx EXCEPT !.checkout = rem[o.tx.key]]
                     [] o.verb = "capture" -> [o.tx EXCEPT !.status = "RELEASED"]
                     [] OTHER              -> Refunded(o.tx)

LEMMA CreatedIsSound ==
  ASSUME EscrowInv, NEW tx \in Row, NEW s \in Sessions, SessionOf(tx) = None,
         Sound(tx, contract[Job], sess)
  PROVE  LET n == [tx EXCEPT !.checkout = s]
         IN  /\ n \in Row /\ n.checkout = s /\ n.money = tx.money /\ SessionOf(n) # None
             /\ Sound(n, contract[Job], sess) /\ Continues(tx, n)
<1> DEFINE n == [tx EXCEPT !.checkout = s]
<1>1. /\ n \in Row /\ n.checkout = s /\ n.status = tx.status /\ n.key = tx.key /\ n.money = tx.money
  BY DEF Row
<1> HIDE DEF n
<1>2. SessionOf(n) = s /\ s # None
  BY <1>1, NoneAssumption DEF SessionOf
<1>3. tx.status = "PENDING" /\ tx.money.currency # "USD" /\ TrueOf(n.status, sess[s])
  BY <1>1 DEF Sound, TrueOf
<1>4. Sound(n, contract[Job], sess)
  BY <1>1, <1>2, <1>3 DEF Sound
<1>5. tx.checkout = None
  BY DEF SessionOf
<1>6. Continues(tx, n)
  BY <1>1, <1>5 DEF Continues, Later
<1>. QED
  BY <1>1, <1>2, <1>4, <1>6 DEF n

LEMMA ReleasedIsSound ==
  ASSUME NEW tx \in Row, tx.checkout # None, tx.status = "HELD",
         Sound(tx, contract[Job], sess), sess[tx.checkout].intent \in {"captured", "refunded"}
  PROVE  LET n == [tx EXCEPT !.status = "RELEASED"]
         IN  /\ n \in Row /\ n.checkout = tx.checkout /\ n.money = tx.money
             /\ Sound(n, contract[Job], sess) /\ Continues(tx, n)
<1> DEFINE n == [tx EXCEPT !.status = "RELEASED"]
<1>1. /\ n \in Row /\ n.checkout = tx.checkout /\ n.status = "RELEASED" /\ n.key = tx.key /\ n.money = tx.money
      /\ n.intent = tx.intent
  BY DEF Row, TxStatus
<1> HIDE DEF n
<1>2. SessionOf(n) = tx.checkout /\ SessionOf(tx) = tx.checkout
  BY <1>1 DEF SessionOf
<1>3. Sound(n, contract[Job], sess)
  BY <1>1, <1>2 DEF Sound, TrueOf
<1>4. Continues(tx, n)
  BY <1>1, <1>2 DEF Continues, Later
<1>. QED
  BY <1>1, <1>3, <1>4 DEF n

LEMMA TakeReplyKeeps == EscrowInv /\ TakeReply => EscrowInv'
<1> SUFFICES ASSUME EscrowInv, TakeReply PROVE EscrowInv'
  OBVIOUS
<1> DEFINE n == Replied(op, remembered)
           next == IF op.verb = "create" THEN "sync" ELSE "done"
           o == [op EXCEPT !.step = next, !.verb = None, !.tx = n]
<1>0. op.step = "replied" /\ Unmoved /\ op' = o /\ UNCHANGED net
  BY DEF TakeReply, Replied
<1>1. /\ op # Idle /\ op \in Op /\ op.tx \in Row
      /\ Sound(op.tx, contract[Job], sess) /\ (row # None => Continues(row, op.tx))
      /\ Informed(op, status[Job], sess) /\ Answered(op, sess, remembered)
  BY <1>0, UnderWay
<1>2. /\ op.verb \in Verbs /\ (op.kind = "release" => status[Job] = "COMPLETED")
      /\ op.verb = "create" => SessionOf(op.tx) = None /\ remembered[op.tx.key] # None
      /\ op.verb # "create" => op.tx.checkout # None /\ sess[op.tx.checkout].money = op.tx.money
      /\ op.verb = "capture" => op.tx.status = "HELD" /\ sess[op.tx.checkout].intent \in {"captured", "refunded"}
      /\ op.verb \in Returns => /\ op.tx.status \notin {"REFUNDED", "EXPIRED"}
                                /\ GivenUp(sess[op.tx.checkout])
  BY <1>0, <1>1 DEF Informed, Answered, Calling
<1>3. /\ n \in Row /\ Sound(n, contract[Job], sess) /\ Continues(op.tx, n)
      /\ op.verb = "create" => SessionOf(n) # None
      /\ op.verb # "create" => n.checkout = op.tx.checkout /\ n.money = op.tx.money
  <2>1. CASE op.verb = "create"
    <3>1. remembered[op.tx.key] \in Sessions
      BY <1>1, <1>2, <2>1 DEF EscrowInv, TypeOK, Row
    <3>2. n = [op.tx EXCEPT !.checkout = remembered[op.tx.key]]
      BY <2>1 DEF Replied
    <3>. QED
      BY <1>1, <1>2, <2>1, <3>1, <3>2, CreatedIsSound
  <2>2. CASE op.verb = "capture"
    <3>1. n = [op.tx EXCEPT !.status = "RELEASED"]
      BY <2>2 DEF Replied
    <3>. QED
      BY <1>1, <1>2, <2>2, <3>1, ReleasedIsSound
  <2>3. CASE op.verb \notin {"create", "capture"}
    <3>1. n = Refunded(op.tx) /\ op.verb \in Returns
      BY <1>2, <2>3 DEF Replied, Verbs, Returns
    <3>. QED
      BY <1>1, <1>2, <2>3, <3>1, RefundedIsSound, RefundedFields
  <2>. QED
    BY <2>1, <2>2, <2>3
<1> HIDE DEF n
<1>4. o \in Op /\ o.kind = op.kind /\ o.step = next /\ o.tx = n
  BY <1>1, <1>3 DEF Op, Steps
<1> HIDE DEF o
<1>5. Informed(o, status[Job], sess) /\ Answered(o, sess, remembered)
  BY <1>2, <1>3, <1>4 DEF Informed, Answered, Calling
<1>6. row # None => Continues(row, n)
  BY <1>1, <1>3, ContinuesTransitive DEF EscrowInv, TypeOK
<1>. QED
  BY <1>0, <1>1, <1>3, <1>4, <1>5, <1>6, OpMoves DEF EscrowInv, TypeOK

LEMMA CallFailsKeeps == EscrowInv /\ CallFails => EscrowInv'
<1> SUFFICES ASSUME EscrowInv, CallFails PROVE EscrowInv'
  OBVIOUS
<1> DEFINE o == [op EXCEPT !.step = "failed", !.verb = None]
<1>0. op.step # "idle" /\ Unmoved /\ op' = o /\ UNCHANGED net
  BY DEF CallFails
<1>1. /\ op # Idle /\ op \in Op /\ op.tx \in Row
      /\ Sound(op.tx, contract[Job], sess) /\ (row # None => Continues(row, op.tx))
      /\ Informed(op, status[Job], sess)
  BY <1>0, UnderWay
<1>2. o \in Op /\ o.kind = op.kind /\ o.step = "failed" /\ o.tx = op.tx
  BY <1>1 DEF Op, Steps
<1> HIDE DEF o
<1>3. Informed(o, status[Job], sess) /\ Answered(o, sess, remembered)
  BY <1>1, <1>2 DEF Informed, Answered, Calling
<1>. QED
  BY <1>0, <1>1, <1>2, <1>3, OpMoves DEF EscrowInv, TypeOK

LEMMA IdleIsOp == Idle \in Op
  BY DEF Idle, Op, Kinds, Steps

LEMMA AbortKeeps == EscrowInv /\ Abort => EscrowInv'
  BY IdleIsOp, Unmoving DEF Abort, Unmoved, EscrowInv, TypeOK, RowInv, OpInv, NetInv, marketVars

\* The row that is committed stands for the same money and the same session.
LEMMA CommitKeeps == EscrowInv /\ Commit => EscrowInv'
<1> SUFFICES ASSUME EscrowInv, Commit PROVE EscrowInv'
  OBVIOUS
<1>0. /\ op.step \in {"done", "failed"} /\ row' = op.tx /\ op' = Idle
      /\ known' = IF op.step = "done" /\ op.kind \in {"init", "customerRead"} /\ op.tx.status = "PENDING"
                  THEN known \union {op.tx.checkout} ELSE known
      /\ UNCHANGED <<status, contract, method, old, listed, net, sess, remembered, keysSent>>
  BY DEF Commit, marketVars, stripeVars
<1>1. /\ op \in Op /\ op.tx \in Row
      /\ Sound(op.tx, contract[Job], sess) /\ (row # None => Continues(row, op.tx))
      /\ Informed(op, status[Job], sess)
  BY <1>0, UnderWay
<1>2. op.step = "done" => op.tx.checkout \in Sessions /\ sess[op.tx.checkout].money = op.tx.money
  BY <1>1 DEF Informed, Row
<1>3. row' # None
  BY <1>0, <1>1, NoneAssumption
<1>4. TypeOK' /\ BookInv' /\ NetInv' /\ OpInv' /\ ReturnInv'
  BY <1>0, <1>1, <1>2, IdleIsOp DEF EscrowInv, TypeOK, BookInv, NetInv, OpInv, ReturnInv
<1>5. RowInv'
  BY <1>0, <1>1, <1>3 DEF RowInv
<1>6. known \subseteq known'
  BY <1>0
<1>7. ASSUME NEW s \in Sessions PROVE SessionOK(s, sess[s], row', known')
  <2>1. SessionOK(s, sess[s], row, known)
    BY DEF EscrowInv, SessionInv
  <2>2. sess[s].state = "bare" => SessionOf(row') = s /\ row'.money = row.money
    BY <1>0, <1>1, <2>1, NoneAssumption DEF SessionOK, Continues
  <2>. QED
    BY <1>3, <1>6, <2>1, <2>2 DEF SessionOK
<1>8. SessionInv'
  BY <1>0, <1>7 DEF SessionInv
<1>9. ASSUME NEW s \in known' PROVE KnownOK(s, row', sess)
  <2>1. CASE s \in known
    <3>1. KnownOK(s, row, sess) /\ s \in Sessions
      BY <2>1 DEF EscrowInv, KnownInv, TypeOK
    <3>. QED
      BY <1>0, <1>1, <1>3, <3>1, NoneAssumption DEF KnownOK, Continues
  <2>2. CASE s \notin known
    <3>1. op.step = "done" /\ op.tx.status = "PENDING" /\ s = op.tx.checkout
      BY <1>0, <2>2
    <3>2. op.tx.money.currency = "PHP"
      BY <1>1, <3>1 DEF Sound, Row, Money
    <3>. QED
      BY <1>0, <1>2, <1>3, <3>1, <3>2 DEF KnownOK
  <2>. QED
    BY <2>1, <2>2
<1>10. KnownInv'
  BY <1>0, <1>9 DEF KnownInv
<1>. QED
  BY <1>4, <1>5, <1>8, <1>10 DEF EscrowInv

LEMMA OperationKeeps == EscrowInv /\ Operation => EscrowInv'
  BY SyncKeeps, DecideKeeps, TakeReplyKeeps, CallFailsKeeps, CommitKeeps, AbortKeeps DEF Operation

-----------------------------------------------------------------------------
(* Stripe, the customer's browser, and time. *)

\* A session becomes x: nothing that was true of its money stops being true.
Preserves(y, x) ==
    \/ y = Blank
    \/ /\ x.money = y.money
       /\ y.state = "bare" => x.state = "bare"
       /\ \A st : TrueOf(st, y) => TrueOf(st, x)
       /\ GivenUp(y) => GivenUp(x)
       /\ y.intent \in {"captured", "refunded"} => x.intent \in {"captured", "refunded"}

LEMMA BlankIsNothing ==
  /\ Blank.state = "none" /\ Blank.intent = "none" /\ Blank.money = None
  /\ ~GivenUp(Blank) /\ \A st \in TxStatus : TrueOf(st, Blank) => st = "PENDING"
  BY DEF Blank, GivenUp, Closed, TrueOf, TxStatus

LEMMA SessionMoves ==
  ASSUME EscrowInv, NEW s \in Sessions, NEW x \in Session, sess' = [sess EXCEPT ![s] = x],
         UNCHANGED <<status, contract, row, listed, known>>,
         SessionOK(s, x, row, known), Withdrawn(x, status[Job]), Preserves(sess[s], x)
  PROVE  /\ sess' \in [Sessions -> Session]
         /\ RowInv' /\ SessionInv' /\ KnownInv' /\ ReturnInv'
         /\ \A tx \in Row : Sound(tx, contract[Job], sess) => Sound(tx, contract[Job], sess')
         /\ \A o \in Op : (o.tx \in Row /\ Informed(o, status[Job], sess)) =>
               /\ Informed(o, status[Job], sess')
               /\ Answered(o, sess, remembered) => Answered(o, sess', remembered)
<1>1. /\ sess' \in [Sessions -> Session] /\ sess'[s] = x
      /\ \A t \in Sessions \ {s} : sess'[t] = sess[t]
  BY DEF EscrowInv, TypeOK
<1>2. \A tx \in Row : SessionOf(tx) \in Sessions \union {None}
  BY DEF Row, SessionOf
<1>3. ASSUME NEW tx \in Row, Sound(tx, contract[Job], sess) PROVE Sound(tx, contract[Job], sess')
  <2>1. CASE SessionOf(tx) # s
    BY <1>1, <1>2, <1>3, <2>1 DEF Sound
  <2>2. CASE SessionOf(tx) = s /\ sess[s] = Blank
    <3>1. tx.status = "PENDING" /\ tx.money.currency # "USD" /\ s # None
      BY <1>3, <2>2, BlankIsNothing, NoneAssumption DEF Sound, Row
    <3>. QED
      BY <1>3, <2>2, <3>1 DEF Sound, TrueOf
  <2>3. CASE SessionOf(tx) = s /\ sess[s] # Blank
    BY <1>1, <1>3, <2>3 DEF Sound, Preserves
  <2>. QED
    BY <2>1, <2>2, <2>3
<1>4. ASSUME NEW o \in Op, o.tx \in Row, Informed(o, status[Job], sess)
      PROVE  /\ Informed(o, status[Job], sess')
             /\ Answered(o, sess, remembered) => Answered(o, sess', remembered)
  <2>1. o.tx.checkout \in Sessions \union {None} /\ o.tx.money # None
    BY <1>4, NoneAssumption DEF Row
  <2>2. CASE o.tx.checkout # s
    BY <1>1, <1>4, <2>1, <2>2 DEF Informed, Answered, Calling, Returns
  <2>3. CASE o.tx.checkout = s /\ sess[s] = Blank
    BY <1>4, <2>1, <2>3, BlankIsNothing DEF Informed, Answered, Calling, Returns
  <2>4. CASE o.tx.checkout = s /\ sess[s] # Blank
    <3>1. Informed(o, status[Job], sess')
      BY <1>1, <1>4, <2>4 DEF Informed, Preserves
    <3>2. Answered(o, sess, remembered) => Answered(o, sess', remembered)
      BY <1>1, <2>4 DEF Answered, Preserves
    <3>. QED
      BY <3>1, <3>2
  <2>. QED
    BY <2>2, <2>3, <2>4
<1>5. RowInv'
  BY <1>3 DEF EscrowInv, RowInv, TypeOK
<1>6. SessionInv' /\ ReturnInv'
  BY <1>1 DEF EscrowInv, SessionInv, ReturnInv
<1>7. ASSUME NEW t \in known PROVE KnownOK(t, row, sess')
  <2>1. KnownOK(t, row, sess) /\ t \in Sessions /\ row \in Row
    BY DEF EscrowInv, KnownInv, TypeOK, KnownOK
  <2>2. sess[t] # Blank
    BY <2>1, BlankIsNothing, NoneAssumption DEF KnownOK, Row
  <2>. QED
    BY <1>1, <2>1, <2>2 DEF KnownOK, Preserves
<1>8. KnownInv'
  BY <1>7 DEF KnownInv
<1>. QED
  BY <1>1, <1>3, <1>4, <1>5, <1>6, <1>8

LEMMA MoveSessionKeeps ==
  ASSUME EscrowInv, NEW s \in Sessions, NEW x \in Session,
         sess' = [sess EXCEPT ![s] = x], SessionOK(s, x, row, known), Withdrawn(x, status[Job]),
         Preserves(sess[s], x),
         UNCHANGED <<marketVars, method, row, old, op, listed, net, remembered, known, keysSent>>
  PROVE  EscrowInv'
<1>1. /\ sess' \in [Sessions -> Session]
      /\ RowInv' /\ SessionInv' /\ KnownInv' /\ ReturnInv'
      /\ \A tx \in Row : Sound(tx, contract[Job], sess) => Sound(tx, contract[Job], sess')
      /\ \A o \in Op : (o.tx \in Row /\ Informed(o, status[Job], sess)) =>
            /\ Informed(o, status[Job], sess')
            /\ Answered(o, sess, remembered) => Answered(o, sess', remembered)
  BY SessionMoves DEF marketVars
<1>2. OpInv'
  BY <1>1 DEF EscrowInv, OpInv, TypeOK, marketVars
<1>. QED
  BY <1>1, <1>2 DEF EscrowInv, TypeOK, BookInv, NetInv, marketVars

LEMMA BrowserKeeps ==
  ASSUME EscrowInv, NEW s \in Sessions, EnterCard(s) \/ Authorize(s) \/ SessionExpires(s) \/ HoldExpires(s)
  PROVE  EscrowInv'
<1> DEFINE y == sess[s]
           Fine(st, pi) == \A x \in Session : x.state = st /\ x.intent = pi /\ x.money = y.money
                               => SessionOK(s, x, row, known) /\ Preserves(y, x)
<1> HIDE DEF Fine
<1>0. /\ y \in Session /\ SessionOK(s, y, row, known)
      /\ s \in known => y.state # "bare"
  BY DEF EscrowInv, TypeOK, SessionInv, SessionOK, KnownInv, KnownOK
<1>1. ASSUME NEW st \in {"bare", "open", "complete", "expired"},
             NEW pi \in {"none", "unpaid", "authorized", "captured", "canceled", "refunded"},
             NEW l \in BOOLEAN, pi = "canceled" \/ st = "expired" => l,
             MoveSession(s, st, pi, l), Fine(st, pi)
      PROVE  EscrowInv'
  <2> DEFINE x == [y EXCEPT !.state = st, !.intent = pi, !.lapsed = l]
  <2>1. x \in Session /\ x.state = st /\ x.intent = pi /\ x.money = y.money /\ x.lapsed = l
    BY <1>0 DEF Session
  <2>2. sess' = [sess EXCEPT ![s] = x]
    BY <1>1 DEF MoveSession, EscrowInv, TypeOK
  <2> HIDE DEF x
  <2>3. SessionOK(s, x, row, known) /\ Preserves(y, x)
    BY <1>1, <2>1 DEF Fine
  <2>4. Withdrawn(x, status[Job])
    BY <1>1, <2>1 DEF Withdrawn, Closed
  <2>5. UNCHANGED <<marketVars, method, row, old, op, listed, net, remembered, known, keysSent>>
    BY <1>1 DEF MoveSession
  <2>. QED
    BY <2>1, <2>2, <2>3, <2>4, <2>5, MoveSessionKeeps
<1> USE DEF SessionOK, Preserves, TrueOf, GivenUp, Closed, Live
<1>3. CASE EnterCard(s)
  <2>1. /\ MoveSession(s, "open", "unpaid", FALSE)
        /\ s \in known /\ y.state = "open" /\ y.intent = "none"
    BY <1>3 DEF EnterCard
  <2>2. Fine("open", "unpaid")
    BY <1>0, <2>1 DEF Fine
  <2>. QED
    BY <1>1, <2>1, <2>2
<1>4. CASE Authorize(s)
  <2>1. /\ MoveSession(s, "complete", "authorized", FALSE)
        /\ s \in known /\ y.state = "open" /\ y.intent \in {"none", "unpaid"}
    BY <1>4 DEF Authorize
  <2>2. Fine("complete", "authorized")
    BY <1>0, <2>1 DEF Fine
  <2>. QED
    BY <1>1, <2>1, <2>2
<1>5. CASE SessionExpires(s)
  <2>1. MoveSession(s, "expired", IF y.intent = "unpaid" THEN "canceled" ELSE y.intent, TRUE) /\ y.state = "open"
    BY <1>5 DEF SessionExpires
  <2>2. CASE y.intent = "unpaid"
    <3>1. MoveSession(s, "expired", "canceled", TRUE) /\ Fine("expired", "canceled")
      BY <1>0, <2>1, <2>2 DEF Fine
    <3>. QED
      BY <1>1, <3>1
  <2>3. CASE y.intent = "none"
    <3>1. MoveSession(s, "expired", "none", TRUE) /\ Fine("expired", "none")
      BY <1>0, <2>1, <2>3 DEF Fine
    <3>. QED
      BY <1>1, <3>1
  <2>. QED
    BY <1>0, <2>1, <2>2, <2>3
<1>6. CASE HoldExpires(s)
  <2>1. MoveSession(s, y.state, "canceled", TRUE) /\ y.intent = "authorized"
    BY <1>6 DEF HoldExpires
  <2>2. y.state \in {"bare", "open", "complete", "expired"}
    <3>1. y.state # "none"
      BY <1>0, <2>1, BlankIsNothing
    <3>. QED
      BY <1>0, <3>1 DEF Session
  <2>3. Fine(y.state, "canceled")
    BY <1>0, <2>1, <2>2 DEF Fine
  <2>. QED
    BY <1>1, <2>1, <2>2, <2>3
<1>. QED
  BY <1>3, <1>4, <1>5, <1>6

\* The operation hears an answer, to this call or to none.
LEMMA AnswerKeeps ==
  ASSUME EscrowInv, NEW r \in Request, NEW ok \in BOOLEAN, Answer(r, ok),
         UNCHANGED <<status, contract, row>>,
         \A tx \in Row : Sound(tx, contract[Job], sess) => Sound(tx, contract[Job], sess'),
         \A o \in Op : (o.tx \in Row /\ Informed(o, status[Job], sess)) =>
               /\ Informed(o, status[Job], sess')
               /\ Answered(o, sess, remembered) => Answered(o, sess', remembered),
         \A k \in Keys : remembered[k] # None => remembered'[k] # None,
         \A o \in Op : (ok /\ o.step = "replied" /\ o.tx \in Row /\ o.verb = r.verb /\ o.tx.key = r.key
                        /\ o.tx.checkout = r.session) => Answered(o, sess', remembered')
  PROVE  op' \in Op /\ OpInv'
<1>1. ASSUME NEW o \in Op, o.tx \in Row, Answered(o, sess', remembered) PROVE Answered(o, sess', remembered')
  BY <1>1 DEF Answered, Row
<1>2. CASE op.step = "waiting" /\ RequestOf(op.verb, op.tx) = r
  <2> DEFINE next == IF ok THEN "replied" ELSE "failed"
             o == [op EXCEPT !.step = next]
  <2>1. op' = o
    BY <1>2 DEF Answer
  <2>2. /\ op # Idle /\ op \in Op /\ op.tx \in Row
        /\ Sound(op.tx, contract[Job], sess) /\ (row # None => Continues(row, op.tx))
        /\ Informed(op, status[Job], sess)
    BY <1>2, UnderWay
  <2>3. o \in Op /\ o.kind = op.kind /\ o.step = next /\ o.tx = op.tx /\ o.verb = op.verb
    BY <2>2 DEF Op, Steps
  <2>4. op.verb \in Verbs
    BY <1>2, <2>2 DEF Informed, Calling
  <2>5. r.verb = op.verb /\ r.key = op.tx.key /\ r.session = op.tx.checkout
    BY <1>2, <2>2, <2>4, RequestOfFields
  <2> HIDE DEF o
  <2>6. Informed(o, status[Job], sess)
    BY <1>2, <2>2, <2>3 DEF Informed, Calling
  <2>7. Informed(o, status[Job], sess')
    BY <2>2, <2>3, <2>6
  <2>8. Answered(o, sess', remembered')
    BY <2>2, <2>3, <2>5 DEF Answered
  <2>9. o.kind # "idle" /\ (row = None => o.kind = "init")
    BY <2>2, <2>3 DEF EscrowInv, OpInv
  <2>10. Sound(op.tx, contract[Job], sess')
    BY <2>2
  <2>. QED
    BY <2>1, <2>2, <2>3, <2>7, <2>8, <2>9, <2>10 DEF OpInv
<1>3. CASE ~(op.step = "waiting" /\ RequestOf(op.verb, op.tx) = r)
  <2>1. op' = op /\ op \in Op
    BY <1>3 DEF Answer, EscrowInv, TypeOK
  <2>. QED
    BY <1>1, <2>1 DEF EscrowInv, OpInv
<1>. QED
  BY <1>2, <1>3

LEMMA CreateSessionKeeps ==
  ASSUME EscrowInv, NEW r \in net, NEW s \in Sessions, CreateSession(r, s)
  PROVE  EscrowInv'
<1>0. /\ r \in Request /\ r.verb = "create" /\ Answer(r, TRUE) /\ net' = net \ {r}
      /\ UNCHANGED <<status, contract, method, row, old, listed, known, keysSent>>
  BY DEF CreateSession, EscrowInv, TypeOK, marketVars
<1>1. r.key \in Keys /\ r.money \in Money
  BY <1>0 DEF Request
<1>2. /\ sess' \in [Sessions -> Session] /\ RowInv' /\ SessionInv' /\ KnownInv' /\ ReturnInv'
      /\ \A tx \in Row : Sound(tx, contract[Job], sess) => Sound(tx, contract[Job], sess')
      /\ \A o \in Op : (o.tx \in Row /\ Informed(o, status[Job], sess)) =>
            /\ Informed(o, status[Job], sess')
            /\ Answered(o, sess, remembered) => Answered(o, sess', remembered)
      /\ remembered' \in [Keys -> Sessions \union {None}]
      /\ \A k \in Keys : remembered[k] # None => remembered'[k] # None
      /\ remembered'[r.key] # None
  <2>1. CASE remembered[r.key] # None
    BY <1>0, <1>1, <2>1 DEF CreateSession, stripeVars, EscrowInv, TypeOK, RowInv, SessionInv, KnownInv, ReturnInv
  <2>2. CASE remembered[r.key] = None
    <3>1. /\ sess[s] = Blank /\ remembered' = [remembered EXCEPT ![r.key] = s]
          /\ \E pi \in {"none", "unpaid"} :
                sess' = [sess EXCEPT ![s] = [Blank EXCEPT !.state = "open", !.intent = pi, !.money = r.money]]
      BY <2>2 DEF CreateSession
    <3>2. PICK pi \in {"none", "unpaid"} :
             sess' = [sess EXCEPT ![s] = [Blank EXCEPT !.state = "open", !.intent = pi, !.money = r.money]]
      BY <3>1
    <3> DEFINE x == [Blank EXCEPT !.state = "open", !.intent = pi, !.money = r.money]
    <3>3. x \in Session /\ x.state = "open" /\ x.intent \in {"none", "unpaid"} /\ x.money \in Money
      BY <1>1 DEF Session, Blank
    <3>4. sess' = [sess EXCEPT ![s] = x]
      BY <3>2
    <3> HIDE DEF x
    <3>5. SessionOK(s, x, row, known) /\ Withdrawn(x, status[Job]) /\ Preserves(sess[s], x)
      BY <3>1, <3>3 DEF SessionOK, Withdrawn, Closed, Preserves, Live
    <3>6. /\ sess' \in [Sessions -> Session] /\ RowInv' /\ SessionInv' /\ KnownInv' /\ ReturnInv'
          /\ \A tx \in Row : Sound(tx, contract[Job], sess) => Sound(tx, contract[Job], sess')
          /\ \A o \in Op : (o.tx \in Row /\ Informed(o, status[Job], sess)) =>
                /\ Informed(o, status[Job], sess')
                /\ Answered(o, sess, remembered) => Answered(o, sess', remembered)
      BY <1>0, <3>3, <3>4, <3>5, SessionMoves
    <3>7. remembered \in [Keys -> Sessions \union {None}] /\ s # None
      BY NoneAssumption DEF EscrowInv, TypeOK
    <3>8. /\ remembered' \in [Keys -> Sessions \union {None}]
          /\ \A k \in Keys : remembered[k] # None => remembered'[k] # None
          /\ remembered'[r.key] # None
      BY <1>1, <3>1, <3>7
    <3>. QED
      BY <3>6, <3>8
  <2>. QED
    BY <2>1, <2>2
<1>3. \A o \in Op : (o.step = "replied" /\ o.tx \in Row /\ o.verb = r.verb /\ o.tx.key = r.key
                     /\ o.tx.checkout = r.session) => Answered(o, sess', remembered')
  BY <1>0, <1>2 DEF Answered, Returns
<1>4. op' \in Op /\ OpInv'
  BY <1>0, <1>2, <1>3, AnswerKeeps
<1>5. TypeOK' /\ BookInv' /\ NetInv'
  BY <1>0, <1>2, <1>4 DEF EscrowInv, TypeOK, BookInv, NetInv
<1>. QED
  BY <1>2, <1>4, <1>5 DEF EscrowInv

LEMMA AppliedIsOK ==
  ASSUME NEW s \in Sessions, NEW y \in Session, NEW verb \in Verbs \ {"create"}, Applies(verb, y),
         SessionOK(s, y, row, known), Fits(verb, status[Job])
  PROVE  LET x == Applied(verb, y)
         IN  /\ x \in Session /\ SessionOK(s, x, row, known) /\ Preserves(y, x)
             /\ Withdrawn(x, status[Job])
             /\ verb = "capture" => x.intent = "captured"
             /\ verb \in Returns => GivenUp(x)
<1> USE DEF SessionOK, Preserves, TrueOf, GivenUp, Closed, Live, Returns, Withdrawn, Fits
<1>1. CASE verb = "expire"
  <2>1. y.state = "open"
    BY <1>1 DEF Applies
  <2>2. CASE y.intent = "unpaid"
    <3> DEFINE x == [y EXCEPT !.state = "expired", !.intent = "canceled"]
    <3>1. x \in Session /\ x.state = "expired" /\ x.intent = "canceled" /\ x.money = y.money
      BY DEF Session
    <3>2. Applied(verb, y) = x
      BY <1>1, <2>2 DEF Applied
    <3> HIDE DEF x
    <3>. QED
      BY <1>1, <2>1, <2>2, <3>1, <3>2
  <2>3. CASE y.intent = "none"
    <3> DEFINE x == [y EXCEPT !.state = "expired", !.intent = y.intent]
    <3>1. x \in Session /\ x.state = "expired" /\ x.intent = "none" /\ x.money = y.money
      BY <2>3 DEF Session
    <3>2. Applied(verb, y) = x
      BY <1>1, <2>3 DEF Applied
    <3> HIDE DEF x
    <3>. QED
      BY <1>1, <2>1, <2>3, <3>1, <3>2
  <2>. QED
    BY <2>1, <2>2, <2>3
<1>2. CASE verb \in {"cancel", "capture", "refund"}
  <2>1. CASE verb = "cancel"
    <3> DEFINE c == [y EXCEPT !.intent = "canceled"]
    <3>1. c \in Session /\ c.state = y.state /\ c.intent = "canceled" /\ c.money = y.money
      BY DEF Session
    <3>2. Applied(verb, y) = c /\ (y.intent = "authorized" \/ (y.intent = "unpaid" /\ y.state # "open"))
      BY <2>1 DEF Applied, Applies
    <3> HIDE DEF c
    <3>. QED
      BY <2>1, <3>1, <3>2 DEF Blank
  <2>2. CASE verb = "capture"
    <3> DEFINE c == [y EXCEPT !.intent = "captured"]
    <3>1. c \in Session /\ c.state = y.state /\ c.intent = "captured" /\ c.money = y.money
      BY DEF Session
    <3>2. Applied(verb, y) = c /\ y.intent \in {"authorized", "captured"}
      BY <2>2 DEF Applied, Applies
    <3> HIDE DEF c
    <3>. QED
      BY <2>2, <3>1, <3>2 DEF Blank
  <2>3. CASE verb = "refund"
    <3> DEFINE c == [y EXCEPT !.intent = "refunded"]
    <3>1. c \in Session /\ c.state = y.state /\ c.intent = "refunded" /\ c.money = y.money
      BY DEF Session
    <3>2. Applied(verb, y) = c /\ y.intent \in {"captured", "refunded"}
      BY <2>3 DEF Applied, Applies
    <3> HIDE DEF c
    <3>. QED
      BY <2>3, <3>1, <3>2 DEF Blank
  <2>. QED
    BY <1>2, <2>1, <2>2, <2>3
<1>. QED
  BY <1>1, <1>2 DEF Verbs

LEMMA ExecuteKeeps ==
  ASSUME EscrowInv, NEW r \in net, Execute(r)
  PROVE  EscrowInv'
<1> DEFINE s == r.session  y == sess[s]  ok == Applies(r.verb, y)
<1>0. /\ r \in Request /\ r.verb \in Verbs \ {"create"} /\ s \in Sessions /\ ok \in BOOLEAN
      /\ y \in Session /\ SessionOK(s, y, row, known) /\ Fits(r.verb, status[Job])
  <2>1. r \in Request /\ r.verb \in Verbs \ {"create"}
    BY DEF Execute, EscrowInv, TypeOK, Request
  <2>2. s \in Sessions /\ Fits(r.verb, status[Job])
    BY <2>1 DEF EscrowInv, NetInv, Request
  <2>3. ok \in BOOLEAN
    <3>1. CASE r.verb = "expire"
      BY <3>1 DEF Applies
    <3>2. CASE r.verb = "cancel"
      BY <3>2 DEF Applies
    <3>3. CASE r.verb = "capture"
      BY <3>3 DEF Applies
    <3>4. CASE r.verb = "refund"
      BY <3>4 DEF Applies
    <3>. QED
      BY <2>1, <3>1, <3>2, <3>3, <3>4 DEF Verbs
  <2>. QED
    BY <2>1, <2>2, <2>3 DEF EscrowInv, TypeOK, SessionInv
<1>1. /\ sess' = IF ok THEN [sess EXCEPT ![s] = Applied(r.verb, y)] ELSE sess
      /\ Answer(r, ok) /\ net' = net \ {r}
      /\ UNCHANGED <<status, contract, method, row, old, listed, remembered, known, keysSent>>
  <2>1. [sess EXCEPT ![s] = Applied(r.verb, @)] = [sess EXCEPT ![s] = Applied(r.verb, y)]
    OBVIOUS
  <2>. QED
    BY <2>1 DEF Execute, marketVars
<1>2. /\ sess' \in [Sessions -> Session] /\ RowInv' /\ SessionInv' /\ KnownInv' /\ ReturnInv'
      /\ \A tx \in Row : Sound(tx, contract[Job], sess) => Sound(tx, contract[Job], sess')
      /\ \A o \in Op : (o.tx \in Row /\ Informed(o, status[Job], sess)) =>
            /\ Informed(o, status[Job], sess')
            /\ Answered(o, sess, remembered) => Answered(o, sess', remembered)
      /\ ok => /\ r.verb = "capture" => sess'[s].intent = "captured"
               /\ r.verb \in Returns => GivenUp(sess'[s])
  <2>1. CASE ok
    <3> DEFINE x == Applied(r.verb, y)
    <3>1. /\ x \in Session /\ SessionOK(s, x, row, known) /\ Preserves(y, x) /\ Withdrawn(x, status[Job])
          /\ r.verb = "capture" => x.intent = "captured"
          /\ r.verb \in Returns => GivenUp(x)
      BY <1>0, <2>1, AppliedIsOK
    <3>2. sess' = [sess EXCEPT ![s] = x] /\ sess'[s] = x
      BY <1>0, <1>1, <2>1 DEF EscrowInv, TypeOK
    <3> HIDE DEF x, ok
    <3>. QED
      BY <1>0, <1>1, <3>1, <3>2, SessionMoves
  <2>2. CASE ~ok
    <3>1. sess' = sess
      BY <1>1, <2>2
    <3> HIDE DEF ok
    <3>. QED
      BY <1>1, <2>2, <3>1 DEF EscrowInv, TypeOK, RowInv, SessionInv, KnownInv, ReturnInv
  <2>. QED
    BY <2>1, <2>2
<1> HIDE DEF ok
<1>3. \A o \in Op : (ok /\ o.step = "replied" /\ o.tx \in Row /\ o.verb = r.verb /\ o.tx.key = r.key
                     /\ o.tx.checkout = r.session) => Answered(o, sess', remembered')
  BY <1>0, <1>2 DEF Answered
<1>4. op' \in Op /\ OpInv'
  BY <1>0, <1>1, <1>2, <1>3, AnswerKeeps
<1>5. TypeOK' /\ BookInv' /\ NetInv'
  BY <1>1, <1>2, <1>4 DEF EscrowInv, TypeOK, BookInv, NetInv
<1>. QED
  BY <1>2, <1>4, <1>5 DEF EscrowInv

LEMMA DayPassesKeeps == EscrowInv /\ DayPasses => EscrowInv'
  BY DEF DayPasses, EscrowInv, TypeOK, BookInv, RowInv, OpInv, NetInv, SessionInv, KnownInv, ReturnInv,
         marketVars

LEMMA EscrowInvNext == EscrowInv /\ [Next]_vars => EscrowInv'
<1> SUFFICES ASSUME EscrowInv, [Next]_vars PROVE EscrowInv'
  OBVIOUS
<1>1. CASE Stripe
  BY <1>1, ExecuteKeeps, CreateSessionKeeps, BrowserKeeps DEF Stripe
<1>2. CASE UNCHANGED vars
  BY <1>2 DEF vars, marketVars, stripeVars, EscrowInv, TypeOK, BookInv, RowInv, OpInv, NetInv, SessionInv,
              KnownInv, ReturnInv
<1>. QED
  BY <1>1, <1>2, MarketStepKeeps, RequestsKeep, WorkerKeeps, OperationKeeps, DayPassesKeeps DEF Next

THEOREM EscrowInvHolds == Spec => []EscrowInv
  BY EscrowInvInit, EscrowInvNext, PTL DEF Spec

-----------------------------------------------------------------------------
(* What follows. *)

\* Every variable keeps its type.
THEOREM TypeCorrect == Spec => []TypeOK
<1>1. EscrowInv => TypeOK
  BY DEF EscrowInv
<1>. QED
  BY <1>1, EscrowInvHolds, PTL

LEMMA OneCharge == EscrowInv => OneLiveCharge
<1> SUFFICES ASSUME EscrowInv, NEW s \in Sessions, NEW t \in Sessions,
                    Charged(sess[s]), Charged(sess[t])
             PROVE  s = t
  BY DEF OneLiveCharge
<1>1. ASSUME NEW x \in Sessions, Charged(sess[x]) PROVE row # None /\ SessionOf(row) = x
  <2>1. x \in known \/ sess[x].state = "bare"
    BY <1>1 DEF EscrowInv, SessionInv, SessionOK, Charged, Live
  <2>. QED
    BY <2>1, NoneAssumption DEF EscrowInv, SessionInv, SessionOK, KnownInv, KnownOK, SessionOf
<1>. QED
  BY <1>1

\* All the money there ever was went through one session, whatever was aborted,
\* retried, forgotten or answered late, and whatever was given back before.
THEOREM ChargedOnce == Spec => []OneLiveCharge
  BY OneCharge, EscrowInvHolds, PTL

\* The committed row never claims more than Stripe has done, and what it gave up
\* cannot be charged any more.
THEOREM LedgerIsTrue == Spec => []LedgerTruth
<1>1. EscrowInv => LedgerTruth
  BY DEF EscrowInv, RowInv, Sound, LedgerTruth, Traceable, SessionOf, TrueOf, GivenUp, Closed
<1>. QED
  BY <1>1, EscrowInvHolds, PTL

\* A row keeps its key, money and session, and its status only moves forward.
THEOREM RowOnlyAdvances == Spec => RowNeverGoesBack
<1> DEFINE Forward ==
      row # None =>
         /\ row' # None
         /\ row'.key = row.key /\ row'.money = row.money
         /\ row.checkout # None => row'.checkout = row.checkout
         /\ row'.status # row.status => <<row.status, row'.status>> \in
              {<<"PENDING", "HELD">>, <<"PENDING", "RELEASED">>, <<"PENDING", "EXPIRED">>,
               <<"PENDING", "REFUNDED">>, <<"HELD", "RELEASED">>, <<"HELD", "EXPIRED">>,
               <<"HELD", "REFUNDED">>, <<"RELEASED", "REFUNDED">>}
<1>1. EscrowInv /\ [Next]_vars => Forward
  <2> SUFFICES ASSUME EscrowInv, [Next]_vars PROVE Forward
    OBVIOUS
  <2>1. CASE Commit
    <3>1. op # Idle /\ op.tx \in Row /\ row' = op.tx /\ (row # None => Continues(row, op.tx))
      BY <2>1, UnderWay DEF Commit
    <3>2. op.tx # None
      BY <3>1, NoneAssumption
    <3>. QED
      BY <3>1, <3>2 DEF Continues, Later
  <2>2. CASE ~Commit
    <3>1. row' = row
      <4>1. CASE MarketStep
        BY <4>1 DEF MarketStep
      <4>2. CASE Requests
        BY <4>2 DEF Requests, InitializeEscrow, RetryEscrow, ResumeEscrow, GetEscrow, ReleaseEscrow,
                    RefundEscrow, Begin, BeginCall
      <4>3. CASE Worker
        BY <4>3 DEF Worker, ReconciliationJobs, Reconcile, SkipReconcile, Begin, BeginCall
      <4>4. CASE Operation
        BY <2>2, <4>4 DEF Operation, Sync, Decide, TakeReply, CallFails, Abort, Unmoved
      <4>5. CASE Stripe
        BY <4>5 DEF Stripe, Execute, CreateSession, EnterCard, Authorize, SessionExpires, HoldExpires, MoveSession
      <4>6. CASE DayPasses \/ UNCHANGED vars
        BY <4>6 DEF DayPasses, vars
      <4>. QED
        BY <4>1, <4>2, <4>3, <4>4, <4>5, <4>6 DEF Next
    <3>. QED
      BY <3>1
  <2>. QED
    BY <2>1, <2>2
<1>. QED
  BY <1>1, EscrowInvHolds, PTL DEF Spec, RowNeverGoesBack
-----------------------------------------------------------------------------
(* Refinement: Escrow implements EscrowPromise.  By EscrowInv at most one   *)
(* session can be paid, so the customer's money is what that session        *)
(* holds, and every step that moves it is one the promise allows in the     *)
(* job's present state.                                                     *)

-----------------------------------------------------------------------------
(* Where the money is. *)

LEMMA PlaceIs ==
  ASSUME NEW s \in Session, s.state = "expired" => s.intent # "unpaid"
  PROVE  /\ s.intent \in {"none", "unpaid"} /\ ~Closed(s) => Place(s) = "none"
         /\ Closed(s) => Place(s) = IF s.lapsed THEN "lapsed" ELSE "returned"
  BY DEF Place, Closed, Session

LEMMA EmptyPurse == Purse(Blank) = [state |-> "none", money |-> None]
  BY DEF Purse, Place, Closed, Blank

LEMMA FundsUnmoved ==
  ASSUME UNCHANGED <<sess, known>> PROVE UNCHANGED Funds
  BY DEF Funds, Payable

\* The one session that can be paid is the one the row stands for.
LEMMA PayableIsRows ==
  ASSUME EscrowInv, NEW s \in Payable
  PROVE  /\ s \in Sessions /\ row # None /\ SessionOf(row) = s
         /\ Payable = {s}
         /\ Funds = Purse(sess[s])
<1>1. ASSUME NEW t \in Payable PROVE t \in Sessions /\ row # None /\ SessionOf(row) = t
  BY <1>1, NoneAssumption DEF Payable, EscrowInv, TypeOK, SessionInv, SessionOK, KnownInv, KnownOK, SessionOf
<1>2. Payable = {s}
  BY <1>1
<1>. QED
  BY <1>1, <1>2 DEF Funds

\* A step that moves one session's intent, and nothing the customer knows.
LEMMA PurseMoves ==
  ASSUME EscrowInv, NEW s \in Sessions, NEW x \in Session,
         sess' = [sess EXCEPT ![s] = x], known' = known, x.state = "bare" <=> sess[s].state = "bare"
  PROVE  /\ s \notin Payable => Funds' = Funds
         /\ s \in Payable => Funds = Purse(sess[s]) /\ Funds' = Purse(x)
<1>1. sess'[s] = x /\ \A t \in Sessions \ {s} : sess'[t] = sess[t]
  BY DEF EscrowInv, TypeOK
<1>2. Payable' = Payable
  BY <1>1 DEF Payable
<1>3. CASE s \in Payable
  <2>1. Payable = {s} /\ Funds = Purse(sess[s])
    BY <1>3, PayableIsRows
  <2>. QED
    BY <1>1, <1>2, <2>1 DEF Funds
<1>4. CASE s \notin Payable /\ Payable # {}
  <2>1. PICK t \in Payable : TRUE
    BY <1>4
  <2>2. t \in Sessions \ {s} /\ Payable = {t} /\ Funds = Purse(sess[t])
    BY <1>4, PayableIsRows
  <2>. QED
    BY <1>1, <1>2, <2>2 DEF Funds
<1>5. CASE Payable = {}
  BY <1>2, <1>5 DEF Funds
<1>. QED
  BY <1>3, <1>4, <1>5

\* Whoever was sent to a session was asked for the agreed price there.
LEMMA KnownAskPrice ==
  ASSUME EscrowInv, NEW s \in known
  PROVE  /\ s \in Payable /\ s \in Sessions
         /\ contract[Job] # None
         /\ sess[s].money = [amount |-> contract[Job].amount, currency |-> "PHP"]
  BY DEF EscrowInv, TypeOK, KnownInv, KnownOK, RowInv, Sound, Payable

-----------------------------------------------------------------------------
(* The steps. *)

Allowed == Promise!Next \/ UNCHANGED Promise!vars

LEMMA BookIsAllowed == Market!Next /\ UNCHANGED Funds => Allowed
  BY DEF Allowed, Promise!Next, Promise!Book, Promise!Market!Next, Promise!Market!Post, Promise!Market!Agree,
         Promise!Market!Advance, Promise!Market!Cancel, Promise!Market!Move, Promise!Market!Open,
         Promise!Market!Agreed, Promise!Market!Status, Promise!Market!Deal,
         Market!Next, Market!Post, Market!Agree, Market!Advance, Market!Cancel, Market!Move, Market!Open,
         Market!Agreed, Market!Status, Market!Deal

\* The moves of one session's money that the promise knows, in a job's state st:
\* a session is closed because it ran out or because the job was cancelled.
Lawful(y, x, st) ==
    LET from == Place(y)  to == Place(x)
    IN  \/ from = to
        \/ from = "none" /\ y.state # "bare" /\ to \in {"held", "lapsed"}
        \/ from = "none" /\ y.state # "bare" /\ to = "returned" /\ st = "CANCELLED"
        \/ from = "held" /\ to = "lapsed"
        \/ from = "held" /\ to = "captured" /\ st = "COMPLETED"
        \/ from \in {"held", "captured"} /\ to = "returned" /\ st = "CANCELLED"

LEMMA MoneyMoves ==
  ASSUME EscrowInv, UNCHANGED <<status, contract, known>>, NEW s \in Sessions, NEW x \in Session,
         sess' = [sess EXCEPT ![s] = x], x.money = sess[s].money,
         x.state = "bare" <=> sess[s].state = "bare",
         Lawful(sess[s], x, status[Job])
  PROVE  Allowed
<1> DEFINE y == sess[s]
<1>1. CASE s \notin Payable
  BY <1>1, PurseMoves DEF Allowed, Promise!vars
<1>2. CASE s \in Payable
  <2>1. Funds = Purse(y) /\ Funds' = Purse(x)
    BY <1>2, PurseMoves
  <2>2. y.state # "bare" =>
           contract[Job] # None /\ y.money = [amount |-> contract[Job].amount, currency |-> "PHP"]
    BY <1>2, KnownAskPrice DEF Payable
  <2>3. Lawful(y, x, status[Job]) /\ x.money = y.money
    OBVIOUS
  <2> HIDE DEF y
  <2>4. CASE Place(x) = Place(y)
    BY <2>1, <2>3, <2>4 DEF Purse, Allowed, Promise!vars
  <2>5. CASE Place(y) = "none" /\ Place(x) # "none"
    <3>1. /\ y.state # "bare"
          /\ Place(x) \in {"held", "lapsed"} \/ (Place(x) = "returned" /\ status[Job] = "CANCELLED")
      BY <2>3, <2>5 DEF Lawful
    <3>2. Funds.state = "none" /\ Funds' = [state |-> Place(x), money |-> y.money]
      BY <2>1, <2>3, <2>5 DEF Purse
    <3>. QED
      BY <2>2, <3>1, <3>2 DEF Allowed, Promise!Next, Promise!Hold, Promise!Lapse, Promise!GiveBack, Promise!Start
  <2>6. CASE Place(y) # "none" /\ Place(x) # Place(y)
    <3>1. \/ Place(y) = "held" /\ Place(x) = "lapsed"
          \/ Place(y) = "held" /\ Place(x) = "captured" /\ status[Job] = "COMPLETED"
          \/ Place(y) \in {"held", "captured"} /\ Place(x) = "returned" /\ status[Job] = "CANCELLED"
      BY <2>3, <2>6 DEF Lawful
    <3>2. Place(x) # "none"
      BY <3>1
    <3>3. Funds.state = Place(y) /\ Funds' = [Funds EXCEPT !.state = Place(x)]
      BY <2>1, <2>3, <2>6, <3>2 DEF Purse
    <3>. QED
      BY <3>1, <3>3 DEF Allowed, Promise!Next, Promise!PayOut, Promise!Lapse, Promise!GiveBack, Promise!Move
  <2>. QED
    BY <2>4, <2>5, <2>6
<1>. QED
  BY <1>1, <1>2

LEMMA ExecuteAllowed ==
  ASSUME EscrowInv, NEW r \in net, Execute(r)
  PROVE  Allowed
<1> DEFINE s == r.session  y == sess[s]  x == Applied(r.verb, y)
<1>1. /\ r.verb \in Verbs \ {"create"} /\ s \in Sessions /\ y \in Session
      /\ SessionOK(s, y, row, known) /\ Fits(r.verb, status[Job])
      /\ UNCHANGED <<status, contract, known>>
      /\ sess' = IF Applies(r.verb, y) THEN [sess EXCEPT ![s] = x] ELSE sess
  BY DEF Execute, EscrowInv, TypeOK, NetInv, SessionInv, Request, marketVars
<1>2. CASE ~Applies(r.verb, y)
  BY <1>1, <1>2 DEF Allowed, Promise!vars, Funds, Payable
<1>3. CASE Applies(r.verb, y)
  <2>1. x \in Session /\ x.money = y.money /\ (x.state = "bare" <=> y.state = "bare") /\ Lawful(y, x, status[Job])
    <3> HIDE DEF y
    <3>1. CASE r.verb = "expire"
      BY <1>1, <1>3, <3>1 DEF Applies, Applied, Session, SessionOK, Lawful, Fits, Returns, Place, Closed
    <3>2. CASE r.verb = "cancel"
      BY <1>1, <1>3, <3>2 DEF Applies, Applied, Session, SessionOK, Lawful, Fits, Returns, Place, Closed
    <3>3. CASE r.verb = "capture"
      BY <1>1, <1>3, <3>3 DEF Applies, Applied, Session, Lawful, Fits, Place, Closed
    <3>4. CASE r.verb = "refund"
      BY <1>1, <1>3, <3>4 DEF Applies, Applied, Session, Lawful, Fits, Returns, Place, Closed
    <3>. QED
      BY <1>1, <3>1, <3>2, <3>3, <3>4 DEF Verbs
  <2> HIDE DEF x
  <2>. QED
    BY <1>1, <1>3, <2>1, MoneyMoves
<1>. QED
  BY <1>2, <1>3

LEMMA CreateSessionAllowed ==
  ASSUME EscrowInv, NEW r \in net, NEW s \in Sessions, CreateSession(r, s)
  PROVE  Allowed
<1>1. /\ r.money \in Money /\ UNCHANGED <<status, contract, known>>
  BY DEF CreateSession, EscrowInv, TypeOK, Request, marketVars
<1>2. CASE UNCHANGED stripeVars
  BY <1>1, <1>2 DEF Allowed, Promise!vars, Funds, Payable, stripeVars
<1>3. CASE ~UNCHANGED stripeVars
  <2>1. PICK pi \in {"none", "unpaid"} :
           /\ sess[s] = Blank
           /\ sess' = [sess EXCEPT ![s] = [Blank EXCEPT !.state = "open", !.intent = pi, !.money = r.money]]
    BY <1>3 DEF CreateSession
  <2> DEFINE x == [Blank EXCEPT !.state = "open", !.intent = pi, !.money = r.money]
  <2>2. x \in Session /\ x.state = "open"
    BY <1>1 DEF Session, Blank
  <2>3. sess' = [sess EXCEPT ![s] = x]
    BY <2>1
  <2> HIDE DEF x
  <2>4. s \notin Payable
    BY <2>1, NoneAssumption DEF Payable, Blank, EscrowInv, TypeOK, KnownInv, KnownOK, Row
  <2>5. Funds' = Funds
    <3>1. known' = known /\ (x.state = "bare" <=> sess[s].state = "bare")
      BY <1>1, <2>1, <2>2, BlankIsNothing
    <3>. QED
      BY <2>2, <2>3, <2>4, <3>1, PurseMoves
  <2>. QED
    BY <1>1, <2>5 DEF Allowed, Promise!vars
<1>. QED
  BY <1>2, <1>3

LEMMA BrowserAllowed ==
  ASSUME EscrowInv, NEW s \in Sessions, EnterCard(s) \/ Authorize(s) \/ SessionExpires(s) \/ HoldExpires(s)
  PROVE  Allowed
<1> DEFINE y == sess[s]
<1>1. y \in Session /\ SessionOK(s, y, row, known)
  BY DEF EscrowInv, TypeOK, SessionInv
<1>2. ASSUME NEW st \in {"bare", "open", "complete", "expired", "none"},
             NEW pi \in {"none", "unpaid", "authorized", "captured", "canceled", "refunded"},
             NEW l \in BOOLEAN, pi = "canceled" \/ st = "expired" => l,
             MoveSession(s, st, pi, l), st = "bare" <=> y.state = "bare",
             \/ y.state = "open" /\ pi \notin {"captured", "refunded"}
             \/ y.intent = "authorized" /\ pi = "canceled"
      PROVE  Allowed
  <2> DEFINE x == [y EXCEPT !.state = st, !.intent = pi, !.lapsed = l]
  <2>1. x \in Session /\ x.state = st /\ x.intent = pi /\ x.money = y.money /\ x.lapsed = l
    BY <1>1 DEF Session
  <2>2. sess' = [sess EXCEPT ![s] = x] /\ UNCHANGED <<status, contract, known>>
    BY <1>2 DEF MoveSession, EscrowInv, TypeOK, marketVars
  <2> HIDE DEF x
  <2>3. Lawful(y, x, status[Job])
    BY <1>1, <1>2, <2>1 DEF Lawful, SessionOK, Place, Closed
  <2>. QED
    BY <1>2, <2>1, <2>2, <2>3, MoneyMoves
<1> HIDE DEF y
<1>3. CASE EnterCard(s)
  BY <1>2, <1>3 DEF EnterCard, y
<1>4. CASE Authorize(s)
  BY <1>2, <1>4 DEF Authorize, y
<1>5. CASE SessionExpires(s)
  BY <1>1, <1>2, <1>5 DEF SessionExpires, SessionOK, y
<1>6. CASE HoldExpires(s)
  BY <1>1, <1>2, <1>6 DEF HoldExpires, Session, y
<1>. QED
  BY <1>3, <1>4, <1>5, <1>6

\* The row that is committed may send the customer to its session.
LEMMA CommitAllowed ==
  ASSUME EscrowInv, EscrowInv', Commit
  PROVE  Allowed
<1>0. /\ op.step \in {"done", "failed"} /\ row' = op.tx /\ UNCHANGED <<status, contract, sess>>
      /\ known' = IF op.step = "done" /\ op.kind \in {"init", "customerRead"} /\ op.tx.status = "PENDING"
                  THEN known \union {op.tx.checkout} ELSE known
  BY DEF Commit, marketVars, stripeVars
<1>1. CASE known' = known
  <2>1. UNCHANGED Funds
    BY <1>0, <1>1, FundsUnmoved
  <2>. QED
    BY <1>0, <2>1 DEF Allowed, Promise!vars
<1>2. CASE known' # known
  <2> DEFINE s == op.tx.checkout
  <2>1. s \in known' /\ s \notin known /\ op.tx.status = "PENDING" /\ op.step = "done"
    BY <1>0, <1>2
  <2>2. s \in Sessions /\ sess[s] \in Session /\ sess[s].state # "bare"
    <3>1. s \in Sessions /\ KnownOK(s, row', sess) /\ SessionOK(s, sess[s], row', known') /\ sess[s] \in Session
      BY <1>0, <2>1 DEF EscrowInv, TypeOK, KnownInv, SessionInv
    <3>. QED
      BY <3>1 DEF KnownOK, SessionOK
  <2>3. s \notin Payable /\ s \in Payable'
    BY <1>0, <2>1, <2>2 DEF Payable
  <2>4. sess[s].intent \notin Live
    BY <2>1, <2>2 DEF EscrowInv, SessionInv, SessionOK
  <2>5. Payable' = {s}
    <3>1. ASSUME NEW t \in Payable' PROVE t # None /\ SessionOf(row') = t
      BY <3>1, NoneAssumption DEF Payable, EscrowInv, TypeOK, SessionInv, SessionOK, KnownInv, KnownOK, SessionOf
    <3>. QED
      BY <2>3, <3>1
  <2>6. Payable = {}
    BY <1>0, <2>3, <2>5 DEF Payable
  <2>7. Funds = [state |-> "none", money |-> None] /\ Funds' = Purse(sess[s])
    BY <1>0, <2>5, <2>6, EmptyPurse DEF Funds
  <2>8. contract[Job] # None /\ sess[s].money = [amount |-> contract[Job].amount, currency |-> "PHP"]
    <3>1. KnownOK(s, row', sess') /\ Sound(row', contract'[Job], sess')
      BY <2>1 DEF EscrowInv, KnownInv, KnownOK, RowInv
    <3>. QED
      BY <1>0, <3>1 DEF KnownOK, Sound
  <2> HIDE DEF s
  <2>9. sess[s].state = "expired" => sess[s].intent # "unpaid"
    BY <2>2 DEF EscrowInv, SessionInv, SessionOK
  \* A session can be over before the customer hears of it.
  <2>10. CASE Closed(sess[s])
    <3>1. sess[s].lapsed \/ status[Job] = "CANCELLED"
      BY <2>2, <2>10 DEF EscrowInv, ReturnInv, Withdrawn
    <3>2. Place(sess[s]) = IF sess[s].lapsed THEN "lapsed" ELSE "returned"
      BY <2>2, <2>9, <2>10, PlaceIs
    <3>3. Funds.state = "none" /\ Funds' = [state |-> Place(sess[s]), money |-> sess[s].money]
      BY <2>7, <3>2 DEF Purse
    <3>. QED
      BY <1>0, <2>8, <3>1, <3>2, <3>3
      DEF Allowed, Promise!Next, Promise!Lapse, Promise!GiveBack, Promise!Start
  <2>11. CASE ~Closed(sess[s])
    <3>1. Place(sess[s]) = "none"
      BY <2>2, <2>4, <2>9, <2>11, PlaceIs DEF Session, Live, Closed
    <3>. QED
      BY <1>0, <2>7, <3>1 DEF Purse, Allowed, Promise!vars
  <2>. QED
    BY <2>10, <2>11
<1>. QED
  BY <1>1, <1>2

LEMMA InitAllowed == Init => Promise!Init
<1> SUFFICES ASSUME Init PROVE Promise!Init
  OBVIOUS
<1>0. EscrowInv /\ known = {}
  BY EscrowInvInit DEF Init
<1>1. CASE NewJob
  <2>1. Payable = {}
    BY <1>0, <1>1 DEF NewJob, Payable, Blank
  <2>2. Funds = Promise!Nothing
    BY <2>1, EmptyPurse DEF Funds, Promise!Nothing
  <2>. QED
    BY <1>1, <2>2 DEF NewJob, Market!Init, Promise!Init, Promise!Market!Init
<1>2. CASE LegacyJob
  <2>1. PICK s \in Sessions, k \in Keys, a \in Amounts, d \in Market!Deal,
             st \in Market!Agreed \union {"CANCELLED"},
             pay \in {<<"HELD", "authorized">>, <<"HELD", "canceled">>, <<"RELEASED", "captured">>,
                      <<"REFUNDED", "canceled">>, <<"REFUNDED", "refunded">>} :
           LET usd == [amount |-> a, currency |-> "USD"]
           IN  /\ status = [j \in {Job} |-> st]
               /\ contract = [j \in {Job} |-> d]
               /\ row = [key |-> k, money |-> usd, status |-> pay[1], checkout |-> None, intent |-> s]
               /\ old \in BOOLEAN
               /\ sess = [x \in Sessions |->
                             IF x = s THEN [state |-> "bare", intent |-> pay[2], money |-> usd,
                                            lapsed |-> pay = <<"HELD", "canceled">>]
                             ELSE Blank]
    BY <1>2 DEF LegacyJob
  <2> DEFINE usd == [amount |-> a, currency |-> "USD"]
  <2>2. /\ s \in Payable /\ sess[s] \in Session /\ sess[s].money = usd
        /\ sess[s].intent \in {"authorized", "canceled", "captured", "refunded"}
    BY <1>0, <2>1 DEF Payable, EscrowInv, TypeOK
  <2>3. Funds = Purse(sess[s])
    BY <1>0, <2>2, PayableIsRows
  <2>4. usd \in [amount : Amounts, currency : {"USD"}]
    OBVIOUS
  <2> HIDE DEF usd
  <2>5. Funds \in [state : {"held", "captured", "returned", "lapsed"}, money : [amount : Amounts, currency : {"USD"}]]
    <3>1. Place(sess[s]) \in {"held", "captured", "returned", "lapsed"}
      BY <2>2 DEF Place, Closed
    <3>. QED
      BY <2>2, <2>3, <2>4, <3>1 DEF Purse
  <2>6. status \in [{Job} -> Market!Agreed \union {"CANCELLED"}] /\ contract \in [{Job} -> Market!Deal]
    BY <2>1
  <2>. QED
    BY <2>5, <2>6 DEF Promise!Init, Promise!Market!Agreed, Promise!Market!Deal, Market!Agreed, Market!Deal
<1>. QED
  BY <1>1, <1>2 DEF Init

LEMMA NextAllowed == EscrowInv /\ EscrowInv' /\ [Next]_vars => Allowed
<1> SUFFICES ASSUME EscrowInv, EscrowInv', [Next]_vars PROVE Allowed
  OBVIOUS
<1>1. ASSUME UNCHANGED <<status, contract, sess, known>> PROVE Allowed
  BY <1>1 DEF Allowed, Promise!vars, Funds, Payable
<1>2. CASE MarketStep
  <2>1. UNCHANGED Funds
    BY <1>2, FundsUnmoved DEF MarketStep, stripeVars
  <2>. QED
    BY <1>2, <2>1, BookIsAllowed DEF MarketStep
<1>3. CASE Requests
  BY <1>1, <1>3 DEF Requests, InitializeEscrow, RetryEscrow, ResumeEscrow, GetEscrow, ReleaseEscrow,
                    RefundEscrow, Begin, BeginCall, marketVars, stripeVars
<1>4. CASE Worker
  BY <1>1, <1>4 DEF Worker, ReconciliationJobs, Reconcile, SkipReconcile, Begin, BeginCall, marketVars, stripeVars
<1>5. CASE Operation
  BY <1>1, <1>5, CommitAllowed DEF Operation, Sync, Decide, TakeReply, CallFails, Abort, Unmoved, marketVars, stripeVars
<1>6. CASE Stripe
  BY <1>6, ExecuteAllowed, CreateSessionAllowed, BrowserAllowed DEF Stripe
<1>7. CASE DayPasses \/ UNCHANGED vars
  BY <1>1, <1>7 DEF DayPasses, vars, marketVars, stripeVars
<1>. QED
  BY <1>2, <1>3, <1>4, <1>5, <1>6, <1>7 DEF Next

\* Payment service, Stripe and marketplace together keep the escrow's promise,
\* whatever is retried, cut off, answered late or asked for at the same time: no
\* call captures but for a completed job or gives back but for a cancelled one.
THEOREM EscrowKeepsPromise == Spec => KeepsPromise
<1>1. EscrowInv /\ EscrowInv' /\ [Next]_vars => [Promise!Next]_(Promise!vars)
  BY NextAllowed DEF Allowed
<1>. QED
  BY <1>1, InitAllowed, EscrowInvHolds, PTL DEF Spec, KeepsPromise, Promise!Spec

-----------------------------------------------------------------------------
(* Money that was taken. *)

\* Stripe's answer to a request moves captured money only when it was a refund,
\* and captures only what a release asked for.
LEMMA ExecuteCaptures ==
  ASSUME EscrowInv, NEW r \in net, Execute(r), NEW s \in Sessions
  PROVE  /\ sess[s].intent = "captured" /\ status[Job] = "COMPLETED" => sess'[s] = sess[s]
         /\ sess'[s].intent = "captured" => sess[s].intent = "captured" \/ status[Job] = "COMPLETED"
         /\ sess'[s].state = "bare" => sess[s].state = "bare"
<1> DEFINE t == r.session  y == sess[t]  x == Applied(r.verb, y)
<1>1. /\ r.verb \in Verbs \ {"create"} /\ t \in Sessions /\ y \in Session
      /\ SessionOK(t, y, row, known) /\ Fits(r.verb, status[Job])
      /\ sess' = IF Applies(r.verb, y) THEN [sess EXCEPT ![t] = x] ELSE sess
  BY DEF Execute, EscrowInv, TypeOK, NetInv, SessionInv, Request
<1>2. CASE s # t \/ ~Applies(r.verb, y)
  BY <1>1, <1>2 DEF EscrowInv, TypeOK
<1>3. CASE s = t /\ Applies(r.verb, y)
  <2>1. sess'[s] = x
    BY <1>1, <1>3 DEF EscrowInv, TypeOK
  <2>2. /\ y.intent = "captured" /\ status[Job] = "COMPLETED" => x = y
        /\ x.intent = "captured" => y.intent = "captured" \/ status[Job] = "COMPLETED"
        /\ x.state = "bare" => y.state = "bare"
    <3> HIDE DEF y
    <3>1. CASE r.verb = "expire"
      BY <1>1, <1>3, <3>1 DEF Applies, Applied, Session, SessionOK
    <3>2. CASE r.verb = "cancel"
      BY <1>1, <1>3, <3>2 DEF Applies, Applied, Session
    <3>3. CASE r.verb = "capture"
      BY <1>1, <1>3, <3>3 DEF Applies, Applied, Session, Fits
    <3>4. CASE r.verb = "refund"
      BY <1>1, <1>3, <3>4 DEF Applies, Applied, Session, Fits, Returns
    <3>. QED
      BY <1>1, <3>1, <3>2, <3>3, <3>4 DEF Verbs
  <2>. QED
    BY <1>3, <2>1, <2>2
<1>. QED
  BY <1>2, <1>3

\* No other step touches captured money or captures any.
LEMMA Captures ==
  ASSUME EscrowInv, [Next]_vars, NEW s \in Sessions
  PROVE  /\ sess[s].intent = "captured" /\ status[Job] = "COMPLETED" => sess'[s] = sess[s]
         /\ sess'[s].intent = "captured" => sess[s].intent = "captured" \/ status[Job] = "COMPLETED"
         /\ sess'[s].state = "bare" => sess[s].state = "bare"
<1>1. CASE UNCHANGED sess
  BY <1>1
<1>2. CASE \E r \in net, x \in Sessions : CreateSession(r, x)
  <2>1. PICK r \in net, x \in Sessions : CreateSession(r, x)
    BY <1>2
  <2>2. CASE sess[x] = Blank /\ \E pi \in {"none", "unpaid"} :
               sess' = [sess EXCEPT ![x] = [Blank EXCEPT !.state = "open", !.intent = pi, !.money = r.money]]
    BY <2>2 DEF EscrowInv, TypeOK, Blank
  <2>. QED
    BY <1>1, <2>1, <2>2 DEF CreateSession, stripeVars
<1>3. CASE \E x \in Sessions : EnterCard(x) \/ Authorize(x) \/ SessionExpires(x) \/ HoldExpires(x)
  <2>1. PICK x \in Sessions : EnterCard(x) \/ Authorize(x) \/ SessionExpires(x) \/ HoldExpires(x)
    BY <1>3
  <2>2. sess[x] \in Session /\ SessionOK(x, sess[x], row, known)
    BY DEF EscrowInv, TypeOK, SessionInv
  <2>. QED
    BY <2>1, <2>2 DEF EnterCard, Authorize, SessionExpires, HoldExpires, MoveSession, EscrowInv, TypeOK,
                      Session, SessionOK
<1>4. CASE \E r \in net : Execute(r)
  BY <1>4, ExecuteCaptures
<1>5. CASE MarketStep \/ Requests \/ Worker \/ Operation \/ DayPasses \/ UNCHANGED vars
  BY <1>1, <1>5 DEF MarketStep, stripeVars, Requests, InitializeEscrow, RetryEscrow, ResumeEscrow, GetEscrow,
                    ReleaseEscrow, RefundEscrow, Begin, BeginCall, Worker, ReconciliationJobs, Reconcile,
                    SkipReconcile, Operation, Sync, Decide, TakeReply, CallFails, Commit, Abort, Unmoved,
                    DayPasses, vars
<1>. QED
  BY <1>2, <1>3, <1>4, <1>5 DEF Next, Stripe

\* Of a job whose payment did not begin before checkout, money is captured only
\* when the job is completed, and then it is completed for good.
PaidInv == \A s \in Sessions : /\ sess[s].state # "bare"
                               /\ sess[s].intent = "captured" => status[Job] = "COMPLETED"

LEMMA PaidInvNext == EscrowInv /\ PaidInv /\ [Next]_vars => PaidInv'
<1> SUFFICES ASSUME EscrowInv, PaidInv, [Next]_vars, NEW s \in Sessions, sess'[s].intent = "captured"
             PROVE  status'[Job] = "COMPLETED"
  BY Captures DEF PaidInv
<1>1. status[Job] = "COMPLETED"
  BY Captures DEF PaidInv
<1>2. CASE MarketStep
  <2>1. \A verb : Fits(verb, status[Job]) => Fits(verb, status'[Job])
    BY <1>2, MarketMoves DEF MarketStep, EscrowInv
  <2>2. Fits("capture", status[Job])
    BY <1>1 DEF Fits, Returns
  <2>. QED
    BY <2>1, <2>2 DEF Fits
<1>3. CASE UNCHANGED status
  BY <1>1, <1>3
<1>. QED
  BY <1>2, <1>3 DEF Next, Requests, InitializeEscrow, RetryEscrow, ResumeEscrow, GetEscrow, ReleaseEscrow,
                    RefundEscrow, Begin, BeginCall, Worker, ReconciliationJobs, Reconcile, SkipReconcile,
                    Operation, Sync, Decide, TakeReply, CallFails, Commit, Abort, Unmoved, Stripe, Execute,
                    CreateSession, EnterCard, Authorize, SessionExpires, HoldExpires, MoveSession,
                    DayPasses, vars, marketVars
=============================================================================
