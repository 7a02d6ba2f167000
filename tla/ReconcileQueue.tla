--------------------------- MODULE ReconcileQueue ---------------------------
(***************************************************************************)
(* The payment service's reconciler and the many jobs it serves.  A pass   *)
(* lists the Limit due jobs whose rows have the oldest updated_at and      *)
(* visits them one by one until its deadline.  Whoever runs WithJob on a   *)
(* job, the reconciler or a caller, and commits, sets updated_at to the    *)
(* time its transaction began; whoever is rolled back leaves the job where *)
(* it was.  Escrow models what happens in a visit and assumes that visits  *)
(* go on; this module is about whose turn it is.                           *)
(***************************************************************************)
EXTENDS FiniteSets, Naturals

CONSTANTS Jobs,
          Callers,     \* calls of customers and providers that can be in flight at once
          Reconciler,  \* the worker of main.go
          Limit,       \* 100
          None

Workers == Callers \union {Reconciler}

ASSUME LimitAssumption  == Limit \in Nat \ {0}
ASSUME WorkerAssumption == /\ Reconciler \notin Callers
                           /\ Jobs \intersect Workers = {}
                           /\ None \notin Jobs

VARIABLES phase,   \* of a job's payment: no row yet, to be reconciled, settled
          older,   \* the order of times: <<x, y>> when x's is before y's, where a job
                   \* has its row's updated_at and a worker its transaction's NOW()
          work,    \* the transaction of each worker: its job, and whether it has the lock
          left,    \* the jobs of this pass still to be visited
          listed,  \* the order in which they were listed
          since    \* history: whom the reconciler served since a due job's last turn

queue == <<phase, older, since>>
vars  == <<queue, work, left, listed>>

Phase == {"none", "due", "settled"}
Tx    == [job : Jobs \union {None}, step : {"none", "waits", "holds"}]
NoTx  == [job |-> None, step |-> "none"]

Due        == {j \in Jobs : phase[j] = "due"}
Open(w)    == work[w].step # "none"
Timed      == Due \union {w \in Workers : Open(w)}
Before(x, y) == <<x, y>> \in older

\* The order without x, and with x as the latest.
Without(x) == {p \in older : p[1] # x /\ p[2] # x}
Latest(w)  == older \union (Timed \X {w})

\* Worker w ends, and its job j takes the place of w's NOW() in the order.
Touched(w, j) ==
    LET rest == Timed \ {w, j}
    IN  (Without(j) \intersect Without(w))
            \union {<<x, j>> : x \in {x \in rest : Before(x, w)}}
            \union {<<j, y>> : y \in {y \in rest : Before(w, y)}}

Init == /\ phase = [j \in Jobs |-> "none"]
        /\ older = {}
        /\ work = [w \in Workers |-> NoTx]
        /\ left = {} /\ listed = {}
        /\ since = [j \in Jobs |-> {}]

\* A call to InitializeEscrow, GetEscrow, ReleaseEscrow or RefundEscrow begins.
Call(w, j) ==
    /\ ~Open(w)
    /\ phase[j] # "settled"
    /\ work' = [work EXCEPT ![w] = [job |-> j, step |-> "waits"]]
    /\ older' = Latest(w)
    /\ UNCHANGED <<phase, left, listed, since>>

\* Slip: ORDER BY updated_at DESC.
OldestNewest(S) == \A x \in S, y \in Due \ S : Before(y, x)
Oldest(S)       == \A x \in S, y \in Due \ S : Before(x, y)

\* A new pass: the Limit oldest due jobs.
ReconciliationJobs ==
    /\ left = {} /\ ~Open(Reconciler)
    /\ \E S \in SUBSET Due :
          /\ Cardinality(S) = IF Cardinality(Due) < Limit THEN Cardinality(Due) ELSE Limit
          /\ Oldest(S)
          /\ left' = S
          /\ listed' = {p \in older : p[1] \in S /\ p[2] \in S}
    /\ UNCHANGED <<queue, work>>

\* The next job in the order of the listing, which may have changed meanwhile.
Visit(j) ==
    /\ ~Open(Reconciler)
    /\ j \in left
    /\ \A k \in left \ {j} : <<j, k>> \in listed
    /\ left' = left \ {j}
    /\ work' = [work EXCEPT ![Reconciler] = [job |-> j, step |-> "waits"]]
    /\ older' = Latest(Reconciler)
    /\ since' = [since EXCEPT ![j] = {}]
    /\ UNCHANGED <<phase, listed>>

\* Slip: the job row is read without FOR UPDATE.
FreeAlways(j) == TRUE
Free(j)       == \A w \in Workers : ~(work[w].job = j /\ work[w].step = "holds")

\* SELECT ... FOR UPDATE gets the job's row.
Lock(w) ==
    /\ work[w].step = "waits"
    /\ Free(work[w].job)
    /\ work' = [work EXCEPT ![w].step = "holds"]
    /\ UNCHANGED <<queue, left, listed>>

\* What a caller's commit does to who was served since whose turn, and the
\* reconciler's: the jobs that waited already when its visit began.
Served(w, j) == [x \in Jobs |->
    IF x = j THEN {}
    ELSE IF w # Reconciler THEN since[x] \ {j}
    ELSE IF x \in Due /\ Before(x, w) THEN since[x] \union {j} ELSE since[x]]

\* Slip: updated_at is renewed only when the payment has changed.
RenewedOnSuccess(w, j, to) == IF to = phase[j] THEN Without(w) ELSE Touched(w, j)
Renewed(w, j, to)          == Touched(w, j)

\* WithJob commits, whatever its callback returned: nothing changed, a row was
\* reserved, or the payment is settled.
Commit(w) ==
    LET j == work[w].job
    IN  /\ work[w].step = "holds"
        /\ \/ /\ phase[j] = "due"
              /\ phase' = phase
              /\ older' = Renewed(w, j, "due")
              /\ since' = Served(w, j)
           \/ /\ phase[j] = "none"
              /\ phase' = [phase EXCEPT ![j] = "due"]
              /\ older' = Renewed(w, j, "due")
              /\ since' = Served(w, j)
           \/ /\ phase[j] = "due"
              /\ phase' = [phase EXCEPT ![j] = "settled"]
              /\ older' = Without(j) \intersect Without(w)
              /\ since' = [x \in Jobs |-> IF x = j THEN {} ELSE since[x] \ {j}]
           \/ /\ phase[j] \in {"none", "settled"}
              /\ older' = Without(w)
              /\ UNCHANGED <<phase, since>>
        /\ work' = [work EXCEPT ![w] = NoTx]
        /\ UNCHANGED <<left, listed>>

\* A statement that fails, a hang-up: updated_at stays as it was.
Rollback(w) ==
    /\ Open(w)
    /\ work' = [work EXCEPT ![w] = NoTx]
    /\ older' = Without(w)
    /\ UNCHANGED <<phase, left, listed, since>>

\* The deadline of a pass, or a restart of the service, which starts a new one.
PassEnds ==
    /\ left # {} \/ Open(Reconciler)
    /\ left' = {} /\ listed' = {}
    /\ work' = [work EXCEPT ![Reconciler] = NoTx]
    /\ older' = Without(Reconciler)
    /\ UNCHANGED <<phase, since>>

Next == \/ \E w \in Callers, j \in Jobs : Call(w, j)
        \/ \E j \in Jobs : Visit(j)
        \/ \E w \in Workers : Lock(w) \/ Commit(w) \/ Rollback(w)
        \/ ReconciliationJobs \/ PassEnds

Spec == Init /\ [][Next]_vars

\* A call that ends while the reconciler waits for its job.
MakesWay(j) == /\ work[Reconciler] = [job |-> j, step |-> "waits"]
               /\ \E w \in Callers : /\ work[w] = [job |-> j, step |-> "holds"]
                                     /\ Commit(w) \/ Rollback(w)

\* main.go repeats the pass for ever.  Of the visits to a job not all are cut
\* off before they begin, while they wait for a call to end, or under way.
Fairness == /\ WF_vars(ReconciliationJobs)
            /\ \A j \in Jobs : /\ SF_vars(Visit(j))
                               /\ SF_vars(MakesWay(j))
                               /\ SF_vars(work[Reconciler].job = j /\ Lock(Reconciler))
                               /\ SF_vars(work[Reconciler].job = j /\ Commit(Reconciler))

FairSpec == Spec /\ Fairness

-----------------------------------------------------------------------------
(* Correctness properties. *)

\* The rows have their types, only what has a time is in the order, and the
\* job's lock admits one transaction.
TypeOK == /\ phase \in [Jobs -> Phase]
          /\ older \subseteq Timed \X Timed
          /\ work \in [Workers -> Tx]
          /\ left \subseteq Jobs
          /\ listed \subseteq Jobs \X Jobs
          /\ since \in [Jobs -> SUBSET Jobs]
          /\ \A v, w \in Workers : work[v].step = "holds" /\ work[v].job = work[w].job
                                      => v = w \/ work[w].step # "holds"

\* Nobody is served twice while a due job waits: whatever calls, failures and
\* deadlines come between, the reconciler does not come back to a job it has
\* served since the waiting job's last turn or the last call about it.
ServedOnceBetween ==
    Open(Reconciler) => \A j \in Due : work[Reconciler].job \notin since[j]

\* docs/security-and-release-notes.md:26 "Cancelled jobs remain eligible": a
\* due job is never passed over for ever.  In the end the reconciler visits
\* it, or somebody's call is at it.
TurnComes ==
    \A j \in Jobs : phase[j] = "due" ~> \/ phase[j] = "settled"
                                        \/ \E w \in Workers : work[w] = [job |-> j, step |-> "holds"]
=============================================================================
