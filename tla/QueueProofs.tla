----------------------------- MODULE QueueProofs -----------------------------
(***************************************************************************)
(* Proofs about ReconcileQueue for any number of jobs, callers and slots   *)
(* of a pass.  ServedOnceBetween is not inductive alone: a job served      *)
(* since another one's turn must stand behind it, in the order of          *)
(* updated_at and in whatever is left of the listing (ServedBehind).       *)
(***************************************************************************)
EXTENDS ReconcileQueue, TLAPS

Asymmetric(R) == \A x, y : <<x, y>> \in R => <<y, x>> \notin R

WorkInv == /\ \A w \in Workers : Open(w) => work[w].job \in Jobs
           /\ Open(Reconciler) => work[Reconciler].job \notin left

ServedBehind ==
    \A j \in Due : \A k \in since[j] :
        /\ Before(j, k)
        /\ k \in left => j \in left /\ <<j, k>> \in listed

QueueInv == TypeOK /\ Asymmetric(older) /\ Asymmetric(listed)
                   /\ WorkInv /\ ServedBehind /\ ServedOnceBetween

LEMMA Apart ==
  /\ \A w \in Workers : w \notin Jobs
  /\ Reconciler \in Workers /\ None \notin Jobs
  /\ \A w \in Callers : w \in Workers /\ w # Reconciler
BY WorkerAssumption DEF Workers

LEMMA InitInv == Init => QueueInv
<1> SUFFICES ASSUME Init PROVE QueueInv
  OBVIOUS
<1>1. /\ \A w \in Workers : work[w] = NoTx /\ ~Open(w)
      /\ Due = {} /\ NoTx \in Tx
  BY DEF Init, NoTx, Tx, Open, Due
<1>2. TypeOK
  BY <1>1 DEF Init, TypeOK, Phase, NoTx, Open
<1>. QED
  BY <1>1, <1>2, Apart DEF Init, QueueInv, Asymmetric, WorkInv, ServedBehind, ServedOnceBetween

\* A job that is served since another's turn is due, and is no worker.
LEMMA ServedIsDue ==
  ASSUME QueueInv, NEW j \in Due, NEW k \in since[j]
  PROVE  k \in Due /\ k \in Jobs /\ j \in Jobs /\ k # j
<1>1. k \in Timed /\ k \in Jobs /\ j \in Jobs
  BY DEF QueueInv, ServedBehind, Before, TypeOK, Due
<1>. QED
  BY <1>1, Apart DEF Timed, QueueInv, ServedBehind, Before, Asymmetric

\* A transaction that begins is the latest of all.
LEMMA BeginOrder ==
  ASSUME QueueInv, NEW w \in Workers, ~Open(w),
         older' = Latest(w), Timed' = Timed \union {w}
  PROVE  /\ older' \subseteq Timed' \X Timed' /\ Asymmetric(older)'
         /\ older \subseteq older'
<1>1. w \notin Timed
  BY Apart DEF Timed, Due
<1>. QED
  BY <1>1 DEF QueueInv, TypeOK, Latest, Asymmetric

LEMMA CallKeeps ==
  ASSUME QueueInv, NEW w \in Callers, NEW j \in Jobs, Call(w, j)
  PROVE  QueueInv'
<1> DEFINE tx == [job |-> j, step |-> "waits"]
<1>1. /\ w \in Workers /\ w # Reconciler /\ ~Open(w) /\ work' = [work EXCEPT ![w] = tx]
      /\ older' = Latest(w) /\ UNCHANGED <<phase, left, listed, since>>
  BY Apart DEF Call
<1>2. tx \in Tx /\ tx.step = "waits" /\ tx.job = j
  BY DEF Tx
<1>3. /\ work' \in [Workers -> Tx] /\ work'[w] = tx
      /\ \A v \in Workers \ {w} : work'[v] = work[v]
  BY <1>1, <1>2 DEF QueueInv, TypeOK
<1>4. Due' = Due /\ Open(w)' /\ \A v \in Workers \ {w} : Open(v)' <=> Open(v)
  BY <1>1, <1>2, <1>3 DEF Due, Open
<1>5. Timed' = Timed \union {w}
  BY <1>1, <1>4 DEF Timed
<1>6. older' \subseteq Timed' \X Timed' /\ Asymmetric(older)' /\ older \subseteq older'
  BY <1>1, <1>5, BeginOrder
<1>7. TypeOK'
  BY <1>1, <1>2, <1>3, <1>6 DEF QueueInv, TypeOK
<1>8. WorkInv'
  BY <1>1, <1>2, <1>3, <1>4, Apart DEF QueueInv, WorkInv
<1>9. ServedBehind' /\ ServedOnceBetween'
  BY <1>1, <1>3, <1>4, <1>6, Apart DEF QueueInv, ServedBehind, ServedOnceBetween, Before
<1>. QED
  BY <1>1, <1>6, <1>7, <1>8, <1>9 DEF QueueInv, Asymmetric

LEMMA VisitKeeps ==
  ASSUME QueueInv, NEW j \in Jobs, Visit(j)
  PROVE  QueueInv'
<1> DEFINE w == Reconciler  tx == [job |-> j, step |-> "waits"]
<1>1. /\ w \in Workers /\ ~Open(w) /\ work' = [work EXCEPT ![w] = tx]
      /\ older' = Latest(w) /\ UNCHANGED <<phase, listed>>
      /\ j \in left /\ left' = left \ {j} /\ since' = [since EXCEPT ![j] = {}]
      /\ \A k \in left \ {j} : <<j, k>> \in listed
  BY Apart DEF Visit
<1>2. tx \in Tx /\ tx.step = "waits" /\ tx.job = j
  BY DEF Tx
<1>3. /\ work' \in [Workers -> Tx] /\ work'[w] = tx
      /\ \A v \in Workers \ {w} : work'[v] = work[v]
      /\ since' \in [Jobs -> SUBSET Jobs]
  BY <1>1, <1>2 DEF QueueInv, TypeOK
<1>4. Due' = Due /\ Open(w)' /\ \A v \in Workers \ {w} : Open(v)' <=> Open(v)
  BY <1>1, <1>2, <1>3 DEF Due, Open
<1>5. Timed' = Timed \union {w}
  BY <1>1, <1>4 DEF Timed
<1>6. older' \subseteq Timed' \X Timed' /\ Asymmetric(older)' /\ older \subseteq older'
  BY <1>1, <1>5, BeginOrder
<1>7. TypeOK'
  BY <1>1, <1>2, <1>3, <1>6 DEF QueueInv, TypeOK
<1>8. WorkInv'
  BY <1>1, <1>2, <1>3, <1>4, Apart DEF QueueInv, WorkInv
<1>9. \A x \in Jobs : since'[x] = IF x = j THEN {} ELSE since[x]
  BY <1>1 DEF QueueInv, TypeOK
<1>10. ServedBehind'
  <2>1. ASSUME NEW x \in Due, NEW k \in since'[x]
        PROVE  /\ <<x, k>> \in older'
               /\ k \in left' => x \in left' /\ <<x, k>> \in listed'
    <3>1. x \in Jobs /\ x # j /\ k \in since[x]
      BY <1>9, <2>1 DEF Due
    <3>2. /\ <<x, k>> \in older
          /\ k \in left => x \in left /\ <<x, k>> \in listed
      BY <2>1, <3>1 DEF QueueInv, ServedBehind, Before
    <3>. QED
      BY <1>1, <1>6, <3>1, <3>2
  <2>. QED
    BY <1>4, <2>1 DEF ServedBehind, Before
<1>11. ASSUME NEW x \in Due, j \in since'[x] PROVE FALSE
  <2>1. x # j /\ j \in since[x] /\ x \in Jobs
    BY <1>9, <1>11 DEF Due
  <2>2. x \in left /\ <<x, j>> \in listed
    BY <1>1, <2>1 DEF QueueInv, ServedBehind
  <2>. QED
    BY <1>1, <2>1, <2>2 DEF QueueInv, Asymmetric
<1>12. ServedOnceBetween'
  BY <1>2, <1>3, <1>4, <1>11 DEF ServedOnceBetween
<1>. QED
  BY <1>1, <1>6, <1>7, <1>8, <1>10, <1>12 DEF QueueInv, Asymmetric

LEMMA LockKeeps ==
  ASSUME QueueInv, NEW w \in Workers, Lock(w)
  PROVE  QueueInv'
<1>1. /\ work[w].step = "waits" /\ Free(work[w].job) /\ UNCHANGED <<phase, older, since, left, listed>>
      /\ work' = [work EXCEPT ![w].step = "holds"]
  BY DEF Lock, queue
<1>2. /\ work' \in [Workers -> Tx] /\ work'[w].step = "holds" /\ work'[w].job = work[w].job
      /\ \A v \in Workers \ {w} : work'[v] = work[v]
  <2>1. work[w] \in Tx
    BY DEF QueueInv, TypeOK
  <2>2. [work[w] EXCEPT !.step = "holds"] \in Tx
    BY <2>1 DEF Tx
  <2>. QED
    BY <1>1, <2>1, <2>2 DEF QueueInv, TypeOK, Tx
<1>3. Open(w) /\ \A v \in Workers : (Open(v)' <=> Open(v)) /\ work'[v].job = work[v].job
  BY <1>1, <1>2 DEF Open
<1>4. Due' = Due /\ Timed' = Timed
  BY <1>1, <1>3 DEF Due, Timed
<1>5. ASSUME NEW u \in Workers, NEW v \in Workers,
             work'[u].step = "holds", work'[u].job = work'[v].job, work'[v].step = "holds"
      PROVE  u = v
  BY <1>1, <1>2, <1>3, <1>5 DEF Free, QueueInv, TypeOK
<1>6. TypeOK'
  BY <1>1, <1>2, <1>4, <1>5 DEF QueueInv, TypeOK
<1>7. WorkInv' /\ ServedBehind' /\ ServedOnceBetween'
  BY <1>1, <1>3, <1>4, Apart DEF QueueInv, WorkInv, ServedBehind, ServedOnceBetween, Before
<1>. QED
  BY <1>1, <1>6, <1>7 DEF QueueInv, Asymmetric

\* What every end of a transaction has in common.
LEMMA EndWork ==
  ASSUME QueueInv, NEW w \in Workers, work' = [work EXCEPT ![w] = NoTx]
  PROVE  /\ work' \in [Workers -> Tx] /\ ~Open(w)'
         /\ \A v \in Workers \ {w} : work'[v] = work[v] /\ (Open(v)' <=> Open(v))
         /\ \A u, v \in Workers : work'[u].step = "holds" /\ work'[u].job = work'[v].job
                                       => u = v \/ work'[v].step # "holds"
<1>1. NoTx \in Tx /\ NoTx.step = "none"
  BY DEF NoTx, Tx
<1>2. /\ work' \in [Workers -> Tx] /\ work'[w] = NoTx
      /\ \A v \in Workers \ {w} : work'[v] = work[v]
  BY <1>1 DEF QueueInv, TypeOK
<1>3. ~Open(w)' /\ \A v \in Workers \ {w} : Open(v)' <=> Open(v)
  BY <1>1, <1>2 DEF Open
<1>. QED
  BY <1>1, <1>2, <1>3 DEF QueueInv, TypeOK

LEMMA WithdrawKeeps ==
  ASSUME QueueInv, NEW w \in Workers, work' = [work EXCEPT ![w] = NoTx],
         older' = Without(w), UNCHANGED <<phase, since>>,
         \/ left' = left /\ listed' = listed
         \/ left' = {} /\ listed' = {}
  PROVE  QueueInv'
<1>1. Due' = Due /\ Timed' = Timed \ {w}
  BY EndWork, Apart DEF Due, Timed
<1>2. TypeOK'
  BY <1>1, EndWork DEF QueueInv, TypeOK, Without
<1>3. Asymmetric(older)' /\ Asymmetric(listed)'
  BY DEF QueueInv, Asymmetric, Without
<1>4. ServedBehind'
  <2>1. ASSUME NEW j \in Due, NEW k \in since[j]
        PROVE  <<j, k>> \in older'
    <3>1. j # w /\ k # w /\ Before(j, k)
      BY <2>1, ServedIsDue, Apart DEF QueueInv, ServedBehind
    <3>. QED
      BY <3>1 DEF Without, Before
  <2>. QED
    BY <1>1, <2>1 DEF QueueInv, ServedBehind, Before
<1>5. WorkInv' /\ ServedOnceBetween'
  BY <1>1, EndWork, Apart DEF QueueInv, WorkInv, ServedOnceBetween
<1>. QED
  BY <1>2, <1>3, <1>4, <1>5 DEF QueueInv

LEMMA ListKeeps ==
  ASSUME QueueInv, ReconciliationJobs
  PROVE  QueueInv'
<1>1. PICK S \in SUBSET Due : /\ Oldest(S) /\ left' = S
                              /\ listed' = {p \in older : p[1] \in S /\ p[2] \in S}
                              /\ left = {} /\ ~Open(Reconciler)
                              /\ UNCHANGED <<phase, older, since, work>>
  BY DEF ReconciliationJobs, queue
<1>2. Due' = Due /\ Timed' = Timed /\ \A v \in Workers : Open(v)' <=> Open(v)
  BY <1>1 DEF Due, Timed, Open
<1>3. S \subseteq Jobs /\ listed' \subseteq Jobs \X Jobs
  BY <1>1 DEF Due, QueueInv, TypeOK
<1>4. TypeOK'
  BY <1>1, <1>2, <1>3 DEF QueueInv, TypeOK
<1>5. Asymmetric(older)' /\ Asymmetric(listed)'
  BY <1>1 DEF QueueInv, Asymmetric
<1>6. ASSUME NEW j \in Due, NEW k \in since[j], k \in S
      PROVE  j \in S /\ <<j, k>> \in listed'
  <2>1. Before(j, k)
    BY <1>6 DEF QueueInv, ServedBehind
  <2>2. j \in S
    BY <1>1, <1>6, <2>1 DEF Oldest, Before, QueueInv, Asymmetric
  <2>. QED
    BY <1>1, <1>6, <2>1, <2>2 DEF Before
<1>7. ServedBehind'
  BY <1>1, <1>2, <1>6 DEF QueueInv, ServedBehind, Before
<1>8. WorkInv' /\ ServedOnceBetween'
  BY <1>1, <1>2, Apart DEF QueueInv, WorkInv, ServedOnceBetween
<1>. QED
  BY <1>4, <1>5, <1>7, <1>8 DEF QueueInv

\* Who is served anew since a due job's last turn by a commit of w at j: j, by
\* the reconciler, if the job has waited since before the visit began.
LEMMA CommitKeeps ==
  ASSUME QueueInv, NEW w \in Workers, Commit(w)
  PROVE  QueueInv'
<1> DEFINE j == work[w].job
<1>1. /\ Open(w) /\ j \in Jobs /\ work[w].step = "holds"
      /\ work' = [work EXCEPT ![w] = NoTx] /\ UNCHANGED <<left, listed>>
  BY DEF Commit, Open, QueueInv, WorkInv
<1>2. /\ \A x \in Jobs : x # w
      /\ w = Reconciler => j \notin left /\ \A x \in Due : j \notin since[x]
  BY <1>1, Apart DEF QueueInv, WorkInv, ServedOnceBetween
<1>3. /\ work' \in [Workers -> Tx] /\ ~Open(w)'
      /\ \A v \in Workers \ {w} : work'[v] = work[v] /\ (Open(v)' <=> Open(v))
      /\ \A u, v \in Workers : work'[u].step = "holds" /\ work'[u].job = work'[v].job
                                    => u = v \/ work'[v].step # "holds"
  BY <1>1, EndWork
<1>4. CASE phase[j] \in {"none", "settled"} /\ older' = Without(w) /\ UNCHANGED <<phase, since>>
  <2>1. UNCHANGED <<phase, since>> /\ left' = left /\ listed' = listed
    BY <1>1, <1>4
  <2>2. work' = [work EXCEPT ![w] = NoTx] /\ older' = Without(w)
    BY <1>1, <1>4
  <2>. QED
    BY <2>1, <2>2, WithdrawKeeps
<1>5. ASSUME phase' \in [Jobs -> Phase], Due' = Due \union {j}, older' = Touched(w, j),
             since' = Served(w, j)
      PROVE  QueueInv'
  <2>1. Timed' = (Timed \ {w}) \union {j}
    <3>1. w \notin Due /\ w # j
      BY <1>1, <1>2 DEF Due
    <3>2. {v \in Workers : Open(v)'} = {v \in Workers : Open(v)} \ {w}
      BY <1>3
    <3>. QED
      BY <1>5, <3>1, <3>2 DEF Timed
  <2>2. older' \subseteq Timed' \X Timed' /\ j \in Timed'
    BY <1>5, <2>1 DEF Touched, Without, QueueInv, TypeOK
  <2>3. Asymmetric(older)'
    BY <1>5 DEF Touched, Without, Before, QueueInv, Asymmetric
  <2>4. since' \in [Jobs -> SUBSET Jobs]
    BY <1>1, <1>5 DEF Served, QueueInv, TypeOK
  <2>5. TypeOK'
    BY <1>1, <1>3, <1>5, <2>2, <2>4 DEF QueueInv, TypeOK
  <2>6. ASSUME NEW x \in Due', NEW k \in since'[x]
        PROVE  x \in Due /\ x # j
               /\ \/ k \in since[x] /\ k # j
                  \/ k = j /\ w = Reconciler /\ Before(x, w)
    <3>1. x \in Jobs /\ x # j /\ x \in Due
      BY <1>5, <2>6 DEF Due, Served
    <3>2. CASE w # Reconciler
      BY <1>5, <2>6, <3>1, <3>2 DEF Served
    <3>3. CASE w = Reconciler
      BY <1>2, <1>5, <2>6, <3>1, <3>3 DEF Served
    <3>. QED
      BY <3>1, <3>2, <3>3
  <2>7. ASSUME NEW x \in Due', NEW k \in since'[x]
        PROVE  /\ <<x, k>> \in older'
               /\ k \in left => x \in left /\ <<x, k>> \in listed
    <3>1. x \in Due /\ x # j /\ x # w /\ x \in Timed
      BY <1>2, <2>6, <2>7 DEF Due, Timed
    <3>2. CASE k \in since[x] /\ k # j
      <4>1. <<x, k>> \in older /\ k # w
            /\ (k \in left => x \in left /\ <<x, k>> \in listed)
        BY <1>2, <3>1, <3>2, ServedIsDue DEF QueueInv, ServedBehind, Before
      <4>. QED
        BY <1>5, <3>1, <3>2, <4>1 DEF Touched, Without
    <3>3. CASE k = j /\ w = Reconciler /\ Before(x, w)
      BY <1>2, <1>5, <3>1, <3>3 DEF Touched
    <3>. QED
      BY <2>6, <2>7, <3>2, <3>3
  <2>8. ServedBehind'
    BY <1>1, <2>7 DEF ServedBehind, Before
  <2>9. WorkInv'
    BY <1>1, <1>3, Apart DEF QueueInv, WorkInv
  <2>10. ServedOnceBetween'
    <3>1. CASE w = Reconciler
      BY <1>3, <3>1 DEF ServedOnceBetween
    <3>2. CASE w # Reconciler
      BY <1>3, <2>6, <3>2, Apart DEF QueueInv, ServedOnceBetween
    <3>. QED
      BY <3>1, <3>2
  <2>. QED
    BY <1>1, <2>3, <2>5, <2>8, <2>9, <2>10 DEF QueueInv, Asymmetric
<1>6. CASE phase[j] = "due" /\ phase' = phase
           /\ older' = Renewed(w, j, "due") /\ since' = Served(w, j)
  <2>1. phase' \in [Jobs -> Phase] /\ Due' = Due \union {j}
    BY <1>1, <1>6 DEF QueueInv, TypeOK, Due
  <2>. QED
    BY <1>5, <1>6, <2>1 DEF Renewed
<1>7. CASE phase[j] = "none" /\ phase' = [phase EXCEPT ![j] = "due"]
           /\ older' = Renewed(w, j, "due") /\ since' = Served(w, j)
  <2>1. phase' \in [Jobs -> Phase] /\ Due' = Due \union {j}
    BY <1>1, <1>7 DEF QueueInv, TypeOK, Due, Phase
  <2>. QED
    BY <1>5, <1>7, <2>1 DEF Renewed
<1>8. CASE /\ phase[j] = "due" /\ phase' = [phase EXCEPT ![j] = "settled"]
           /\ older' = Without(j) \intersect Without(w)
           /\ since' = [x \in Jobs |-> IF x = j THEN {} ELSE since[x] \ {j}]
  <2>1. phase' \in [Jobs -> Phase] /\ Due' = Due \ {j}
    BY <1>1, <1>8 DEF QueueInv, TypeOK, Due, Phase
  <2>2. Timed' = Timed \ {w, j}
    <3>1. w \notin Due /\ j \notin Workers
      BY <1>1, <1>2, Apart DEF Due
    <3>2. {v \in Workers : Open(v)'} = {v \in Workers : Open(v)} \ {w}
      BY <1>3
    <3>. QED
      BY <2>1, <3>1, <3>2 DEF Timed
  <2>3. older' \subseteq Timed' \X Timed' /\ Asymmetric(older)'
    BY <1>8, <2>2 DEF QueueInv, TypeOK, Asymmetric, Without
  <2>4. since' \in [Jobs -> SUBSET Jobs]
    BY <1>8 DEF QueueInv, TypeOK
  <2>5. TypeOK'
    BY <1>1, <1>3, <2>1, <2>3, <2>4 DEF QueueInv, TypeOK
  <2>6. ASSUME NEW x \in Due', NEW k \in since'[x]
        PROVE  x \in Due /\ x # j /\ k \in since[x] /\ k # j
    BY <1>8, <2>1, <2>6 DEF Due
  <2>7. ASSUME NEW x \in Due', NEW k \in since'[x]
        PROVE  /\ <<x, k>> \in older'
               /\ k \in left => x \in left /\ <<x, k>> \in listed
    <3>1. x \in Due /\ x # j /\ k \in since[x] /\ k # j
      BY <2>6, <2>7
    <3>2. x # w /\ k # w /\ <<x, k>> \in older
          /\ (k \in left => x \in left /\ <<x, k>> \in listed)
      BY <1>2, <3>1, ServedIsDue DEF QueueInv, ServedBehind, Before
    <3>. QED
      BY <1>8, <3>1, <3>2 DEF Without
  <2>8. ServedBehind'
    BY <1>1, <2>7 DEF ServedBehind, Before
  <2>9. WorkInv'
    BY <1>1, <1>3, Apart DEF QueueInv, WorkInv
  <2>10. ServedOnceBetween'
    BY <1>3, <2>6, Apart DEF QueueInv, ServedOnceBetween
  <2>. QED
    BY <1>1, <2>3, <2>5, <2>8, <2>9, <2>10 DEF QueueInv, Asymmetric
<1>. QED
  BY <1>4, <1>6, <1>7, <1>8 DEF Commit

LEMMA NextInv == QueueInv /\ [Next]_vars => QueueInv'
<1> SUFFICES ASSUME QueueInv, [Next]_vars PROVE QueueInv'
  OBVIOUS
<1>1. CASE \E w \in Callers, j \in Jobs : Call(w, j)
  BY <1>1, CallKeeps
<1>2. CASE \E j \in Jobs : Visit(j)
  BY <1>2, VisitKeeps
<1>3. CASE \E w \in Workers : Lock(w) \/ Commit(w)
  BY <1>3, LockKeeps, CommitKeeps
<1>4. CASE \E w \in Workers : Rollback(w)
  BY <1>4, WithdrawKeeps DEF Rollback
<1>5. CASE ReconciliationJobs
  BY <1>5, ListKeeps
<1>6. CASE PassEnds
  BY <1>6, WithdrawKeeps, Apart DEF PassEnds
<1>7. CASE UNCHANGED vars
  BY <1>7 DEF vars, queue, QueueInv, TypeOK, Due, Timed, Open, Asymmetric, WorkInv,
              ServedBehind, Before, ServedOnceBetween
<1>. QED
  BY <1>1, <1>2, <1>3, <1>4, <1>5, <1>6, <1>7 DEF Next

LEMMA QueueCorrect == Spec => []QueueInv
BY InitInv, NextInv, PTL DEF Spec

\* The rows, the order of updated_at and the transactions keep their types, and
\* a job's row is locked by one transaction at a time (payment_repo.go, WithJob).
THEOREM TypeCorrect == Spec => []TypeOK
<1>1. QueueInv => TypeOK
  BY DEF QueueInv
<1>. QED
  BY <1>1, QueueCorrect, PTL

\* For any number of jobs, callers and slots of a pass, nobody is served twice
\* by the reconciler while a due job waits for its turn.
THEOREM ServedOnce == Spec => []ServedOnceBetween
<1>1. QueueInv => ServedOnceBetween
  BY DEF QueueInv
<1>. QED
  BY <1>1, QueueCorrect, PTL
=============================================================================
