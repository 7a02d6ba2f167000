----------------------------- MODULE BoostsProofs -----------------------------
(***************************************************************************)
(* Proofs about Boosts for any number of calls in flight, any length of    *)
(* the week and any deposits.  PaidOncePerWeek is not inductive alone: a   *)
(* purchase that holds the lock relies on what it saw of the expiry when   *)
(* it took the lock (LockKeeps), and the expiry stands for the last charge *)
(* (BenefitIsPaid).                                                        *)
(***************************************************************************)
EXTENDS Boosts, SequenceTheorems, TLAPS

\* Only the call that holds the lock is past its look at the expiry, and the
\* boost it wants is still inactive.
LockKeeps ==
    \A c \in Calls : calls[c].step = "locked" =>
        /\ lock = c
        /\ calls[c].want \in Boost
        /\ expiry[calls[c].want] <= calls[c].began

BoostInv == TypeOK /\ LockKeeps /\ WalletBalanced /\ PaidOncePerWeek /\ BenefitIsPaid

\* A charge a week or more after the last one is a week or more after them all.
LEMMA WeekApart ==
  ASSUME NEW s \in Seq(Nat), NEW t \in Nat,
         \A j \in 1..Len(s) : \A i \in 1..(j - 1) : s[i] + Week <= s[j],
         s # <<>> => s[Len(s)] + Week <= t
  PROVE  LET a == Append(s, t)
         IN  /\ a \in Seq(Nat) /\ a # <<>>
             /\ Len(a) = Len(s) + 1
             /\ a[Len(a)] = t
             /\ \A j \in 1..Len(a) : \A i \in 1..(j - 1) : a[i] + Week <= a[j]
<1> DEFINE a == Append(s, t)
<1>1. /\ a \in Seq(Nat) /\ a # <<>> /\ Len(a) = Len(s) + 1
      /\ \A i \in 1..Len(s) : a[i] = s[i]
      /\ a[Len(s) + 1] = t
  BY AppendProperties
<1>2. Len(s) \in Nat /\ \A i \in 1..Len(s) : s[i] \in Nat
  OBVIOUS
<1> HIDE DEF a
<1>3. ASSUME NEW j \in 1..Len(a), NEW i \in 1..(j - 1)
      PROVE  a[i] + Week <= a[j]
  <2>1. CASE j \in 1..Len(s)
    <3>1. i \in 1..Len(s)
      BY <2>1, <1>2
    <3>2. a[i] = s[i] /\ a[j] = s[j] /\ s[i] + Week <= s[j]
      BY <2>1, <3>1, <1>1
    <3>. QED
      BY <3>2
  <2>2. CASE j = Len(s) + 1
    <3>1. i \in 1..Len(s) /\ Len(s) \in 1..Len(s) /\ s # <<>> /\ a[j] = t /\ a[i] = s[i]
      BY <2>2, <1>1, <1>2
    <3>2. s[Len(s)] + Week <= t
      BY <3>1
    <3>3. CASE i = Len(s)
      BY <3>1, <3>2, <3>3
    <3>4. CASE i # Len(s)
      <4>1. i \in 1..(Len(s) - 1)
        BY <3>1, <3>4, <1>2
      <4>2. s[i] + Week <= s[Len(s)]
        BY <4>1, <3>1
      <4>. QED
        BY <4>2, <3>1, <3>2, <1>2, TimeAssumption
    <3>. QED
      BY <3>3, <3>4
  <2>3. j \in 1..(Len(s) + 1)
    BY <1>1
  <2>. QED
    BY <2>1, <2>2, <2>3, <1>2
<1>. QED
  BY <1>1, <1>3 DEF a

LEMMA BoostInvInit == Create => BoostInv
  BY TimeAssumption, NoneAssumption
  DEF Create, BoostInv, TypeOK, LockKeeps, WalletBalanced, PaidOncePerWeek, BenefitIsPaid,
      Boost, Switch, Call, Idle, Price

\* WalletBalanced with the prices in figures.
LEMMA BalanceInFigures ==
  /\ WalletBalanced <=> balance + 199 * Len(ledger["coverage"]) + 299 * Len(ledger["roam"]) = funded
  /\ WalletBalanced' <=> balance' + 199 * Len(ledger'["coverage"]) + 299 * Len(ledger'["roam"]) = funded'
<1>1. Price["coverage"] = 199 /\ Price["roam"] = 299
  BY DEF Price
<1>. QED
  BY <1>1, Zenon DEF WalletBalanced

\* What the ledger properties are about does not change.
LEMMA MoneyUnchanged ==
  ASSUME BoostInv, UNCHANGED <<expiry, balance, ledger, funded>>
  PROVE  WalletBalanced' /\ PaidOncePerWeek' /\ BenefitIsPaid'
  BY DEF BoostInv, WalletBalanced, PaidOncePerWeek, BenefitIsPaid

LEMMA PayKeeps ==
  ASSUME BoostInv, NEW c \in Calls, Pay(c)
  PROVE  BoostInv'
<1> DEFINE k == calls[c].want
           began == calls[c].began
<1>1. /\ lock = c /\ k \in Boost /\ began \in Nat /\ expiry[k] <= began
      /\ balance \in Nat /\ balance >= Price[k]
  BY DEF BoostInv, TypeOK, LockKeeps, Pay, Covered, Call
<1>2. /\ ledger' = [ledger EXCEPT ![k] = Append(ledger[k], began)]
      /\ expiry' = [expiry EXCEPT ![k] = began + Week]
      /\ balance' = balance - Price[k]
      /\ enabled' = (enabled \/ k = "coverage")
      /\ lock' = None /\ calls' = [calls EXCEPT ![c] = Idle]
      /\ UNCHANGED <<now, funded>>
  BY DEF Pay, Ledgered, Finish
<1>3. /\ ledger \in [Boost -> Seq(Nat)] /\ expiry \in [Boost -> Nat]
      /\ calls \in [Calls -> Call] /\ now \in Nat /\ funded \in Nat /\ enabled \in BOOLEAN
  BY DEF BoostInv, TypeOK
<1>4. Price[k] \in Nat /\ Week \in Nat
  BY <1>1, TimeAssumption DEF Price, Boost
<1> HIDE DEF k, began
<1>5. LET s == ledger[k]
      IN  /\ s \in Seq(Nat)
          /\ \A j \in 1..Len(s) : \A i \in 1..(j - 1) : s[i] + Week <= s[j]
          /\ s # <<>> => s[Len(s)] + Week <= began
  BY <1>1, <1>3 DEF BoostInv, PaidOncePerWeek, BenefitIsPaid
<1>6. /\ ledger'[k] \in Seq(Nat) /\ ledger'[k] # <<>>
      /\ Len(ledger'[k]) = Len(ledger[k]) + 1
      /\ ledger'[k][Len(ledger'[k])] = began
      /\ \A j \in 1..Len(ledger'[k]) : \A i \in 1..(j - 1) : ledger'[k][i] + Week <= ledger'[k][j]
  <2>1. ledger'[k] = Append(ledger[k], began)
    BY <1>1, <1>2, <1>3
  <2>. QED
    BY <2>1, <1>1, <1>5, WeekApart
<1>7. \A m \in Boost : m # k => ledger'[m] = ledger[m] /\ expiry'[m] = expiry[m]
  BY <1>2, <1>3
<1>8. TypeOK'
  <2>1. ledger' \in [Boost -> Seq(Nat)]
    BY <1>2, <1>3, <1>6, <1>7
  <2>2. expiry' \in [Boost -> Nat] /\ balance' \in Nat
    BY <1>1, <1>2, <1>3, <1>4
  <2>3. calls' \in [Calls -> Call] /\ lock' \in Calls \union {None} /\ enabled' \in BOOLEAN
    BY <1>2, <1>3 DEF Idle, Call, Switch
  <2>. QED
    BY <2>1, <2>2, <2>3, <1>2, <1>3 DEF TypeOK
<1>9. LockKeeps'
  <2>1. ASSUME NEW d \in Calls PROVE calls'[d].step # "locked"
    BY <1>1, <1>2, <1>3, NoneAssumption DEF BoostInv, LockKeeps, Idle
  <2>. QED
    BY <2>1 DEF LockKeeps
<1>10. WalletBalanced'
  <2> DEFINE m == Len(ledger["coverage"])
             n == Len(ledger["roam"])
  <2>1. m \in Nat /\ n \in Nat /\ balance + 199 * m + 299 * n = funded
    BY <1>3, BalanceInFigures DEF BoostInv, Boost
  <2> HIDE DEF m, n
  <2>2. /\ (balance - 199) + 199 * (m + 1) + 299 * n = funded
        /\ (balance - 299) + 199 * m + 299 * (n + 1) = funded
    BY <2>1, <1>1, <1>3
  <2>3. CASE k = "coverage"
    <3>1. Len(ledger'["coverage"]) = m + 1 /\ Len(ledger'["roam"]) = n /\ balance' = balance - 199
      BY <2>3, <1>2, <1>6, <1>7 DEF Boost, Price, m, n
    <3>. QED
      BY <3>1, <2>2, <1>2, BalanceInFigures
  <2>4. CASE k = "roam"
    <3>1. Len(ledger'["coverage"]) = m /\ Len(ledger'["roam"]) = n + 1 /\ balance' = balance - 299
      BY <2>4, <1>2, <1>6, <1>7 DEF Boost, Price, m, n
    <3>. QED
      BY <3>1, <2>2, <1>2, BalanceInFigures
  <2>. QED
    BY <2>3, <2>4, <1>1 DEF Boost
<1>11. PaidOncePerWeek'
  BY <1>6, <1>7 DEF BoostInv, PaidOncePerWeek
<1>12. BenefitIsPaid'
  <2>1. expiry'[k] = began + Week
    BY <1>1, <1>2, <1>3
  <2>. QED
    BY <2>1, <1>6, <1>7 DEF BoostInv, BenefitIsPaid
<1>. QED
  BY <1>8, <1>9, <1>10, <1>11, <1>12 DEF BoostInv

LEMMA BoostInvNext == BoostInv /\ [Next]_vars => BoostInv'
<1> SUFFICES ASSUME BoostInv, [Next]_vars PROVE BoostInv'
  OBVIOUS
<1> USE TimeAssumption, FundsAssumption, NoneAssumption
<1>1. ASSUME NEW c \in Calls, NEW want \in Boost \union Switch, Begin(c, want) PROVE BoostInv'
  <2>1. WalletBalanced' /\ PaidOncePerWeek' /\ BenefitIsPaid'
    BY <1>1, MoneyUnchanged DEF Begin, rows
  <2>2. TypeOK' /\ LockKeeps'
    BY <1>1 DEF BoostInv, TypeOK, LockKeeps, Begin, rows, Call
  <2>. QED
    BY <2>1, <2>2 DEF BoostInv
<1>2. ASSUME NEW c \in Calls, AlreadyActive(c) PROVE BoostInv'
  <2>1. WalletBalanced' /\ PaidOncePerWeek' /\ BenefitIsPaid'
    BY <1>2, MoneyUnchanged DEF AlreadyActive, rows
  <2>2. TypeOK' /\ LockKeeps'
    BY <1>2 DEF BoostInv, TypeOK, LockKeeps, AlreadyActive, Finish, rows, Call, Idle, Switch
  <2>. QED
    BY <2>1, <2>2 DEF BoostInv
<1>3. ASSUME NEW c \in Calls, Lock(c) PROVE BoostInv'
  <2>1. WalletBalanced' /\ PaidOncePerWeek' /\ BenefitIsPaid'
    BY <1>3, MoneyUnchanged DEF Lock, rows
  <2>2. TypeOK'
    BY <1>3 DEF BoostInv, TypeOK, Lock, rows, Call
  <2>3. expiry[calls[c].want] <= calls[c].began
    BY <1>3 DEF Lock, Active, BoostInv, TypeOK, Call
  <2>4. LockKeeps'
    BY <1>3, <2>3 DEF BoostInv, TypeOK, LockKeeps, Lock, rows, Call
  <2>. QED
    BY <2>1, <2>2, <2>4 DEF BoostInv
<1>4. ASSUME NEW c \in Calls, Pay(c) PROVE BoostInv'
  BY <1>4, PayKeeps
<1>5. ASSUME NEW c \in Calls, Rollback(c) PROVE BoostInv'
  <2>1. WalletBalanced' /\ PaidOncePerWeek' /\ BenefitIsPaid'
    BY <1>5, MoneyUnchanged DEF Rollback, rows
  <2>2. TypeOK' /\ LockKeeps'
    BY <1>5 DEF BoostInv, TypeOK, LockKeeps, Rollback, Finish, rows, Call, Idle, Switch
  <2>. QED
    BY <2>1, <2>2 DEF BoostInv
<1>6. ASSUME NEW c \in Calls, ToggleCoverageBoost(c) PROVE BoostInv'
  <2>1. WalletBalanced' /\ PaidOncePerWeek' /\ BenefitIsPaid'
    BY <1>6, MoneyUnchanged DEF ToggleCoverageBoost, SwitchExpiry
  <2>2. TypeOK' /\ LockKeeps'
    BY <1>6 DEF BoostInv, TypeOK, LockKeeps, ToggleCoverageBoost, SwitchExpiry, Finish, Call, Idle, Switch
  <2>. QED
    BY <2>1, <2>2 DEF BoostInv
<1>7. ASSUME NEW a \in Deposits, Fund(a) PROVE BoostInv'
  <2>1. TypeOK' /\ LockKeeps'
    BY <1>7 DEF BoostInv, TypeOK, LockKeeps, Fund
  <2>2. PaidOncePerWeek' /\ BenefitIsPaid'
    BY <1>7 DEF BoostInv, PaidOncePerWeek, BenefitIsPaid, Fund
  <2>3. WalletBalanced'
    <3> DEFINE m == Len(ledger["coverage"])
               n == Len(ledger["roam"])
    <3>1. /\ m \in Nat /\ n \in Nat /\ balance \in Nat /\ funded \in Nat /\ a \in Nat
          /\ balance + 199 * m + 299 * n = funded
      BY BalanceInFigures DEF BoostInv, TypeOK, Boost
    <3> HIDE DEF m, n
    <3>2. (balance + a) + 199 * m + 299 * n = funded + a
      BY <3>1
    <3>3. balance' = balance + a /\ funded' = funded + a /\ ledger' = ledger
      BY <1>7 DEF Fund
    <3>. QED
      BY <3>2, <3>3, BalanceInFigures DEF m, n
  <2>. QED
    BY <2>1, <2>2, <2>3 DEF BoostInv
<1>8. ASSUME Tick PROVE BoostInv'
  <2>1. WalletBalanced' /\ PaidOncePerWeek' /\ BenefitIsPaid'
    BY <1>8, MoneyUnchanged DEF Tick, rows
  <2>2. TypeOK' /\ LockKeeps'
    BY <1>8 DEF BoostInv, TypeOK, LockKeeps, Tick, rows
  <2>. QED
    BY <2>1, <2>2 DEF BoostInv
<1>9. ASSUME UNCHANGED vars PROVE BoostInv'
  BY <1>9 DEF BoostInv, TypeOK, LockKeeps, WalletBalanced, PaidOncePerWeek, BenefitIsPaid, vars, rows
<1>. QED
  BY <1>1, <1>2, <1>3, <1>4, <1>5, <1>6, <1>7, <1>8, <1>9 DEF Next, Serve

LEMMA BoostInvariant == Spec => []BoostInv
  BY BoostInvInit, BoostInvNext, PTL DEF Spec

\* Rows keep their types, and the wallet is never overdrawn.
THEOREM TypeCorrect == Spec => []TypeOK
<1>1. BoostInv => TypeOK
  BY DEF BoostInv
<1>. QED
  BY <1>1, BoostInvariant, PTL

\* The wallet and its ledger always add up to what was funded.
THEOREM LedgerBalances == Spec => []WalletBalanced
<1>1. BoostInv => WalletBalanced
  BY DEF BoostInv
<1>. QED
  BY <1>1, BoostInvariant, PTL

\* No boost is charged twice within a week, however many calls overlap.
THEOREM ChargedOncePerWeek == Spec => []PaidOncePerWeek
<1>1. BoostInv => PaidOncePerWeek
  BY DEF BoostInv
<1>. QED
  BY <1>1, BoostInvariant, PTL

\* A boost is active exactly for the week after its last charge.
THEOREM NoUnpaidBenefit == Spec => []BenefitIsPaid
<1>1. BoostInv => BenefitIsPaid
  BY DEF BoostInv
<1>. QED
  BY <1>1, BoostInvariant, PTL
=============================================================================
