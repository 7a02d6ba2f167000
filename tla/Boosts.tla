-------------------------------- MODULE Boosts --------------------------------
(***************************************************************************)
(* One provider's wallet and its two weekly boosts in the identity         *)
(* service.  Any number of calls may be in flight at once.  A purchase is  *)
(* a transaction that locks the provider's row, looks whether the boost is *)
(* still active, then debits the wallet, writes the ledger and sets the    *)
(* expiry; a switch of the coverage boost is one UPDATE.  SQL's NOW() is   *)
(* the time a transaction began, however long it waited for the lock.      *)
(* Rows and locks belong to one provider each.                             *)
(***************************************************************************)
EXTENDS Naturals, Sequences

CONSTANTS Calls,      \* requests that can be in flight at once
          Week,       \* seven days
          Horizon,    \* bound: the last point in time
          Deposits,   \* amounts a funding of the wallet may have
          MaxFunds,   \* bound: all that is ever funded
          None        \* nobody holds the lock

ASSUME TimeAssumption  == Week \in Nat \ {0} /\ Horizon \in Nat
ASSUME FundsAssumption == Deposits \subseteq Nat /\ MaxFunds \in Nat
ASSUME NoneAssumption  == None \notin Calls

VARIABLES now,
          expiry,   \* providers.coverage_boost_expires_at, roam_boost_expires_at; 0 is NULL
          enabled,  \* providers.coverage_boost_enabled
          balance,  \* provider_wallets.balance
          ledger,   \* wallet_transactions: the created_at of the debits for each boost
          funded,   \* history: all that was ever credited to the wallet
          calls,    \* the requests in flight
          lock      \* the call that holds the provider's row lock

rows == <<expiry, enabled, balance, ledger, funded>>
vars == <<now, rows, calls, lock>>

Boost  == {"coverage", "roam"}
Switch == {"on", "off"}
Price  == [coverage |-> 199, roam |-> 299]

\* began is the transaction's NOW().
Call == [step : {"idle", "begun", "locked"}, want : Boost \union Switch, began : Nat]
Idle == [step |-> "idle", want |-> "on", began |-> 0]

Create == /\ now = 1
          /\ expiry = [k \in Boost |-> 0]
          /\ enabled = TRUE
          /\ balance = 0
          /\ ledger = [k \in Boost |-> <<>>]
          /\ funded = 0
          /\ calls = [c \in Calls |-> Idle]
          /\ lock = None

Begin(c, want) ==
    /\ calls[c].step = "idle"
    /\ calls' = [calls EXCEPT ![c] = [step |-> "begun", want |-> want, began |-> now]]
    /\ UNCHANGED <<now, rows, lock>>

Finish(c) == calls' = [calls EXCEPT ![c] = Idle]

Active(c, k) == expiry[k] > calls[c].began

\* The boost is active already: the call succeeds and charges nothing.
AlreadyActive(c) ==
    /\ calls[c].step = "begun" /\ calls[c].want \in Boost
    /\ lock = None
    /\ Active(c, calls[c].want)
    /\ Finish(c)
    /\ UNCHANGED <<now, rows, lock>>

\* Slip: the row is read without FOR UPDATE.
LockUnheld(c) ==
    /\ calls[c].step = "begun" /\ calls[c].want \in Boost
    /\ lock = None
    /\ ~Active(c, calls[c].want)
    /\ calls' = [calls EXCEPT ![c].step = "locked"]
    /\ UNCHANGED <<now, rows, lock>>

\* SELECT ... FOR UPDATE: the row is locked and the boost is not active.
Lock(c) ==
    /\ calls[c].step = "begun" /\ calls[c].want \in Boost
    /\ lock = None
    /\ ~Active(c, calls[c].want)
    /\ lock' = c
    /\ calls' = [calls EXCEPT ![c].step = "locked"]
    /\ UNCHANGED <<now, rows>>

\* Slips: the wallet is not asked; the debit is not entered in the ledger.
CoveredAlways(k)   == TRUE
LedgeredNot(k, at) == ledger

Covered(k)      == balance >= Price[k]
Ledgered(k, at) == [ledger EXCEPT ![k] = Append(@, at)]

\* Debit, ledger row, expiry and commit; nobody sees a part of it.
Pay(c) ==
    LET k == calls[c].want
        began == calls[c].began
    IN  /\ calls[c].step = "locked"
        /\ Covered(k)
        /\ balance' = balance - Price[k]
        /\ ledger' = Ledgered(k, began)
        /\ expiry' = [expiry EXCEPT ![k] = began + Week]
        /\ enabled' = (enabled \/ k = "coverage")
        /\ lock' = None
        /\ Finish(c)
        /\ UNCHANGED <<now, funded>>

\* Not enough in the wallet, the database fails, or the client hangs up.
Rollback(c) ==
    /\ calls[c].step # "idle"
    /\ lock' = IF lock = c THEN None ELSE lock
    /\ Finish(c)
    /\ UNCHANGED <<now, rows>>

\* Slip: switching the boost on starts a new week.
SwitchExpiryRenewed(c) == [expiry EXCEPT !["coverage"] =
                              IF calls[c].want = "on" THEN calls[c].began + Week ELSE @]

SwitchExpiry(c) == expiry

\* Switching off always works, switching on while the boost is paid for.
ToggleCoverageBoost(c) ==
    /\ calls[c].step = "begun" /\ calls[c].want \in Switch
    /\ lock = None
    /\ calls[c].want = "off" \/ Active(c, "coverage")
    /\ enabled' = (calls[c].want = "on")
    /\ expiry' = SwitchExpiry(c)
    /\ Finish(c)
    /\ UNCHANGED <<now, balance, ledger, funded, lock>>

\* The operator funds the wallet, by a process outside this repository.
Fund(a) ==
    /\ funded + a <= MaxFunds
    /\ balance' = balance + a
    /\ funded' = funded + a
    /\ UNCHANGED <<now, expiry, enabled, ledger, calls, lock>>

Tick == /\ now < Horizon
        /\ now' = now + 1
        /\ UNCHANGED <<rows, calls, lock>>

Serve(c) == AlreadyActive(c) \/ Lock(c) \/ Pay(c) \/ Rollback(c) \/ ToggleCoverageBoost(c)

Next == \/ \E c \in Calls : Serve(c) \/ \E want \in Boost \union Switch : Begin(c, want)
        \/ \E a \in Deposits : Fund(a)
        \/ Tick

Spec == Create /\ [][Next]_vars

-----------------------------------------------------------------------------
(* Correctness properties. *)

\* Every row has its type; in particular the wallet is never overdrawn.
TypeOK == /\ now \in Nat
          /\ expiry \in [Boost -> Nat]
          /\ enabled \in BOOLEAN
          /\ balance \in Nat
          /\ ledger \in [Boost -> Seq(Nat)]
          /\ funded \in Nat
          /\ calls \in [Calls -> Call]
          /\ lock \in Calls \union {None}

\* Whatever calls fail or overlap, the ledger accounts for every centavo that
\* left the wallet.
WalletBalanced ==
    balance + Price["coverage"] * Len(ledger["coverage"]) + Price["roam"] * Len(ledger["roam"]) = funded

\* However many purchases are in flight, and however long they waited for the
\* lock, two charges for the same boost are at least a week apart.
PaidOncePerWeek ==
    \A k \in Boost : \A j \in 1..Len(ledger[k]) : \A i \in 1..(j - 1) : ledger[k][i] + Week <= ledger[k][j]

\* A boost runs for a week from its last charge, no longer and no shorter: it
\* is never active unpaid, and switching it off and on moves nothing.
BenefitIsPaid ==
    \A k \in Boost : expiry[k] = IF ledger[k] = <<>> THEN 0 ELSE ledger[k][Len(ledger[k])] + Week
=============================================================================
