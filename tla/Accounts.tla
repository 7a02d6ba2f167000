------------------------------- MODULE Accounts -------------------------------
(***************************************************************************)
(* One provider's account in the identity service and its verification in  *)
(* the admin service.  Profile and verification flag are kept twice, in    *)
(* users and in providers; the request for verification has a row of its   *)
(* own.  Registration, a profile save, an admin's decision and a boost     *)
(* purchase are transactions that write their rows one statement at a      *)
(* time, each holding the rows it wrote until it ends, so they wait for    *)
(* one another.  Profile stands for bio and skills.                        *)
(***************************************************************************)
EXTENDS Naturals, Sequences

CONSTANTS Calls,      \* requests that can be in flight at once
          Profiles,   \* what a profile can say
          Blank,      \* the profile of a new account
          None        \* no row; nobody holds the lock; no argument

ASSUME BlankAssumption == Blank \in Profiles

VARIABLES db,     \* the committed rows
          locks,  \* the call that holds each row's lock
          calls   \* the requests in flight

vars == <<db, locks, calls>>

Rows     == {"request", "users", "providers", "wallet"}
Verdicts == {"APPROVED", "REJECTED"}
UserRow  == [profile : Profiles, verified : BOOLEAN]

ASSUME NoneAssumption == None \notin Calls \union UserRow \union Verdicts \union {"PENDING", "open"}

\* Slip: the profile save updates the provider's row first.
PathCrossed == [register |-> <<"users", "providers", "wallet">>,
                save     |-> <<"providers", "users">>,
                decide   |-> <<"request", "users", "providers">>,
                boost    |-> <<"providers", "wallet">>]

\* The rows a transaction locks, in the order of its statements.
Path == [register |-> <<"users", "providers", "wallet">>,
         save     |-> <<"users", "providers">>,
         decide   |-> <<"request", "users", "providers">>,
         boost    |-> <<"providers", "wallet">>]

Kinds == {"register", "save", "decide", "boost"}
Arg   == [register |-> {None}, save |-> Profiles, decide |-> Verdicts, boost |-> {None}]

\* done counts the statements carried out; read is the verification flag
\* UpdateProfile read before it saves.
Call == [kind : Kinds \union {"idle"}, done : 0..3,
         arg : Profiles \union Verdicts \union {None}, read : BOOLEAN]
Idle == [kind |-> "idle", done |-> 0, arg |-> None, read |-> FALSE]

RowsOf(kind) == {Path[kind][i] : i \in 1..Len(Path[kind])}
InTx(c)      == calls[c].kind \in Kinds
Registered   == db["users"] # None
Full(v)      == [users |-> v, providers |-> v, wallet |-> "open", request |-> None]

\* Nobody yet, or an account from before reviews existed, verified or not.
Init == /\ db \in {[r \in Rows |-> None]}
                  \union {Full([profile |-> Blank, verified |-> v]) : v \in BOOLEAN}
        /\ locks = [r \in Rows |-> None]
        /\ calls = [c \in Calls |-> Idle]

Begin(c, kind, arg) ==
    /\ ~InTx(c)
    /\ kind # "register" => Registered
    /\ calls' = [calls EXCEPT ![c] = [kind |-> kind, done |-> 0, arg |-> arg,
                     read |-> Registered /\ db["users"].verified]]
    /\ UNCHANGED <<db, locks>>

\* Slip: the whole user is written back as it was read.
SavedWhole(c, row) == [profile |-> calls[c].arg, verified |-> calls[c].read]
Saved(c, row)      == [row EXCEPT !.profile = calls[c].arg]

\* What call c's statements make of a users or providers row, and of any row.
Rewritten(c, row) ==
    CASE calls[c].kind = "register" -> [profile |-> Blank, verified |-> FALSE]
      [] calls[c].kind = "save"     -> Saved(c, row)
      [] calls[c].kind = "decide"   -> [row EXCEPT !.verified = (calls[c].arg = "APPROVED")]
      [] OTHER                      -> row

Written(c, r) == CASE r = "request" -> calls[c].arg
                   [] r = "wallet"  -> "open"
                   [] OTHER         -> Rewritten(c, db[r])

\* Slip: the request need not be pending.
PendingNot == db["request"] # None
Pending    == db["request"] = "PENDING"

\* What the WHERE clause or the unique index asks of the row: a pending
\* request, an e-mail address not taken.
Matches(kind, r) == /\ r = "request" => Pending
                    /\ kind = "register" /\ r = "users" => ~Registered

NextRow(c) == Path[calls[c].kind][calls[c].done + 1]
HasNext(c) == InTx(c) /\ calls[c].done < Len(Path[calls[c].kind])

\* Slip: the statements run on the pool and not in the transaction.
StatementAlone(c) ==
    /\ HasNext(c)
    /\ locks[NextRow(c)] = None
    /\ Matches(calls[c].kind, NextRow(c))
    /\ db' = [db EXCEPT ![NextRow(c)] = Written(c, NextRow(c))]
    /\ calls' = [calls EXCEPT ![c].done = @ + 1]
    /\ UNCHANGED locks

\* The next INSERT, UPDATE or SELECT FOR UPDATE, once the row is free.
Statement(c) ==
    /\ HasNext(c)
    /\ locks[NextRow(c)] = None
    /\ Matches(calls[c].kind, NextRow(c))
    /\ locks' = [locks EXCEPT ![NextRow(c)] = c]
    /\ calls' = [calls EXCEPT ![c].done = @ + 1]
    /\ UNCHANGED db

\* Slip: the deferred rollback is missing.
FinishHeld(c) == UNCHANGED locks /\ calls' = [calls EXCEPT ![c] = Idle]

Finish(c) == /\ locks' = [r \in Rows |-> IF locks[r] = c THEN None ELSE locks[r]]
             /\ calls' = [calls EXCEPT ![c] = Idle]

Commit(c) ==
    /\ InTx(c) /\ ~HasNext(c)
    /\ db' = [r \in Rows |-> IF r \in RowsOf(calls[c].kind) THEN Written(c, r) ELSE db[r]]
    /\ Finish(c)

\* A row that does not match (409, e-mail taken, boost active or unaffordable),
\* a failing statement, a caller that hangs up, a crash.
Rollback(c) == InTx(c) /\ Finish(c) /\ UNCHANGED db

\* ON CONFLICT DO NOTHING: once there is a request, asking again is answered
\* "submitted for review" and changes nothing.
RequestVerification ==
    /\ Registered
    /\ db["request"] = None
    /\ db' = [db EXCEPT !["request"] = "PENDING"]
    /\ UNCHANGED <<locks, calls>>

Next == \/ RequestVerification
        \/ \E c \in Calls : \/ \E kind \in Kinds : \E arg \in Arg[kind] : Begin(c, kind, arg)
                            \/ Statement(c) \/ Commit(c) \/ Rollback(c)

Spec == Init /\ [][Next]_vars

-----------------------------------------------------------------------------
(* Correctness properties. *)

\* Every row and every call in flight has its type, and a row is locked only by
\* a transaction that goes on: none leaves without its deferred rollback.
TypeOK == /\ DOMAIN db = Rows
          /\ db["users"] \in UserRow \union {None}
          /\ db["providers"] \in UserRow \union {None}
          /\ db["wallet"] \in {"open", None}
          /\ db["request"] \in Verdicts \union {"PENDING", None}
          /\ locks \in [Rows -> Calls \union {None}]
          /\ calls \in [Calls -> Call]
          /\ \A r \in Rows : locks[r] # None => InTx(locks[r])

\* An account is whole or not there at all, and its two copies of profile and
\* flag say the same, however saves, decisions and rollbacks interleave.
CopiesAgree == /\ db["users"] = db["providers"]
               /\ Registered <=> db["wallet"] = "open"
               /\ db["request"] # None => Registered

\* Once a request is decided the provider's flag is the verdict: no profile
\* saved at the same time brings the old flag back.
VerdictStands ==
    db["request"] \in Verdicts => db["users"].verified = (db["request"] = "APPROVED")

\* docs/security-and-release-notes.md:32: only a review changes the flag, and a
\* request is reviewed once, though two admins decide it differently at once.
OnlyReviewVerifies ==
    [][Registered => \/ db'["request"] = db["request"] /\ db'["users"].verified = db["users"].verified
                     \/ db["request"] = None /\ db'["request"] = "PENDING" /\ db'["users"] = db["users"]
                     \/ db["request"] = "PENDING" /\ db'["request"] \in Verdicts]_vars

\* c's next statement waits for a row that d holds.
WaitsFor(c, d) == HasNext(c) /\ locks[NextRow(c)] = d

\* No set of transactions ever waits for each other in a circle.
NoDeadlock == \A S \in SUBSET Calls : S # {} => \E c \in S : \A d \in S : ~WaitsFor(c, d)

UserCopy     == INSTANCE AccountContract WITH account <- db["users"], request <- db["request"]
ProviderCopy == INSTANCE AccountContract WITH account <- db["providers"], request <- db["request"]

\* Row by row as the transactions go, and whichever overlap, each copy of the
\* account changes as if every one had taken effect at once: no registration
\* resets an account, no save is lost or carries more than the profile, no
\* verdict is half given.
ImplementsAccount == UserCopy!Spec /\ ProviderCopy!Spec
=============================================================================
