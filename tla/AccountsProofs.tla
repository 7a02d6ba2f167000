---------------------------- MODULE AccountsProofs ----------------------------
(***************************************************************************)
(* Proofs about Accounts for any number of transactions at once.  What the *)
(* rows say follows from who holds their locks: a transaction holds every  *)
(* row it has written (LocksHeld), so a request it found pending, or an    *)
(* e-mail address it found free, is so until it ends (StillSo).  Deadlock  *)
(* is impossible since all paths take the rows in one order.               *)
(***************************************************************************)
EXTENDS Accounts, TLAPS

\* The rows transaction c has written so far.
Held(c) == {Path[calls[c].kind][i] : i \in 1..calls[c].done}

LocksHeld ==
    \A c \in Calls :
        /\ InTx(c) => /\ calls[c].done \in 0..Len(Path[calls[c].kind])
                      /\ calls[c].arg \in Arg[calls[c].kind]
                      /\ \A r \in Rows : locks[r] = c <=> r \in Held(c)
        /\ ~InTx(c) => \A r \in Rows : locks[r] # c

StillSo ==
    \A c \in Calls : InTx(c) =>
        /\ calls[c].kind # "register" => Registered
        /\ calls[c].kind = "register" /\ calls[c].done > 0 => ~Registered
        /\ calls[c].kind = "decide" /\ calls[c].done > 0 => db["request"] = "PENDING"

AcctInv == TypeOK /\ CopiesAgree /\ VerdictStands /\ LocksHeld /\ StillSo

\* The paths written out.
LEMMA Paths ==
  /\ Path["register"] = <<"users", "providers", "wallet">> /\ Len(Path["register"]) = 3
  /\ Path["save"] = <<"users", "providers">> /\ Len(Path["save"]) = 2
  /\ Path["decide"] = <<"request", "users", "providers">> /\ Len(Path["decide"]) = 3
  /\ Path["boost"] = <<"providers", "wallet">> /\ Len(Path["boost"]) = 2
BY DEF Path

LEMMA PathRows ==
  ASSUME NEW kind \in Kinds
  PROVE  /\ Len(Path[kind]) \in 2..3
         /\ \A i \in 1..Len(Path[kind]) : Path[kind][i] \in Rows
<1>1. CASE kind = "register" BY <1>1, Paths DEF Rows
<1>2. CASE kind = "save" BY <1>2, Paths DEF Rows
<1>3. CASE kind = "decide" BY <1>3, Paths DEF Rows
<1>4. CASE kind = "boost" BY <1>4, Paths DEF Rows
<1>. QED
  BY <1>1, <1>2, <1>3, <1>4 DEF Kinds

\* The whole path's rows.
LEMMA PathSets ==
  /\ RowsOf("register") = {"users", "providers", "wallet"}
  /\ RowsOf("save") = {"users", "providers"}
  /\ RowsOf("decide") = {"request", "users", "providers"}
  /\ RowsOf("boost") = {"providers", "wallet"}
<1>1. RowsOf("register") = {Path["register"][i] : i \in {1, 2, 3}}
  BY Paths, 1..3 = {1, 2, 3} DEF RowsOf
<1>2. RowsOf("save") = {Path["save"][i] : i \in {1, 2}}
  BY Paths, 1..2 = {1, 2} DEF RowsOf
<1>3. RowsOf("decide") = {Path["decide"][i] : i \in {1, 2, 3}}
  BY Paths, 1..3 = {1, 2, 3} DEF RowsOf
<1>4. RowsOf("boost") = {Path["boost"][i] : i \in {1, 2}}
  BY Paths, 1..2 = {1, 2} DEF RowsOf
<1>. QED
  BY <1>1, <1>2, <1>3, <1>4, Paths

LEMMA ArgTypes ==
  ASSUME NEW kind \in Kinds
  PROVE  Arg[kind] \subseteq Profiles \union Verdicts \union {None}
<1>1. CASE kind = "register" BY <1>1 DEF Arg
<1>2. CASE kind = "save" BY <1>2 DEF Arg
<1>3. CASE kind = "decide" BY <1>3 DEF Arg
<1>4. CASE kind = "boost" BY <1>4 DEF Arg
<1>. QED
  BY <1>1, <1>2, <1>3, <1>4 DEF Kinds

LEMMA InitInv == Init => AcctInv
<1> SUFFICES ASSUME Init PROVE AcctInv
  OBVIOUS
<1>1. \A c \in Calls : calls[c] = Idle /\ Idle \in Call /\ ~InTx(c)
  <2>1. Idle \in Call /\ Idle.kind \notin Kinds
    BY DEF Idle, Call, Kinds
  <2>. QED
    BY <2>1 DEF Init, InTx
<1>2. \/ db = [r \in Rows |-> None]
      \/ \E v \in BOOLEAN : db = Full([profile |-> Blank, verified |-> v])
  BY DEF Init
<1>3. TypeOK /\ CopiesAgree /\ VerdictStands
  <2>1. CASE db = [r \in Rows |-> None]
    <3>1. DOMAIN db = Rows /\ \A r \in Rows : db[r] = None
      BY <2>1
    <3>2. db["users"] = None /\ db["providers"] = None /\ db["wallet"] = None /\ db["request"] = None
      BY <3>1 DEF Rows
    <3>. QED
      BY <1>1, <3>1, <3>2, NoneAssumption DEF Init, TypeOK, CopiesAgree, VerdictStands, Registered
  <2>2. ASSUME NEW v \in BOOLEAN, db = Full([profile |-> Blank, verified |-> v])
        PROVE  TypeOK /\ CopiesAgree /\ VerdictStands
    <3>1. [profile |-> Blank, verified |-> v] \in UserRow
      BY BlankAssumption DEF UserRow
    <3>2. /\ DOMAIN db = Rows
          /\ db["users"] \in UserRow /\ db["providers"] = db["users"]
          /\ db["wallet"] = "open" /\ db["request"] = None
      BY <2>2, <3>1 DEF Full, Rows
    <3>. QED
      BY <1>1, <3>2, NoneAssumption DEF Init, TypeOK, CopiesAgree, VerdictStands, Registered, Rows
  <2>. QED
    BY <1>2, <2>1, <2>2
<1>4. LocksHeld /\ StillSo
  BY <1>1, NoneAssumption DEF Init, LocksHeld, StillSo
<1>. QED
  BY <1>3, <1>4 DEF AcctInv

LEMMA RequestKeeps ==
  ASSUME AcctInv, RequestVerification
  PROVE  AcctInv'
<1> USE DEF AcctInv, RequestVerification
<1>1. /\ db' = [db EXCEPT !["request"] = "PENDING"] /\ locks' = locks /\ calls' = calls
      /\ DOMAIN db = Rows
  BY DEF TypeOK
<1>2. /\ DOMAIN db' = Rows /\ db'["request"] = "PENDING"
      /\ db'["users"] = db["users"] /\ db'["providers"] = db["providers"] /\ db'["wallet"] = db["wallet"]
  BY <1>1 DEF Rows
<1>3. Registered' <=> Registered
  BY <1>2 DEF Registered
<1>4. TypeOK' /\ CopiesAgree' /\ VerdictStands'
  BY <1>1, <1>2, <1>3 DEF TypeOK, CopiesAgree, VerdictStands, InTx, Verdicts
<1>5. LocksHeld'
  BY <1>1 DEF LocksHeld, InTx, Held
<1>6. StillSo'
  BY <1>1, <1>2, <1>3 DEF StillSo, InTx
<1>. QED
  BY <1>4, <1>5, <1>6

LEMMA BeginKeeps ==
  ASSUME AcctInv, NEW c \in Calls, NEW kind \in Kinds, NEW arg \in Arg[kind], Begin(c, kind, arg)
  PROVE  AcctInv'
<1> USE DEF AcctInv
<1> DEFINE call == [kind |-> kind, done |-> 0, arg |-> arg, read |-> Registered /\ db["users"].verified]
<1>1. /\ calls' = [calls EXCEPT ![c] = call] /\ db' = db /\ locks' = locks
      /\ ~InTx(c) /\ (kind # "register" => Registered)
  BY DEF Begin
<1>2. call.read \in BOOLEAN
  BY DEF TypeOK, UserRow, Registered
<1>3. call \in Call
  BY <1>2, ArgTypes DEF Call
<1>4. calls'[c] = call /\ \A d \in Calls \ {c} : calls'[d] = calls[d]
  BY <1>1 DEF TypeOK
<1>5. TypeOK'
  <2>1. calls' \in [Calls -> Call]
    BY <1>1, <1>3 DEF TypeOK
  <2>2. \A r \in Rows : locks[r] # None => InTx(locks[r])'
    BY <1>1, <1>4 DEF TypeOK, InTx
  <2>. QED
    BY <1>1, <2>1, <2>2 DEF TypeOK
<1>6. LocksHeld'
  <2>1. ASSUME NEW d \in Calls, d # c
        PROVE  (InTx(d)' <=> InTx(d)) /\ Held(d)' = Held(d) /\ calls'[d] = calls[d]
    BY <1>4, <2>1 DEF InTx, Held
  <2>2. InTx(c)' /\ calls'[c].done = 0 /\ calls'[c].kind = kind /\ calls'[c].arg = arg
    BY <1>4 DEF InTx
  <2>3. Held(c)' = {}
    BY <2>2 DEF Held
  <2>4. \A r \in Rows : locks[r] # c
    BY <1>1 DEF LocksHeld
  <2>5. 0 \in 0..Len(Path[kind])
    BY PathRows
  <2>. QED
    BY <1>1, <2>1, <2>2, <2>3, <2>4, <2>5 DEF LocksHeld
<1>7. StillSo'
  BY <1>1, <1>4 DEF StillSo, InTx, Registered
<1>8. CopiesAgree' /\ VerdictStands'
  BY <1>1 DEF CopiesAgree, VerdictStands, Registered
<1>. QED
  BY <1>5, <1>6, <1>7, <1>8

\* A row that is free is in nobody's hand.
LEMMA FreeRow ==
  ASSUME AcctInv, NEW r \in Rows, locks[r] = None, NEW c \in Calls, InTx(c)
  PROVE  r \notin Held(c)
BY NoneAssumption DEF AcctInv, LocksHeld

LEMMA StatementKeeps ==
  ASSUME AcctInv, NEW c \in Calls, Statement(c)
  PROVE  AcctInv'
<1> USE DEF AcctInv
<1> DEFINE kind == calls[c].kind  n == calls[c].done  row == Path[kind][n + 1]
<1>1. /\ InTx(c) /\ n < Len(Path[kind]) /\ locks[row] = None /\ Matches(kind, row)
      /\ locks' = [locks EXCEPT ![row] = c]
      /\ calls' = [calls EXCEPT ![c].done = n + 1] /\ db' = db
  BY DEF Statement, HasNext, NextRow
<1>2. /\ kind \in Kinds /\ Len(Path[kind]) \in 2..3 /\ n \in 0..Len(Path[kind])
      /\ \A i \in 1..Len(Path[kind]) : Path[kind][i] \in Rows
  BY <1>1, PathRows DEF InTx, LocksHeld
<1>3. n + 1 \in 1..Len(Path[kind]) /\ n + 1 \in 0..Len(Path[kind]) /\ n + 1 \in 0..3 /\ row \in Rows
  BY <1>1, <1>2
<1>4. /\ calls \in [Calls -> Call] /\ calls' \in [Calls -> Call]
      /\ calls'[c] = [calls[c] EXCEPT !.done = n + 1]
      /\ \A d \in Calls \ {c} : calls'[d] = calls[d]
  <2>1. calls \in [Calls -> Call] /\ calls[c] \in Call
    BY DEF TypeOK
  <2>2. [calls[c] EXCEPT !.done = n + 1] \in Call
    BY <2>1, <1>3 DEF Call
  <2>. QED
    BY <1>1, <2>1, <2>2
<1>5. /\ calls'[c].kind = kind /\ calls'[c].done = n + 1 /\ calls'[c].arg = calls[c].arg
      /\ \A d \in Calls : calls'[d].kind = calls[d].kind /\ (InTx(d)' <=> InTx(d))
  <2>1. calls[c] \in Call
    BY <1>4
  <2>2. calls'[c].kind = kind /\ calls'[c].done = n + 1 /\ calls'[c].arg = calls[c].arg
    BY <2>1, <1>4 DEF Call
  <2>3. \A d \in Calls : calls'[d].kind = calls[d].kind
    BY <2>2, <1>4
  <2>. QED
    BY <2>2, <2>3 DEF InTx
<1>6. /\ locks \in [Rows -> Calls \union {None}] /\ locks' \in [Rows -> Calls \union {None}]
      /\ locks'[row] = c /\ \A r \in Rows \ {row} : locks'[r] = locks[r]
  BY <1>1, <1>3 DEF TypeOK
<1>7. TypeOK'
  <2>1. ASSUME NEW r \in Rows, locks'[r] # None
        PROVE  InTx(locks[r])'
    <3>1. locks'[r] \in Calls /\ InTx(locks'[r])
      BY <2>1, <1>1, <1>6 DEF TypeOK
    <3>. QED
      BY <3>1, <1>5 DEF InTx
  <2>. QED
    BY <2>1, <1>1, <1>4, <1>6 DEF TypeOK
<1>8. LocksHeld'
  <2>1. Held(c)' = Held(c) \union {row}
    <3>1. 1..(n + 1) = 1..n \union {n + 1}
      BY <1>2
    <3>. QED
      BY <3>1, <1>5 DEF Held
  <2>2. ASSUME NEW d \in Calls, d # c
        PROVE  calls'[d] = calls[d] /\ Held(d)' = Held(d)
    BY <1>4, <2>2 DEF Held
  <2>3. ASSUME NEW r \in Rows
        PROVE  locks'[r] = c <=> r \in Held(c)'
    BY <1>1, <1>6, <2>1 DEF LocksHeld
  <2>4. ASSUME NEW d \in Calls, d # c, InTx(d), NEW r \in Rows
        PROVE  locks'[r] = d <=> r \in Held(d)'
    <3>1. row \notin Held(d)
      BY <1>1, <1>3, <2>4, FreeRow
    <3>. QED
      BY <3>1, <1>6, <2>2, <2>4 DEF LocksHeld
  <2>5. ASSUME NEW d \in Calls, ~InTx(d), NEW r \in Rows
        PROVE  locks'[r] # d
    BY <2>5, <1>1, <1>6 DEF LocksHeld
  <2>6. calls'[c].done \in 0..Len(Path[calls'[c].kind]) /\ calls'[c].arg \in Arg[calls'[c].kind]
    BY <1>1, <1>3, <1>5 DEF LocksHeld
  <2>. QED
    BY <1>5, <2>2, <2>3, <2>4, <2>5, <2>6 DEF LocksHeld
<1>9. StillSo'
  <2>1. ASSUME NEW d \in Calls \ {c}
        PROVE  calls'[d] = calls[d] /\ (InTx(d)' <=> InTx(d))
    BY <1>4, <1>5
  <2>2. kind = "register" => ~Registered
    <3>1. CASE n = 0
      BY <3>1, <1>1, Paths DEF Matches
    <3>2. CASE n > 0
      BY <3>2, <1>1 DEF StillSo
    <3>. QED
      BY <3>1, <3>2, <1>2
  <2>3. kind = "decide" => db["request"] = "PENDING"
    <3>1. CASE n = 0
      BY <3>1, <1>1, Paths DEF Matches, Pending
    <3>2. CASE n > 0
      BY <3>2, <1>1 DEF StillSo
    <3>. QED
      BY <3>1, <3>2, <1>2
  <2>. QED
    BY <1>1, <1>5, <2>1, <2>2, <2>3 DEF StillSo, Registered
<1>10. CopiesAgree' /\ VerdictStands'
  BY <1>1 DEF CopiesAgree, VerdictStands, Registered
<1>. QED
  BY <1>7, <1>8, <1>9, <1>10

\* A transaction that ends gives back its rows and nobody else's.
LEMMA FinishKeeps ==
  ASSUME AcctInv, NEW c \in Calls, InTx(c), Finish(c)
  PROVE  /\ LocksHeld'
         /\ locks' \in [Rows -> Calls \union {None}] /\ calls' \in [Calls -> Call]
         /\ \A r \in Rows : locks'[r] # None => InTx(locks[r])'
         /\ ~InTx(c)'
         /\ \A d \in Calls \ {c} : calls'[d] = calls[d]
<1> USE DEF AcctInv
<1>1. /\ locks' = [r \in Rows |-> IF locks[r] = c THEN None ELSE locks[r]]
      /\ calls' = [calls EXCEPT ![c] = Idle] /\ calls \in [Calls -> Call]
      /\ locks \in [Rows -> Calls \union {None}]
  BY DEF Finish, TypeOK
<1>2. Idle \in Call /\ Idle.kind \notin Kinds
  BY DEF Idle, Call, Kinds
<1>3. /\ calls' \in [Calls -> Call] /\ calls'[c] = Idle /\ ~InTx(c)'
      /\ \A d \in Calls \ {c} : calls'[d] = calls[d] /\ (InTx(d)' <=> InTx(d)) /\ Held(d)' = Held(d)
  BY <1>1, <1>2 DEF InTx, Held
<1>4. /\ locks' \in [Rows -> Calls \union {None}]
      /\ \A r \in Rows : locks'[r] = IF locks[r] = c THEN None ELSE locks[r]
  BY <1>1
<1>5. ASSUME NEW r \in Rows, locks'[r] # None
      PROVE  InTx(locks[r])'
  <2>1. locks'[r] = locks[r] /\ locks[r] \in Calls \ {c} /\ InTx(locks[r])
    BY <1>1, <1>4, <1>5 DEF TypeOK
  <2>. QED
    BY <2>1, <1>3 DEF InTx
<1>6. \A r \in Rows : locks'[r] # c
  BY <1>4, NoneAssumption
<1>7. \A d \in Calls \ {c}, r \in Rows : locks'[r] = d <=> locks[r] = d
  BY <1>4, NoneAssumption
<1>8. LocksHeld'
  BY <1>3, <1>6, <1>7 DEF LocksHeld
<1>. QED
  BY <1>3, <1>4, <1>5, <1>8

LEMMA RollbackKeeps ==
  ASSUME AcctInv, NEW c \in Calls, Rollback(c)
  PROVE  AcctInv'
<1> USE DEF AcctInv
<1>1. InTx(c) /\ Finish(c) /\ db' = db
  BY DEF Rollback
<1>2. TypeOK' /\ LocksHeld'
  BY <1>1, FinishKeeps DEF TypeOK
<1>3. StillSo'
  BY <1>1, FinishKeeps DEF StillSo, InTx, Registered
<1>4. CopiesAgree' /\ VerdictStands'
  BY <1>1 DEF CopiesAgree, VerdictStands, Registered
<1>. QED
  BY <1>2, <1>3, <1>4

\* What a commit makes of the four rows, by the kind of the transaction.
LEMMA CommitWrites ==
  ASSUME AcctInv, NEW c \in Calls, Commit(c)
  PROVE  /\ DOMAIN db' = Rows
         /\ \/ /\ calls[c].kind = "register" /\ ~Registered /\ locks["users"] = c
               /\ db'["users"] = [profile |-> Blank, verified |-> FALSE]
               /\ db'["providers"] = db'["users"]
               /\ db'["wallet"] = "open" /\ db'["request"] = db["request"]
            \/ /\ calls[c].kind = "save" /\ Registered
               /\ db'["users"] = [db["users"] EXCEPT !.profile = calls[c].arg]
               /\ db'["providers"] = db'["users"]
               /\ db'["wallet"] = db["wallet"] /\ db'["request"] = db["request"]
            \/ /\ calls[c].kind = "decide" /\ Registered /\ db["request"] = "PENDING"
               /\ locks["request"] = c
               /\ db'["users"] = [db["users"] EXCEPT !.verified = (calls[c].arg = "APPROVED")]
               /\ db'["providers"] = db'["users"]
               /\ db'["wallet"] = db["wallet"] /\ db'["request"] = calls[c].arg
            \/ /\ calls[c].kind = "boost" /\ Registered
               /\ db'["users"] = db["users"] /\ db'["providers"] = db["providers"]
               /\ db'["wallet"] = "open" /\ db'["request"] = db["request"]
<1> USE DEF AcctInv
<1> DEFINE kind == calls[c].kind
<1>1. /\ InTx(c) /\ kind \in Kinds /\ calls[c].done = Len(Path[kind])
      /\ db' = [r \in Rows |-> IF r \in RowsOf(kind) THEN Written(c, r) ELSE db[r]]
  <2>1. InTx(c) /\ ~(calls[c].done < Len(Path[kind]))
    BY DEF Commit, HasNext
  <2>2. kind \in Kinds /\ calls[c].done \in 0..Len(Path[kind]) /\ Len(Path[kind]) \in 2..3
    BY <2>1, PathRows DEF InTx, LocksHeld
  <2>. QED
    BY <2>1, <2>2 DEF Commit
<1>2. db["users"] = db["providers"]
  BY DEF CopiesAgree
<1>3. \A r \in Rows : db'[r] = IF r \in RowsOf(kind) THEN Written(c, r) ELSE db[r]
  BY <1>1
<1>4. /\ Written(c, "users") = Rewritten(c, db["users"]) /\ Written(c, "providers") = Rewritten(c, db["users"])
      /\ Written(c, "wallet") = "open" /\ Written(c, "request") = calls[c].arg
  BY <1>2 DEF Written
<1>5. CASE kind = "register"
  <2>1. ~Registered
    BY <1>1, <1>5, Paths DEF StillSo
  <2>2. Rewritten(c, db["users"]) = [profile |-> Blank, verified |-> FALSE]
    BY <1>5 DEF Rewritten
  <2>3. locks["users"] = c
    <3>1. 1 \in 1..calls[c].done /\ Path[kind][1] = "users"
      BY <1>1, <1>5, Paths
    <3>2. "users" \in Held(c)
      BY <3>1 DEF Held
    <3>. QED
      BY <3>2, <1>1 DEF LocksHeld, Rows
  <2>. QED
    BY <1>1, <1>3, <1>4, <1>5, <2>1, <2>2, <2>3, PathSets DEF Rows
<1>6. CASE kind = "save"
  <2>1. Registered
    BY <1>1, <1>6 DEF StillSo
  <2>2. Rewritten(c, db["users"]) = [db["users"] EXCEPT !.profile = calls[c].arg]
    BY <1>6 DEF Rewritten, Saved
  <2>. QED
    BY <1>1, <1>3, <1>4, <1>6, <2>1, <2>2, PathSets DEF Rows
<1>7. CASE kind = "decide"
  <2>1. Registered /\ db["request"] = "PENDING"
    BY <1>1, <1>7, Paths DEF StillSo
  <2>2. Rewritten(c, db["users"]) = [db["users"] EXCEPT !.verified = (calls[c].arg = "APPROVED")]
    BY <1>7 DEF Rewritten
  <2>3. locks["request"] = c
    <3>1. 1 \in 1..calls[c].done /\ Path[kind][1] = "request"
      BY <1>1, <1>7, Paths
    <3>2. "request" \in Held(c)
      BY <3>1 DEF Held
    <3>. QED
      BY <3>2, <1>1 DEF LocksHeld, Rows
  <2>. QED
    BY <1>1, <1>3, <1>4, <1>7, <2>1, <2>2, <2>3, PathSets DEF Rows
<1>8. CASE kind = "boost"
  <2>1. Registered
    BY <1>1, <1>8 DEF StillSo
  <2>2. Rewritten(c, db["users"]) = db["users"]
    BY <1>8 DEF Rewritten
  <2>. QED
    BY <1>1, <1>2, <1>3, <1>4, <1>8, <2>1, <2>2, PathSets DEF Rows
<1>. QED
  BY <1>1, <1>5, <1>6, <1>7, <1>8 DEF Kinds

\* A transaction that wrote its first row holds it.
LEMMA FirstRowHeld ==
  ASSUME AcctInv, NEW c \in Calls, InTx(c), calls[c].done > 0
  PROVE  locks[Path[calls[c].kind][1]] = c
<1>1. calls[c].done \in 0..Len(Path[calls[c].kind]) /\ Len(Path[calls[c].kind]) \in 2..3
  BY PathRows DEF AcctInv, LocksHeld, InTx
<1>2. 1 \in 1..calls[c].done /\ Path[calls[c].kind][1] \in Rows
  BY <1>1, PathRows DEF InTx
<1>. QED
  BY <1>2 DEF AcctInv, LocksHeld, Held

LEMMA CommitKeeps ==
  ASSUME AcctInv, NEW c \in Calls, Commit(c)
  PROVE  AcctInv'
<1> USE DEF AcctInv
<1>1. InTx(c) /\ Finish(c)
  BY DEF Commit
<1>2. /\ db["users"] = db["providers"] /\ (Registered => db["users"] \in UserRow)
      /\ calls[c].arg \in Arg[calls[c].kind]
  BY <1>1 DEF CopiesAgree, TypeOK, Registered, LocksHeld
<1>3. CASE /\ calls[c].kind = "register" /\ ~Registered /\ locks["users"] = c
           /\ db'["users"] = [profile |-> Blank, verified |-> FALSE]
           /\ db'["providers"] = db'["users"]
           /\ db'["wallet"] = "open" /\ db'["request"] = db["request"]
  <2>1. db'["users"] \in UserRow /\ Registered'
    <3>1. [profile |-> Blank, verified |-> FALSE] \in UserRow
      BY BlankAssumption DEF UserRow
    <3>2. None \notin UserRow
      BY NoneAssumption
    <3>. QED
      BY <1>3, <3>1, <3>2 DEF Registered
  <2>2. db["request"] = None
    BY <1>3 DEF CopiesAgree
  <2>3. CopiesAgree' /\ VerdictStands'
    BY <1>3, <2>1, <2>2, NoneAssumption DEF CopiesAgree, VerdictStands
  <2>4. TypeOK'
    BY <1>1, <1>3, <2>1, FinishKeeps, CommitWrites DEF TypeOK
  <2>5. ASSUME NEW d \in Calls \ {c}, InTx(d)
        PROVE  /\ calls[d].kind = "register" => ~(calls[d].done > 0)
               /\ calls[d].kind # "decide" \/ ~(calls[d].done > 0)
    <3>1. calls[d].kind = "register" => ~(calls[d].done > 0)
      BY <1>3, <2>5, FirstRowHeld, Paths
    <3>2. ~(calls[d].kind = "decide")
      BY <1>3, <2>5 DEF StillSo
    <3>. QED
      BY <3>1, <3>2
  <2>6. StillSo'
    BY <1>1, <2>1, <2>5, FinishKeeps DEF StillSo, InTx
  <2>. QED
    BY <1>1, <2>3, <2>4, <2>6, FinishKeeps
<1>4. CASE /\ calls[c].kind = "save" /\ Registered
           /\ db'["users"] = [db["users"] EXCEPT !.profile = calls[c].arg]
           /\ db'["providers"] = db'["users"]
           /\ db'["wallet"] = db["wallet"] /\ db'["request"] = db["request"]
  <2>1. calls[c].arg \in Profiles
    BY <1>2, <1>4 DEF Arg
  <2>2. db'["users"] \in UserRow /\ db'["users"].verified = db["users"].verified
    BY <1>2, <1>4, <2>1 DEF UserRow
  <2>3. Registered'
    BY <2>2, NoneAssumption DEF Registered
  <2>4. CopiesAgree' /\ VerdictStands'
    BY <1>4, <2>2, <2>3 DEF CopiesAgree, VerdictStands
  <2>5. TypeOK'
    BY <1>1, <1>4, <2>2, FinishKeeps, CommitWrites DEF TypeOK
  <2>6. StillSo'
    BY <1>1, <1>4, <2>3, FinishKeeps DEF StillSo, InTx
  <2>. QED
    BY <1>1, <2>4, <2>5, <2>6, FinishKeeps
<1>5. CASE /\ calls[c].kind = "decide" /\ Registered /\ db["request"] = "PENDING"
           /\ locks["request"] = c
           /\ db'["users"] = [db["users"] EXCEPT !.verified = (calls[c].arg = "APPROVED")]
           /\ db'["providers"] = db'["users"]
           /\ db'["wallet"] = db["wallet"] /\ db'["request"] = calls[c].arg
  <2>1. calls[c].arg \in Verdicts
    BY <1>2, <1>5 DEF Arg
  <2>2. db'["users"] \in UserRow /\ db'["users"].verified = (calls[c].arg = "APPROVED")
    BY <1>2, <1>5 DEF UserRow
  <2>3. Registered'
    BY <2>2, NoneAssumption DEF Registered
  <2>4. CopiesAgree' /\ VerdictStands'
    BY <1>5, <2>2, <2>3 DEF CopiesAgree, VerdictStands
  <2>5. TypeOK'
    BY <1>1, <1>5, <2>1, <2>2, FinishKeeps, CommitWrites DEF TypeOK
  <2>6. ASSUME NEW d \in Calls \ {c}, InTx(d), calls[d].kind = "decide"
        PROVE  ~(calls[d].done > 0)
    BY <1>5, <2>6, FirstRowHeld, Paths
  <2>7. StillSo'
    BY <1>1, <1>5, <2>3, <2>6, FinishKeeps DEF StillSo, InTx
  <2>. QED
    BY <1>1, <2>4, <2>5, <2>7, FinishKeeps
<1>6. CASE /\ calls[c].kind = "boost" /\ Registered
           /\ db'["users"] = db["users"] /\ db'["providers"] = db["providers"]
           /\ db'["wallet"] = "open" /\ db'["request"] = db["request"]
  <2>1. Registered' /\ db["wallet"] = "open"
    BY <1>6 DEF Registered, CopiesAgree
  <2>2. CopiesAgree' /\ VerdictStands'
    BY <1>6, <2>1 DEF CopiesAgree, VerdictStands
  <2>3. TypeOK'
    BY <1>1, <1>6, FinishKeeps, CommitWrites DEF TypeOK
  <2>4. StillSo'
    BY <1>1, <1>6, <2>1, FinishKeeps DEF StillSo, InTx
  <2>. QED
    BY <1>1, <2>2, <2>3, <2>4, FinishKeeps
<1>. QED
  BY <1>3, <1>4, <1>5, <1>6, CommitWrites

LEMMA NextInv == AcctInv /\ [Next]_vars => AcctInv'
<1> SUFFICES ASSUME AcctInv, [Next]_vars PROVE AcctInv'
  OBVIOUS
<1>1. CASE RequestVerification
  BY <1>1, RequestKeeps
<1>2. ASSUME NEW c \in Calls, NEW kind \in Kinds, NEW arg \in Arg[kind], Begin(c, kind, arg)
      PROVE  AcctInv'
  BY <1>2, BeginKeeps
<1>3. ASSUME NEW c \in Calls, Statement(c) PROVE AcctInv'
  BY <1>3, StatementKeeps
<1>4. ASSUME NEW c \in Calls, Commit(c) PROVE AcctInv'
  BY <1>4, CommitKeeps
<1>5. ASSUME NEW c \in Calls, Rollback(c) PROVE AcctInv'
  BY <1>5, RollbackKeeps
<1>6. CASE UNCHANGED vars
  BY <1>6 DEF vars, AcctInv, TypeOK, CopiesAgree, VerdictStands, LocksHeld, StillSo, InTx, Held, Registered
<1>. QED
  BY <1>1, <1>2, <1>3, <1>4, <1>5, <1>6 DEF Next

LEMMA AlwaysInv == Spec => []AcctInv
BY InitInv, NextInv, PTL DEF Spec

\* Nobody waits for a wallet, hence for a providers row, a users row, a request:
\* each is held only by a transaction that waits, if at all, for a later one.
LEMMA NoCircle == AcctInv => NoDeadlock
<1> SUFFICES ASSUME AcctInv, NEW S \in SUBSET Calls, S # {},
                    \A c \in S : \E d \in S : WaitsFor(c, d)
             PROVE  FALSE
  BY DEF NoDeadlock
<1>1. ASSUME NEW c \in S, NEW d \in S, WaitsFor(c, d)
      PROVE  /\ NextRow(c) \in Rows /\ NextRow(c) \in Held(d)
             /\ InTx(c) /\ InTx(d) /\ HasNext(d)
  <2>1. InTx(c) /\ HasNext(c) /\ locks[NextRow(c)] = d /\ HasNext(d) /\ InTx(d)
    BY <1>1 DEF WaitsFor, HasNext
  <2>2. NextRow(c) \in Rows
    <3>1. calls[c].done + 1 \in 1..Len(Path[calls[c].kind])
      BY <2>1, PathRows DEF HasNext, InTx, AcctInv, LocksHeld
    <3>. QED
      BY <2>1, <3>1, PathRows DEF NextRow, InTx
  <2>. QED
    BY <2>1, <2>2 DEF AcctInv, LocksHeld
<1>2. ASSUME NEW d \in Calls, InTx(d), HasNext(d)
      PROVE  /\ "wallet" \notin Held(d)
             /\ "providers" \in Held(d) => NextRow(d) = "wallet"
             /\ "users" \in Held(d) => NextRow(d) \in {"providers", "wallet"}
             /\ "request" \in Held(d) => NextRow(d) \in {"users", "providers"}
  <2>1. calls[d].kind \in Kinds /\ calls[d].done \in 0..(Len(Path[calls[d].kind]) - 1)
    BY <1>2, PathRows DEF HasNext, InTx, AcctInv, LocksHeld
  <2>2. Held(d) = {Path[calls[d].kind][i] : i \in 1..calls[d].done}
    BY DEF Held
  <2>3. 1..0 = {} /\ 1..1 = {1} /\ 1..2 = {1, 2}
    OBVIOUS
  <2>4. CASE calls[d].kind = "register"
    BY <2>1, <2>2, <2>3, <2>4, Paths DEF NextRow
  <2>5. CASE calls[d].kind = "save"
    BY <2>1, <2>2, <2>3, <2>5, Paths DEF NextRow
  <2>6. CASE calls[d].kind = "decide"
    BY <2>1, <2>2, <2>3, <2>6, Paths DEF NextRow
  <2>7. CASE calls[d].kind = "boost"
    BY <2>1, <2>2, <2>3, <2>7, Paths DEF NextRow
  <2>. QED
    BY <2>1, <2>4, <2>5, <2>6, <2>7 DEF Kinds
<1>3. \A c \in S : HasNext(c) /\ InTx(c) /\ NextRow(c) # "wallet"
  BY <1>1, <1>2 DEF WaitsFor
<1>4. \A c \in S : NextRow(c) # "providers"
  BY <1>1, <1>2, <1>3
<1>5. \A c \in S : NextRow(c) # "users"
  BY <1>1, <1>2, <1>3, <1>4
<1>6. \A c \in S : NextRow(c) # "request"
  BY <1>1, <1>2, <1>3, <1>4, <1>5
<1>. QED
  BY <1>1, <1>3, <1>4, <1>5, <1>6 DEF Rows

-----------------------------------------------------------------------------
(* The results. *)

\* All rows and calls keep their types, and no lock outlives its transaction.
THEOREM TypeCorrect == Spec => []TypeOK
BY AlwaysInv, PTL DEF AcctInv

\* Registrations, saves, decisions and rollbacks leave users, providers and
\* wallet complete and alike (user_repo.go, admin-service/main.go:90-123).
THEOREM CopiesStayAlike == Spec => []CopiesAgree
BY AlwaysInv, PTL DEF AcctInv

\* The flag of a reviewed provider is the verdict, whatever was saved meanwhile.
THEOREM VerdictsStand == Spec => []VerdictStands
BY AlwaysInv, PTL DEF AcctInv

\* The four transactions cannot deadlock, however many of them there are.
THEOREM DeadlockFree == Spec => []NoDeadlock
BY AlwaysInv, NoCircle, PTL

\* Only a review moves the flag, and only once.
THEOREM ReviewedOnce == Spec => OnlyReviewVerifies
<1> DEFINE Step == Registered =>
      \/ db'["request"] = db["request"] /\ db'["users"].verified = db["users"].verified
      \/ db["request"] = None /\ db'["request"] = "PENDING" /\ db'["users"] = db["users"]
      \/ db["request"] = "PENDING" /\ db'["request"] \in Verdicts
<1>1. ASSUME AcctInv, Next PROVE Step
  <2>1. CASE RequestVerification
    BY <2>1, <1>1 DEF RequestVerification, AcctInv, TypeOK, Rows
  <2>2. ASSUME NEW c \in Calls, Commit(c) PROVE Step
    <3>1. Registered => db["users"] \in UserRow
      BY <1>1 DEF AcctInv, TypeOK, Registered
    <3>2. calls[c].arg \in Arg[calls[c].kind]
      BY <1>1, <2>2 DEF AcctInv, LocksHeld, Commit
    <3>3. calls[c].kind = "decide" => calls[c].arg \in Verdicts
      BY <3>2 DEF Arg
    <3>. QED
      BY <1>1, <2>2, <3>1, <3>3, CommitWrites DEF UserRow
  <2>3. CASE UNCHANGED db
    BY <2>3
  <2>. QED
    BY <1>1, <2>1, <2>2, <2>3 DEF Next, Begin, Statement, Rollback
<1>2. UNCHANGED vars => Step
  BY DEF vars
<1>. QED
  BY <1>1, <1>2, AlwaysInv, PTL DEF Spec, OnlyReviewVerifies, Step

-----------------------------------------------------------------------------
(* Refinement: each copy of the account is one record changed in one step. *)

\* A step of the account whose record is a and becomes b.
AccountStep(a, b) ==
    \/ a = None /\ b = [profile |-> Blank, verified |-> FALSE] /\ db'["request"] = db["request"]
    \/ /\ a # None /\ db'["request"] = db["request"]
       /\ \E p \in Profiles : b = [a EXCEPT !.profile = p]
    \/ a # None /\ b = a /\ db["request"] = None /\ db'["request"] = "PENDING"
    \/ /\ db["request"] = "PENDING" /\ db'["request"] \in Verdicts
       /\ b = [a EXCEPT !.verified = (db'["request"] = "APPROVED")]
    \/ b = a /\ db'["request"] = db["request"]

LEMMA StepsAreAccountSteps ==
  ASSUME AcctInv, [Next]_vars
  PROVE  AccountStep(db["users"], db'["users"]) /\ AccountStep(db["providers"], db'["providers"])
<1>1. db["users"] = db["providers"] /\ db'["users"] = db'["providers"]
  BY NextInv DEF AcctInv, CopiesAgree
<1>2. CASE RequestVerification
  BY <1>1, <1>2 DEF RequestVerification, AcctInv, TypeOK, Rows, Registered, AccountStep
<1>3. ASSUME NEW c \in Calls, Commit(c) PROVE AccountStep(db["users"], db'["users"])
  <2>1. calls[c].arg \in Arg[calls[c].kind]
    BY <1>3 DEF AcctInv, LocksHeld, Commit
  <2>2. /\ calls[c].kind = "save" => calls[c].arg \in Profiles
        /\ calls[c].kind = "decide" => calls[c].arg \in Verdicts
    BY <2>1 DEF Arg
  <2>. QED
    BY <1>3, <2>2, CommitWrites DEF AccountStep, Registered
<1>4. CASE UNCHANGED db
  BY <1>4 DEF AccountStep
<1>. QED
  BY <1>1, <1>2, <1>3, <1>4 DEF Next, vars, Begin, Statement, Rollback

\* The transactions are serializable as far as anyone can see who reads one of
\* the copies: auth_service.go:84-93, user_repo.go:19-60,138-160, admin-service/main.go:90-123.
THEOREM AccountIsAtomic == Spec => ImplementsAccount
<1>1. Init => UserCopy!Init /\ ProviderCopy!Init
  BY DEF Init, Full, Rows, UserCopy!Init, ProviderCopy!Init
<1>2. AcctInv /\ [Next]_vars => [UserCopy!Next]_(UserCopy!vars) /\ [ProviderCopy!Next]_(ProviderCopy!vars)
  <2> SUFFICES ASSUME AcctInv, [Next]_vars
               PROVE  [UserCopy!Next]_(UserCopy!vars) /\ [ProviderCopy!Next]_(ProviderCopy!vars)
    OBVIOUS
  <2>1. AccountStep(db["users"], db'["users"]) => [UserCopy!Next]_(UserCopy!vars)
    BY DEF AccountStep, Verdicts, UserCopy!Next, UserCopy!Register, UserCopy!Save, UserCopy!Ask, UserCopy!Review,
           UserCopy!Verdicts, UserCopy!vars
  <2>2. AccountStep(db["providers"], db'["providers"]) => [ProviderCopy!Next]_(ProviderCopy!vars)
    BY DEF AccountStep, Verdicts, ProviderCopy!Next, ProviderCopy!Register, ProviderCopy!Save, ProviderCopy!Ask,
           ProviderCopy!Review, ProviderCopy!Verdicts, ProviderCopy!vars
  <2>. QED
    BY <2>1, <2>2, StepsAreAccountSteps
<1>. QED
  BY <1>1, <1>2, AlwaysInv, PTL DEF Spec, ImplementsAccount, UserCopy!Spec, ProviderCopy!Spec
=============================================================================
