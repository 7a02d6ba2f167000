----------------------------- MODULE JobContract -----------------------------
(***************************************************************************)
(* What the marketplace promises about one booking, seen from outside: a   *)
(* job is published, at most once a provider and a price are agreed for    *)
(* it, and from then on the agreement never changes while the job is       *)
(* carried out, completed or cancelled.  The payment service relies on     *)
(* exactly this much of the marketplace.                                   *)
(***************************************************************************)
EXTENDS Naturals

CONSTANTS Jobs,       \* job ids
          Providers,  \* users with the role provider
          Amounts,    \* prices, in minor units
          NoContract  \* the absence of an agreement

VARIABLES status,     \* jobs.status, "NONE" before the row exists
          contract    \* the agreement, read off the ACCEPTED bid of the job

vars == <<status, contract>>

Open    == {"PUBLISHED", "BIDDING"}
Agreed  == {"ACCEPTED", "EN_ROUTE", "IN_PROGRESS", "COMPLETED"}
Status  == {"NONE", "CANCELLED", "DISPUTED"} \union Open \union Agreed
Deal    == [provider : Providers, amount : Amounts]

Init == /\ status = [j \in Jobs |-> "NONE"]
        /\ contract = [j \in Jobs |-> NoContract]

Move(j, from, to) == /\ status[j] \in from
                     /\ status' = [status EXCEPT ![j] = to]

Post(j)   == Move(j, {"NONE"}, "PUBLISHED") /\ UNCHANGED contract

Agree(j)  == /\ Move(j, Open, "ACCEPTED")
             /\ \E d \in Deal : contract' = [contract EXCEPT ![j] = d]

Advance(j) == /\ \/ Move(j, {"ACCEPTED"}, "EN_ROUTE")
                 \/ Move(j, {"EN_ROUTE"}, "IN_PROGRESS")
                 \/ Move(j, {"IN_PROGRESS"}, "COMPLETED")
              /\ UNCHANGED contract

Cancel(j) == /\ Move(j, Status \ {"NONE", "CANCELLED", "COMPLETED", "DISPUTED"}, "CANCELLED")
             /\ UNCHANGED contract

Next == \E j \in Jobs : Post(j) \/ Agree(j) \/ Advance(j) \/ Cancel(j)

Spec == Init /\ [][Next]_vars
=============================================================================
