----------------------------- MODULE Conversation -----------------------------
(***************************************************************************)
(* Who may take part in the chat of one job: what the communication        *)
(* service, which reads the marketplace's tables, relies on.  Bidders come *)
(* and go while offers are taken; an agreement sends all of them away but  *)
(* the one it was made with; after an agreement or a cancellation nobody   *)
(* joins and nobody is sent away any more.                                 *)
(***************************************************************************)
CONSTANTS Customers, Providers

VARIABLES stage,    \* how far the job is
          members   \* the users IsParticipant lets in

vars == <<stage, members>>

Stages == {"none", "open", "agreed", "cancelled"}

Init == stage = "none" /\ members = {}

\* The job has been posted.
Begun == stage = "open" /\ members = Customers
Post  == stage = "none" /\ Begun'

Join(p)  == stage = "open" /\ members' = members \union {p} /\ UNCHANGED stage
Leave(p) == stage = "open" /\ members' = members \ {p} /\ UNCHANGED stage

Agree(p) == /\ stage = "open" /\ p \in members
            /\ stage' = "agreed"
            /\ members' = Customers \union {p}

Cancel == /\ stage \in {"open", "agreed"}
          /\ stage' = "cancelled"
          /\ UNCHANGED members

Bidders == \E p \in Providers : Join(p) \/ Leave(p) \/ Agree(p)

Next == Post \/ Bidders \/ Cancel

Spec == Init /\ [][Next]_vars
=============================================================================
