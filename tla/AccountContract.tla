---------------------------- MODULE AccountContract ----------------------------
(***************************************************************************)
(* What a provider's account is to whoever reads it: one record that       *)
(* registrations, profile saves, requests for verification and reviews     *)
(* change one after the other, each in a single step.                      *)
(***************************************************************************)
CONSTANTS Profiles, Blank, None

VARIABLES account,  \* profile and verification flag, None before registration
          request   \* the request for verification

vars == <<account, request>>

Verdicts == {"APPROVED", "REJECTED"}

Init == /\ request = None
        /\ account \in {None} \union [profile : {Blank}, verified : BOOLEAN]

Register == /\ account = None
            /\ account' = [profile |-> Blank, verified |-> FALSE]
            /\ UNCHANGED request

\* Whatever the profile says, the flag stays as it is.
Save(p) == /\ account # None
           /\ account' = [account EXCEPT !.profile = p]
           /\ UNCHANGED request

Ask == /\ account # None /\ request = None
       /\ request' = "PENDING"
       /\ UNCHANGED account

\* The verdict becomes the flag in the step in which it is given.
Review(v) == /\ request = "PENDING"
             /\ request' = v
             /\ account' = [account EXCEPT !.verified = (v = "APPROVED")]

Next == \/ Register \/ Ask
        \/ \E p \in Profiles : Save(p)
        \/ \E v \in Verdicts : Review(v)

Spec == Init /\ [][Next]_vars
=============================================================================
