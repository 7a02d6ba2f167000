---------------------------- MODULE EscrowPromise ----------------------------
(***************************************************************************)
(* What the two parties of a job are promised about the money, with no     *)
(* word of rows, sessions, keys or retries: the agreed price is held at    *)
(* most once, goes to the provider only after the job was completed, and   *)
(* is given back only when the job was cancelled.  That the hold, or the   *)
(* chance to pay, runs out by itself is told apart from being given back.  *)
(***************************************************************************)
CONSTANTS Job, Providers, Amounts, None

VARIABLES status, contract,  \* the booking, see JobContract
          funds              \* the customer's money and where it is

Market == INSTANCE JobContract WITH Jobs <- {Job}, NoContract <- None

vars == <<status, contract, funds>>

Nothing == [state |-> "none", money |-> None]

\* A job is new, or its payment of another time, in USD, is already under way.
Init == \/ Market!Init /\ funds = Nothing
        \/ /\ status \in [{Job} -> Market!Agreed \union {"CANCELLED"}]
           /\ contract \in [{Job} -> Market!Deal]
           /\ funds \in [state : {"held", "captured", "returned", "lapsed"},
                         money : [amount : Amounts, currency : {"USD"}]]

Book == Market!Next /\ UNCHANGED funds

\* The one payment of an agreed job begins, or its only chance is over.
Start(to) == /\ funds.state = "none"
             /\ contract[Job] # None
             /\ funds' = [state |-> to, money |-> [amount |-> contract[Job].amount, currency |-> "PHP"]]

Move(from, to) == funds.state \in from /\ funds' = [funds EXCEPT !.state = to]

\* The customer's card is authorized for the agreed price, and only once.
Hold == Start("held")

\* Nobody paid in time, or nobody took the money while it was held.
Lapse == Start("lapsed") \/ Move({"held"}, "lapsed")

PayOut == status[Job] = "COMPLETED" /\ Move({"held"}, "captured")

\* Only a cancellation takes the money, or the way to pay, back.
GiveBack == status[Job] = "CANCELLED" /\ (Start("returned") \/ Move({"held", "captured"}, "returned"))

Next == Book \/ ((Hold \/ Lapse \/ PayOut \/ GiveBack) /\ UNCHANGED <<status, contract>>)

Spec == Init /\ [][Next]_vars
=============================================================================
