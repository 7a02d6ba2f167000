------------------------------ MODULE ChatProofs ------------------------------
(***************************************************************************)
(* Proofs about Chat for any number of screens, users and messages.  Most  *)
(* steps are one screen's or one socket's: AppStep and WorkerStep say once *)
(* what such a step has to leave in order, and every action is shown to be *)
(* one of them, or a step that adds to the table.                          *)
(***************************************************************************)
EXTENDS Chat, SequenceTheorems, TLAPS

Early == {"unopened", "loading", "loaded", "abandoned"}
Fresh == {"none", "pending"}

\* A socket that was never open has no goroutine and is in no list of clients.
StartInv == \A s \in Screens :
    /\ screen[s].step \in Early => conn[s] = "none"
    /\ conn[s] \in Fresh => /\ worker[s] = NoWork
                            /\ s \notin clients
                            /\ \A t \in Screens : s \notin worker[t].todo

\* Whatever is on its way to a screen is saved.
FetchInv  == \A s \in Screens : fetch[s].got \subseteq saved
WorkerInv == \A s \in Screens : worker[s].step \in {"saved", "sending"} => worker[s].msg \in saved
ItemInv   == \A s \in Screens, m \in Messages :
                 /\ screen[s].items[m] \in {0, 1}
                 /\ screen[s].items[m] = 1 => m \in saved

\* Who may read now may hear whatever is saved.
EntitledInv == \A m \in saved : members \subseteq entitled[m]
WireInv     == \A s \in Screens : \A i \in 1..Len(wire[s]) :
                   wire[s][i] \in saved /\ UserOf[s] \in entitled[wire[s][i]]

ChatInv == TypeOK /\ StartInv /\ FetchInv /\ WorkerInv /\ ItemInv /\ EntitledInv /\ WireInv

LEMMA TailElements ==
  ASSUME NEW S, NEW q \in Seq(S), q # <<>>
  PROVE  /\ Tail(q) \in Seq(S) /\ Head(q) \in S /\ Head(q) = q[1] /\ Len(q) \in Nat /\ Len(q) >= 1
         /\ \A i \in 1..Len(Tail(q)) : i + 1 \in 1..Len(q) /\ Tail(q)[i] = q[i + 1]
BY HeadTailProperties, EmptySeq, LenProperties

LEMMA AppendElements ==
  ASSUME NEW S, NEW q \in Seq(S), NEW e \in S
  PROVE  /\ Append(q, e) \in Seq(S)
         /\ \A i \in 1..Len(Append(q, e)) : \/ i \in 1..Len(q) /\ Append(q, e)[i] = q[i]
                                           \/ Append(q, e)[i] = e
BY AppendProperties, LenProperties

LEMMA InitInv == Init => ChatInv
<1> SUFFICES ASSUME Init PROVE ChatInv
  OBVIOUS
<1>1. /\ NoWork \in Worker /\ NoWork.step = "off" /\ NoWork.todo = {}
      /\ NoFetch \in Fetch /\ NoFetch.got = {} /\ Blank \in [Messages -> Nat]
      /\ <<>> \in Seq(Messages) /\ Len(<<>>) = 0
  BY EmptySeq DEF NoWork, Worker, NoFetch, Fetch, Blank
<1>2. screen \in [Screens -> Screen] /\ \A s \in Screens : screen[s].items = Blank
  BY <1>1 DEF Init, Screen
<1>3. TypeOK
  BY <1>1, <1>2 DEF Init, TypeOK, Talk!Begun, Talk!Stages
<1>4. StartInv /\ FetchInv /\ WorkerInv /\ EntitledInv
  BY <1>1 DEF Init, StartInv, FetchInv, WorkerInv, EntitledInv, Fresh
<1>5. ItemInv
  BY <1>2 DEF ItemInv, Blank
<1>6. WireInv
  BY <1>1 DEF Init, WireInv
<1>. QED
  BY <1>3, <1>4, <1>5, <1>6 DEF ChatInv

\* Screen s, its request and its socket are as they should be.
Good(s) == /\ screen \in [Screens -> Screen] /\ fetch \in [Screens -> Fetch]
           /\ conn \in [Screens -> {"none", "pending", "open", "dead", "closed"}]
           /\ wire \in [Screens -> Seq(Messages)] /\ inbox \in [Screens -> Seq(Messages)]
           /\ unsent \subseteq Messages
           /\ \A m \in Messages : /\ screen[s].items[m] \in {0, 1}
                                  /\ screen[s].items[m] = 1 => m \in saved
           /\ fetch[s].got \subseteq saved
           /\ screen[s].step \in Early => conn[s] = "none"

\* A step of the app that is about s alone.
Alone(s) == /\ UNCHANGED <<bidVars, serverVars>>
            /\ \A t \in Screens \ {s} : /\ screen'[t] = screen[t] /\ fetch'[t] = fetch[t]
                                        /\ conn'[t] = conn[t] /\ wire'[t] = wire[t]
            /\ conn'[s] \in Fresh => conn[s] \in Fresh
            /\ \/ wire'[s] = wire[s]
               \/ wire'[s] = <<>>
               \/ wire[s] # <<>> /\ wire'[s] = Tail(wire[s])

LEMMA AppStep ==
  ASSUME ChatInv, NEW s \in Screens, Good(s)', Alone(s)
  PROVE  ChatInv'
<1>1. TypeOK'
  BY DEF Good, Alone, ChatInv, TypeOK, bidVars, serverVars
<1>2. StartInv'
  BY DEF Good, Alone, ChatInv, StartInv, serverVars
<1>3. FetchInv' /\ WorkerInv' /\ ItemInv' /\ EntitledInv'
  BY DEF Good, Alone, ChatInv, FetchInv, WorkerInv, ItemInv, EntitledInv, bidVars, serverVars
<1>4. \A i \in 1..Len(wire'[s]) : wire'[s][i] \in saved /\ UserOf[s] \in entitled[wire'[s][i]]
  <2>1. wire[s] \in Seq(Messages)
        /\ \A i \in 1..Len(wire[s]) : wire[s][i] \in saved /\ UserOf[s] \in entitled[wire[s][i]]
    BY DEF ChatInv, TypeOK, WireInv
  <2>2. CASE wire'[s] = wire[s]
    BY <2>1, <2>2
  <2>3. CASE wire'[s] = <<>>
    BY <2>3, EmptySeq
  <2>4. CASE wire[s] # <<>> /\ wire'[s] = Tail(wire[s])
    BY <2>1, <2>4, TailElements
  <2>. QED
    BY <2>2, <2>3, <2>4 DEF Alone
<1>5. WireInv'
  BY <1>4 DEF Alone, ChatInv, WireInv, bidVars, serverVars
<1>. QED
  BY <1>1, <1>2, <1>3, <1>5 DEF ChatInv

\* A step of the goroutine of one socket, which can close sockets and open its
\* own, and saves nothing.
LEMMA WorkerStep ==
  ASSUME ChatInv, NEW s \in Screens, worker' \in [Screens -> Worker], clients' \subseteq Screens,
         conn' \in [Screens -> {"none", "pending", "open", "dead", "closed"}],
         inbox' \in [Screens -> Seq(Messages)],
         UNCHANGED <<bidVars, unsent, saved, fetch, screen>>,
         \A t \in Screens \ {s} : worker'[t] = worker[t],
         worker'[s].step \in {"saved", "sending"} => worker'[s].msg \in saved,
         \A t \in Screens : \/ conn'[t] = conn[t]
                            \/ conn[t] # "none" /\ conn'[t] \notin Fresh,
         conn'[s] \notin Fresh,
         \A t \in Screens : t \in clients' \union worker'[s].todo =>
                                \/ t \in clients \union worker[s].todo
                                \/ conn'[t] \notin Fresh,
         wire' \in [Screens -> Seq(Messages)], WireInv'
  PROVE  ChatInv'
<1>1. TypeOK'
  BY DEF ChatInv, TypeOK, bidVars
<1>2. StartInv'
  <2>1. ASSUME NEW t \in Screens, screen[t].step \in Early PROVE conn'[t] = "none"
    BY <2>1 DEF ChatInv, StartInv, Fresh
  <2>2. ASSUME NEW t \in Screens, conn'[t] \in Fresh
        PROVE  worker'[t] = NoWork /\ t \notin clients' /\ \A u \in Screens : t \notin worker'[u].todo
    <3>1. t # s /\ conn'[t] = conn[t]
      BY <2>2
    <3>2. worker[t] = NoWork /\ t \notin clients /\ \A u \in Screens : t \notin worker[u].todo
      BY <2>2, <3>1 DEF ChatInv, StartInv
    <3>. QED
      BY <2>2, <3>1, <3>2
  <2>. QED
    BY <2>1, <2>2 DEF StartInv
<1>3. FetchInv' /\ WorkerInv' /\ ItemInv' /\ EntitledInv'
  BY DEF ChatInv, FetchInv, WorkerInv, ItemInv, EntitledInv, bidVars
<1>. QED
  BY <1>1, <1>2, <1>3 DEF ChatInv

\* What is known of screen s, its request and its socket.
LEMMA Known ==
  ASSUME ChatInv, NEW s \in Screens
  PROVE  /\ Good(s)
         /\ screen[s] \in Screen /\ fetch[s] \in Fetch /\ worker[s] \in Worker
         /\ worker \in [Screens -> Worker] /\ saved \subseteq Messages /\ clients \subseteq Screens
BY DEF ChatInv, TypeOK, StartInv, FetchInv, ItemInv, Good

LEMMA Units ==
  /\ NoFetch \in Fetch /\ NoFetch.got = {}
  /\ NoWork \in Worker /\ Reading \in Worker /\ Reading.step = "reading" /\ Reading.todo = {}
  /\ Blank \in [Messages -> Nat] /\ \A m \in Messages : Blank[m] = 0
BY DEF NoFetch, Fetch, NoWork, Reading, Worker, Blank

\* A request asked, answered or refused.
LEMMA FetchStep ==
  ASSUME ChatInv, NEW s \in Screens, NEW f \in Fetch, f.got \subseteq saved,
         fetch' = [fetch EXCEPT ![s] = f],
         UNCHANGED <<bidVars, serverVars, unsent, conn, inbox, wire, screen>>
  PROVE  ChatInv'
<1>1. fetch' \in [Screens -> Fetch] /\ fetch'[s] = f /\ \A t \in Screens \ {s} : fetch'[t] = fetch[t]
  BY Known DEF Good
<1>2. UNCHANGED <<bidVars, serverVars>> /\ screen' = screen /\ conn' = conn /\ wire' = wire
      /\ inbox' = inbox /\ unsent' = unsent
  OBVIOUS
<1>good. Good(s)'
  BY <1>1, <1>2, Known DEF Good, serverVars
<1>alone. Alone(s)
  BY <1>1, <1>2 DEF Alone
<1>. QED
  BY <1>good, <1>alone, AppStep

LEMMA OpenScreenKeeps ==
  ASSUME ChatInv, NEW s \in Screens, OpenScreen(s)
  PROVE  ChatInv'
<1>1. /\ screen[s].step = "unopened" /\ screen' = [screen EXCEPT ![s].step = "loading"]
      /\ fetch' = [fetch EXCEPT ![s].step = "asked"]
      /\ UNCHANGED <<bidVars, serverVars>> /\ conn' = conn /\ wire' = wire
      /\ inbox' = inbox /\ unsent' = unsent
  BY DEF OpenScreen
<1>2. /\ screen' \in [Screens -> Screen] /\ \A t \in Screens \ {s} : screen'[t] = screen[t]
      /\ screen'[s].step = "loading" /\ screen'[s].items = screen[s].items
  BY <1>1, Known DEF Screen, Good
<1>3. /\ fetch' \in [Screens -> Fetch] /\ \A t \in Screens \ {s} : fetch'[t] = fetch[t]
      /\ fetch'[s].got = fetch[s].got
  BY <1>1, Known DEF Fetch, Good
<1>4. conn[s] = "none"
  BY <1>1, Known DEF Early, Good
<1>good. Good(s)'
  BY <1>1, <1>2, <1>3, <1>4, Known DEF Good, serverVars
<1>alone. Alone(s)
  BY <1>1, <1>2, <1>3, <1>4 DEF Alone
<1>. QED
  BY <1>good, <1>alone, AppStep

LEMMA LoadKeeps ==
  ASSUME ChatInv, NEW s \in Screens, Load(s)
  PROVE  ChatInv'
<1> DEFINE items == [m \in Messages |-> IF m \in fetch[s].got THEN 1 ELSE 0]
<1>1. /\ screen[s].step = "loading"
      /\ screen' = [screen EXCEPT ![s].step = "loaded", ![s].items = items]
      /\ fetch' = [fetch EXCEPT ![s] = NoFetch]
      /\ UNCHANGED <<bidVars, serverVars>> /\ conn' = conn /\ wire' = wire
      /\ inbox' = inbox /\ unsent' = unsent
  BY DEF Load
<1>2. items \in [Messages -> Nat] /\ \A m \in Messages : items[m] \in {0, 1} /\ (items[m] = 1 => m \in saved)
  BY Known DEF Good
<1>3. /\ screen' \in [Screens -> Screen] /\ \A t \in Screens \ {s} : screen'[t] = screen[t]
      /\ screen'[s].step = "loaded" /\ screen'[s].items = items
  <2> HIDE DEF items
  <2>. QED
    BY <1>1, <1>2, Known DEF Screen, Good
<1>4. /\ fetch' \in [Screens -> Fetch] /\ \A t \in Screens \ {s} : fetch'[t] = fetch[t]
      /\ fetch'[s].got = {}
  BY <1>1, Known, Units DEF Good
<1>5. conn[s] = "none"
  BY <1>1, Known DEF Early, Good
<1> HIDE DEF items
<1>good. Good(s)'
  BY <1>1, <1>2, <1>3, <1>4, <1>5, Known DEF Good, serverVars
<1>alone. Alone(s)
  BY <1>1, <1>2, <1>3, <1>4, <1>5 DEF Alone
<1>. QED
  BY <1>good, <1>alone, AppStep

LEMMA FetchFailsKeeps ==
  ASSUME ChatInv, NEW s \in Screens, FetchFails(s)
  PROVE  ChatInv'
<1> DEFINE step == IF screen[s].step = "loading" THEN "loaded" ELSE screen[s].step
<1>1. /\ screen' = [screen EXCEPT ![s].step = step]
      /\ fetch' = [fetch EXCEPT ![s] = NoFetch]
      /\ UNCHANGED <<bidVars, serverVars>> /\ conn' = conn /\ wire' = wire
      /\ inbox' = inbox /\ unsent' = unsent
  BY Known DEF FetchFails, Good
<1>2. /\ screen' \in [Screens -> Screen] /\ \A t \in Screens \ {s} : screen'[t] = screen[t]
      /\ screen'[s].step = step /\ screen'[s].items = screen[s].items
  BY <1>1, Known DEF Screen, Good
<1>3. /\ fetch' \in [Screens -> Fetch] /\ \A t \in Screens \ {s} : fetch'[t] = fetch[t]
      /\ fetch'[s].got = {}
  BY <1>1, Known, Units DEF Good
<1>4. step \in Early => conn[s] = "none"
  BY Known DEF Early, Good
<1> HIDE DEF step
<1>good. Good(s)'
  BY <1>1, <1>2, <1>3, <1>4, Known DEF Good, serverVars
<1>alone. Alone(s)
  BY <1>1, <1>2, <1>3, <1>4 DEF Alone
<1>. QED
  BY <1>good, <1>alone, AppStep

LEMMA ConnectKeeps ==
  ASSUME ChatInv, NEW s \in Screens, Connect(s)
  PROVE  ChatInv'
<1>1. /\ screen[s].step \in {"loaded", "abandoned"}
      /\ screen' = [screen EXCEPT ![s].step = IF @ = "loaded" THEN "live" ELSE "gone"]
      /\ conn' = [conn EXCEPT ![s] = "pending"]
      /\ UNCHANGED <<bidVars, serverVars>> /\ fetch' = fetch /\ wire' = wire
      /\ inbox' = inbox /\ unsent' = unsent
  BY DEF Connect
<1>2. /\ screen' \in [Screens -> Screen] /\ \A t \in Screens \ {s} : screen'[t] = screen[t]
      /\ screen'[s].step \in {"live", "gone"} /\ screen'[s].items = screen[s].items
  BY <1>1, Known DEF Screen, Good
<1>3. /\ conn' \in [Screens -> {"none", "pending", "open", "dead", "closed"}]
      /\ conn'[s] = "pending" /\ \A t \in Screens \ {s} : conn'[t] = conn[t]
  BY <1>1, Known DEF Good
<1>4. screen'[s].step \notin Early /\ conn[s] \in Fresh
  BY <1>1, <1>2, Known DEF Early, Good, Fresh
<1>good. Good(s)'
  BY <1>1, <1>2, <1>3, <1>4, Known DEF Good, serverVars
<1>alone. Alone(s)
  BY <1>1, <1>2, <1>3, <1>4 DEF Alone
<1>. QED
  BY <1>good, <1>alone, AppStep

LEMMA RefreshKeeps ==
  ASSUME ChatInv, NEW s \in Screens, Refresh(s)
  PROVE  ChatInv'
<1> DEFINE items == [m \in Messages |-> IF m \in fetch[s].got /\ screen[s].items[m] = 0
                                        THEN 1 ELSE screen[s].items[m]]
<1>1. /\ screen[s].step = "live" /\ fetch' = [fetch EXCEPT ![s] = NoFetch]
      /\ UNCHANGED <<bidVars, serverVars>> /\ wire' = wire /\ inbox' = inbox /\ unsent' = unsent
  BY DEF Refresh
<1>2. items \in [Messages -> Nat] /\ \A m \in Messages : items[m] \in {0, 1} /\ (items[m] = 1 => m \in saved)
  BY Known DEF Good
<1>3. \/ screen' = [screen EXCEPT ![s].stopped = TRUE] /\ conn' = [conn EXCEPT ![s] = "dead"]
      \/ screen' = [screen EXCEPT ![s].items = items] /\ conn' = conn
  BY Known DEF Refresh, Good
<1> HIDE DEF items
<1>4. /\ screen' \in [Screens -> Screen] /\ \A t \in Screens \ {s} : screen'[t] = screen[t]
      /\ screen'[s].step = "live" /\ screen'[s].items \in {items, screen[s].items}
  <2>1. CASE screen' = [screen EXCEPT ![s].stopped = TRUE]
    BY <1>1, <2>1, Known DEF Screen, Good
  <2>2. CASE screen' = [screen EXCEPT ![s].items = items]
    BY <1>1, <1>2, <2>2, Known DEF Screen, Good
  <2>. QED
    BY <1>1, <1>3, <2>1, <2>2
<1>5. /\ conn' \in [Screens -> {"none", "pending", "open", "dead", "closed"}]
      /\ conn'[s] \in {"dead", conn[s]} /\ \A t \in Screens \ {s} : conn'[t] = conn[t]
  BY <1>3, Known DEF Good
<1>6. /\ fetch' \in [Screens -> Fetch] /\ \A t \in Screens \ {s} : fetch'[t] = fetch[t]
      /\ fetch'[s].got = {}
  BY <1>1, Known, Units DEF Good
<1>7. screen'[s].step \notin Early /\ (conn'[s] \in Fresh => conn[s] \in Fresh)
      /\ \A m \in Messages : screen'[s].items[m] \in {0, 1} /\ (screen'[s].items[m] = 1 => m \in saved)
  BY <1>2, <1>4, <1>5, Known DEF Early, Good, Fresh
<1>good. Good(s)'
  BY <1>1, <1>4, <1>5, <1>6, <1>7, Known DEF Good, serverVars
<1>alone. Alone(s)
  BY <1>1, <1>4, <1>5, <1>6, <1>7 DEF Alone
<1>. QED
  BY <1>good, <1>alone, AppStep

LEMMA SendKeeps ==
  ASSUME ChatInv, NEW s \in Screens, NEW m \in Messages, Send(s, m)
  PROVE  ChatInv'
<1>1. /\ unsent' \subseteq Messages /\ UNCHANGED <<bidVars, serverVars>>
      /\ conn' = conn /\ wire' = wire /\ fetch' = fetch /\ screen' = screen
  BY Known DEF Send, Good
<1>2. inbox' \in [Screens -> Seq(Messages)]
  BY Known, AppendElements DEF Send, Good
<1>good. Good(s)'
  BY <1>1, <1>2, Known DEF Good, serverVars
<1>alone. Alone(s)
  BY <1>1, <1>2 DEF Alone
<1>. QED
  BY <1>good, <1>alone, AppStep

LEMMA ReceiveKeeps ==
  ASSUME ChatInv, NEW s \in Screens, Receive(s)
  PROVE  ChatInv'
<1> DEFINE head == Head(wire[s])
           items == Listed(screen[s].items, head)
<1>1. /\ wire[s] # <<>> /\ wire' = [wire EXCEPT ![s] = Tail(@)]
      /\ UNCHANGED <<bidVars, serverVars>> /\ conn' = conn /\ fetch' = fetch
      /\ inbox' = inbox /\ unsent' = unsent
      /\ \/ screen[s].step = "live" /\ screen' = [screen EXCEPT ![s].items = items]
         \/ screen' = screen
  BY DEF Receive
<1>2. head \in Messages /\ head \in saved /\ Tail(wire[s]) \in Seq(Messages)
  <2>1. wire[s] \in Seq(Messages) /\ \A i \in 1..Len(wire[s]) : wire[s][i] \in saved
    BY Known DEF ChatInv, WireInv, Good
  <2>. QED
    BY <1>1, <2>1, TailElements
<1>3. items \in [Messages -> Nat] /\ \A m \in Messages : items[m] \in {0, 1} /\ (items[m] = 1 => m \in saved)
  BY <1>2, Known DEF Listed, Screen, Good
<1> HIDE DEF items
<1>4. /\ screen' \in [Screens -> Screen] /\ \A t \in Screens \ {s} : screen'[t] = screen[t]
      /\ screen'[s].step = screen[s].step /\ screen'[s].items \in {items, screen[s].items}
  <2>1. CASE screen' = screen
    BY <1>1, <2>1, Known DEF Screen, Good
  <2>2. CASE screen' = [screen EXCEPT ![s].items = items]
    BY <1>1, <1>3, <2>2, Known DEF Screen, Good
  <2>. QED
    BY <1>1, <1>3, <2>1, <2>2
<1>5. /\ wire' \in [Screens -> Seq(Messages)] /\ wire'[s] = Tail(wire[s])
      /\ \A t \in Screens \ {s} : wire'[t] = wire[t]
  BY <1>1, <1>2, Known DEF Good
<1>6. \A m \in Messages : screen'[s].items[m] \in {0, 1} /\ (screen'[s].items[m] = 1 => m \in saved)
  BY <1>3, <1>4, Known DEF Good
<1>good. Good(s)'
  BY <1>1, <1>4, <1>5, <1>6, Known DEF Good, serverVars
<1>alone. Alone(s)
  BY <1>1, <1>4, <1>5, <1>6 DEF Alone
<1>. QED
  BY <1>good, <1>alone, AppStep

LEMMA DisposeKeeps ==
  ASSUME ChatInv, NEW s \in Screens, Dispose(s)
  PROVE  ChatInv'
<1>1. /\ fetch' = [fetch EXCEPT ![s] = NoFetch]
      /\ UNCHANGED <<bidVars, serverVars>> /\ inbox' = inbox /\ unsent' = unsent
  BY DEF Dispose
<1>2. /\ fetch' \in [Screens -> Fetch] /\ \A t \in Screens \ {s} : fetch'[t] = fetch[t]
      /\ fetch'[s].got = {} /\ <<>> \in Seq(Messages)
  BY <1>1, Known, Units, EmptySeq DEF Good
<1>3. CASE /\ screen' = [screen EXCEPT ![s].step = "gone", ![s].items = Blank]
           /\ conn' = [conn EXCEPT ![s] = "dead"]
           /\ wire' = [wire EXCEPT ![s] = <<>>]
  <2>1. /\ screen' \in [Screens -> Screen] /\ \A t \in Screens \ {s} : screen'[t] = screen[t]
        /\ screen'[s].step = "gone" /\ screen'[s].items = Blank
    BY <1>3, Known, Units DEF Screen, Good
  <2>2. /\ conn' \in [Screens -> {"none", "pending", "open", "dead", "closed"}]
        /\ conn'[s] = "dead" /\ \A t \in Screens \ {s} : conn'[t] = conn[t]
        /\ wire' \in [Screens -> Seq(Messages)] /\ wire'[s] = <<>>
        /\ \A t \in Screens \ {s} : wire'[t] = wire[t]
    BY <1>2, <1>3, Known DEF Good
  <2>3. "gone" \notin Early /\ "dead" \notin Fresh
    BY DEF Early, Fresh
  <2>good. Good(s)'
    BY <1>1, <1>2, <2>1, <2>2, <2>3, Known, Units DEF Good, serverVars
  <2>alone. Alone(s)
    BY <1>1, <1>2, <2>1, <2>2, <2>3 DEF Alone
  <2>. QED
    BY <2>good, <2>alone, AppStep
<1>4. CASE /\ screen[s].step \in {"loading", "loaded"}
           /\ screen' = [screen EXCEPT ![s].step = "abandoned", ![s].items = Blank]
           /\ UNCHANGED <<conn, wire>>
  <2>1. /\ screen' \in [Screens -> Screen] /\ \A t \in Screens \ {s} : screen'[t] = screen[t]
        /\ screen'[s].step = "abandoned" /\ screen'[s].items = Blank
    BY <1>4, Known, Units DEF Screen, Good
  <2>2. conn[s] = "none" /\ conn' = conn /\ wire' = wire
    BY <1>4, Known DEF Early, Good
  <2>good. Good(s)'
    BY <1>1, <1>2, <2>1, <2>2, Known, Units DEF Good, serverVars
  <2>alone. Alone(s)
    BY <1>1, <1>2, <2>1, <2>2 DEF Alone
  <2>. QED
    BY <2>good, <2>alone, AppStep
<1>. QED
  BY <1>3, <1>4 DEF Dispose

LEMMA SocketDiesKeeps ==
  ASSUME ChatInv, NEW s \in Screens, SocketDies(s)
  PROVE  ChatInv'
<1>1. /\ conn[s] \in {"pending", "open"} /\ conn' = [conn EXCEPT ![s] = "dead"]
      /\ wire' = [wire EXCEPT ![s] = <<>>]
      /\ UNCHANGED <<bidVars, serverVars>> /\ screen' = screen /\ fetch' = fetch
      /\ inbox' = inbox /\ unsent' = unsent
  BY DEF SocketDies
<1>2. /\ conn' \in [Screens -> {"none", "pending", "open", "dead", "closed"}]
      /\ conn'[s] = "dead" /\ \A t \in Screens \ {s} : conn'[t] = conn[t]
      /\ wire' \in [Screens -> Seq(Messages)] /\ wire'[s] = <<>>
      /\ \A t \in Screens \ {s} : wire'[t] = wire[t]
  BY <1>1, Known, EmptySeq DEF Good
<1>3. screen[s].step \notin Early /\ "dead" \notin Fresh
  BY <1>1, Known DEF Early, Good, Fresh
<1>good. Good(s)'
  BY <1>1, <1>2, <1>3, Known DEF Good, serverVars
<1>alone. Alone(s)
  BY <1>1, <1>2, <1>3 DEF Alone
<1>. QED
  BY <1>good, <1>alone, AppStep

LEMMA RequestKeeps ==
  ASSUME ChatInv, NEW s \in Screens, Poll(s) \/ HistoryAuthorize(s) \/ HistoryRead(s) \/ HistoryFails(s)
  PROVE  ChatInv'
<1>1. \A step \in {"asked", "allowed", "refused"} : [fetch[s] EXCEPT !.step = step] \in Fetch
  BY Known DEF Fetch, Good
<1>2. \A some \in SUBSET saved : [step |-> "answered", got |-> some] \in Fetch
  BY Known DEF Fetch, Good
<1>3. CASE \E step \in {"asked", "allowed", "refused"} :
               fetch' = [fetch EXCEPT ![s] = [fetch[s] EXCEPT !.step = step]]
  <2>1. UNCHANGED <<bidVars, serverVars, unsent, conn, inbox, wire, screen>>
    BY DEF Poll, HistoryAuthorize, HistoryRead, HistoryFails
  <2>2. PICK step \in {"asked", "allowed", "refused"} :
            fetch' = [fetch EXCEPT ![s] = [fetch[s] EXCEPT !.step = step]]
    BY <1>3
  <2>3. [fetch[s] EXCEPT !.step = step].got \subseteq saved
    BY Known DEF Fetch, Good
  <2>. QED
    BY <1>1, <2>1, <2>2, <2>3, FetchStep
<1>4. CASE \E some \in SUBSET saved :
               fetch' = [fetch EXCEPT ![s] = [step |-> "answered", got |-> some]]
  <2>1. UNCHANGED <<bidVars, serverVars, unsent, conn, inbox, wire, screen>>
    BY DEF Poll, HistoryAuthorize, HistoryRead, HistoryFails
  <2>2. PICK some \in SUBSET saved :
            fetch' = [fetch EXCEPT ![s] = [step |-> "answered", got |-> some]]
    BY <1>4
  <2>. QED
    BY <1>2, <2>1, <2>2, FetchStep
<1>. QED
  BY <1>3, <1>4 DEF Poll, HistoryAuthorize, HistoryRead, HistoryFails

LEMMA BiddersKeep ==
  ASSUME ChatInv, Bidders
  PROVE  ChatInv'
<1>1. /\ UNCHANGED <<unsent, saved, clients, worker, conn, inbox, wire, fetch, screen>>
      /\ entitled' = [m \in Messages |-> IF m \in saved THEN entitled[m] \union members' ELSE entitled[m]]
  BY DEF Bidders, serverVars
<1>2. stage' \in Talk!Stages /\ members' \subseteq Customers \union Providers
  BY DEF Bidders, Talk!Bidders, Talk!Join, Talk!Leave, Talk!Agree, Talk!Stages, ChatInv, TypeOK
<1>3. /\ \A m \in Messages : entitled[m] \subseteq entitled'[m]
      /\ entitled' \in [Messages -> SUBSET (Customers \union Providers)]
  BY <1>1, <1>2 DEF ChatInv, TypeOK
<1>4. TypeOK'
  BY <1>1, <1>2, <1>3 DEF ChatInv, TypeOK
<1>5. EntitledInv'
  BY <1>1 DEF ChatInv, TypeOK, EntitledInv
<1>6. WireInv'
  BY <1>1, <1>3 DEF ChatInv, TypeOK, WireInv
<1>7. StartInv' /\ FetchInv' /\ WorkerInv' /\ ItemInv'
  BY <1>1 DEF ChatInv, StartInv, FetchInv, WorkerInv, ItemInv
<1>. QED
  BY <1>4, <1>5, <1>6, <1>7 DEF ChatInv

\* A message is added to the table.
LEMMA Saving ==
  ASSUME ChatInv, NEW m \in Messages, SaveMessage(m), members' = members, wire' = wire
  PROVE  /\ saved' \subseteq Messages /\ saved \subseteq saved' /\ m \in saved'
         /\ entitled' \in [Messages -> SUBSET (Customers \union Providers)]
         /\ EntitledInv' /\ WireInv'
<1>1. /\ saved' = saved \union {m} /\ saved' \subseteq Messages
      /\ entitled' = [entitled EXCEPT ![m] = @ \union members]
      /\ members \subseteq Customers \union Providers
      /\ entitled \in [Messages -> SUBSET (Customers \union Providers)]
  BY DEF SaveMessage, ChatInv, TypeOK
<1>2. /\ entitled' \in [Messages -> SUBSET (Customers \union Providers)]
      /\ \A k \in Messages : entitled'[k] = IF k = m THEN entitled[m] \union members ELSE entitled[k]
  BY <1>1
<1>3. EntitledInv'
  BY <1>1, <1>2 DEF ChatInv, EntitledInv
<1>4. WireInv'
  <2>1. ASSUME NEW s \in Screens, NEW i \in 1..Len(wire[s])
        PROVE  wire[s][i] \in saved' /\ UserOf[s] \in entitled'[wire[s][i]]
    <3>1. wire[s][i] \in saved /\ wire[s][i] \in Messages /\ UserOf[s] \in entitled[wire[s][i]]
      BY <1>1 DEF ChatInv, WireInv
    <3>. QED
      BY <1>1, <1>2, <3>1
  <2>. QED
    BY <2>1 DEF WireInv
<1>. QED
  BY <1>1, <1>2, <1>3, <1>4

LEMMA CancelNoticeKeeps ==
  ASSUME ChatInv, NEW m \in Messages, CancelNotice(m)
  PROVE  ChatInv'
<1>1. /\ SaveMessage(m) /\ unsent' \subseteq Messages
      /\ UNCHANGED <<members, clients, worker, conn, inbox, wire, fetch, screen>>
      /\ stage' \in Talk!Stages
  BY DEF CancelNotice, Talk!Cancel, Talk!Stages, ChatInv, TypeOK
<1>2. /\ saved' \subseteq Messages /\ saved \subseteq saved'
      /\ entitled' \in [Messages -> SUBSET (Customers \union Providers)]
      /\ EntitledInv' /\ WireInv'
  BY <1>1, Saving
<1>3. TypeOK'
  BY <1>1, <1>2 DEF ChatInv, TypeOK
<1>4. StartInv' /\ FetchInv' /\ WorkerInv' /\ ItemInv'
  BY <1>1, <1>2 DEF ChatInv, StartInv, FetchInv, WorkerInv, ItemInv
<1>. QED
  BY <1>2, <1>3, <1>4 DEF ChatInv

LEMMA SendMessageKeeps ==
  ASSUME ChatInv, NEW s \in Screens, SendMessage(s)
  PROVE  ChatInv'
<1> DEFINE m == worker[s].msg
<1>1. /\ worker[s].step = "saving" /\ SaveMessage(m)
      /\ worker' = [worker EXCEPT ![s].step = "saved"]
      /\ UNCHANGED <<stage, members, unsent, clients, conn, inbox, wire, fetch, screen>>
  BY DEF SendMessage
<1>2. m \in Messages /\ worker \in [Screens -> Worker] /\ worker[s] \in Worker
  BY <1>1, Known DEF Worker
<1>3. /\ saved' \subseteq Messages /\ saved \subseteq saved' /\ m \in saved'
      /\ entitled' \in [Messages -> SUBSET (Customers \union Providers)]
      /\ EntitledInv' /\ WireInv'
  BY <1>1, <1>2, Saving
<1>4. /\ worker' \in [Screens -> Worker] /\ \A t \in Screens \ {s} : worker'[t] = worker[t]
      /\ worker'[s].step = "saved" /\ worker'[s].msg = m /\ worker'[s].todo = worker[s].todo
  BY <1>1, <1>2 DEF Worker
<1>5. TypeOK'
  BY <1>1, <1>3, <1>4 DEF ChatInv, TypeOK
<1>6. StartInv'
  <2>1. conn[s] \notin Fresh
    BY <1>1 DEF ChatInv, StartInv, NoWork
  <2>2. \A t \in Screens : worker'[t].todo = worker[t].todo
    BY <1>4
  <2>. QED
    BY <1>1, <1>4, <2>1, <2>2 DEF ChatInv, StartInv
<1>7. FetchInv' /\ ItemInv'
  BY <1>1, <1>3 DEF ChatInv, FetchInv, ItemInv
<1>8. WorkerInv'
  BY <1>3, <1>4 DEF ChatInv, WorkerInv
<1>. QED
  BY <1>3, <1>5, <1>6, <1>7, <1>8 DEF ChatInv

\* Socket s has been admitted once a goroutine serves it.
LEMMA AtWork ==
  ASSUME ChatInv, NEW s \in Screens, worker[s].step # "off"
  PROVE  conn[s] \notin Fresh
BY DEF ChatInv, StartInv, NoWork

\* Socket t is not closed before it was opened.
LEMMA Joined ==
  ASSUME ChatInv, NEW s \in Screens, NEW t \in Screens, t \in clients \union worker[s].todo
  PROVE  conn[t] \notin Fresh
BY DEF ChatInv, StartInv

LEMMA AdmitKeeps ==
  ASSUME ChatInv, NEW s \in Screens, Admit(s)
  PROVE  ChatInv'
<1>1. /\ conn[s] = "pending" /\ worker[s] = NoWork
      /\ UNCHANGED <<bidVars, unsent, saved, fetch, screen>>
      /\ clients' = clients /\ inbox' = inbox /\ wire' = wire
  BY DEF Admit, ChatInv, StartInv, Fresh
<1>2. \/ conn' = [conn EXCEPT ![s] = "open"] /\ worker' = [worker EXCEPT ![s].step = "admitted"]
      \/ conn' = [conn EXCEPT ![s] = "closed"] /\ worker' = worker
  BY DEF Admit
<1>3. /\ conn' \in [Screens -> {"none", "pending", "open", "dead", "closed"}]
      /\ conn'[s] \in {"open", "closed"} /\ \A t \in Screens \ {s} : conn'[t] = conn[t]
  BY <1>2, Known DEF Good
<1>4. /\ worker' \in [Screens -> Worker] /\ \A t \in Screens \ {s} : worker'[t] = worker[t]
      /\ worker'[s].step \in {"admitted", "off"} /\ worker'[s].todo = {}
  BY <1>1, <1>2, Known, Units DEF NoWork, Worker
<1>5. \A t \in Screens : conn'[t] = conn[t] \/ (conn[t] # "none" /\ conn'[t] \notin Fresh)
  BY <1>1, <1>3 DEF Fresh
<1>6. inbox' \in [Screens -> Seq(Messages)] /\ wire' \in [Screens -> Seq(Messages)]
      /\ clients' \subseteq Screens /\ conn'[s] \notin Fresh
  BY <1>1, <1>3, Known DEF Good, Fresh
<1>7. WireInv'
  BY <1>1 DEF ChatInv, WireInv, bidVars
<1>8. \A t \in Screens : t \in clients' \union worker'[s].todo => t \in clients
  BY <1>1, <1>4
<1>. QED
  BY <1>1, <1>3, <1>4, <1>5, <1>6, <1>7, <1>8, WorkerStep

\* A step of goroutine s that leaves its socket alone or closes it.
LEMMA ServeStep ==
  ASSUME ChatInv, NEW s \in Screens, worker[s].step # "off",
         NEW w \in Worker, worker' = [worker EXCEPT ![s] = w],
         w.step \in {"saved", "sending"} => w.msg \in saved,
         w.todo \subseteq clients \union worker[s].todo,
         clients' \subseteq clients \union {s},
         \/ conn' = conn
         \/ conn' = [conn EXCEPT ![s] = "closed"],
         inbox' \in [Screens -> Seq(Messages)],
         UNCHANGED <<bidVars, unsent, saved, fetch, screen, wire>>
  PROVE  ChatInv'
<1>1. conn[s] \notin Fresh
  BY AtWork
<1>2. /\ conn' \in [Screens -> {"none", "pending", "open", "dead", "closed"}]
      /\ conn'[s] \notin Fresh /\ \A t \in Screens \ {s} : conn'[t] = conn[t]
  BY <1>1, Known DEF Good, Fresh
<1>3. /\ worker' \in [Screens -> Worker] /\ worker'[s] = w
      /\ \A t \in Screens \ {s} : worker'[t] = worker[t]
  BY Known
<1>4. \A t \in Screens : conn'[t] = conn[t] \/ (conn[t] # "none" /\ conn'[t] \notin Fresh)
  BY <1>1, <1>2 DEF Fresh
<1>5. wire' \in [Screens -> Seq(Messages)] /\ clients' \subseteq Screens
  BY Known DEF Good
<1>6. WireInv'
  BY DEF ChatInv, WireInv, bidVars
<1>7. \A t \in Screens : t \in clients' \union worker'[s].todo =>
          t \in clients \union worker[s].todo \/ conn'[t] \notin Fresh
  BY <1>2, <1>3
<1>. QED
  BY <1>2, <1>3, <1>4, <1>5, <1>6, <1>7, WorkerStep

LEMMA GoroutineKeeps ==
  ASSUME ChatInv, NEW s \in Screens, AddClient(s) \/ Hangup(s) \/ SaveFails(s) \/ BroadcastDone(s)
  PROVE  ChatInv'
<1>1. /\ worker[s].step # "off" /\ inbox' = inbox
      /\ UNCHANGED <<bidVars, unsent, saved, fetch, screen, wire>>
  BY DEF AddClient, Hangup, SaveFails, BroadcastDone
<1>2. /\ clients' \subseteq clients \union {s}
      /\ conn' = conn \/ conn' = [conn EXCEPT ![s] = "closed"]
      /\ worker' = [worker EXCEPT ![s] = Reading] \/ worker' = [worker EXCEPT ![s] = NoWork]
  BY DEF AddClient, Hangup, SaveFails, BroadcastDone, RemoveClient
<1>3. NoWork.todo = {} /\ NoWork.step = "off"
  BY DEF NoWork
<1>4. inbox' \in [Screens -> Seq(Messages)]
  BY <1>1, Known DEF Good
<1>. QED
  BY <1>1, <1>2, <1>3, <1>4, Units, ServeStep

LEMMA ReadFrameKeeps ==
  ASSUME ChatInv, NEW s \in Screens, ReadFrame(s)
  PROVE  ChatInv'
<1> DEFINE w == [Reading EXCEPT !.step = "saving", !.msg = Head(inbox[s])]
<1>1. /\ worker[s].step = "reading" /\ inbox[s] # <<>> /\ inbox' = [inbox EXCEPT ![s] = Tail(@)]
      /\ UNCHANGED <<bidVars, unsent, saved, fetch, screen, wire>>
      /\ \/ worker' = [worker EXCEPT ![s] = w] /\ clients' = clients /\ conn' = conn
         \/ /\ worker' = [worker EXCEPT ![s] = NoWork] /\ clients' = clients \ {s}
            /\ conn' = [conn EXCEPT ![s] = "closed"]
  BY DEF ReadFrame, RemoveClient
<1>2. Head(inbox[s]) \in Messages /\ inbox' \in [Screens -> Seq(Messages)]
  <2>1. inbox[s] \in Seq(Messages)
    BY Known DEF Good
  <2>2. Head(inbox[s]) \in Messages /\ Tail(inbox[s]) \in Seq(Messages)
    BY <1>1, <2>1, TailElements
  <2>. QED
    BY <1>1, <2>2, Known DEF Good
<1>3. w \in Worker /\ w.step = "saving" /\ w.todo = {}
  BY <1>2 DEF Reading, NoWork, Worker
<1>4. NoWork.todo = {} /\ NoWork.step = "off" /\ NoWork \in Worker
  BY Units DEF NoWork
<1> HIDE DEF w
<1>. QED
  BY <1>1, <1>2, <1>3, <1>4, ServeStep

LEMMA CopyClientsKeeps ==
  ASSUME ChatInv, NEW s \in Screens, CopyClients(s)
  PROVE  ChatInv'
<1> DEFINE w == [worker[s] EXCEPT !.step = "sending", !.todo = clients]
<1>1. /\ worker[s].step = "saved" /\ worker' = [worker EXCEPT ![s] = w]
      /\ UNCHANGED <<bidVars, unsent, saved, fetch, screen, wire>>
      /\ clients' = clients /\ conn' = conn /\ inbox' = inbox
  BY Known DEF CopyClients
<1>2. w \in Worker /\ w.step = "sending" /\ w.todo = clients /\ w.msg = worker[s].msg
  BY <1>1, Known DEF Worker
<1>3. w.msg \in saved /\ inbox' \in [Screens -> Seq(Messages)]
  BY <1>1, <1>2, Known DEF ChatInv, WorkerInv, Good
<1> HIDE DEF w
<1>. QED
  BY <1>1, <1>2, <1>3, ServeStep

LEMMA DeliverKeeps ==
  ASSUME ChatInv, NEW s \in Screens, NEW t \in Screens, Deliver(s, t)
  PROVE  ChatInv'
<1> DEFINE m == worker[s].msg
<1>1. /\ worker[s].step = "sending" /\ t \in worker[s].todo
      /\ worker' = [worker EXCEPT ![s].todo = @ \ {t}]
      /\ UNCHANGED <<bidVars, unsent, saved, fetch, screen>>
      /\ clients' = clients /\ inbox' = inbox
      /\ \/ MayHear(t) /\ wire' = [wire EXCEPT ![t] = Append(@, m)] /\ conn' = conn
         \/ conn' = [conn EXCEPT ![t] = "closed"] /\ wire' = wire
  BY DEF Deliver
<1>2. m \in Messages /\ m \in saved
  BY <1>1, Known DEF Worker, ChatInv, WorkerInv
<1>3. /\ worker' \in [Screens -> Worker] /\ \A u \in Screens \ {s} : worker'[u] = worker[u]
      /\ worker'[s].step = "sending" /\ worker'[s].msg = m
      /\ worker'[s].todo = worker[s].todo \ {t}
  BY <1>1, <1>2, Known DEF Worker
<1>4. conn[s] \notin Fresh /\ conn[t] \notin Fresh
  BY <1>1, AtWork, Joined
<1>5. /\ conn' \in [Screens -> {"none", "pending", "open", "dead", "closed"}]
      /\ \A u \in Screens : conn'[u] = conn[u] \/ (conn[u] # "none" /\ conn'[u] \notin Fresh)
      /\ conn'[s] \notin Fresh
  BY <1>1, <1>4, Known DEF Good, Fresh
<1>6. wire' \in [Screens -> Seq(Messages)] /\ WireInv'
  <2>1. CASE wire' = wire
    BY <1>1, <2>1, Known DEF Good, ChatInv, WireInv, bidVars
  <2>2. CASE MayHear(t) /\ wire' = [wire EXCEPT ![t] = Append(@, m)]
    <3>1. UserOf[t] \in entitled[m]
      BY <1>2, <2>2 DEF MayHear, Allowed, ChatInv, EntitledInv
    <3>2. wire[t] \in Seq(Messages) /\ wire \in [Screens -> Seq(Messages)]
          /\ \A i \in 1..Len(wire[t]) : wire[t][i] \in saved /\ UserOf[t] \in entitled[wire[t][i]]
      BY Known DEF ChatInv, WireInv, Good
    <3>3. Append(wire[t], m) \in Seq(Messages)
          /\ \A i \in 1..Len(Append(wire[t], m)) : /\ Append(wire[t], m)[i] \in saved
                                                  /\ UserOf[t] \in entitled[Append(wire[t], m)[i]]
      BY <1>2, <3>1, <3>2, AppendElements
    <3>4. /\ wire' \in [Screens -> Seq(Messages)] /\ wire'[t] = Append(wire[t], m)
          /\ \A u \in Screens \ {t} : wire'[u] = wire[u]
      BY <2>2, <3>2, <3>3
    <3>5. saved' = saved /\ entitled' = entitled
      BY <1>1 DEF bidVars
    <3>6. ASSUME NEW u \in Screens, NEW i \in 1..Len(wire'[u])
          PROVE  wire'[u][i] \in saved /\ UserOf[u] \in entitled[wire'[u][i]]
      <4>1. CASE u = t
        BY <3>3, <3>4, <3>6, <4>1
      <4>2. CASE u # t
        BY <3>4, <3>6, <4>2 DEF ChatInv, WireInv
      <4>. QED
        BY <4>1, <4>2
    <3>. QED
      BY <3>4, <3>5, <3>6 DEF WireInv
  <2>. QED
    BY <1>1, <2>1, <2>2
<1>7. clients' \subseteq Screens /\ inbox' \in [Screens -> Seq(Messages)]
      /\ \A u \in Screens : u \in clients' \union worker'[s].todo => u \in clients \union worker[s].todo
  BY <1>1, <1>3, Known DEF Good
<1>. QED
  BY <1>1, <1>2, <1>3, <1>5, <1>6, <1>7, WorkerStep

LEMMA NextInv == ChatInv /\ [Next]_vars => ChatInv'
<1> SUFFICES ASSUME ChatInv, [Next]_vars PROVE ChatInv'
  OBVIOUS
<1>1. CASE UNCHANGED vars
  BY <1>1 DEF vars, ChatInv, TypeOK, StartInv, FetchInv, WorkerInv, ItemInv, EntitledInv, WireInv
<1>2. CASE Bidders
  BY <1>2, BiddersKeep
<1>3. CASE \E m \in Messages : CancelNotice(m)
  BY <1>3, CancelNoticeKeeps
<1>4. ASSUME NEW s \in Screens, App(s) PROVE ChatInv'
  BY <1>4, OpenScreenKeeps, LoadKeeps, FetchFailsKeeps, ConnectKeeps, RequestKeeps, RefreshKeeps,
     ReceiveKeeps, DisposeKeeps, SocketDiesKeeps, SendKeeps DEF App
<1>5. ASSUME NEW s \in Screens, Service(s) PROVE ChatInv'
  BY <1>5, RequestKeeps, AdmitKeeps, GoroutineKeeps, ReadFrameKeeps, SendMessageKeeps,
     CopyClientsKeeps, DeliverKeeps DEF Service
<1>. QED
  BY <1>1, <1>2, <1>3, <1>4, <1>5 DEF Next

LEMMA ChatCorrect == Spec => []ChatInv
BY InitInv, NextInv, PTL DEF Spec

\* Screens, sockets, requests and goroutines keep their types, for any number
\* of each (chat_handler.go, chat_screen.dart).
THEOREM TypeCorrect == Spec => []TypeOK
<1>1. ChatInv => TypeOK
  BY DEF ChatInv
<1>. QED
  BY <1>1, ChatCorrect, PTL

\* However history, polls and socket overlap, no screen lists a message twice.
THEOREM NothingListedTwice == Spec => []ListedOnce
<1>1. ChatInv => ListedOnce
  BY DEF ChatInv, ItemInv, ListedOnce
<1>. QED
  BY <1>1, ChatCorrect, PTL

\* Nothing is shown, or on its way to a screen, that is not in the table.
THEOREM ShownSaved == Spec => []ShownIsSaved
<1>1. ChatInv => ShownIsSaved
  <2> SUFFICES ASSUME ChatInv, NEW s \in Screens, NEW m \in Messages,
                      screen[s].items[m] > 0 \/ \E i \in 1..Len(wire[s]) : wire[s][i] = m
               PROVE  m \in saved
    BY DEF ShownIsSaved
  <2>1. screen[s].items[m] \in {0, 1} /\ (screen[s].items[m] = 1 => m \in saved)
    BY DEF ChatInv, ItemInv
  <2>2. \A i \in 1..Len(wire[s]) : wire[s][i] \in saved
    BY DEF ChatInv, WireInv
  <2>. QED
    BY <2>1, <2>2
<1>. QED
  BY <1>1, ChatCorrect, PTL

\* Nobody is sent what was said while they had no right to read, however stale
\* the list of clients that a broadcast works through.
THEOREM HeardEntitled == Spec => []HeardWhileEntitled
<1>1. ChatInv => HeardWhileEntitled
  BY DEF ChatInv, WireInv, HeardWhileEntitled
<1>. QED
  BY <1>1, ChatCorrect, PTL
=============================================================================
