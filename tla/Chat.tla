--------------------------------- MODULE Chat ---------------------------------
(***************************************************************************)
(* The chat of one job: the communication service's history request, its   *)
(* WebSocket handler with one goroutine per connection and the broadcast,  *)
(* and the chat screens of the two apps, which load the history, open a    *)
(* socket and poll the history again every 15 seconds.  Who may take part  *)
(* follows the marketplace's bids and changes at any moment.  Typing       *)
(* indicators leave no trace and are left out.                             *)
(***************************************************************************)
EXTENDS Naturals, Sequences

CONSTANTS Customers, Providers,
          Screens,    \* chat screens ever opened, each with its one socket
          UserOf,     \* who looks at a screen
          Messages,   \* message ids
          None

ASSUME UserAssumption == UserOf \in [Screens -> Customers \union Providers]
ASSUME NoneAssumption == None \notin Messages

VARIABLES stage, members, \* who takes part, see Conversation
          unsent,    \* message ids not used so far
          saved,     \* the job's rows of the table messages
          entitled,  \* history: who was let in at some moment since a message was saved
          conn,      \* each screen's socket
          clients,   \* ChatHandler.clients: the sockets a broadcast goes to
          inbox,     \* frames from a screen to the server
          wire,      \* frames from the server to a screen
          worker,    \* the goroutine that serves each socket
          fetch,     \* each screen's request for the history
          screen     \* what each screen shows

Talk == INSTANCE Conversation

bidVars    == <<stage, members, entitled>>
serverVars == <<saved, clients, worker>>
vars == <<stage, members, unsent, saved, entitled, conn, clients, inbox, wire, worker, fetch, screen>>

Worker == [step : {"off", "admitted", "reading"}, msg : {None}, todo : {{}}]
          \union [step : {"saving", "saved", "sending"}, msg : Messages,
                  todo : SUBSET Screens]        \* clients the broadcast has yet to reach
Fetch  == [step : {"none", "asked", "allowed", "refused", "answered"}, got : SUBSET Messages]
Screen == [step    : {"unopened", "loading", "loaded", "live", "abandoned", "gone"},
           items   : [Messages -> Nat],         \* how often each message is listed
           stopped : BOOLEAN]                   \* the history timer was cancelled

NoWork  == [step |-> "off", msg |-> None, todo |-> {}]
Reading == [NoWork EXCEPT !.step = "reading"]
Blank   == [m \in Messages |-> 0]
NoFetch == [step |-> "none", got |-> {}]
Allowed(s) == UserOf[s] \in members

Init == /\ Talk!Begun
        /\ unsent = Messages
        /\ saved = {}
        /\ entitled = [m \in Messages |-> {}]
        /\ conn = [s \in Screens |-> "none"]
        /\ clients = {}
        /\ inbox = [s \in Screens |-> <<>>]
        /\ wire = [s \in Screens |-> <<>>]
        /\ worker = [s \in Screens |-> NoWork]
        /\ fetch = [s \in Screens |-> NoFetch]
        /\ screen = [s \in Screens |-> [step |-> "unopened", items |-> Blank, stopped |-> FALSE]]

-----------------------------------------------------------------------------
(* The marketplace: bids make providers participants, rejection ends it,   *)
(* and cancelling a job leaves a message that is broadcast to nobody.      *)

Bidders == /\ Talk!Bidders
           /\ entitled' = [m \in Messages |-> IF m \in saved THEN entitled[m] \union members' ELSE entitled[m]]
           /\ UNCHANGED <<unsent, serverVars, conn, inbox, wire, fetch, screen>>

SaveMessage(m) == /\ saved' = saved \union {m}
                  /\ entitled' = [entitled EXCEPT ![m] = @ \union members]

CancelNotice(m) == /\ Talk!Cancel
                   /\ m \in unsent
                   /\ unsent' = unsent \ {m}
                   /\ SaveMessage(m)
                   /\ UNCHANGED <<clients, worker, conn, inbox, wire, fetch, screen>>

-----------------------------------------------------------------------------
(* The chat screen. *)

OpenScreen(s) ==
    /\ screen[s].step = "unopened"
    /\ screen' = [screen EXCEPT ![s].step = "loading"]
    /\ fetch' = [fetch EXCEPT ![s].step = "asked"]
    /\ UNCHANGED <<bidVars, serverVars, unsent, conn, inbox, wire>>

\* The first answer fills the list; a refusal or a failure leaves it empty.
Load(s) ==
    /\ screen[s].step = "loading" /\ fetch[s].step \in {"answered", "refused"}
    /\ screen' = [screen EXCEPT ![s].step = "loaded",
                                ![s].items = [m \in Messages |-> IF m \in fetch[s].got THEN 1 ELSE 0]]
    /\ fetch' = [fetch EXCEPT ![s] = NoFetch]
    /\ UNCHANGED <<bidVars, serverVars, unsent, conn, inbox, wire>>

\* The request times out, or the service is down: the next poll tries again.
FetchFails(s) ==
    /\ fetch[s].step # "none"
    /\ fetch' = [fetch EXCEPT ![s] = NoFetch]
    /\ screen' = [screen EXCEPT ![s].step = IF @ = "loading" THEN "loaded" ELSE @]
    /\ UNCHANGED <<bidVars, serverVars, unsent, conn, inbox, wire>>

\* After the bids were fetched, too; nobody asks whether the screen is still there.
Connect(s) ==
    /\ screen[s].step \in {"loaded", "abandoned"}
    /\ screen' = [screen EXCEPT ![s].step = IF @ = "loaded" THEN "live" ELSE "gone"]
    /\ conn' = [conn EXCEPT ![s] = "pending"]
    /\ UNCHANGED <<bidVars, serverVars, unsent, inbox, wire, fetch>>

\* Slip: a screen polls while its socket is up, and not otherwise.
PollConnected(s) ==
    /\ screen[s].step = "live" /\ ~screen[s].stopped
    /\ conn[s] = "open"
    /\ fetch[s].step = "none"
    /\ fetch' = [fetch EXCEPT ![s].step = "asked"]
    /\ UNCHANGED <<bidVars, serverVars, unsent, conn, inbox, wire, screen>>

Poll(s) ==
    /\ screen[s].step = "live" /\ ~screen[s].stopped
    /\ fetch[s].step = "none"
    /\ fetch' = [fetch EXCEPT ![s].step = "asked"]
    /\ UNCHANGED <<bidVars, serverVars, unsent, conn, inbox, wire, screen>>

\* Messages the screen does not know yet are added; a refusal ends socket and
\* timer for good.
Refresh(s) ==
    /\ screen[s].step = "live" /\ fetch[s].step \in {"answered", "refused"}
    /\ IF fetch[s].step = "refused"
       THEN /\ screen' = [screen EXCEPT ![s].stopped = TRUE]
            /\ conn' = [conn EXCEPT ![s] = "dead"]
       ELSE /\ screen' = [screen EXCEPT ![s].items =
                            [m \in Messages |-> IF m \in fetch[s].got /\ @[m] = 0 THEN 1 ELSE @[m]]]
            /\ UNCHANGED conn
    /\ fetch' = [fetch EXCEPT ![s] = NoFetch]
    /\ UNCHANGED <<bidVars, serverVars, unsent, inbox, wire>>

\* The text field is cleared whether or not the socket still works.
Send(s, m) ==
    /\ screen[s].step = "live"
    /\ m \in unsent
    /\ unsent' = unsent \ {m}
    /\ inbox' = IF conn[s] \in {"pending", "open"} THEN [inbox EXCEPT ![s] = Append(@, m)] ELSE inbox
    /\ UNCHANGED <<bidVars, serverVars, conn, wire, fetch, screen>>

\* Slip: a message that came is listed, known or not.
ListedAgain(items, m) == [items EXCEPT ![m] = @ + 1]

Listed(items, m) == IF items[m] = 0 THEN [items EXCEPT ![m] = 1] ELSE items

Receive(s) ==
    /\ wire[s] # <<>>
    /\ wire' = [wire EXCEPT ![s] = Tail(@)]
    /\ screen' = IF screen[s].step = "live" THEN [screen EXCEPT ![s].items = Listed(@, Head(wire[s]))]
                 ELSE screen
    /\ UNCHANGED <<bidVars, serverVars, unsent, conn, inbox, fetch>>

\* dispose closes the socket of a live screen; one that is still loading goes
\* on to open its socket, which then nobody closes.
Dispose(s) ==
    /\ \/ /\ screen[s].step = "live"
          /\ screen' = [screen EXCEPT ![s].step = "gone", ![s].items = Blank]
          /\ conn' = [conn EXCEPT ![s] = "dead"]
          /\ wire' = [wire EXCEPT ![s] = <<>>]
       \/ /\ screen[s].step \in {"loading", "loaded"}
          /\ screen' = [screen EXCEPT ![s].step = "abandoned", ![s].items = Blank]
          /\ UNCHANGED <<conn, wire>>
    /\ fetch' = [fetch EXCEPT ![s] = NoFetch]
    /\ UNCHANGED <<bidVars, serverVars, unsent, inbox>>

\* The network drops the socket with what was on its way to the screen.
SocketDies(s) ==
    /\ conn[s] \in {"pending", "open"}
    /\ conn' = [conn EXCEPT ![s] = "dead"]
    /\ wire' = [wire EXCEPT ![s] = <<>>]
    /\ UNCHANGED <<bidVars, serverVars, unsent, inbox, fetch, screen>>

-----------------------------------------------------------------------------
(* The communication service. *)

\* GetChatHistory authorizes, then reads.
HistoryAuthorize(s) ==
    /\ fetch[s].step = "asked"
    /\ fetch' = [fetch EXCEPT ![s].step = IF Allowed(s) THEN "allowed" ELSE "refused"]
    /\ UNCHANGED <<bidVars, serverVars, unsent, conn, inbox, wire, screen>>

HistoryRead(s) ==
    /\ fetch[s].step = "allowed"
    /\ fetch' = [fetch EXCEPT ![s] = [step |-> "answered", got |-> saved]]
    /\ UNCHANGED <<bidVars, serverVars, unsent, conn, inbox, wire, screen>>

\* Whatever goes wrong with the database is answered like a stranger's request;
\* rows that stop coming halfway pass for all the rows there are.
HistoryFails(s) ==
    /\ \/ /\ fetch[s].step \in {"asked", "allowed"}
          /\ fetch' = [fetch EXCEPT ![s].step = "refused"]
       \/ /\ fetch[s].step = "allowed"
          /\ \E some \in SUBSET saved : fetch' = [fetch EXCEPT ![s] = [step |-> "answered", got |-> some]]
    /\ UNCHANGED <<bidVars, serverVars, unsent, conn, inbox, wire, screen>>

\* HandleWebSocket authorizes, upgrades, and then adds the client.
Admit(s) ==
    /\ conn[s] = "pending"
    /\ IF Allowed(s)
       THEN /\ conn' = [conn EXCEPT ![s] = "open"]
            /\ worker' = [worker EXCEPT ![s].step = "admitted"]
       ELSE /\ conn' = [conn EXCEPT ![s] = "closed"]
            /\ UNCHANGED worker
    /\ UNCHANGED <<bidVars, unsent, saved, clients, inbox, wire, fetch, screen>>

AddClient(s) ==
    /\ worker[s].step = "admitted"
    /\ clients' = clients \union {s}
    /\ worker' = [worker EXCEPT ![s] = Reading]
    /\ UNCHANGED <<bidVars, unsent, saved, conn, inbox, wire, fetch, screen>>

\* removeClient closes the socket.
RemoveClient(s) ==
    /\ clients' = clients \ {s}
    /\ conn' = [conn EXCEPT ![s] = "closed"]
    /\ worker' = [worker EXCEPT ![s] = NoWork]

\* The next frame; a sender who is no participant any more is cut off.
ReadFrame(s) ==
    /\ worker[s].step = "reading"
    /\ inbox[s] # <<>> /\ conn[s] # "closed"
    /\ inbox' = [inbox EXCEPT ![s] = Tail(@)]
    /\ IF Allowed(s)
       THEN /\ worker' = [worker EXCEPT ![s] = [Reading EXCEPT !.step = "saving", !.msg = Head(inbox[s])]]
            /\ UNCHANGED <<clients, conn>>
       ELSE RemoveClient(s)
    /\ UNCHANGED <<bidVars, unsent, saved, wire, fetch, screen>>

\* The socket is gone, or the database did not answer the authorization.
Hangup(s) ==
    /\ worker[s].step = "reading"
    /\ conn[s] \in {"dead", "closed"} \/ inbox[s] # <<>>
    /\ RemoveClient(s)
    /\ UNCHANGED <<bidVars, unsent, saved, inbox, wire, fetch, screen>>

\* SendMessage authorizes once more and saves the row.
SendMessage(s) ==
    /\ worker[s].step = "saving"
    /\ Allowed(s)
    /\ SaveMessage(worker[s].msg)
    /\ worker' = [worker EXCEPT ![s].step = "saved"]
    /\ UNCHANGED <<stage, members, unsent, clients, conn, inbox, wire, fetch, screen>>

\* Slip: a message that could not be saved is broadcast all the same.
SaveFailsAnyway(s) ==
    /\ worker[s].step = "saving"
    /\ worker' = [worker EXCEPT ![s].step = "saved"]
    /\ UNCHANGED <<bidVars, unsent, saved, clients, conn, inbox, wire, fetch, screen>>

\* Slip: the last frame is still in the reader's hands when it reads the next.
SaveFailsHeld(s) ==
    /\ worker[s].step = "saving"
    /\ worker' = [worker EXCEPT ![s].step = "reading"]
    /\ UNCHANGED <<bidVars, unsent, saved, clients, conn, inbox, wire, fetch, screen>>

\* Not a participant any more, an empty message, or the database is down.
SaveFails(s) ==
    /\ worker[s].step = "saving"
    /\ worker' = [worker EXCEPT ![s] = Reading]
    /\ UNCHANGED <<bidVars, unsent, saved, clients, conn, inbox, wire, fetch, screen>>

\* The broadcast copies the list of clients and works through the copy.
CopyClients(s) ==
    /\ worker[s].step = "saved"
    /\ worker' = [worker EXCEPT ![s].step = "sending", ![s].todo = clients]
    /\ UNCHANGED <<bidVars, unsent, saved, clients, conn, inbox, wire, fetch, screen>>

\* Slip: a client was authorized when it joined; the broadcast does not ask again.
MayHearAlways(t) == conn[t] = "open"

MayHear(t) == conn[t] = "open" /\ Allowed(t)

\* The next client is authorized and written to, or closed: when it is no
\* participant, the database does not answer, or the write fails.
Deliver(s, t) ==
    /\ worker[s].step = "sending" /\ t \in worker[s].todo
    /\ worker' = [worker EXCEPT ![s].todo = @ \ {t}]
    /\ \/ /\ MayHear(t)
          /\ wire' = [wire EXCEPT ![t] = Append(@, worker[s].msg)]
          /\ UNCHANGED conn
       \/ conn' = [conn EXCEPT ![t] = "closed"] /\ UNCHANGED wire
    /\ UNCHANGED <<bidVars, unsent, saved, clients, inbox, fetch, screen>>

BroadcastDone(s) ==
    /\ worker[s].step = "sending" /\ worker[s].todo = {}
    /\ worker' = [worker EXCEPT ![s] = Reading]
    /\ UNCHANGED <<bidVars, unsent, saved, clients, conn, inbox, wire, fetch, screen>>

-----------------------------------------------------------------------------
App(s) == \/ OpenScreen(s) \/ Load(s) \/ FetchFails(s) \/ Connect(s) \/ Poll(s) \/ Refresh(s)
          \/ Receive(s) \/ Dispose(s) \/ SocketDies(s)
          \/ \E m \in Messages : Send(s, m)

Service(s) == \/ HistoryAuthorize(s) \/ HistoryRead(s) \/ HistoryFails(s) \/ Admit(s) \/ AddClient(s)
              \/ ReadFrame(s) \/ Hangup(s) \/ SendMessage(s) \/ SaveFails(s) \/ CopyClients(s)
              \/ BroadcastDone(s) \/ \E t \in Screens : Deliver(s, t)

Next == \/ Bidders
        \/ \E m \in Messages : CancelNotice(m)
        \/ \E s \in Screens : App(s) \/ Service(s)

Spec == Init /\ [][Next]_vars

\* The timer ticks, a screen gets on with its start, a request is answered or
\* times out after ten seconds, and of the history requests neither the refusals nor the complete answers are lost every time.
Fairness ==
    \A s \in Screens :
        /\ WF_vars(Connect(s)) /\ WF_vars(Poll(s)) /\ WF_vars(Refresh(s) \/ FetchFails(s))
        /\ SF_vars(HistoryAuthorize(s)) /\ SF_vars(HistoryRead(s))
        /\ SF_vars(Refresh(s) /\ fetch[s].step = "refused")
        /\ SF_vars(Refresh(s) /\ fetch[s].got = saved)

FairSpec == Spec /\ Fairness

-----------------------------------------------------------------------------
(* Correctness properties. *)

\* Every variable has its type.
TypeOK == /\ stage \in Talk!Stages
          /\ members \subseteq Customers \union Providers
          /\ unsent \subseteq Messages
          /\ saved \subseteq Messages
          /\ entitled \in [Messages -> SUBSET (Customers \union Providers)]
          /\ conn \in [Screens -> {"none", "pending", "open", "dead", "closed"}]
          /\ clients \subseteq Screens
          /\ inbox \in [Screens -> Seq(Messages)]
          /\ wire \in [Screens -> Seq(Messages)]
          /\ worker \in [Screens -> Worker]
          /\ fetch \in [Screens -> Fetch]
          /\ screen \in [Screens -> Screen]

\* However history, polls and the socket overlap, no message is listed twice.
ListedOnce == \A s \in Screens, m \in Messages : screen[s].items[m] <= 1

\* Nobody is shown a message that is not in the table: what one side saw is
\* there for the other, and after a restart.
ShownIsSaved ==
    \A s \in Screens, m \in Messages :
        (screen[s].items[m] > 0 \/ \E i \in 1..Len(wire[s]) : wire[s][i] = m) => m \in saved

\* A broadcast writes to a user only what was saved while, or before, that
\* user had the right to read: a provider whose bid was rejected hears nothing
\* of what was said afterwards, however stale the list of clients.
HeardWhileEntitled ==
    \A s \in Screens : \A i \in 1..Len(wire[s]) : UserOf[s] \in entitled[wire[s][i]]

\* Whatever sockets break and requests fail, a saved message comes to every
\* screen that stays open and was not refused the history.
EveryMessageShown ==
    \A s \in Screens, m \in Messages :
        (m \in saved /\ screen[s].step = "live") ~>
            (screen[s].items[m] > 0 \/ screen[s].step = "gone" \/ screen[s].stopped)

\* A screen gives up only on those who may lose the right to read; the job's
\* customer never does.
OutageIsRetried == \A s \in Screens : screen[s].stopped => UserOf[s] \notin Customers
=============================================================================
