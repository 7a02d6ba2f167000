------------------------------- MODULE Posting -------------------------------
(***************************************************************************)
(* A customer posts a job: the create-job screen, which tells a retry from *)
(* a new request, and the marketplace service, which looks for the         *)
(* request's job, checks the dates, inserts the job unless it is there,    *)
(* and reads it again.  The screen stops waiting after ten seconds while   *)
(* its request goes on, so several attempts of one request run at once.    *)
(* A request's identity is the number of the attempt that drew it; Details *)
(* are what the customer sees on the review page.                          *)
(***************************************************************************)
EXTENDS Naturals

CONSTANTS Details,      \* what a booking can say
          MaxAttempts,  \* bound on the attempts to submit
          MaxDrafts,    \* bound on the edits
          None          \* no row, nothing submitted yet

ASSUME BoundAssumption == MaxAttempts \in Nat /\ MaxDrafts \in Nat
ASSUME NoneAssumption  == None \notin Details

Attempts == 1..MaxAttempts
Ids      == 0..MaxAttempts    \* 0: none drawn yet
Drafts   == 0..MaxDrafts

\* A job, with the attempt that built it: its clock sets scheduled_at and
\* created_at, so two attempts of one request build different jobs.
Row == [details : Details, by : Attempts]

ASSUME RowAssumption == None \notin Row

VARIABLES form,       \* the details in the form
          last,       \* _submissionFingerprint
          requestID,  \* _requestID
          page,       \* what the screen shows
          created,    \* _createdJob
          sent,       \* the number of attempts so far; the screen waits for the last
          attempts,   \* the handlers of PostJob
          jobs,       \* the rows of the table jobs, by request
          draft       \* history: how often the form was edited or started anew

screenVars == <<form, last, requestID, page, created, draft>>
vars == <<screenVars, sent, attempts, jobs>>

Page     == {"form", "submitting", "failed", "posted"}
Attempt  == [step : {"unsent", "looking", "absent", "stored", "answered", "failed"},
             id : Ids, details : Details \union {None}, draft : Drafts,
             job : Row \union {None}]
NoAttempt == [step |-> "unsent", id |-> 0, details |-> None, draft |-> 0, job |-> None]
Built(n) == [details |-> attempts[n].details, by |-> n]
Stored(n) == jobs[attempts[n].id]

Init == /\ form \in Details
        /\ last = None /\ requestID = 0
        /\ page = "form" /\ created = None
        /\ sent = 0
        /\ attempts = [n \in Attempts |-> NoAttempt]
        /\ jobs = [i \in Ids |-> None]
        /\ draft = 0

-----------------------------------------------------------------------------
(* The screen. *)

Edit(d) ==
    /\ page = "form"
    /\ d # form
    /\ draft < MaxDrafts
    /\ form' = d
    /\ draft' = draft + 1
    /\ UNCHANGED <<last, requestID, page, created, sent, attempts, jobs>>

\* Slips: the identity is drawn once and kept; it is drawn for every attempt.
RequestIDKept(n)  == IF last = None THEN n ELSE requestID
RequestIDFresh(n) == n
RequestID(n)      == IF last = form THEN requestID ELSE n

\* _submit, from the review page or with RETRY.
Submit ==
    LET n == sent + 1
    IN  /\ page \in {"form", "failed"}
        /\ n \in Attempts
        /\ requestID' = RequestID(n)
        /\ last' = form
        /\ sent' = n
        /\ attempts' = [attempts EXCEPT ![n] =
               [step |-> "looking", id |-> RequestID(n), details |-> form, draft |-> draft, job |-> None]]
        /\ page' = "submitting"
        /\ UNCHANGED <<form, created, jobs, draft>>

\* The answer to the attempt the screen waits for.
Reply ==
    /\ page = "submitting"
    /\ \/ attempts[sent].step = "answered" /\ page' = "posted"
       \/ attempts[sent].step = "failed" /\ page' = "failed"
    /\ created' = attempts[sent].job
    /\ UNCHANGED <<form, last, requestID, draft, sent, attempts, jobs>>

\* The answer does not come in time, or is lost.
TimeOut == /\ page = "submitting"
           /\ page' = "failed"
           /\ UNCHANGED <<form, last, requestID, created, draft, sent, attempts, jobs>>

Back == /\ page = "failed"
        /\ page' = "form"
        /\ UNCHANGED <<form, last, requestID, created, draft, sent, attempts, jobs>>

\* HOME after a success, or the app is closed at any moment; another booking.
StartAnew(d) ==
    /\ draft < MaxDrafts
    /\ form' = d
    /\ last' = None /\ requestID' = 0
    /\ page' = "form" /\ created' = None
    /\ draft' = draft + 1
    /\ UNCHANGED <<sent, attempts, jobs>>

-----------------------------------------------------------------------------
(* PostJob. *)

\* Slip: whatever the look brings is the answer.
LookUnchecked(n) ==
    /\ attempts[n].step = "looking"
    /\ attempts' = [attempts EXCEPT ![n].step = "answered", ![n].job = Stored(n)]
    /\ UNCHANGED <<screenVars, sent, jobs>>

\* A job that is there is the answer; a look that fails finds none.
Look(n) ==
    /\ attempts[n].step = "looking"
    /\ \/ /\ Stored(n) # None
          /\ attempts' = [attempts EXCEPT ![n].step = "answered", ![n].job = Stored(n)]
       \/ attempts' = [attempts EXCEPT ![n].step = "absent"]
    /\ UNCHANGED <<screenVars, sent, jobs>>

\* Slip: ON CONFLICT DO UPDATE.
InsertedOver(n) == [jobs EXCEPT ![attempts[n].id] = Built(n)]
Inserted(n)     == IF Stored(n) = None THEN [jobs EXCEPT ![attempts[n].id] = Built(n)] ELSE jobs

\* The dates are good and the insert does its work; its success may be lost on
\* the way back.
CreateJob(n) ==
    /\ attempts[n].step = "absent"
    /\ jobs' = Inserted(n)
    /\ \E step \in {"stored", "failed"} : attempts' = [attempts EXCEPT ![n].step = step]
    /\ UNCHANGED <<screenVars, sent>>

\* Slip: the job is answered as it was built.
ReadBackBuilt(n) == Built(n)
ReadBack(n)      == Stored(n)

Reread(n) ==
    /\ attempts[n].step = "stored"
    /\ attempts' = [attempts EXCEPT ![n].step = "answered", ![n].job = ReadBack(n)]
    /\ UNCHANGED <<screenVars, sent, jobs>>

\* The dates have gone by meanwhile, the database fails, the caller hung up.
Fail(n) ==
    /\ attempts[n].step \in {"looking", "absent", "stored"}
    /\ attempts' = [attempts EXCEPT ![n].step = "failed"]
    /\ UNCHANGED <<screenVars, sent, jobs>>

-----------------------------------------------------------------------------
Next == \/ Submit \/ Reply \/ TimeOut \/ Back
        \/ \E d \in Details : Edit(d) \/ StartAnew(d)
        \/ \E n \in Attempts : Look(n) \/ CreateJob(n) \/ Reread(n) \/ Fail(n)

Spec == Init /\ [][Next]_vars

-----------------------------------------------------------------------------
(* Correctness properties. *)

\* Every variable has its type, and the success page has a job to show.
TypeOK == /\ form \in Details
          /\ last \in Details \union {None}
          /\ requestID \in Ids
          /\ page \in Page
          /\ created \in Row \union {None}
          /\ sent \in Ids
          /\ attempts \in [Attempts -> Attempt]
          /\ jobs \in [Ids -> Row \union {None}]
          /\ draft \in Drafts
          /\ page = "posted" => created # None

\* What the success page shows, the details the customer reviewed and the job's
\* reference and time, is the row that is stored, now and after every older
\* attempt of the request has run to its end.
ShownIsStored ==
    page = "posted" => created = jobs[requestID] /\ created.details = form

\* docs/odg-screen-review.md:43 "A retry of the same draft returns the original
\* persisted request": one draft makes one job, however often it is retried,
\* whichever attempts still run, and whether or not their answers came.
OneJobPerDraft ==
    \A i, k \in Ids : jobs[i] # None /\ jobs[k] # None
                        /\ attempts[jobs[i].by].draft = attempts[jobs[k].by].draft => i = k
=============================================================================
