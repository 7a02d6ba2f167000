---------------------------- MODULE PostingProofs ----------------------------
(***************************************************************************)
(* Proofs about Posting for any number of attempts, edits and details.     *)
(* What makes a retry safe is how drafts, identities and details hang      *)
(* together over all attempts ever made: one draft has one identity        *)
(* (DraftInv), and the identity in use has one set of details              *)
(* (RequestInv), so every attempt of it would store the same job.          *)
(***************************************************************************)
EXTENDS Posting, TLAPS

Made == {n \in Attempts : n <= sent}

SentInv == \A n \in Attempts :
    IF n <= sent THEN /\ attempts[n].step # "unsent"
                      /\ attempts[n].id \in 1..n
                      /\ attempts[n].details \in Details
                 ELSE attempts[n].step = "unsent"

DraftInv == /\ \A n \in Made : /\ attempts[n].draft <= draft
                               /\ attempts[n].draft = draft => last = form /\ attempts[n].id = requestID
            /\ \A n, m \in Made : attempts[n].draft = attempts[m].draft => attempts[n].id = attempts[m].id

RequestInv == last # None =>
    /\ sent \in Attempts /\ attempts[sent].id = requestID
    /\ \A n \in Made : attempts[n].id = requestID => attempts[n].details = last

JobInv == \A i \in Ids : jobs[i] # None =>
    /\ jobs[i].by \in Made
    /\ attempts[jobs[i].by].id = i
    /\ attempts[jobs[i].by].details = jobs[i].details

AnswerInv == \A n \in Attempts :
    /\ attempts[n].step = "answered" => attempts[n].job = Stored(n) /\ Stored(n) # None
    /\ attempts[n].step = "stored" => Stored(n) # None

PageInv == /\ page # "form" => last = form
           /\ page = "posted" => created = jobs[requestID]

PostInv == TypeOK /\ SentInv /\ DraftInv /\ RequestInv /\ JobInv /\ AnswerInv /\ PageInv

LEMMA InitInv == Init => PostInv
<1> SUFFICES ASSUME Init PROVE PostInv
  OBVIOUS
<1>1. NoAttempt \in Attempt /\ NoAttempt.step = "unsent" /\ Made = {} /\ 0 \in Ids
  BY BoundAssumption DEF Init, NoAttempt, Attempt, Made, Ids, Drafts, Attempts
<1>2. TypeOK
  BY <1>1, BoundAssumption DEF Init, TypeOK, Page, Drafts
<1>. QED
  BY <1>1, <1>2, BoundAssumption
     DEF Init, PostInv, SentInv, DraftInv, RequestInv, JobInv, AnswerInv, PageInv, Attempts

\* An edit, or a new booking.
LEMMA NewDraft ==
  ASSUME PostInv, NEW d \in Details, draft < MaxDrafts, form' = d, draft' = draft + 1,
         UNCHANGED <<sent, attempts, jobs>>,
         page' = "form", created' \in {created, None},
         \/ last' = last /\ requestID' = requestID
         \/ last' = None /\ requestID' = 0
  PROVE  PostInv'
<1>1. Made' = Made /\ draft' \in Drafts /\ draft \in Nat /\ 0 \in Ids
      /\ \A n \in Made : n \in Attempts /\ attempts[n].draft \in Nat
  BY BoundAssumption DEF Made, PostInv, TypeOK, Drafts, Ids, Attempts, Attempt
<1>2. TypeOK'
  BY <1>1 DEF PostInv, TypeOK, Page
<1>3. SentInv' /\ JobInv' /\ AnswerInv' /\ PageInv'
  BY <1>1 DEF PostInv, SentInv, JobInv, AnswerInv, PageInv, Stored
<1>4. DraftInv'
  BY <1>1 DEF PostInv, DraftInv
<1>5. RequestInv'
  BY <1>1 DEF PostInv, RequestInv
<1>. QED
  BY <1>2, <1>3, <1>4, <1>5 DEF PostInv

LEMMA SubmitKeeps ==
  ASSUME PostInv, Submit
  PROVE  PostInv'
<1> DEFINE n == sent + 1  id == RequestID(n)
           new == [step |-> "looking", id |-> id, details |-> form, draft |-> draft, job |-> None]
<1>1. /\ n \in Attempts /\ requestID' = id /\ last' = form /\ sent' = n
      /\ attempts' = [attempts EXCEPT ![n] = new] /\ page' = "submitting"
      /\ UNCHANGED <<form, created, jobs, draft>>
  BY DEF Submit
<1>2. /\ sent \in Nat /\ n \in Nat /\ n \in Ids /\ form # None /\ form \in Details
      /\ Made' = Made \union {n} /\ n \notin Made /\ n \in Made'
      /\ \A m \in Made : m \in Attempts /\ m < n
  BY <1>1, BoundAssumption, NoneAssumption DEF PostInv, TypeOK, Ids, Attempts, Made
<1>3. /\ id \in 1..n
      /\ last = form => id = requestID
      /\ last # form => id = n
  <2>1. CASE last = form
    <3>1. sent \in Attempts /\ attempts[sent].id = requestID
      BY <1>2, <2>1 DEF PostInv, RequestInv
    <3>2. requestID \in 1..sent
      BY <1>2, <3>1 DEF PostInv, SentInv
    <3>. QED
      BY <1>2, <2>1, <3>2 DEF RequestID
  <2>2. CASE last # form
    BY <1>1, <1>2, <2>2 DEF RequestID, Attempts
  <2>. QED
    BY <2>1, <2>2
<1>4. id \in Ids /\ new \in Attempt
  BY <1>1, <1>2, <1>3, BoundAssumption DEF Attempt, Ids, Attempts, PostInv, TypeOK
<1>5. /\ attempts' \in [Attempts -> Attempt] /\ attempts'[n] = new
      /\ \A m \in Attempts \ {n} : attempts'[m] = attempts[m]
  BY <1>1, <1>4 DEF PostInv, TypeOK
<1>6. \A m \in Made : attempts'[m] = attempts[m]
  BY <1>2, <1>5
<1>7. TypeOK'
  BY <1>1, <1>2, <1>4, <1>5 DEF PostInv, TypeOK, Page
<1>8. SentInv'
  <2>1. /\ attempts'[n].step # "unsent" /\ attempts'[n].id \in 1..n /\ attempts'[n].details \in Details
    BY <1>2, <1>3, <1>5
  <2>2. \A m \in Attempts \ {n} : m <= sent' <=> m <= sent
    BY <1>1, <1>2 DEF Attempts
  <2>. QED
    BY <1>1, <1>2, <1>5, <2>1, <2>2 DEF PostInv, SentInv
<1>9. ASSUME NEW m \in Made, attempts[m].draft = draft
      PROVE  attempts[m].id = id
  BY <1>3, <1>9 DEF PostInv, DraftInv
<1>10. DraftInv'
  <2>1. attempts'[n].draft = draft /\ attempts'[n].id = id /\ draft \in Nat
    BY <1>5 DEF PostInv, TypeOK, Drafts
  <2>2. \A m \in Made : attempts[m].draft <= draft
    BY DEF PostInv, DraftInv
  <2>3. \A k, m \in Made' : attempts'[k].draft = attempts'[m].draft => attempts'[k].id = attempts'[m].id
    BY <1>2, <1>6, <1>9, <2>1 DEF PostInv, DraftInv
  <2>. QED
    BY <1>1, <1>2, <1>6, <1>9, <2>1, <2>2, <2>3 DEF DraftInv
<1>11. RequestInv'
  <2>1. attempts'[n].id = id /\ attempts'[n].details = form
    BY <1>5
  <2>2. ASSUME NEW m \in Made, attempts[m].id = id
        PROVE  attempts[m].details = form
    <3>1. attempts[m].id \in 1..m /\ m < n /\ m \in Attempts
      BY <1>2 DEF PostInv, SentInv, Made
    <3>2. id # n
      BY <1>2, <2>2, <3>1 DEF Attempts
    <3>. QED
      BY <1>2, <1>3, <2>2, <3>2 DEF PostInv, RequestInv
  <2>. QED
    BY <1>1, <1>2, <1>6, <2>1, <2>2 DEF RequestInv
<1>12. JobInv'
  BY <1>1, <1>2, <1>6 DEF PostInv, JobInv
<1>13. AnswerInv'
  <2>1. attempts'[n].step = "looking"
    BY <1>5
  <2>. QED
    BY <1>1, <1>5, <2>1 DEF PostInv, AnswerInv, Stored
<1>14. PageInv'
  BY <1>1 DEF PageInv
<1>. QED
  BY <1>7, <1>8, <1>10, <1>11, <1>12, <1>13, <1>14 DEF PostInv

\* DraftInv depends on drafts and identities alone.
LEMMA DraftStays ==
  ASSUME DraftInv, Made' = Made, draft' = draft, last' = last, form' = form, requestID' = requestID,
         \A m \in Made : attempts'[m].draft = attempts[m].draft /\ attempts'[m].id = attempts[m].id
  PROVE  DraftInv'
BY DEF DraftInv

\* A handler's step changes its step and its job, and never what was asked.
LEMMA HandlerStep ==
  ASSUME PostInv, NEW n \in Attempts, attempts[n].step # "unsent",
         NEW s \in {"absent", "stored", "answered", "failed"}, NEW j \in Row \union {None},
         attempts' = [attempts EXCEPT ![n].step = s, ![n].job = j], UNCHANGED <<screenVars, sent>>,
         jobs' \in [Ids -> Row \union {None}]
  PROVE  /\ TypeOK' /\ SentInv' /\ DraftInv' /\ RequestInv'
         /\ Made' = Made /\ n \in Made
         /\ attempts'[n].step = s /\ attempts'[n].job = j
         /\ \A m \in Attempts : /\ attempts'[m].id = attempts[m].id
                                /\ attempts'[m].details = attempts[m].details
                                /\ m # n => attempts'[m] = attempts[m]
<1>1. attempts[n] \in Attempt /\ attempts \in [Attempts -> Attempt]
  BY DEF PostInv, TypeOK
<1>2. /\ attempts'[n].step = s /\ attempts'[n].job = j /\ attempts'[n] \in Attempt
      /\ attempts'[n].id = attempts[n].id /\ attempts'[n].details = attempts[n].details
      /\ attempts'[n].draft = attempts[n].draft
  BY <1>1 DEF Attempt
<1>3. /\ attempts' \in [Attempts -> Attempt]
      /\ \A m \in Attempts \ {n} : attempts'[m] = attempts[m]
  BY <1>1, <1>2
<1>4. \A m \in Attempts : /\ attempts'[m].id = attempts[m].id
                          /\ attempts'[m].details = attempts[m].details
                          /\ attempts'[m].draft = attempts[m].draft
                          /\ attempts'[m].step = "unsent" <=> attempts[m].step = "unsent"
  BY <1>2, <1>3
<1>5. Made' = Made /\ n \in Made /\ Made \subseteq Attempts
  BY DEF Made, screenVars, PostInv, SentInv
<1>6. TypeOK'
  BY <1>3 DEF PostInv, TypeOK, screenVars
<1>7. SentInv'
  BY <1>4 DEF PostInv, SentInv
<1>8. DraftInv'
  <2>1. \A m \in Made : attempts'[m].draft = attempts[m].draft /\ attempts'[m].id = attempts[m].id
    BY <1>4, <1>5
  <2>2. draft' = draft /\ last' = last /\ form' = form /\ requestID' = requestID
    BY DEF screenVars
  <2>3. DraftInv
    BY DEF PostInv
  <2>. QED
    BY <1>5, <2>1, <2>2, <2>3, DraftStays
<1>9. RequestInv'
  BY <1>4, <1>5 DEF PostInv, RequestInv, screenVars
<1>. QED
  BY <1>2, <1>3, <1>4, <1>5, <1>6, <1>7, <1>8, <1>9

\* A step that leaves the table alone.
LEMMA HandlerKeeps ==
  ASSUME PostInv, NEW n \in Attempts, attempts[n].step # "unsent",
         NEW s \in {"absent", "answered", "failed"}, NEW j \in Row \union {None},
         attempts' = [attempts EXCEPT ![n].step = s, ![n].job = j],
         s = "answered" => j = Stored(n) /\ j # None,
         UNCHANGED <<screenVars, sent, jobs>>
  PROVE  PostInv'
<1>1. jobs' \in [Ids -> Row \union {None}] /\ jobs' = jobs /\ UNCHANGED <<screenVars, sent>>
  BY DEF PostInv, TypeOK
<1>2. /\ TypeOK' /\ SentInv' /\ DraftInv' /\ RequestInv'
      /\ Made' = Made /\ Made \subseteq Attempts
      /\ attempts'[n].step = s /\ attempts'[n].job = j
      /\ \A m \in Attempts : /\ attempts'[m].id = attempts[m].id
                             /\ attempts'[m].details = attempts[m].details
                             /\ m # n => attempts'[m] = attempts[m]
  BY <1>1, HandlerStep DEF Made
<1>3. JobInv'
  <2>1. ASSUME NEW i \in Ids, jobs[i] # None
        PROVE  /\ jobs[i].by \in Made
               /\ attempts'[jobs[i].by].id = i
               /\ attempts'[jobs[i].by].details = jobs[i].details
    <3>1. jobs[i].by \in Made /\ jobs[i].by \in Attempts /\ attempts[jobs[i].by].id = i
          /\ attempts[jobs[i].by].details = jobs[i].details
      BY <1>2, <2>1 DEF PostInv, JobInv
    <3>. QED
      BY <1>2, <3>1
  <2>. QED
    BY <1>1, <1>2, <2>1 DEF JobInv
<1>4. AnswerInv'
  <2>1. ASSUME NEW m \in Attempts
        PROVE  /\ attempts'[m].step = "answered" => attempts'[m].job = jobs[attempts'[m].id]
                                                    /\ jobs[attempts'[m].id] # None
               /\ attempts'[m].step = "stored" => jobs[attempts'[m].id] # None
    <3>1. CASE m = n
      BY <1>2, <3>1 DEF Stored
    <3>2. CASE m # n
      BY <1>2, <3>2 DEF PostInv, AnswerInv, Stored
    <3>. QED
      BY <3>1, <3>2
  <2>. QED
    BY <1>1, <2>1 DEF AnswerInv, Stored
<1>5. PageInv'
  BY <1>1 DEF PostInv, PageInv, screenVars
<1>. QED
  BY <1>2, <1>3, <1>4, <1>5 DEF PostInv

LEMMA CreateJobKeeps ==
  ASSUME PostInv, NEW n \in Attempts, CreateJob(n)
  PROVE  PostInv'
<1> DEFINE i == attempts[n].id
<1>1. PICK s \in {"stored", "failed"} : attempts' = [attempts EXCEPT ![n].step = s]
  BY DEF CreateJob
<1>2. attempts[n].step = "absent" /\ jobs' = Inserted(n) /\ UNCHANGED <<screenVars, sent>>
  BY DEF CreateJob
<1>3. attempts[n] \in Attempt /\ i \in Ids /\ n \in Made /\ attempts[n].details \in Details
  BY <1>2 DEF PostInv, TypeOK, SentInv, Attempt, Made
<1>4. Built(n) \in Row /\ Built(n).by = n /\ Built(n).details = attempts[n].details
  BY <1>3 DEF Built, Row
<1>5. /\ jobs' \in [Ids -> Row \union {None}]
      /\ jobs'[i] # None
      /\ \A k \in Ids : jobs'[k] = jobs[k] \/ (k = i /\ jobs[k] = None /\ jobs'[k] = Built(n))
  BY <1>2, <1>3, <1>4, RowAssumption DEF Inserted, Stored, PostInv, TypeOK
<1>6. attempts' = [attempts EXCEPT ![n].step = s, ![n].job = attempts[n].job]
  BY <1>1, <1>3 DEF PostInv, TypeOK, Attempt
<1>7. /\ TypeOK' /\ SentInv' /\ DraftInv' /\ RequestInv'
      /\ Made' = Made /\ Made \subseteq Attempts
      /\ attempts'[n].step = s
      /\ \A m \in Attempts : /\ attempts'[m].id = attempts[m].id
                             /\ attempts'[m].details = attempts[m].details
                             /\ m # n => attempts'[m] = attempts[m]
  <2>1. attempts[n].step # "unsent" /\ attempts[n].job \in Row \union {None}
        /\ s \in {"absent", "stored", "answered", "failed"}
    BY <1>2, <1>3 DEF Attempt
  <2>. QED
    BY <1>2, <1>5, <1>6, <2>1, HandlerStep DEF Made
<1>8. JobInv'
  BY <1>3, <1>4, <1>5, <1>7 DEF PostInv, JobInv
<1>9. ASSUME NEW m \in Attempts, jobs[attempts[m].id] # None
      PROVE  jobs'[attempts[m].id] = jobs[attempts[m].id]
  BY <1>5, <1>9 DEF PostInv, TypeOK, Attempt
<1>10. AnswerInv'
  <2>1. ASSUME NEW m \in Attempts
        PROVE  /\ attempts'[m].step = "answered" => attempts'[m].job = jobs'[attempts'[m].id]
                                                    /\ jobs'[attempts'[m].id] # None
               /\ attempts'[m].step = "stored" => jobs'[attempts'[m].id] # None
    <3>1. CASE m = n
      BY <1>5, <1>7, <3>1
    <3>2. CASE m # n
      BY <1>7, <1>9, <3>2 DEF PostInv, AnswerInv, Stored
    <3>. QED
      BY <3>1, <3>2
  <2>. QED
    BY <2>1 DEF AnswerInv, Stored
<1>11. PageInv'
  <2>1. page = "posted" => jobs[requestID] # None /\ requestID \in Ids
    BY DEF PostInv, PageInv, TypeOK
  <2>. QED
    BY <1>2, <1>5, <2>1 DEF PostInv, PageInv, screenVars
<1>. QED
  BY <1>7, <1>8, <1>10, <1>11 DEF PostInv

LEMMA ReplyKeeps ==
  ASSUME PostInv, Reply
  PROVE  PostInv'
<1>1. /\ page = "submitting" /\ page' \in {"posted", "failed"} /\ created' = attempts[sent].job
      /\ page' = "posted" => attempts[sent].step = "answered"
      /\ UNCHANGED <<form, last, requestID, draft, sent, attempts, jobs>>
  BY DEF Reply
<1>2. last # None /\ last = form /\ sent \in Attempts /\ attempts[sent].id = requestID
  BY <1>1, NoneAssumption DEF PostInv, PageInv, TypeOK, RequestInv
<1>3. attempts[sent] \in Attempt /\ created' \in Row \union {None}
      /\ (page' = "posted" => created' = jobs[requestID] /\ created' # None)
  BY <1>1, <1>2 DEF PostInv, TypeOK, AnswerInv, Stored, Attempt
<1>4. TypeOK' /\ PageInv'
  BY <1>1, <1>2, <1>3 DEF PostInv, TypeOK, PageInv, Page
<1>5. SentInv' /\ DraftInv' /\ RequestInv' /\ JobInv' /\ AnswerInv'
  BY <1>1 DEF PostInv, SentInv, DraftInv, RequestInv, JobInv, AnswerInv, Made, Stored
<1>. QED
  BY <1>4, <1>5 DEF PostInv

LEMMA NextInv == PostInv /\ [Next]_vars => PostInv'
<1> SUFFICES ASSUME PostInv, [Next]_vars PROVE PostInv'
  OBVIOUS
<1>1. CASE Submit
  BY <1>1, SubmitKeeps
<1>2. CASE Reply
  BY <1>2, ReplyKeeps
<1>3. CASE TimeOut \/ Back \/ UNCHANGED vars
  BY <1>3 DEF TimeOut, Back, vars, screenVars, PostInv, TypeOK, SentInv, DraftInv, RequestInv,
              JobInv, AnswerInv, PageInv, Page, Made, Stored
<1>4. CASE \E d \in Details : Edit(d) \/ StartAnew(d)
  BY <1>4, NewDraft DEF Edit, StartAnew
<1>5. ASSUME NEW n \in Attempts, Look(n) PROVE PostInv'
  <2>1. attempts[n].step = "looking" /\ attempts[n] \in Attempt /\ Stored(n) \in Row \union {None}
        /\ attempts[n].job \in Row \union {None} /\ UNCHANGED <<screenVars, sent, jobs>>
    BY <1>5 DEF Look, PostInv, TypeOK, Stored, Attempt
  <2>2. CASE Stored(n) # None
             /\ attempts' = [attempts EXCEPT ![n].step = "answered", ![n].job = Stored(n)]
    BY <2>1, <2>2, HandlerKeeps
  <2>3. CASE attempts' = [attempts EXCEPT ![n].step = "absent"]
    <3>1. attempts' = [attempts EXCEPT ![n].step = "absent", ![n].job = attempts[n].job]
      BY <2>1, <2>3 DEF PostInv, TypeOK, Attempt
    <3>. QED
      BY <2>1, <3>1, HandlerKeeps
  <2>. QED
    BY <1>5, <2>2, <2>3 DEF Look
<1>6. ASSUME NEW n \in Attempts, CreateJob(n) PROVE PostInv'
  BY <1>6, CreateJobKeeps
<1>7. ASSUME NEW n \in Attempts, Reread(n) PROVE PostInv'
  <2>1. /\ attempts[n].step = "stored" /\ Stored(n) \in Row \union {None} /\ Stored(n) # None
        /\ attempts' = [attempts EXCEPT ![n].step = "answered", ![n].job = Stored(n)]
        /\ UNCHANGED <<screenVars, sent, jobs>>
    BY <1>7 DEF Reread, ReadBack, PostInv, AnswerInv, TypeOK, Stored, Attempt
  <2>. QED
    BY <2>1, HandlerKeeps
<1>8. ASSUME NEW n \in Attempts, Fail(n) PROVE PostInv'
  <2>1. /\ attempts[n].step # "unsent" /\ attempts[n] \in Attempt
        /\ attempts[n].job \in Row \union {None}
        /\ attempts' = [attempts EXCEPT ![n].step = "failed"] /\ UNCHANGED <<screenVars, sent, jobs>>
    BY <1>8 DEF Fail, PostInv, TypeOK, Attempt
  <2>2. attempts' = [attempts EXCEPT ![n].step = "failed", ![n].job = attempts[n].job]
    BY <2>1 DEF PostInv, TypeOK, Attempt
  <2>. QED
    BY <2>1, <2>2, HandlerKeeps
<1>. QED
  BY <1>1, <1>2, <1>3, <1>4, <1>5, <1>6, <1>7, <1>8 DEF Next

LEMMA PostCorrect == Spec => []PostInv
BY InitInv, NextInv, PTL DEF Spec

\* Screen, attempts and rows keep their types, and a success page has a job to
\* show (create_job_screen.dart, _submit).
THEOREM TypeCorrect == Spec => []TypeOK
<1>1. PostInv => TypeOK
  BY DEF PostInv
<1>. QED
  BY <1>1, PostCorrect, PTL

\* For any number of attempts in flight, the job on the success page is the
\* stored one and has the reviewed details.
THEOREM ShownStored == Spec => []ShownIsStored
<1>1. PostInv => ShownIsStored
  <2> SUFFICES ASSUME PostInv, page = "posted"
               PROVE  created = jobs[requestID] /\ created.details = form
    BY DEF ShownIsStored
  <2>1. last = form /\ last # None /\ created = jobs[requestID] /\ created # None /\ requestID \in Ids
    BY NoneAssumption DEF PostInv, PageInv, TypeOK
  <2>. QED
    BY <2>1 DEF PostInv, JobInv, RequestInv
<1>. QED
  BY <1>1, PostCorrect, PTL

\* For any number of retries, edits and attempts in flight, one draft makes one
\* job.
THEOREM OneDraftOneJob == Spec => []OneJobPerDraft
<1>1. PostInv => OneJobPerDraft
  BY DEF PostInv, JobInv, DraftInv, OneJobPerDraft
<1>. QED
  BY <1>1, PostCorrect, PTL
=============================================================================
