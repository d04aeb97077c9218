-------------------------- MODULE JobHandlersProofs --------------------------
(***************************************************************************)
(* The job handlers, proved for every set of jobs, accounts and concurrent *)
(* requests: type correctness, the safety properties, that they implement  *)
(* JobLifecycle, and that no job stays unfinished for ever.  The safety    *)
(* properties rest on two facts about a step: what it may do to a row      *)
(* (RowStep) and what it may do to a request (WorkStep).                   *)
(***************************************************************************)
EXTENDS JobHandlers, FiniteSetTheorems, TLAPS
-----------------------------------------------------------------------------
(* The functions of the job entity return job rows.                        *)

LEMMA NewJobIsRow == NewJob \in Row
BY DEF NewJob, Row, JobStatus, Errors

LEMMA StartIsRow == ASSUME NEW r \in Row PROVE Start(r) \in Row
BY DEF Start, Row, JobStatus, Errors

LEMMA CompleteIsRow == ASSUME NEW r \in Row PROVE Complete(r) \in Row
BY DEF Complete, Row, JobStatus, Errors

LEMMA FailIsRow ==
  ASSUME NEW r \in Row, NEW e \in Errors PROVE Fail(r, e) \in Row
BY DEF Fail, Row, JobStatus, Errors

LEMMA RequestInputIsRow ==
  ASSUME NEW r \in Row, NEW q \in Questions PROVE RequestInput(r, q) \in Row
BY DEF RequestInput, Row, JobStatus, Errors

LEMMA ProvideAnswerIsRow ==
  ASSUME NEW r \in Row, NEW a \in Answers PROVE ProvideAnswer(r, a) \in Row
BY DEF ProvideAnswer, Row, JobStatus, Errors

LEMMA UsageIsRow ==
  ASSUME NEW r \in Row, NEW n \in Nat PROVE [r EXCEPT !.usage = n] \in Row
BY DEF Row
-----------------------------------------------------------------------------
(* Type correctness.                                                       *)

(* A handler that is busy holds a work item, of a job in the table.        *)
LEMMA WorkTyped ==
  ASSUME TypeOK, NEW h \in Handlers, work[h] # Idle
  PROVE  /\ work[h] \in Work
         /\ work[h].job \in Jobs
         /\ work[h].pc \notin {"append", "charge"} => work[h].copy \in Row
BY DEF TypeOK, Work

(* The three ways to change what a handler does keep it typed.             *)
LEMMA BeginTyped ==
  ASSUME TypeOK, NEW h \in Handlers, NEW pc \in Pcs, NEW j \in Jobs,
         NEW copy \in Row \cup {NoRow},
         pc \notin {"append", "charge"} => copy \in Row,
         Begin(h, pc, j, copy)
  PROVE  /\ work' \in [Handlers -> Work \cup {Idle}]
         /\ \A g \in Handlers :
              work'[g] # Idle /\ work'[g].pc \notin {"append", "charge"}
                => work'[g].copy \in Row
<1> DEFINE new == [pc |-> pc, job |-> j, copy |-> copy]
<1>1. new \in Work
  BY DEF Work
<1>2. new.pc \notin {"append", "charge"} => new.copy \in Row
  OBVIOUS
<1>3. work' = [work EXCEPT ![h] = new]
  BY DEF Begin
<1> HIDE DEF new
<1>4. QED
  BY <1>1, <1>2, <1>3 DEF TypeOK

LEMMA GoTyped ==
  ASSUME TypeOK, NEW h \in Handlers, work[h] # Idle, NEW pc \in Pcs,
         NEW copy \in Row, Go(h, pc, copy)
  PROVE  /\ work' \in [Handlers -> Work \cup {Idle}]
         /\ \A g \in Handlers :
              work'[g] # Idle /\ work'[g].pc \notin {"append", "charge"}
                => work'[g].copy \in Row
<1> DEFINE new == [pc |-> pc, job |-> work[h].job, copy |-> copy]
<1>1. new \in Work
  BY WorkTyped DEF Work
<1>2. new.copy \in Row
  OBVIOUS
<1>3. work' = [work EXCEPT ![h] = new]
  BY DEF Go
<1> HIDE DEF new
<1>4. QED
  BY <1>1, <1>2, <1>3 DEF TypeOK

LEMMA EndTyped ==
  ASSUME TypeOK, NEW h \in Handlers, End(h)
  PROVE  /\ work' \in [Handlers -> Work \cup {Idle}]
         /\ \A g \in Handlers :
              work'[g] # Idle /\ work'[g].pc \notin {"append", "charge"}
                => work'[g].copy \in Row
BY DEF TypeOK, End

LEMMA OverwriteTyped ==
  ASSUME TypeOK, NEW j \in Jobs, NEW copy \in Row, Overwrite(j, copy)
  PROVE  jobs' \in [Jobs -> Row \cup {NoRow}]
<1>1. CASE Exists(j)
  <2> DEFINE new == [copy EXCEPT !.usage = jobs[j].usage]
  <2>1. jobs[j] \in Row
    BY <1>1 DEF TypeOK, Exists
  <2>2. jobs[j].usage \in Nat
    BY <2>1 DEF Row
  <2>3. new \in Row
    BY <2>2, UsageIsRow
  <2>4. jobs' = [jobs EXCEPT ![j] = new]
    BY <1>1 DEF Overwrite
  <2> HIDE DEF new
  <2>5. QED
    BY <2>3, <2>4 DEF TypeOK
<1>2. CASE ~Exists(j)
  BY <1>2 DEF Overwrite, TypeOK
<1>3. QED
  BY <1>1, <1>2

LEMMA EraseTyped ==
  ASSUME TypeOK, NEW gone \in SUBSET Jobs, Erase(gone)
  PROVE  /\ jobs' \in [Jobs -> Row \cup {NoRow}]
         /\ results' \in [Jobs -> Deliveries \cup {NoDelivery}]
         /\ steps' \in [Jobs -> SUBSET Steps]
BY DEF TypeOK, Erase

LEMMA TypeInit == Init => TypeOK
BY DEF Init, TypeOK

LEMMA TypeStep == TypeOK /\ [Next]_vars => TypeOK'
<1> SUFFICES ASSUME TypeOK, [Next]_vars PROVE TypeOK'
  OBVIOUS
<1> USE DEF tables, background, At
<1>1. ASSUME NEW h \in Handlers, HandlerStep(h) PROVE TypeOK'
  <2>1. CASE LaunchInsert(h)
    <3>1. work[h].copy \in Row /\ "dispatch" \in Pcs
      BY <2>1, WorkTyped DEF LaunchInsert, Pcs
    <3>2. QED
      BY <2>1, <3>1, GoTyped, WorkTyped DEF LaunchInsert, TypeOK
  <2>2. CASE AgentAccepts(h)
    <3>1. work[h].copy \in Row /\ "replied" \in Pcs
      BY <2>2, WorkTyped DEF AgentAccepts, Pcs
    <3>2. QED
      BY <2>2, <3>1, GoTyped DEF AgentAccepts, TypeOK
  <2>3. CASE DispatchOk(h)
    BY <2>3, EndTyped DEF DispatchOk, TypeOK
  <2>4. CASE DispatchError(h)
    <3>1. Fail(work[h].copy, "dispatch") \in Row /\ "write" \in Pcs
      BY <2>4, WorkTyped, FailIsRow DEF DispatchError, Pcs, Errors
    <3>2. QED
      BY <2>4, <3>1, GoTyped DEF DispatchError, TypeOK
  <2>5. CASE AnswerClearSteps(h)
    <3>1. work[h].copy \in Row /\ "resume" \in Pcs
      BY <2>5, WorkTyped DEF AnswerClearSteps, Pcs
    <3>2. steps' \in [Jobs -> SUBSET Steps]
      BY <2>5 DEF AnswerClearSteps, TypeOK
    <3>3. QED
      BY <2>5, <3>1, <3>2, GoTyped DEF AnswerClearSteps, TypeOK
  <2>6. CASE AnswerUpdate(h)
    <3>1. work[h].job \in Jobs /\ work[h].copy \in Row /\ "dispatch" \in Pcs
      BY <2>6, WorkTyped DEF AnswerUpdate, Pcs
    <3>2. QED
      BY <2>6, <3>1, GoTyped, OverwriteTyped DEF AnswerUpdate, TypeOK
  <2>7. CASE \E d \in Deliveries : StoreResults(h, d)
    <3>1. Complete(work[h].copy) \in Row /\ "write" \in Pcs
      BY <2>7, WorkTyped, CompleteIsRow DEF StoreResults, Pcs
    <3>2. results' \in [Jobs -> Deliveries \cup {NoDelivery}]
      BY <2>7 DEF StoreResults, TypeOK
    <3>3. QED
      BY <2>7, <3>1, <3>2, GoTyped DEF StoreResults, TypeOK
  <2>8. CASE \E x \in Steps : AppendStep(h, x)
    <3>1. PICK x \in Steps : AppendStep(h, x)
      BY <2>8
    <3>2. steps[work[h].job] \cup {x} \in SUBSET Steps
      BY <3>1, WorkTyped DEF AppendStep, TypeOK
    <3>3. steps' \in [Jobs -> SUBSET Steps]
      BY <3>1, <3>2 DEF AppendStep, TypeOK
    <3>4. QED
      BY <3>1, <3>3, EndTyped DEF AppendStep, TypeOK
  <2>9. CASE AddUsage(h) /\ Exists(work[h].job)
    <3> DEFINE j == work[h].job
               n == jobs[j].usage + 1
    <3>1. j \in Jobs
      BY <2>9, WorkTyped DEF AddUsage
    <3>2. jobs[j] \in Row
      BY <2>9, <3>1 DEF AddUsage, Exists, TypeOK
    <3>3. n \in Nat
      BY <3>2 DEF Row
    <3>4. jobs' = [jobs EXCEPT ![j] = [jobs[j] EXCEPT !.usage = n]]
      BY <2>9 DEF AddUsage
    <3>5. [jobs[j] EXCEPT !.usage = n] \in Row
      BY <3>2, <3>3, UsageIsRow
    <3>6. jobs' \in [Jobs -> Row \cup {NoRow}]
      BY <3>4, <3>5 DEF TypeOK
    <3>7. QED
      BY <2>9, <3>6, EndTyped DEF AddUsage, TypeOK
  <2>10. CASE AddUsage(h) /\ ~Exists(work[h].job)
    BY <2>10, EndTyped DEF AddUsage, TypeOK
  <2>11. CASE Update(h)
    <3>1. work[h].job \in Jobs /\ work[h].copy \in Row
      BY <2>11, WorkTyped DEF Update
    <3>2. QED
      BY <2>11, <3>1, EndTyped, OverwriteTyped DEF Update, TypeOK
  <2>12. CASE Abort(h)
    BY <2>12, EndTyped DEF Abort, TypeOK
  <2>13. CASE StoreNothing(h)
    <3>1. Complete(work[h].copy) \in Row /\ "write" \in Pcs
      BY <2>13, WorkTyped, CompleteIsRow DEF StoreNothing, Pcs
    <3>2. QED
      BY <2>13, <3>1, GoTyped DEF StoreNothing, TypeOK
  <2>14. QED
    BY <1>1, <2>1, <2>2, <2>3, <2>4, <2>5, <2>6, <2>7, <2>8, <2>9, <2>10,
       <2>11, <2>12, <2>13 DEF HandlerStep
<1>2. ASSUME NEW h \in Handlers, NEW j \in Jobs, Request(h, j) PROVE TypeOK'
  <2> USE DEF Pcs
  <2>1. CASE LaunchCheck(h, j)
    BY <2>1, BeginTyped, NewJobIsRow DEF LaunchCheck, TypeOK
  <2>2. CASE \E u \in Users, a \in Answers : AnswerFind(h, u, j, a)
    <3>1. PICK a \in Answers : \E u \in Users : AnswerFind(h, u, j, a)
      BY <2>2
    <3>2. ProvideAnswer(jobs[j], a) \in Row
      BY <3>1, ProvideAnswerIsRow DEF AnswerFind, Exists, TypeOK
    <3>3. QED
      BY <3>1, <3>2, BeginTyped DEF AnswerFind, TypeOK
  <2>3. CASE StartedFind(h, j)
    <3>1. Start(jobs[j]) \in Row
      BY <2>3, StartIsRow DEF StartedFind, Exists, TypeOK
    <3>2. QED
      BY <2>3, <3>1, BeginTyped DEF StartedFind, TypeOK
  <2>4. CASE ResultsFind(h, j)
    <3>1. jobs[j] \in Row
      BY <2>4 DEF ResultsFind, Exists, TypeOK
    <3>2. QED
      BY <2>4, <3>1, BeginTyped DEF ResultsFind, TypeOK
  <2>5. CASE StepFind(h, j)
    BY <2>5, BeginTyped DEF StepFind, TypeOK
  <2>6. CASE \E q \in Questions : QuestionFind(h, j, q)
    <3>1. PICK q \in Questions : QuestionFind(h, j, q)
      BY <2>6
    <3>2. RequestInput(jobs[j], q) \in Row
      BY <3>1, RequestInputIsRow DEF QuestionFind, Exists, TypeOK
    <3>3. QED
      BY <3>1, <3>2, BeginTyped DEF QuestionFind, TypeOK
  <2>7. CASE UsageFind(h, j)
    BY <2>7, BeginTyped DEF UsageFind, TypeOK
  <2>8. CASE FailureFind(h, j)
    <3>1. Fail(jobs[j], "agent") \in Row
      BY <2>8, FailIsRow DEF FailureFind, Exists, TypeOK, Errors
    <3>2. QED
      BY <2>8, <3>1, BeginTyped DEF FailureFind, TypeOK
  <2>9. QED
    BY <1>2, <2>1, <2>2, <2>3, <2>4, <2>5, <2>6, <2>7, <2>8 DEF Request
<1>3. ASSUME NEW u \in Users, Account(u) PROVE TypeOK'
  <2>1. OwnedBy(u) \in SUBSET Jobs
    BY DEF OwnedBy
  <2>2. QED
    BY <1>3, <2>1, EraseTyped
    DEF Account, DeleteJobs, DeleteUser, DeleteAborts, TypeOK
<1>4. CASE Background
  <2>1. CASE ReaperList
    BY <2>1 DEF ReaperList, TypeOK
  <2>2. CASE ReaperDone
    BY <2>2 DEF ReaperDone, TypeOK
  <2>3. CASE ReaperError
    BY <2>3 DEF ReaperError, TypeOK
  <2>4. CASE Purge
    <3>1. {j \in Jobs : IsExpired(j)} \in SUBSET Jobs
      OBVIOUS
    <3>2. QED
      BY <2>4, <3>1, EraseTyped DEF Purge, TypeOK
  <2>5. CASE PurgeSkipped
    BY <2>5 DEF PurgeSkipped, TypeOK
  <2>6. CASE \E j \in Jobs : ReapOne(j)
    <3>1. PICK j \in Jobs : ReapOne(j)
      BY <2>6
    <3>2. Fail(reaping[j], "timeout") \in Row
      BY <3>1, FailIsRow DEF ReapOne, TypeOK, Errors
    <3>3. QED
      BY <3>1, <3>2, OverwriteTyped DEF ReapOne, TypeOK
  <2>7. QED
    BY <1>4, <2>1, <2>2, <2>3, <2>4, <2>5, <2>6 DEF Background
<1>5. ASSUME NEW j \in Jobs, AgeJob(j) PROVE TypeOK'
  <2>1. age[j] \in 0..3 /\ age[j] < MaxAge /\ MaxAge \in 0..3
    BY <1>5, BoundsAreNat DEF AgeJob, TypeOK
  <2>2. age[j] + 1 \in 0..3
    BY <2>1
  <2>3. QED
    BY <1>5, <2>2 DEF AgeJob, TypeOK
<1>6. CASE UNCHANGED vars
  BY <1>6 DEF vars, TypeOK
<1>7. QED
  BY <1>1, <1>2, <1>3, <1>4, <1>5, <1>6 DEF Next

(* Type correctness: every table, request and snapshot keeps its shape,    *)
(* for any number of jobs, accounts and concurrent requests.               *)
THEOREM TypeCorrect == Spec => []TypeOK
<1>1. QED
  BY TypeInit, TypeStep, PTL DEF Spec
-----------------------------------------------------------------------------
(* What one step may do to a row: every invariant below rests on it.       *)

(* A launch stores the row it built, of an account that exists.            *)
Stored(j) ==
  /\ Owner[j] \in users
  /\ \E h \in Handlers :
       /\ At(h, "insert") /\ work[h].job = j
       /\ jobs'[j] = work[h].copy
       /\ work'[h] = Idle \/ work'[h].pc # "insert"

(* A request writes its copy over the row, whatever the row has become.    *)
Overwritten(j) ==
  \E h \in Handlers :
    /\ At(h, "resume") \/ At(h, "write")
    /\ work[h].job = j
    /\ jobs'[j] = [work[h].copy EXCEPT !.usage = jobs[j].usage]

(* The reaper fails the row it listed.                                     *)
Reaped(j) ==
  /\ reaping[j] # NoRow
  /\ jobs'[j] = [Fail(reaping[j], "timeout") EXCEPT !.usage = jobs[j].usage]

(* A usage report is added to the row.                                     *)
Charged(j) ==
  \E h \in Handlers :
    /\ At(h, "charge") /\ work[h].job = j /\ work'[h] = Idle
    /\ jobs'[j] = [jobs[j] EXCEPT !.usage = jobs[j].usage + 1]

(* The row goes, and what refers to it with it.                            *)
Erased(j) == jobs'[j] = NoRow /\ results'[j] = NoDelivery /\ steps'[j] = {}

RowChange(j) ==
  \/ jobs'[j] = jobs[j]
  \/ Erased(j)
  \/ jobs'[j] \in Row /\ Stored(j)
  \/ jobs'[j] \in Row /\ Exists(j) /\ (Overwritten(j) \/ Reaped(j) \/ Charged(j))

LEMMA RowKept ==
  ASSUME TypeOK, NEW j \in Jobs, Exists(j)
  PROVE  /\ jobs[j] \in Row
         /\ jobs[j].usage \in Nat
         /\ [jobs[j] EXCEPT !.usage = jobs[j].usage + 1] \in Row
         /\ \A copy \in Row : [copy EXCEPT !.usage = jobs[j].usage] \in Row
<1>1. jobs[j] \in Row
  BY DEF TypeOK, Exists
<1>2. jobs[j].usage \in Nat /\ jobs[j].usage + 1 \in Nat
  BY <1>1 DEF Row
<1>3. QED
  BY <1>1, <1>2, UsageIsRow

LEMMA RowStep ==
  ASSUME TypeOK, [Next]_vars, NEW j \in Jobs
  PROVE  RowChange(j)
<1> USE DEF RowChange, tables, background
<1>1. ASSUME NEW h \in Handlers, HandlerStep(h) PROVE RowChange(j)
  <2>1. CASE LaunchInsert(h)
    <3>1. work[h].job \in Jobs /\ work[h].copy \in Row
      BY <2>1, WorkTyped DEF LaunchInsert, At
    <3>2. CASE work[h].job = j
      <4>1. jobs'[j] = work[h].copy
        BY <2>1, <3>2 DEF LaunchInsert, TypeOK
      <4>2. work'[h].pc = "dispatch"
        BY <2>1 DEF LaunchInsert, Go, TypeOK
      <4>3. Stored(j)
        BY <2>1, <3>2, <4>1, <4>2 DEF LaunchInsert, Stored
      <4>4. QED
        BY <3>1, <4>1, <4>3
    <3>3. CASE work[h].job # j
      BY <2>1, <3>3 DEF LaunchInsert, TypeOK
    <3>4. QED
      BY <3>2, <3>3
  <2>2. CASE AnswerUpdate(h) \/ Update(h)
    <3>1. CASE work[h].job = j /\ Exists(j)
      <4>1. jobs'[j] = [work[h].copy EXCEPT !.usage = jobs[j].usage]
        BY <2>2, <3>1 DEF AnswerUpdate, Update, Overwrite, TypeOK
      <4>2. Overwritten(j)
        BY <2>2, <3>1, <4>1 DEF AnswerUpdate, Update, Overwritten
      <4>3. work[h].copy \in Row
        BY <2>2, WorkTyped DEF AnswerUpdate, Update, At
      <4>4. \A copy \in Row : [copy EXCEPT !.usage = jobs[j].usage] \in Row
        BY <3>1, RowKept
      <4>5. jobs'[j] \in Row
        BY <4>1, <4>3, <4>4
      <4>6. QED
        BY <3>1, <4>2, <4>5
    <3>2. CASE ~(work[h].job = j /\ Exists(j))
      BY <2>2, <3>2 DEF AnswerUpdate, Update, Overwrite, TypeOK
    <3>3. QED
      BY <3>1, <3>2
  <2>3. CASE AddUsage(h)
    <3>1. CASE work[h].job = j /\ Exists(j)
      BY <2>3, <3>1, RowKept DEF AddUsage, End, Charged, TypeOK
    <3>2. CASE ~(work[h].job = j /\ Exists(j))
      BY <2>3, <3>2 DEF AddUsage, TypeOK
    <3>3. QED
      BY <3>1, <3>2
  <2>4. CASE \/ AgentAccepts(h) \/ DispatchOk(h) \/ DispatchError(h)
             \/ AnswerClearSteps(h) \/ StoreNothing(h) \/ Abort(h)
    BY <2>4 DEF AgentAccepts, DispatchOk, DispatchError, AnswerClearSteps,
       StoreNothing, Abort
  <2>5. CASE \/ \E d \in Deliveries : StoreResults(h, d)
             \/ \E x \in Steps : AppendStep(h, x)
    BY <2>5 DEF StoreResults, AppendStep
  <2>6. QED
    BY <1>1, <2>1, <2>2, <2>3, <2>4, <2>5 DEF HandlerStep
<1>2. ASSUME NEW h \in Handlers, NEW k \in Jobs, Request(h, k)
      PROVE  RowChange(j)
  BY <1>2 DEF Request, LaunchCheck, AnswerFind, StartedFind, ResultsFind,
     StepFind, QuestionFind, UsageFind, FailureFind
<1>3. ASSUME NEW u \in Users, Account(u) PROVE RowChange(j)
  BY <1>3 DEF Account, DeleteJobs, DeleteUser, DeleteAborts, Erase, Erased
<1>4. CASE Background
  <2>1. ASSUME NEW k \in Jobs, ReapOne(k) PROVE RowChange(j)
    <3>1. CASE k = j /\ Exists(j)
      <4>1. Reaped(j)
        BY <2>1, <3>1 DEF ReapOne, Overwrite, Reaped, TypeOK
      <4>2. Fail(reaping[j], "timeout") \in Row
        BY <2>1, <3>1, FailIsRow DEF ReapOne, TypeOK, Errors
      <4>3. QED
        BY <3>1, <4>1, <4>2, RowKept DEF Reaped
    <3>2. CASE ~(k = j /\ Exists(j))
      BY <2>1, <3>2 DEF ReapOne, Overwrite, TypeOK
    <3>3. QED
      BY <3>1, <3>2
  <2>2. CASE \/ ReaperList \/ ReaperDone \/ ReaperError \/ Purge
             \/ PurgeSkipped
    BY <2>2
    DEF ReaperList, ReaperDone, ReaperError, Purge, PurgeSkipped, Erase, Erased
  <2>3. QED
    BY <1>4, <2>1, <2>2 DEF Background
<1>5. ASSUME NEW k \in Jobs, AgeJob(k) PROVE RowChange(j)
  BY <1>5 DEF AgeJob
<1>6. CASE UNCHANGED vars
  BY <1>6 DEF vars
<1>7. QED
  BY <1>1, <1>2, <1>3, <1>4, <1>5, <1>6 DEF Next

(* What one step may do to the rest of a job: its results, its journal,    *)
(* its owner's account, its identifier and the reaper's snapshot of it.    *)
SideChange(j) ==
  /\ users' \subseteq users
  /\ drawn \subseteq drawn'
  /\ \/ Erased(j)
     \/ /\ Owner[j] \in users => Owner[j] \in users'
        /\ results'[j] = results[j] \/ (Exists(j) /\ results'[j] \in Deliveries)
        /\ steps'[j] = steps[j] \/ steps'[j] = {} \/ Exists(j)
  /\ \/ reaping'[j] = reaping[j]
     \/ reaping'[j] = NoRow
     \/ jobs' = jobs /\ IsStale(j) /\ reaping'[j] = jobs[j]

LEMMA SideStep ==
  ASSUME TypeOK, [Next]_vars, NEW j \in Jobs
  PROVE  SideChange(j)
<1> USE DEF SideChange, Exists, IsStale, tables, background
<1>1. ASSUME NEW h \in Handlers, HandlerStep(h) PROVE SideChange(j)
  <2>1. CASE LaunchInsert(h) \/ AnswerUpdate(h) \/ Update(h) \/ AddUsage(h)
    BY <2>1 DEF LaunchInsert, AnswerUpdate, Update, AddUsage
  <2>2. CASE \/ AgentAccepts(h) \/ DispatchOk(h) \/ DispatchError(h)
             \/ StoreNothing(h) \/ Abort(h)
    BY <2>2 DEF AgentAccepts, DispatchOk, DispatchError, StoreNothing, Abort
  <2>3. CASE AnswerClearSteps(h)
    BY <2>3 DEF AnswerClearSteps, TypeOK
  <2>4. CASE \E d \in Deliveries : StoreResults(h, d)
    BY <2>4 DEF StoreResults, TypeOK
  <2>5. CASE \E x \in Steps : AppendStep(h, x)
    BY <2>5 DEF AppendStep, TypeOK
  <2>6. QED
    BY <1>1, <2>1, <2>2, <2>3, <2>4, <2>5 DEF HandlerStep
<1>2. ASSUME NEW h \in Handlers, NEW k \in Jobs, Request(h, k)
      PROVE  SideChange(j)
  BY <1>2 DEF Request, LaunchCheck, AnswerFind, StartedFind, ResultsFind,
     StepFind, QuestionFind, UsageFind, FailureFind
<1>3. ASSUME NEW u \in Users, Account(u) PROVE SideChange(j)
  BY <1>3 DEF Account, DeleteJobs, DeleteUser, DeleteAborts, Erase, Erased,
     OwnedBy
<1>4. CASE Background
  <2>1. CASE ReaperList
    BY <2>1 DEF ReaperList
  <2>2. CASE \E k \in Jobs : ReapOne(k)
    BY <2>2 DEF ReapOne, TypeOK
  <2>3. CASE ReaperDone \/ ReaperError \/ PurgeSkipped
    BY <2>3 DEF ReaperDone, ReaperError, PurgeSkipped
  <2>4. CASE Purge
    BY <2>4 DEF Purge, Erase, Erased
  <2>5. QED
    BY <1>4, <2>1, <2>2, <2>3, <2>4 DEF Background
<1>5. ASSUME NEW k \in Jobs, AgeJob(k) PROVE SideChange(j)
  BY <1>5 DEF AgeJob
<1>6. CASE UNCHANGED vars
  BY <1>6 DEF vars
<1>7. QED
  BY <1>1, <1>2, <1>3, <1>4, <1>5, <1>6 DEF Next
-----------------------------------------------------------------------------
(* What one step may do to a request: begin it, take it one statement      *)
(* further, or end it.                                                     *)

Launched(h) ==
  \E j \in Jobs :
    /\ j \notin drawn
    /\ Cardinality(Recent(Owner[j])) < Quota
    /\ drawn' = drawn \cup {j}
    /\ jobs' = jobs
    /\ work'[h] = [pc |-> "insert", job |-> j, copy |-> NewJob]

(* A request that reads the row of a job and derives its copy from it.     *)
Derived(row, pc, copy) ==
  \/ pc \in {"append", "charge"} /\ copy = NoRow
  \/ pc = "store" /\ copy = row
  \/ /\ pc = "clear" /\ CanAnswer(row)
     /\ \E a \in Answers : copy = ProvideAnswer(row, a)
  \/ /\ pc = "write"
     /\ \/ copy = Start(row)
        \/ copy = Fail(row, "agent")
        \/ \E q \in Questions : copy = RequestInput(row, q)

Fetched(h) ==
  \E j \in Jobs :
    /\ Exists(j)
    /\ jobs' = jobs
    /\ work'[h] # Idle
    /\ work'[h].job = j
    /\ Derived(jobs[j], work'[h].pc, work'[h].copy)

Advanced(h) ==
  /\ work'[h] # Idle
  /\ work'[h].job = work[h].job
  /\ work[h].pc \notin {"append", "charge"}
  /\ work'[h].pc \in {"dispatch", "replied", "resume", "write"}
  /\ \/ work[h].pc # "store" /\ work'[h].copy = work[h].copy
     \/ work[h].pc # "store" /\ work'[h].copy = Fail(work[h].copy, "dispatch")
     \/ /\ work'[h].copy = Complete(work[h].copy)
        /\ work[h].pc = "store"
        /\ jobs' = jobs
        /\ Exists(work[h].job) => results'[work[h].job] \in Deliveries

WorkChange(h) ==
  \/ work'[h] = work[h]
  \/ work'[h] = Idle
  \/ work[h] = Idle /\ (Launched(h) \/ Fetched(h))
  \/ work[h] # Idle /\ Advanced(h)

(* A step of one handler leaves the others alone.                          *)
LEMMA OthersWait ==
  ASSUME TypeOK, NEW g \in Handlers, NEW h \in Handlers \ {g},
         HandlerStep(g) \/ \E j \in Jobs : Request(g, j)
  PROVE  work'[h] = work[h]
<1>1. CASE \E j \in Jobs : Request(g, j)
  BY <1>1 DEF Request, LaunchCheck, AnswerFind, StartedFind, ResultsFind,
     StepFind, QuestionFind, UsageFind, FailureFind, Begin, TypeOK
<1>2. CASE HandlerStep(g)
  BY <1>2 DEF HandlerStep, LaunchInsert, AgentAccepts, DispatchOk,
     DispatchError, AnswerClearSteps, AnswerUpdate, StoreResults, AppendStep,
     StoreNothing, AddUsage, Update, Abort, Go, End, TypeOK
<1>3. QED
  BY <1>1, <1>2

LEMMA FetchWork ==
  ASSUME TypeOK, NEW h \in Handlers, NEW j \in Jobs, NEW pc, NEW copy,
         Exists(j), jobs' = jobs, Begin(h, pc, j, copy),
         Derived(jobs[j], pc, copy)
  PROVE  WorkChange(h)
<1>1. work'[h] = [pc |-> pc, job |-> j, copy |-> copy] /\ work[h] = Idle
  BY DEF Begin, TypeOK
<1>2. work'[h] # Idle => Fetched(h)
  BY <1>1 DEF Fetched
<1>3. QED
  BY <1>1, <1>2 DEF WorkChange

LEMMA GoWork ==
  ASSUME TypeOK, NEW h \in Handlers, NEW pc, NEW copy,
         work[h] # Idle, Go(h, pc, copy),
         pc \in {"dispatch", "replied", "resume", "write"},
         work[h].pc \notin {"append", "charge"},
         \/ work[h].pc # "store" /\ copy = work[h].copy
         \/ work[h].pc # "store" /\ copy = Fail(work[h].copy, "dispatch")
         \/ /\ copy = Complete(work[h].copy)
            /\ work[h].pc = "store"
            /\ jobs' = jobs
            /\ Exists(work[h].job) => results'[work[h].job] \in Deliveries
  PROVE  WorkChange(h)
<1>1. work'[h] = [pc |-> pc, job |-> work[h].job, copy |-> copy]
  BY DEF Go, TypeOK
<1>2. work'[h] # Idle => Advanced(h)
  BY <1>1 DEF Advanced
<1>3. QED
  BY <1>2 DEF WorkChange

LEMMA WorkStep ==
  ASSUME TypeOK, [Next]_vars, NEW h \in Handlers
  PROVE  WorkChange(h)
<1> USE DEF tables, background
<1>1. ASSUME NEW g \in Handlers \ {h},
             HandlerStep(g) \/ \E j \in Jobs : Request(g, j)
      PROVE  WorkChange(h)
  BY <1>1, OthersWait DEF WorkChange
<1>2. ASSUME HandlerStep(h) PROVE WorkChange(h)
  <2>1. CASE LaunchInsert(h)
    BY <2>1, GoWork DEF LaunchInsert, At
  <2>2. CASE AgentAccepts(h)
    BY <2>2, GoWork DEF AgentAccepts, At
  <2>3. CASE AnswerClearSteps(h)
    BY <2>3, GoWork DEF AnswerClearSteps, At
  <2>4. CASE AnswerUpdate(h)
    BY <2>4, GoWork DEF AnswerUpdate, At
  <2>5. CASE DispatchError(h)
    BY <2>5, GoWork DEF DispatchError, At
  <2>6. CASE \E d \in Deliveries : StoreResults(h, d)
    <3>1. PICK d \in Deliveries : StoreResults(h, d)
      BY <2>6
    <3>2. results'[work[h].job] = d
      BY <3>1, WorkTyped DEF StoreResults, At, TypeOK
    <3>3. QED
      BY <3>1, <3>2, GoWork DEF StoreResults, At
  <2>7. CASE DispatchOk(h) \/ AddUsage(h) \/ Update(h) \/ Abort(h)
    BY <2>7 DEF DispatchOk, AddUsage, Update, Abort, End, TypeOK, WorkChange
  <2>8. CASE \E x \in Steps : AppendStep(h, x)
    BY <2>8 DEF AppendStep, End, TypeOK, WorkChange
  <2>9. CASE StoreNothing(h)
    BY <2>9, GoWork DEF StoreNothing, At
  <2>10. QED
    BY <1>2, <2>1, <2>2, <2>3, <2>4, <2>5, <2>6, <2>7, <2>8, <2>9
    DEF HandlerStep
<1>3. ASSUME NEW j \in Jobs, Request(h, j) PROVE WorkChange(h)
  <2>1. CASE LaunchCheck(h, j)
    <3>1. /\ work[h] = Idle
          /\ work'[h] = [pc |-> "insert", job |-> j, copy |-> NewJob]
      BY <2>1 DEF LaunchCheck, Begin, TypeOK
    <3>2. QED
      BY <2>1, <3>1 DEF LaunchCheck, Launched, WorkChange
  <2>2. CASE \E u \in Users, a \in Answers : AnswerFind(h, u, j, a)
    <3>1. PICK u \in Users, a \in Answers : AnswerFind(h, u, j, a)
      BY <2>2
    <3>2. Derived(jobs[j], "clear", ProvideAnswer(jobs[j], a))
      BY <3>1 DEF Derived, AnswerFind
    <3>3. QED
      BY <3>1, <3>2, FetchWork DEF AnswerFind
  <2>3. CASE StartedFind(h, j)
    <3>1. Derived(jobs[j], "write", Start(jobs[j]))
      BY DEF Derived
    <3>2. QED
      BY <2>3, <3>1, FetchWork DEF StartedFind
  <2>4. CASE FailureFind(h, j)
    <3>1. Derived(jobs[j], "write", Fail(jobs[j], "agent"))
      BY DEF Derived
    <3>2. QED
      BY <2>4, <3>1, FetchWork DEF FailureFind
  <2>5. CASE ResultsFind(h, j)
    <3>1. Derived(jobs[j], "store", jobs[j])
      BY DEF Derived
    <3>2. QED
      BY <2>5, <3>1, FetchWork DEF ResultsFind
  <2>6. CASE StepFind(h, j) \/ UsageFind(h, j)
    <3>1. Derived(jobs[j], "append", NoRow) /\ Derived(jobs[j], "charge", NoRow)
      BY DEF Derived
    <3>2. QED
      BY <2>6, <3>1, FetchWork DEF StepFind, UsageFind
  <2>7. CASE \E q \in Questions : QuestionFind(h, j, q)
    <3>1. PICK q \in Questions : QuestionFind(h, j, q)
      BY <2>7
    <3>2. Derived(jobs[j], "write", RequestInput(jobs[j], q))
      BY <3>1 DEF Derived
    <3>3. QED
      BY <3>1, <3>2, FetchWork DEF QuestionFind
  <2>8. QED
    BY <1>3, <2>1, <2>2, <2>3, <2>4, <2>5, <2>6, <2>7 DEF Request
<1>4. ASSUME NEW u \in Users, Account(u) PROVE WorkChange(h)
  BY <1>4 DEF Account, DeleteJobs, DeleteUser, DeleteAborts, WorkChange
<1>5. CASE Background
  BY <1>5 DEF Background, ReaperList, ReapOne, ReaperDone, ReaperError, Purge,
     PurgeSkipped, WorkChange
<1>6. ASSUME NEW j \in Jobs, AgeJob(j) PROVE WorkChange(h)
  BY <1>6 DEF AgeJob, WorkChange
<1>7. CASE UNCHANGED vars
  BY <1>7 DEF vars, WorkChange
<1>8. QED
  BY <1>1, <1>2, <1>3, <1>4, <1>5, <1>6, <1>7 DEF Next

(* Two handlers do not move in the same step.                              *)
LEMMA OneAtATime ==
  ASSUME TypeOK, [Next]_vars, NEW g \in Handlers, NEW h \in Handlers \ {g}
  PROVE  work'[g] = work[g] \/ work'[h] = work[h]
<1>1. CASE \E k \in Handlers : \/ HandlerStep(k)
                               \/ \E j \in Jobs : Request(k, j)
  <2>1. PICK k \in Handlers : HandlerStep(k) \/ \E j \in Jobs : Request(k, j)
    BY <1>1
  <2>2. CASE k = g
    BY <2>1, <2>2, OthersWait
  <2>3. CASE k # g
    <3>1. g \in Handlers \ {k}
      BY <2>3
    <3>2. QED
      BY <2>1, <3>1, OthersWait
  <2>4. QED
    BY <2>2, <2>3
<1>2. CASE (\E u \in Users : Account(u)) \/ Background
           \/ \E j \in Jobs : AgeJob(j)
  BY <1>2 DEF Account, DeleteJobs, DeleteUser, DeleteAborts, Background,
     ReaperList, ReapOne, ReaperDone, ReaperError, Purge, PurgeSkipped, AgeJob
<1>3. CASE UNCHANGED vars
  BY <1>3 DEF vars
<1>4. QED
  BY <1>1, <1>2, <1>3 DEF Next
-----------------------------------------------------------------------------
(* An identifier is used once: a job that is being inserted has no row, no *)
(* other request and no place in the reaper's list.                        *)

Undrawn ==
  \A j \in Jobs : Exists(j) \/ reaping[j] # NoRow => j \in drawn

WorkDrawn == \A h \in Handlers : work[h] # Idle => work[h].job \in drawn

Alone(h) ==
  /\ work[h].copy = NewJob
  /\ ~Exists(work[h].job)
  /\ reaping[work[h].job] = NoRow
  /\ \A g \in Handlers :
       g # h /\ work[g] # Idle => work[g].job # work[h].job

Fresh ==
  /\ Undrawn
  /\ WorkDrawn
  /\ \A h \in Handlers : At(h, "insert") => Alone(h)

LEMMA FreshInit == Init => Fresh
BY DEF Init, Fresh, Undrawn, WorkDrawn, At, Exists

LEMMA FreshStep == TypeOK /\ Fresh /\ [Next]_vars => Fresh'
<1> SUFFICES ASSUME TypeOK, Fresh, [Next]_vars PROVE Fresh'
  OBVIOUS
<1>1. ASSUME NEW j \in Jobs, Exists(j)' \/ reaping'[j] # NoRow
      PROVE  j \in drawn'
  <2>1. drawn \subseteq drawn'
    BY SideStep, <1>1 DEF SideChange
  <2>2. CASE Exists(j) \/ reaping[j] # NoRow
    BY <2>1, <2>2 DEF Fresh, Undrawn
  <2>3. CASE ~Exists(j) /\ reaping[j] = NoRow
    <3>1. Stored(j)
      BY <1>1, <2>3, RowStep, SideStep
      DEF RowChange, SideChange, Exists, IsStale, Erased
    <3>2. QED
      BY <2>1, <3>1 DEF Stored, At, Fresh, WorkDrawn
  <2>4. QED
    BY <2>2, <2>3
<1>2. ASSUME NEW h \in Handlers, work'[h] # Idle
      PROVE  work'[h].job \in drawn'
  <2>1. \A j \in drawn : j \in Jobs /\ j \in drawn'
    BY SideStep DEF SideChange, TypeOK
  <2>2. CASE work[h] # Idle
    BY <1>2, <2>1, <2>2, WorkStep DEF WorkChange, Advanced, Fresh, WorkDrawn
  <2>3. CASE work[h] = Idle /\ Launched(h)
    BY <2>3 DEF Launched
  <2>4. CASE work[h] = Idle /\ Fetched(h)
    BY <2>1, <2>4 DEF Fetched, Fresh, Undrawn
  <2>5. QED
    BY <1>2, <2>2, <2>3, <2>4, WorkStep DEF WorkChange
<1>3. ASSUME NEW h \in Handlers, At(h, "insert")' PROVE Alone(h)'
  <2>1. CASE work'[h] = work[h]
    <3> DEFINE j == work[h].job
    <3>1. /\ At(h, "insert") /\ Alone(h) /\ j \in Jobs /\ j \in drawn
          /\ work'[h].job = j /\ work'[h].copy = NewJob
      BY <1>3, <2>1, WorkTyped DEF At, Fresh, WorkDrawn, Alone
    <3>2. ~Stored(j)
      BY <1>3, <2>1, <3>1 DEF Stored, Alone, At
    <3>3. ~Exists(j)'
      BY <3>1, <3>2, RowStep DEF RowChange, Alone, Exists, Erased
    <3>4. reaping'[j] = NoRow
      BY <3>1, SideStep DEF SideChange, Alone, Exists, IsStale
    <3>5. ASSUME NEW g \in Handlers, g # h, work'[g] # Idle
          PROVE  work'[g].job # j
      <4>1. work[g] # Idle => work[g].job # j
        BY <3>1, <3>5 DEF Alone
      <4>2. CASE work[g] # Idle
        BY <3>5, <4>1, <4>2, WorkStep DEF WorkChange, Advanced
      <4>3. CASE work[g] = Idle /\ Launched(g)
        BY <3>1, <4>3 DEF Launched
      <4>4. CASE work[g] = Idle /\ Fetched(g)
        BY <3>1, <4>4 DEF Fetched, Alone
      <4>5. QED
        BY <3>5, <4>2, <4>3, <4>4, WorkStep DEF WorkChange
    <3>6. QED
      BY <3>1, <3>3, <3>4, <3>5 DEF Alone
  <2>2. CASE work'[h] # work[h]
    <3>1. Launched(h)
      BY <1>3, <2>2, WorkStep
      DEF At, WorkChange, Advanced, Fetched, Derived
    <3>2. PICK j \in Jobs : /\ j \notin drawn
                            /\ jobs' = jobs
                            /\ work'[h] = [pc |-> "insert", job |-> j,
                                           copy |-> NewJob]
      BY <3>1 DEF Launched
    <3>3. ~Exists(j) /\ reaping[j] = NoRow
      BY <3>2 DEF Fresh, Undrawn
    <3>4. reaping'[j] = NoRow
      BY <3>3, SideStep DEF SideChange, Exists, IsStale
    <3>5. ASSUME NEW g \in Handlers, g # h, work'[g] # Idle
          PROVE  work'[g].job # j
      BY <2>2, <3>2, <3>5, OneAtATime DEF Fresh, WorkDrawn
    <3>6. QED
      BY <3>2, <3>3, <3>4, <3>5 DEF Alone, Exists
  <2>3. QED
    BY <2>1, <2>2
<1>4. QED
  BY <1>1, <1>2, <1>3 DEF Fresh, Undrawn, WorkDrawn

LEMMA FreshAlways == Spec => [](TypeOK /\ Fresh)
<1>1. QED
  BY TypeInit, TypeStep, FreshInit, FreshStep, PTL DEF Spec

(* A row that is stored was not there before.                              *)
LEMMA StoredIsNew ==
  ASSUME TypeOK, Fresh, NEW j \in Jobs, Stored(j)
  PROVE  ~Exists(j) /\ jobs'[j] = NewJob
BY DEF Stored, Fresh, Alone, At
-----------------------------------------------------------------------------
(* ADR-038: no life-cycle update, however stale its copy of the row, takes *)
(* back spend that record_usage has added (postgres.rs, update writes      *)
(* every field but the usage columns).                                     *)
THEOREM UsageSafe == Spec => UsageNeverLost
<1>1. ASSUME TypeOK, Fresh, [Next]_vars, NEW j \in Jobs,
             Exists(j), jobs'[j] # NoRow
      PROVE  jobs'[j].usage >= jobs[j].usage
  <2>1. jobs[j] \in Row /\ jobs[j].usage \in Nat
    BY <1>1, RowKept
  <2>2. CASE Overwritten(j)
    <3>1. PICK copy : /\ jobs'[j] = [copy EXCEPT !.usage = jobs[j].usage]
                      /\ copy \in Row
      BY <1>1, <2>2, WorkTyped DEF Overwritten, At
    <3>2. QED
      BY <2>1, <3>1 DEF Row
  <2>3. CASE Reaped(j)
    <3>1. Fail(reaping[j], "timeout") \in Row
      BY <1>1, <2>3, FailIsRow DEF Reaped, TypeOK, Errors
    <3>2. QED
      BY <2>1, <2>3, <3>1 DEF Reaped, Row
  <2>4. CASE Charged(j)
    BY <2>1, <2>4 DEF Charged, Row
  <2>5. QED
    BY <1>1, <2>1, <2>2, <2>3, <2>4, RowStep, StoredIsNew
    DEF RowChange, Erased
<1>2. TypeOK /\ Fresh /\ [Next]_vars
        => [\A j \in Jobs : Exists(j) /\ jobs'[j] # NoRow
              => jobs'[j].usage >= jobs[j].usage]_vars
  BY <1>1
<1>3. QED
  BY <1>2, FreshAlways, PTL DEF Spec, UsageNeverLost
-----------------------------------------------------------------------------
(* ADR-058: when an account or a job is gone, no request that was in       *)
(* flight leaves results, journal entries or a job behind                  *)
(* (delete_account.rs and the foreign keys of the job tables).             *)
LEMMA ErasedStep == TypeOK /\ Fresh /\ ErasedForGood /\ [Next]_vars => ErasedForGood'
<1> SUFFICES ASSUME TypeOK, Fresh, ErasedForGood, [Next]_vars, NEW j \in Jobs,
                    Owner[j] \notin users' \/ ~Exists(j)'
             PROVE  ~Exists(j)' /\ results'[j] = NoDelivery /\ steps'[j] = {}
  BY DEF ErasedForGood
<1>1. RowChange(j) /\ SideChange(j)
  BY RowStep, SideStep
<1>2. CASE Erased(j)
  BY <1>2 DEF Erased, Exists
<1>3. CASE ~Erased(j)
  <2>1. Owner[j] \in users => Owner[j] \in users'
    BY <1>1, <1>3 DEF SideChange
  <2>2. CASE ~Exists(j)
    <3>1. results[j] = NoDelivery /\ steps[j] = {}
      BY <2>2 DEF ErasedForGood
    <3>2. ~Stored(j) \/ Exists(j)'
      BY StoredIsNew, NewJobIsRow, NoRowIsNoRow DEF Exists
    <3>3. ~Stored(j)
      BY <2>1, <3>2 DEF Stored
    <3>4. QED
      BY <1>1, <1>3, <2>2, <3>1, <3>3 DEF RowChange, SideChange, Exists
  <2>3. CASE Exists(j)
    <3>1. Owner[j] \in users'
      BY <2>1, <2>3 DEF ErasedForGood
    <3>2. Exists(j)'
      BY <1>1, <1>3, <2>3, NoRowIsNoRow DEF RowChange, Exists
    <3>3. QED
      BY <3>1, <3>2
  <2>4. QED
    BY <2>2, <2>3
<1>4. QED
  BY <1>2, <1>3

THEOREM Erasure == Spec => []ErasedForGood
<1>1. Init => ErasedForGood
  BY DEF Init, ErasedForGood, Exists
<1>2. QED
  BY <1>1, ErasedStep, FreshAlways, PTL DEF Spec
-----------------------------------------------------------------------------
(* The copies that requests and the reaper hold are coherent, so that what *)
(* they write back is.                                                     *)

CopiesCoherent ==
  \A h \in Handlers :
    work[h] # Idle /\ work[h].pc \notin {"append", "charge"}
      => Coherent(work[h].copy)

ReapingUnfinished ==
  \A j \in Jobs :
    reaping[j] # NoRow
      => Coherent(reaping[j]) /\ reaping[j].status \in {"pending", "running"}

AllCoherent == RowsCoherent /\ CopiesCoherent /\ ReapingUnfinished

LEMMA NewJobCoherent == Coherent(NewJob)
BY DEF Coherent, NewJob, IsFinished

LEMMA FailCoherent ==
  ASSUME NEW r \in Row, Coherent(r), NEW e \in Errors \ {"none"}
  PROVE  Coherent(Fail(r, e))
BY DEF Coherent, Fail, IsFinished, Row, JobStatus

LEMMA CompleteCoherent ==
  ASSUME NEW r \in Row, Coherent(r) PROVE Coherent(Complete(r))
BY DEF Coherent, Complete, IsFinished, Row, JobStatus

LEMMA UsageCoherent ==
  ASSUME NEW r \in Row, NEW n, Coherent(r)
  PROVE  Coherent([r EXCEPT !.usage = n])
BY DEF Coherent, IsFinished, Row, JobStatus

LEMMA DerivedCoherent ==
  ASSUME NEW r \in Row, Coherent(r), NEW pc, NEW copy, Derived(r, pc, copy),
         pc \notin {"append", "charge"}
  PROVE  Coherent(copy)
<1>1. CASE copy = r
  BY <1>1
<1>2. CASE CanAnswer(r) /\ \E a \in Answers : copy = ProvideAnswer(r, a)
  BY <1>2, NoneIsNoText
  DEF Coherent, ProvideAnswer, CanAnswer, IsFinished, Row, JobStatus
<1>3. CASE copy = Start(r)
  BY <1>3 DEF Coherent, Start, IsFinished, Row, JobStatus
<1>4. CASE copy = Fail(r, "agent")
  BY <1>4, FailCoherent DEF Errors
<1>5. CASE \E q \in Questions : copy = RequestInput(r, q)
  BY <1>5, NoneIsNoText
  DEF Coherent, RequestInput, IsFinished, Row, JobStatus
<1>6. QED
  BY <1>1, <1>2, <1>3, <1>4, <1>5 DEF Derived

LEMMA CoherentStep ==
  TypeOK /\ Fresh /\ AllCoherent /\ [Next]_vars => AllCoherent'
<1> SUFFICES ASSUME TypeOK, Fresh, AllCoherent, [Next]_vars PROVE AllCoherent'
  OBVIOUS
<1>1. ASSUME NEW j \in Jobs, Exists(j)' PROVE Coherent(jobs'[j])
  <2>1. CASE jobs'[j] = jobs[j]
    BY <1>1, <2>1 DEF AllCoherent, RowsCoherent, Exists
  <2>2. CASE Stored(j)
    BY <2>2, StoredIsNew, NewJobCoherent
  <2>3. CASE Exists(j) /\ Overwritten(j)
    <3>1. PICK h \in Handlers :
            /\ At(h, "resume") \/ At(h, "write")
            /\ jobs'[j] = [work[h].copy EXCEPT !.usage = jobs[j].usage]
      BY <2>3 DEF Overwritten
    <3>2. work[h].copy \in Row /\ Coherent(work[h].copy)
      BY <3>1, WorkTyped DEF At, AllCoherent, CopiesCoherent
    <3>3. QED
      BY <3>1, <3>2, UsageCoherent
  <2>4. CASE Exists(j) /\ Reaped(j)
    <3>1. reaping[j] \in Row /\ Coherent(reaping[j])
      BY <2>4 DEF Reaped, TypeOK, AllCoherent, ReapingUnfinished
    <3>2. /\ Fail(reaping[j], "timeout") \in Row
          /\ Coherent(Fail(reaping[j], "timeout"))
      BY <3>1, FailIsRow, FailCoherent DEF Errors
    <3>3. QED
      BY <2>4, <3>2, UsageCoherent DEF Reaped
  <2>5. CASE Exists(j) /\ Charged(j)
    BY <2>5, RowKept, UsageCoherent DEF Charged, AllCoherent, RowsCoherent
  <2>6. QED
    BY <1>1, <2>1, <2>2, <2>3, <2>4, <2>5, RowStep DEF RowChange, Erased, Exists
<1>2. ASSUME NEW h \in Handlers, work'[h] # Idle,
             work'[h].pc \notin {"append", "charge"}
      PROVE  Coherent(work'[h].copy)
  <2>1. CASE work'[h] = work[h]
    BY <1>2, <2>1 DEF AllCoherent, CopiesCoherent
  <2>2. CASE Launched(h)
    BY <2>2, NewJobCoherent DEF Launched
  <2>3. CASE Fetched(h)
    <3>1. PICK j \in Jobs :
            Exists(j) /\ Derived(jobs[j], work'[h].pc, work'[h].copy)
      BY <2>3 DEF Fetched
    <3>2. jobs[j] \in Row /\ Coherent(jobs[j])
      BY <3>1, RowKept DEF AllCoherent, RowsCoherent
    <3>3. QED
      BY <1>2, <3>1, <3>2, DerivedCoherent
  <2>4. CASE work[h] # Idle /\ Advanced(h)
    <3>1. work[h].copy \in Row /\ Coherent(work[h].copy)
      BY <2>4, WorkTyped DEF Advanced, AllCoherent, CopiesCoherent
    <3>2. QED
      BY <2>4, <3>1, FailCoherent, CompleteCoherent DEF Advanced, Errors
  <2>5. QED
    BY <1>2, <2>1, <2>2, <2>3, <2>4, WorkStep DEF WorkChange
<1>3. ASSUME NEW j \in Jobs, reaping'[j] # NoRow
      PROVE  /\ Coherent(reaping'[j])
             /\ reaping'[j].status \in {"pending", "running"}
  BY <1>3, SideStep
  DEF SideChange, IsStale, AllCoherent, RowsCoherent, ReapingUnfinished, Exists
<1>4. QED
  BY <1>1, <1>2, <1>3
  DEF AllCoherent, RowsCoherent, CopiesCoherent, ReapingUnfinished

LEMMA CoherentAlways == Spec => [](TypeOK /\ Fresh /\ AllCoherent)
<1>1. Init => AllCoherent
  BY DEF Init, AllCoherent, RowsCoherent, CopiesCoherent, ReapingUnfinished,
     Exists
<1>2. QED
  BY <1>1, CoherentStep, FreshAlways, PTL DEF Spec

(* Every row a reader can load has the fields its status calls for         *)
(* (domain/job.rs), whatever stale copies are written over it.             *)
THEOREM Coherence == Spec => []RowsCoherent
<1>1. QED
  BY CoherentAlways, PTL DEF AllCoherent
-----------------------------------------------------------------------------
(* A job whose row is completed, or that some request is about to          *)
(* complete, has its results stored.                                       *)

CopiesHaveResults ==
  \A h \in Handlers :
    (/\ work[h] # Idle /\ work[h].pc \notin {"append", "charge"}
     /\ work[h].copy.status = "completed"
     /\ Exists(work[h].job))
      => results[work[h].job] # NoDelivery

HasResults == CompletedHasResults /\ CopiesHaveResults

(* Reading the row of an unfinished job never yields a completed copy.     *)
LEMMA DerivedCompleted ==
  ASSUME NEW r \in Row, NEW pc, NEW copy, Derived(r, pc, copy),
         pc \notin {"append", "charge"}, copy.status = "completed"
  PROVE  r.status = "completed"
BY DEF Derived, Start, Fail, RequestInput, ProvideAnswer, CanAnswer, Row

LEMMA ResultsStep ==
  TypeOK /\ Fresh /\ AllCoherent /\ HasResults /\ [Next]_vars => HasResults'
<1> SUFFICES ASSUME TypeOK, Fresh, AllCoherent, HasResults, [Next]_vars
             PROVE  HasResults'
  OBVIOUS
<1>1. ASSUME NEW j \in Jobs, Exists(j)', Exists(j), results[j] # NoDelivery
      PROVE  results'[j] # NoDelivery
  BY <1>1, SideStep, NoDeliveryIsNone DEF SideChange, Erased, Exists
<1>2. ASSUME NEW j \in Jobs, Exists(j)', jobs'[j].status = "completed"
      PROVE  results'[j] # NoDelivery
  <2>1. CASE Exists(j) /\ jobs[j].status = "completed"
    BY <1>1, <1>2, <2>1 DEF HasResults, CompletedHasResults
  <2>2. CASE Stored(j)
    BY <1>2, <2>2, StoredIsNew DEF NewJob
  <2>3. CASE Exists(j) /\ Overwritten(j)
    <3>1. PICK h \in Handlers :
            /\ At(h, "resume") \/ At(h, "write")
            /\ work[h].job = j
            /\ jobs'[j] = [work[h].copy EXCEPT !.usage = jobs[j].usage]
      BY <2>3 DEF Overwritten
    <3>2. work[h].copy.status = "completed"
      BY <1>2, <3>1, WorkTyped DEF At, Row
    <3>3. QED
      BY <1>1, <1>2, <2>3, <3>1, <3>2 DEF HasResults, CopiesHaveResults, At
  <2>4. CASE Exists(j) /\ Reaped(j)
    <3>1. /\ reaping[j] \in Row
          /\ reaping[j].status \in {"pending", "running"}
      BY <2>4 DEF Reaped, TypeOK, AllCoherent, ReapingUnfinished
    <3>2. jobs'[j].status = "failed"
      BY <2>4, <3>1 DEF Reaped, Fail, Row
    <3>3. QED
      BY <1>2, <3>2
  <2>5. CASE Exists(j) /\ Charged(j)
    <3>1. jobs[j].status = "completed"
      BY <1>2, <2>5, RowKept DEF Charged, Row
    <3>2. QED
      BY <2>1, <2>5, <3>1
  <2>6. QED
    BY <1>2, <2>1, <2>2, <2>3, <2>4, <2>5, RowStep DEF RowChange, Erased, Exists
<1>3. ASSUME NEW h \in Handlers, work'[h] # Idle,
             work'[h].pc \notin {"append", "charge"},
             work'[h].copy.status = "completed", Exists(work[h].job)'
      PROVE  results'[work'[h].job] # NoDelivery
  <2>1. CASE Launched(h)
    BY <1>3, <2>1 DEF Launched, NewJob
  <2>2. CASE Fetched(h)
    <3>1. PICK j \in Jobs :
            /\ Exists(j) /\ work'[h].job = j
            /\ Derived(jobs[j], work'[h].pc, work'[h].copy)
      BY <2>2 DEF Fetched
    <3>2. jobs[j].status = "completed"
      BY <1>3, <3>1, RowKept, DerivedCompleted
    <3>3. QED
      BY <1>1, <1>3, <3>1, <3>2 DEF HasResults, CompletedHasResults, Exists
  <2>3. CASE /\ work[h] # Idle
             /\ work[h].pc \notin {"append", "charge"}
             /\ work'[h].job = work[h].job
             /\ work[h].copy.status = "completed"
    <3> DEFINE j == work[h].job
    <3>1. j \in Jobs
      BY <2>3, WorkTyped
    <3>2. Exists(j)
      BY <1>3, <2>3, <3>1, RowStep
      DEF RowChange, Exists, Erased, Stored, Fresh, Alone, At, NewJob
    <3>3. QED
      BY <1>1, <1>3, <2>3, <3>1, <3>2 DEF HasResults, CopiesHaveResults, Exists
  <2>4. CASE work[h] # Idle /\ Advanced(h) /\ work[h].copy.status # "completed"
    <3>1. work[h].copy \in Row /\ work[h].job \in Jobs
      BY <2>4, WorkTyped DEF Advanced
    <3>2. /\ jobs' = jobs
          /\ Exists(work[h].job) => results'[work[h].job] \in Deliveries
      BY <1>3, <2>4, <3>1 DEF Advanced, Fail, Row
    <3>3. QED
      BY <1>3, <2>4, <3>2, NoDeliveryIsNone DEF Advanced, Exists
  <2>5. QED
    BY <1>3, <2>1, <2>2, <2>3, <2>4, WorkStep DEF WorkChange, Advanced
<1>4. QED
  BY <1>2, <1>3 DEF HasResults, CompletedHasResults, CopiesHaveResults

LEMMA ResultsAlways == Spec => []HasResults
<1>1. Init => HasResults
  BY DEF Init, HasResults, CompletedHasResults, CopiesHaveResults, Exists
<1>2. QED
  BY <1>1, ResultsStep, CoherentAlways, PTL DEF Spec

(* IngestResults::complete stores the results before it writes the status: *)
(* a completed job is never without them.                                  *)
THEOREM ResultsKept == Spec => []CompletedHasResults
BY ResultsAlways, PTL DEF HasResults
-----------------------------------------------------------------------------
(* The daily quota.                                                        *)

LEMMA AgeStep ==
  ASSUME TypeOK, [Next]_vars, NEW j \in Jobs
  PROVE  age'[j] < PastDay => age[j] < PastDay
<1> USE DEF tables, background
<1>1. CASE \E k \in Jobs : AgeJob(k)
  <2>1. PICK k \in Jobs : AgeJob(k)
    BY <1>1
  <2>2. age[j] \in 0..3 /\ age' = [age EXCEPT ![k] = age[k] + 1]
    BY <2>1 DEF AgeJob, TypeOK
  <2>3. age'[j] = age[j] \/ age'[j] = age[j] + 1
    BY <2>2 DEF TypeOK
  <2>4. QED
    BY <2>2, <2>3 DEF PastDay
<1>2. CASE age' = age
  BY <1>2
<1>3. QED
  BY <1>1, <1>2
  DEF Next, HandlerStep, LaunchInsert, AgentAccepts, DispatchOk,
      DispatchError, AnswerClearSteps, AnswerUpdate, StoreResults, AppendStep,
      StoreNothing, AddUsage, Update, Abort, Request, LaunchCheck, AnswerFind, StartedFind,
      ResultsFind, StepFind, QuestionFind, UsageFind, FailureFind, Account,
      DeleteJobs, DeleteUser, DeleteAborts, Background, ReaperList, ReapOne,
      ReaperDone, ReaperError, Purge, PurgeSkipped, vars

(* A job enters the count only by being stored.                            *)
LEMMA RecentStep ==
  ASSUME TypeOK, [Next]_vars, NEW u \in Users, NEW j \in Recent(u)'
  PROVE  j \in Recent(u) \/ (Stored(j) /\ j \in OwnedBy(u))
BY RowStep, AgeStep DEF Recent, OwnedBy, RowChange, Exists, Erased

(* The sets the bound counts are finite.                                   *)
LEMMA Counted ==
  ASSUME NEW u
  PROVE  /\ IsFiniteSet(Recent(u)) /\ IsFiniteSet(Inserting(u))
         /\ Cardinality(Recent(u)) \in Nat
         /\ Cardinality(Inserting(u)) \in Nat
         /\ Cardinality(Inserting(u)) <= Cardinality(Handlers)
         /\ Cardinality(Handlers) \in Nat
<1>1. Recent(u) \subseteq Jobs /\ Inserting(u) \subseteq Handlers
  BY DEF Recent, OwnedBy, Inserting
<1>2. QED
  BY <1>1, FiniteInstances, FS_Subset, FS_CardinalityType

LEMMA CountedNext ==
  ASSUME NEW u
  PROVE  /\ IsFiniteSet(Recent(u)') /\ IsFiniteSet(Inserting(u)')
         /\ Cardinality(Recent(u)') \in Nat
         /\ Cardinality(Inserting(u)') \in Nat
         /\ Cardinality(Inserting(u)') <= Cardinality(Handlers)
<1>1. Recent(u)' \subseteq Jobs /\ Inserting(u)' \subseteq Handlers
  BY DEF Recent, OwnedBy, Inserting
<1>2. QED
  BY <1>1, FiniteInstances, FS_Subset, FS_CardinalityType

LEMMA OneMore ==
  ASSUME NEW S, IsFiniteSet(S), NEW x, NEW T, T \subseteq S \cup {x}
  PROVE  Cardinality(T) <= Cardinality(S) + 1
<1>1. /\ IsFiniteSet(S \cup {x})
      /\ Cardinality(S \cup {x}) \in {Cardinality(S), Cardinality(S) + 1}
  BY FS_AddElement
<1>2. IsFiniteSet(T) /\ Cardinality(T) <= Cardinality(S \cup {x})
  BY <1>1, FS_Subset
<1>3. Cardinality(T) \in Nat /\ Cardinality(S) \in Nat
  BY <1>2, FS_CardinalityType
<1>4. QED
  BY <1>1, <1>2, <1>3

LEMMA OneLess ==
  ASSUME NEW S, IsFiniteSet(S), NEW x \in S, NEW T, T \subseteq S \ {x}
  PROVE  Cardinality(T) <= Cardinality(S) - 1
<1>1. IsFiniteSet(S \ {x}) /\ Cardinality(S \ {x}) = Cardinality(S) - 1
  BY FS_RemoveElement
<1>2. QED
  BY <1>1, FS_Subset

LEMMA QuotaStep ==
  TypeOK /\ Fresh /\ QuotaOvershootBounded /\ [Next]_vars
    => QuotaOvershootBounded'
<1> SUFFICES ASSUME TypeOK, Fresh, [Next]_vars, Handlers # {}, NEW u \in Users,
                    Cardinality(Recent(u)) + Cardinality(Inserting(u))
                      <= Quota + Cardinality(Handlers) - 1
             PROVE  Cardinality(Recent(u)') + Cardinality(Inserting(u)')
                      <= Quota + Cardinality(Handlers) - 1
  BY DEF QuotaOvershootBounded
<1>1. CASE \E j \in Jobs : Stored(j) /\ j \in OwnedBy(u)
  <2>1. PICK j \in Jobs, h \in Handlers :
          /\ j \in OwnedBy(u)
          /\ At(h, "insert") /\ work[h].job = j
          /\ ~At(h, "insert")' /\ work'[h] # work[h]
    BY <1>1 DEF Stored, At
  <2>2. Recent(u)' \subseteq Recent(u) \cup {j}
    <3>1. ASSUME NEW k \in Jobs, Stored(k) PROVE k = j
      <4>1. PICK g \in Handlers :
              At(g, "insert") /\ work[g].job = k /\ work'[g] # work[g]
        BY <3>1 DEF Stored, At
      <4>2. g = h
        BY <2>1, <4>1, OneAtATime
      <4>3. QED
        BY <2>1, <4>1, <4>2
    <3>2. QED
      BY <3>1, RecentStep DEF OwnedBy
  <2>3. Inserting(u)' \subseteq Inserting(u) \ {h}
    <3>1. ASSUME NEW g \in Inserting(u)' PROVE g \in Inserting(u) \ {h}
      <4>1. g \in Handlers /\ g # h
        BY <2>1, <3>1 DEF Inserting
      <4>2. work'[g] = work[g]
        BY <2>1, <4>1, OneAtATime
      <4>3. QED
        BY <3>1, <4>1, <4>2 DEF Inserting, At
    <3>2. QED
      BY <3>1
  <2>4. h \in Inserting(u)
    BY <2>1 DEF Inserting, OwnedBy
  <2>5. Cardinality(Recent(u)') <= Cardinality(Recent(u)) + 1
    BY <2>2, Counted, OneMore
  <2>6. Cardinality(Inserting(u)') <= Cardinality(Inserting(u)) - 1
    BY <2>3, <2>4, Counted, OneLess
  <2>7. QED
    BY <2>5, <2>6, Counted, CountedNext, QuotaIsNat
<1>2. CASE ~\E j \in Jobs : Stored(j) /\ j \in OwnedBy(u)
  <2>1. Recent(u)' \subseteq Recent(u)
    BY <1>2, RecentStep DEF OwnedBy
  <2>2. Cardinality(Recent(u)') <= Cardinality(Recent(u))
    BY <2>1, Counted, FS_Subset
  <2>3. CASE Inserting(u)' \subseteq Inserting(u)
    <3>1. Cardinality(Inserting(u)') <= Cardinality(Inserting(u))
      BY <2>3, Counted, FS_Subset
    <3>2. QED
      BY <2>2, <3>1, Counted, CountedNext, QuotaIsNat
  <2>4. CASE ~(Inserting(u)' \subseteq Inserting(u))
    <3>1. PICK h \in Handlers : /\ At(h, "insert")' /\ ~At(h, "insert")
                                /\ Owner[work'[h].job] = u
      <4>1. PICK h \in Inserting(u)' : h \notin Inserting(u)
        BY <2>4
      <4>2. /\ h \in Handlers /\ At(h, "insert")'
            /\ Owner[work'[h].job] = u /\ work'[h] # work[h]
        BY <4>1 DEF Inserting, At
      <4>3. ~At(h, "insert")
        BY <4>2, WorkStep DEF WorkChange, Advanced, At
      <4>4. QED
        BY <4>2, <4>3
    <3>2. Launched(h)
      BY <3>1, WorkStep DEF At, WorkChange, Advanced, Fetched, Derived
    <3>3. Cardinality(Recent(u)) < Quota
      BY <3>1, <3>2 DEF Launched
    <3>4. QED
      BY <2>2, <3>3, Counted, CountedNext, QuotaIsNat
  <2>5. QED
    BY <2>3, <2>4
<1>3. QED
  BY <1>1, <1>2

(* LaunchSearch counts and inserts without a lock: whatever the launches   *)
(* interleave, an account exceeds its quota by less than the number of     *)
(* requests the server executes at a time.                                 *)
THEOREM QuotaBound == Spec => []QuotaOvershootBounded
<1>1. Init => QuotaOvershootBounded
  <2> SUFFICES ASSUME Init, Handlers # {}, NEW u \in Users
               PROVE  Cardinality(Recent(u)) + Cardinality(Inserting(u))
                        <= Quota + Cardinality(Handlers) - 1
    BY DEF QuotaOvershootBounded
  <2>1. Recent(u) = {} /\ Inserting(u) = {}
    BY DEF Init, Recent, OwnedBy, Inserting, Exists, At
  <2>2. Cardinality(Handlers) # 0 /\ Cardinality(Handlers) \in Nat
    BY FiniteInstances, FS_EmptySet, FS_CardinalityType
  <2>3. QED
    BY <2>1, <2>2, FS_EmptySet, QuotaIsNat
<1>2. QED
  BY <1>1, QuotaStep, FreshAlways, PTL DEF Spec
-----------------------------------------------------------------------------
(* The interleaved handlers implement JobLifecycle: every step moves the   *)
(* lives of the jobs forward, or leaves them where they are.  The kinds of *)
(* steps, as far as a job's life can tell them apart:                      *)

Erases ==
  /\ \E gone \in SUBSET Jobs : Erase(gone)
  /\ UNCHANGED <<drawn, work, reaping>>

GivesUp(h) == At(h, "insert") /\ Abort(h)

(* No row appears or goes, and no job without a row loses or gains the     *)
(* prospect of one.                                                        *)
Quiet ==
  /\ \A j \in Jobs : Exists(j)' <=> Exists(j)
  /\ \A j \in Jobs : ~Exists(j) => (Unborn(j)' <=> Unborn(j))

LEMMA QuietWork ==
  ASSUME TypeOK, NEW h \in Handlers, drawn' = drawn,
         \A g \in Handlers : g # h => work'[g] = work[g],
         ~At(h, "insert"), ~At(h, "insert")',
         \A j \in Jobs : Exists(j)' <=> Exists(j)
  PROVE  Quiet
BY DEF Quiet, Unborn, At

LEMMA Kinds ==
  ASSUME TypeOK, Fresh, [Next]_vars
  PROVE  \/ \E h \in Handlers : LaunchInsert(h) \/ GivesUp(h)
         \/ Erases
         \/ Quiet
<1> USE DEF tables, background
<1>1. ASSUME NEW h \in Handlers, HandlerStep(h)
      PROVE  LaunchInsert(h) \/ GivesUp(h) \/ Quiet
  <2>1. CASE LaunchInsert(h) \/ (Abort(h) /\ At(h, "insert"))
    BY <2>1 DEF GivesUp
  <2>2. CASE ~LaunchInsert(h) /\ ~(Abort(h) /\ At(h, "insert"))
    <3>1. \A g \in Handlers : g # h => work'[g] = work[g]
      BY <1>1, OthersWait
    <3>2. drawn' = drawn /\ ~At(h, "insert")
      BY <1>1, <2>2
      DEF HandlerStep, AgentAccepts, DispatchOk, DispatchError,
          AnswerClearSteps, AnswerUpdate, StoreResults, StoreNothing, AppendStep, AddUsage,
          Update, Abort, At
    <3>3. ~At(h, "insert")'
      <4>1. work'[h] # work[h] => ~At(h, "insert")'
        <5>1. work[h] # Idle
          BY <1>1, <2>2
          DEF HandlerStep, AgentAccepts, DispatchOk, DispatchError,
              AnswerClearSteps, AnswerUpdate, StoreResults, StoreNothing, AppendStep,
              AddUsage, Update, Abort, At
        <5>2. QED
          BY <5>1, WorkStep DEF WorkChange, Advanced, At
      <4>2. QED
        BY <3>2, <4>1 DEF At
    <3>4. ASSUME NEW j \in Jobs PROVE Exists(j)' <=> Exists(j)
      <4>1. CASE AnswerUpdate(h) \/ Update(h) \/ AddUsage(h)
        <5>1. ~Erased(j) \/ ~Exists(j)
          BY <4>1, RowKept, NoRowIsNoRow, WorkTyped
          DEF AnswerUpdate, Update, AddUsage, Overwrite, Erased, Exists, At,
              TypeOK
        <5>2. ~Stored(j)
          BY <3>1, <3>2 DEF Stored, At
        <5>3. QED
          BY <5>1, <5>2, RowStep, NoRowIsNoRow DEF RowChange, Exists, Erased
      <4>2. CASE jobs' = jobs
        BY <4>2 DEF Exists
      <4>3. QED
        BY <1>1, <2>2, <4>1, <4>2
        DEF HandlerStep, AgentAccepts, DispatchOk, DispatchError,
            AnswerClearSteps, StoreResults, StoreNothing, AppendStep, Abort
    <3>5. QED
      BY <3>1, <3>2, <3>3, <3>4, QuietWork
  <2>3. QED
    BY <2>1, <2>2
<1>2. ASSUME NEW h \in Handlers, NEW k \in Jobs, Request(h, k) PROVE Quiet
  <2>1. jobs' = jobs /\ work[h] = Idle
    BY <1>2
    DEF Request, LaunchCheck, AnswerFind, StartedFind, ResultsFind, StepFind,
        QuestionFind, UsageFind, FailureFind, Begin
  <2>2. \A g \in Handlers : g # h => work'[g] = work[g]
    BY <1>2, OthersWait
  <2>3. CASE LaunchCheck(h, k)
    <3>1. work'[h] = [pc |-> "insert", job |-> k, copy |-> NewJob]
      BY <2>3 DEF LaunchCheck, Begin, TypeOK
    <3>2. At(h, "insert")' /\ work'[h].job = k
      <4>1. [pc |-> "insert", job |-> k, copy |-> NewJob] \in Work
        BY NewJobIsRow DEF Work, Pcs
      <4>2. QED
        BY <3>1, <4>1, IdleIsNoWork DEF At
    <3>3. k \notin drawn /\ drawn' = drawn \cup {k}
      BY <2>3 DEF LaunchCheck
    <3>4. ASSUME NEW j \in Jobs PROVE Unborn(j)' <=> Unborn(j)
      BY <2>1, <2>2, <3>2, <3>3 DEF Unborn, At
    <3>5. QED
      BY <2>1, <3>4 DEF Quiet, Exists
  <2>4. CASE ~LaunchCheck(h, k)
    <3>1. drawn' = drawn
      BY <1>2, <2>4
      DEF Request, AnswerFind, StartedFind, ResultsFind, StepFind,
          QuestionFind, UsageFind, FailureFind
    <3>2. ~At(h, "insert")'
      <4>1. work'[h] # Idle => work'[h].pc # "insert"
        BY <1>2, <2>4
        DEF Request, AnswerFind, StartedFind, ResultsFind, StepFind,
            QuestionFind, UsageFind, FailureFind, Begin, TypeOK
      <4>2. QED
        BY <4>1 DEF At
    <3>3. QED
      BY <2>1, <2>2, <3>1, <3>2, QuietWork DEF At, Exists
  <2>5. QED
    BY <2>3, <2>4
<1>3. ASSUME NEW u \in Users, Account(u) PROVE Erases \/ Quiet
  BY <1>3
  DEF Account, DeleteJobs, DeleteUser, DeleteAborts, Erases, OwnedBy, Quiet,
      Exists, Unborn, At
<1>4. CASE Background
  <2>1. CASE Purge
    BY <2>1 DEF Purge, Erases
  <2>2. CASE ReaperList \/ ReaperDone \/ ReaperError \/ PurgeSkipped
    BY <2>2
    DEF ReaperList, ReaperDone, ReaperError, PurgeSkipped, Quiet, Exists,
        Unborn, At
  <2>3. CASE \E k \in Jobs : ReapOne(k)
    <3>1. PICK k \in Jobs : ReapOne(k)
      BY <2>3
    <3>2. ASSUME NEW j \in Jobs PROVE Exists(j)' <=> Exists(j)
      <4>1. Fail(reaping[k], "timeout") \in Row
        BY <3>1, FailIsRow DEF ReapOne, TypeOK, Errors
      <4>2. CASE j = k /\ Exists(k)
        <5>1. jobs'[k] = [Fail(reaping[k], "timeout")
                            EXCEPT !.usage = jobs[k].usage]
          BY <3>1, <4>2 DEF ReapOne, Overwrite, TypeOK
        <5>2. jobs'[k] \in Row
          BY <4>1, <4>2, <5>1, RowKept
        <5>3. QED
          BY <4>2, <5>2, NoRowIsNoRow DEF Exists
      <4>3. CASE ~(j = k /\ Exists(k))
        BY <3>1, <4>3 DEF ReapOne, Overwrite, Exists, TypeOK
      <4>4. QED
        BY <4>2, <4>3
    <3>3. QED
      BY <3>1, <3>2 DEF ReapOne, Quiet, Unborn, At
  <2>4. QED
    BY <1>4, <2>1, <2>2, <2>3 DEF Background
<1>5. ASSUME NEW k \in Jobs, AgeJob(k) PROVE Quiet
  BY <1>5 DEF AgeJob, Quiet, Exists, Unborn, At
<1>6. CASE UNCHANGED vars
  BY <1>6 DEF vars, Quiet, Exists, Unborn, At
<1>7. QED
  BY <1>1, <1>2, <1>3, <1>4, <1>5, <1>6 DEF Next
-----------------------------------------------------------------------------
(* Once the completion of a job is settled, no step of a request or of the *)
(* reaper unsettles it while its row is there.                             *)
LEMMA SettledStep ==
  ASSUME TypeOK, Fresh, [Next]_vars, NEW j \in Jobs, Settled(j), Exists(j)'
  PROVE  Settled(j)'
<1>1. Exists(j) /\ jobs[j] \in Row /\ jobs[j].status = "completed"
      /\ reaping[j] = NoRow
  BY RowKept DEF Settled
<1>2. jobs'[j].status = "completed"
  <2>1. CASE Overwritten(j)
    <3>1. PICK h \in Handlers :
            /\ At(h, "resume") \/ At(h, "write")
            /\ work[h].job = j
            /\ jobs'[j] = [work[h].copy EXCEPT !.usage = jobs[j].usage]
      BY <2>1 DEF Overwritten
    <3>2. work[h].copy \in Row /\ work[h].copy.status = "completed"
      BY <3>1, WorkTyped DEF At, Settled, MayClobber
    <3>3. QED
      BY <3>1, <3>2 DEF Row
  <2>2. CASE Charged(j)
    BY <1>1, <2>2 DEF Charged, Row
  <2>3. ~Reaped(j) /\ ~Stored(j)
    BY <1>1, StoredIsNew DEF Reaped
  <2>4. QED
    BY <1>1, <2>1, <2>2, <2>3, RowStep DEF RowChange, Erased, Exists
<1>3. reaping'[j] = NoRow
  BY <1>1, SideStep DEF SideChange, IsStale
<1>4. ASSUME NEW h \in Handlers, MayClobber(h, j)' PROVE FALSE
  <2>1. /\ work'[h] # Idle /\ work'[h].job = j
        /\ work'[h].pc \in {"clear", "resume", "dispatch", "replied", "write"}
        /\ work'[h].copy.status # "completed"
    BY <1>4 DEF MayClobber
  <2>2. CASE work'[h] = work[h]
    BY <2>1, <2>2 DEF Settled, MayClobber
  <2>3. CASE Launched(h)
    BY <2>1, <2>3 DEF Launched
  <2>4. CASE Fetched(h)
    <3>1. Derived(jobs[j], work'[h].pc, work'[h].copy)
      BY <2>1, <2>4 DEF Fetched
    <3>2. QED
      BY <1>1, <2>1, <3>1
      DEF Derived, CanAnswer, Start, Fail, RequestInput
  <2>5. CASE work[h] # Idle /\ Advanced(h)
    <3>1. work[h].job = j /\ work[h].copy \in Row /\ work[h] \in Work
      BY <2>1, <2>5, WorkTyped DEF Advanced
    <3>2. CASE work[h].pc = "store"
      BY <2>1, <2>5, <3>1, <3>2 DEF Advanced, Complete, Row
    <3>3. CASE work[h].pc = "insert"
      BY <1>1, <2>5, <3>1, <3>3 DEF Fresh, Alone, At
    <3>4. CASE work[h].pc \notin {"store", "insert"}
      <4>1. work[h].copy.status = "completed"
        BY <2>5, <3>1, <3>4 DEF Settled, MayClobber, Advanced, Work, Pcs
      <4>2. QED
        BY <2>1, <2>5, <3>1, <4>1 DEF Advanced, Fail, Complete, Row
    <3>5. QED
      BY <3>2, <3>3, <3>4
  <2>6. QED
    BY <2>1, <2>2, <2>3, <2>4, <2>5, WorkStep DEF WorkChange
<1>5. QED
  BY <1>2, <1>3, <1>4 DEF Settled, Exists
-----------------------------------------------------------------------------
(* The refinement.                                                         *)

LEMMA InsertRefines ==
  ASSUME TypeOK, Fresh, [Next]_vars, NEW h \in Handlers, LaunchInsert(h)
  PROVE  Lifecycle!Launch
<1> PICK k \in Jobs : k = work[h].job
  BY WorkTyped DEF LaunchInsert, At
<1>1. At(h, "insert") /\ Alone(h)
  BY DEF LaunchInsert, Fresh
<1>2. Phase(k) = "absent"
  BY <1>1 DEF Phase, Unborn, Alone
<1>3. Phase(k)' = "open"
  <2>1. jobs'[k] = NewJob
    BY <1>1 DEF LaunchInsert, TypeOK, Alone
  <2>2. Exists(k)' /\ ~Settled(k)'
    <3>1. NewJob # NoRow /\ NewJob.status # "completed"
      BY NewJobIsRow, NoRowIsNoRow DEF NewJob
    <3>2. QED
      BY <2>1, <3>1 DEF Exists, Settled
  <2>3. QED
    BY <2>2 DEF Phase
<1>4. ASSUME NEW j \in Jobs \ {k} PROVE Phase(j)' = Phase(j)
  <2>1. \A g \in Handlers : g # h => work'[g] = work[g]
    BY OthersWait DEF HandlerStep
  <2>2. work'[h] # Idle => work'[h].job = k
    BY <1>1 DEF LaunchInsert, Go, TypeOK
  <2>3. jobs'[j] = jobs[j] /\ reaping' = reaping /\ drawn' = drawn
    BY <1>1 DEF LaunchInsert, TypeOK, background
  <2>4. \A g \in Handlers : MayClobber(g, j)' <=> MayClobber(g, j)
    BY <1>1, <2>1, <2>2 DEF MayClobber, At
  <2>5. Unborn(j)' <=> Unborn(j)
    BY <1>1, <2>1, <2>2, <2>3 DEF Unborn, At
  <2>6. Settled(j)' <=> Settled(j)
    BY <2>3, <2>4 DEF Settled, Exists
  <2>7. QED
    BY <2>3, <2>5, <2>6 DEF Phase, Exists
<1>5. {k} \in SUBSET Jobs /\ k \in {k} /\ \A j \in Jobs : j \in {k} => j = k
  OBVIOUS
<1>6. Lifecycle!Move({k}, {"absent"}, "open")
  BY <1>2, <1>3, <1>4, <1>5 DEF Lifecycle!Move
<1>7. QED
  BY <1>6 DEF Lifecycle!Launch

LEMMA EraseRefines ==
  ASSUME TypeOK, Fresh, Erases
  PROVE  Lifecycle!Close
<1>1. PICK gone \in SUBSET Jobs : Erase(gone)
  BY DEF Erases
<1> DEFINE group == {j \in gone : Exists(j)}
<1>2. ASSUME NEW j \in group
      PROVE  Phase(j) \in {"absent", "open", "settled"} /\ Phase(j)' = "gone"
  <2>1. Exists(j) /\ ~Exists(j)' /\ j \in Jobs
    BY <1>1 DEF Erase, Exists
  <2>2. ~Unborn(j)'
    BY <2>1 DEF Erases, Unborn, At, Fresh, Undrawn, Alone
  <2>3. QED
    BY <2>1, <2>2 DEF Phase
<1>3. ASSUME NEW j \in Jobs \ group PROVE Phase(j)' = Phase(j)
  <2>1. jobs'[j] = jobs[j]
    BY <1>1 DEF Erase, Exists
  <2>2. QED
    BY <2>1 DEF Phase, Exists, Settled, MayClobber, Unborn, At, Erases
<1>4. group \in SUBSET Jobs
  OBVIOUS
<1>5. QED
  BY <1>2, <1>3, <1>4 DEF Lifecycle!Close, Lifecycle!Move

LEMMA GiveUpRefines ==
  ASSUME TypeOK, Fresh, NEW h \in Handlers, GivesUp(h)
  PROVE  Lifecycle!Close
<1> PICK k \in Jobs : k = work[h].job
  BY WorkTyped DEF GivesUp, At
<1>1. At(h, "insert") /\ Alone(h) /\ k \in drawn
  BY DEF GivesUp, At, Fresh, WorkDrawn
<1>2. /\ work'[h] = Idle
      /\ \A g \in Handlers : g # h => work'[g] = work[g]
      /\ jobs' = jobs /\ drawn' = drawn /\ reaping' = reaping
  BY DEF GivesUp, Abort, End, TypeOK, tables, background
<1>3. Phase(k) = "absent" /\ Phase(k)' = "gone"
  <2>1. ~Exists(k) /\ ~Exists(k)' /\ Unborn(k)
    BY <1>1, <1>2 DEF Alone, Exists, Unborn
  <2>2. ~Unborn(k)'
    BY <1>1, <1>2 DEF Unborn, At, Alone
  <2>3. QED
    BY <2>1, <2>2 DEF Phase
<1>4. ASSUME NEW j \in Jobs \ {k} PROVE Phase(j)' = Phase(j)
  <2>1. \A g \in Handlers : MayClobber(g, j)' <=> MayClobber(g, j)
    BY <1>1, <1>2 DEF MayClobber, At
  <2>2. Unborn(j)' <=> Unborn(j)
    BY <1>1, <1>2 DEF Unborn, At
  <2>3. QED
    BY <1>2, <2>1, <2>2 DEF Phase, Exists, Settled
<1>5. Lifecycle!Move({k}, {"absent", "open", "settled"}, "gone")
  BY <1>3, <1>4 DEF Lifecycle!Move
<1>6. QED
  BY <1>5 DEF Lifecycle!Close

LEMMA QuietRefines ==
  ASSUME TypeOK, Fresh, [Next]_vars, Quiet
  PROVE  Lifecycle!Settle
<1> PICK group \in SUBSET Jobs : group = {j \in Jobs : Phase(j)' # Phase(j)}
  OBVIOUS
<1>1. ASSUME NEW j \in group PROVE Phase(j) = "open" /\ Phase(j)' = "settled"
  BY <1>1, SettledStep DEF Phase, Quiet
<1>2. Lifecycle!Move(group, {"open"}, "settled")
  BY <1>1 DEF Lifecycle!Move
<1>3. QED
  BY <1>2 DEF Lifecycle!Settle

(* A job is stored once, is final once its completion is settled, and      *)
(* never comes back once deleted (the use cases over postgres.rs).         *)
THEOREM LifeRefines == Spec => LifeMovesForward
<1>1. Init => Lifecycle!Init
  BY DEF Init, Lifecycle!Init, Phase, Exists, Unborn
<1>2. TypeOK /\ Fresh /\ [Next]_vars => Lifecycle!Next
  BY Kinds, InsertRefines, EraseRefines, GiveUpRefines, QuietRefines
  DEF Lifecycle!Next
<1>3. QED
  BY <1>1, <1>2, FreshAlways, PTL DEF Spec, LifeMovesForward, Lifecycle!Spec
-----------------------------------------------------------------------------
(* Liveness.  A job that stays unfinished grows older than the time-out;   *)
(* the loop comes round, so the reaper lists it; and what the reaper holds *)
(* again and again it writes in the end, after which the job is finished.  *)

Grown(j) == age[j] >= PastTimeout

Turning == loop # "reaping"

Held(j) == loop = "reaping" /\ reaping[j] # NoRow

Ready(j) ==
  /\ loop = "waiting" => ENABLED <<ReaperList>>_vars
  /\ loop = "purging" => ENABLED <<Purge \/ PurgeSkipped>>_vars
  /\ Held(j) => ENABLED <<ReapOne(j)>>_vars
  /\ j \in drawn /\ age[j] < MaxAge => ENABLED <<AgeJob(j)>>_vars

(* A job only grows older.                                                 *)
LEMMA GrownStep ==
  ASSUME NEW j \in Jobs, TypeOK, [Next]_vars, Grown(j)
  PROVE  Grown(j)'
<1> USE DEF Grown, PastTimeout, tables, background
<1>1. CASE \E k \in Jobs : AgeJob(k)
  BY <1>1 DEF AgeJob, TypeOK
<1>2. CASE \E h \in Handlers : HandlerStep(h)
  BY <1>2 DEF HandlerStep, LaunchInsert, AgentAccepts, DispatchOk,
     DispatchError, AnswerClearSteps, AnswerUpdate, StoreResults,
     StoreNothing, AppendStep, AddUsage, Update, Abort
<1>3. CASE \E h \in Handlers, k \in Jobs : Request(h, k)
  BY <1>3 DEF Request, LaunchCheck, AnswerFind, StartedFind, ResultsFind,
     StepFind, QuestionFind, UsageFind, FailureFind
<1>4. CASE (\E u \in Users : Account(u)) \/ Background
  BY <1>4 DEF Account, DeleteJobs, DeleteUser, DeleteAborts, Background,
     ReaperList, ReapOne, ReaperDone, ReaperError, Purge, PurgeSkipped
<1>5. CASE UNCHANGED vars
  BY <1>5 DEF vars
<1>6. QED
  BY <1>1, <1>2, <1>3, <1>4, <1>5 DEF Next

LEMMA GrowsOld ==
  ASSUME NEW j \in Jobs, TypeOK, AgeJob(j)
  PROVE  Grown(j)'
BY DEF Grown, PastTimeout, AgeJob, TypeOK

(* Nobody but the loop moves the loop, and it goes round.                  *)
LEMMA LoopStep ==
  ASSUME NEW j \in Jobs, TypeOK, [Next]_vars
  PROVE  /\ loop = "waiting" /\ IsStale(j) => (loop = "waiting")' \/ Held(j)'
         /\ loop = "purging" => (loop \in {"purging", "waiting"})'
         /\ ReaperList /\ IsStale(j) => Held(j)'
         /\ Purge \/ PurgeSkipped => (loop = "waiting")'
<1>1. loop' = loop \/ ReaperList \/ ReaperDone \/ ReaperError
        \/ Purge \/ PurgeSkipped
  <2> USE DEF tables, background
  <2>1. CASE (\E k \in Jobs : AgeJob(k)) \/ \E k \in Jobs : ReapOne(k)
    BY <2>1 DEF AgeJob, ReapOne
  <2>2. CASE \E h \in Handlers : HandlerStep(h)
    BY <2>2 DEF HandlerStep, LaunchInsert, AgentAccepts, DispatchOk,
       DispatchError, AnswerClearSteps, AnswerUpdate, StoreResults,
       StoreNothing, AppendStep, AddUsage, Update, Abort
  <2>3. CASE \E h \in Handlers, k \in Jobs : Request(h, k)
    BY <2>3 DEF Request, LaunchCheck, AnswerFind, StartedFind, ResultsFind,
       StepFind, QuestionFind, UsageFind, FailureFind
  <2>4. CASE UNCHANGED vars \/ \E u \in Users : Account(u)
    BY <2>4 DEF vars, Account, DeleteJobs, DeleteUser, DeleteAborts
  <2>5. QED
    BY <2>1, <2>2, <2>3, <2>4 DEF Background, Next
<1>2. ReaperList /\ IsStale(j) => Held(j)'
  BY DEF ReaperList, Held, IsStale, Exists
<1>3. QED
  BY <1>1, <1>2 DEF ReaperList, ReaperDone, ReaperError, Purge, PurgeSkipped

(* The write of the reaper ends the job, or finds it gone.                 *)
LEMMA ReapedIsFinished ==
  ASSUME NEW j \in Jobs, TypeOK, ReapOne(j)
  PROVE  ~Unfinished(j)'
<1>1. reaping[j] \in Row
  BY DEF TypeOK, ReapOne
<1>2. Fail(reaping[j], "timeout").status \in {"completed", "failed"}
  BY <1>1 DEF Fail, Row
<1>3. CASE Exists(j)
  <2>1. Fail(reaping[j], "timeout") \in Row
    BY <1>1, FailIsRow DEF Errors
  <2>2. jobs'[j] = [Fail(reaping[j], "timeout") EXCEPT !.usage = jobs[j].usage]
    BY <1>3 DEF ReapOne, Overwrite, TypeOK
  <2>3. jobs'[j].status = Fail(reaping[j], "timeout").status
    BY <2>1, <2>2 DEF Row
  <2>4. QED
    BY <1>2, <2>3 DEF Unfinished
<1>4. CASE ~Exists(j)
  BY <1>4 DEF ReapOne, Overwrite, Exists, Unfinished
<1>5. QED
  BY <1>3, <1>4

(* One job, under the fairness that concerns it.                           *)
Watched(j) ==
  /\ [](TypeOK /\ Fresh) /\ [][Next]_vars /\ []Ready(j)
  /\ WF_vars(ReaperList) /\ WF_vars(Purge \/ PurgeSkipped)
  /\ JobFairness(j) /\ ReaperEnds

LEMMA EveryoneIsSettled ==
  ASSUME NEW j \in Jobs, MaxAge >= PastTimeout
  PROVE  Watched(j) => IsSettled(j)
<1>1. TypeOK /\ Grown(j) /\ [Next]_vars => Grown(j)'
  BY GrownStep
<1>2. TypeOK /\ <<AgeJob(j)>>_vars => Grown(j)'
  BY GrowsOld
<1>3. TypeOK /\ Fresh /\ Ready(j) /\ Unfinished(j)
        => Grown(j) \/ ENABLED <<AgeJob(j)>>_vars
  <2> SUFFICES ASSUME TypeOK, Fresh, Unfinished(j), ~Grown(j)
               PROVE  j \in drawn /\ age[j] < MaxAge
    BY DEF Ready
  <2>1. j \in drawn
    BY DEF Fresh, Undrawn, Unfinished
  <2>2. age[j] < MaxAge
    BY BoundsAreNat DEF Grown, PastTimeout, TypeOK
  <2>3. QED
    BY <2>1, <2>2
<1>4. Unfinished(j) /\ Grown(j) => IsStale(j)
  BY DEF Unfinished, Grown, IsStale
<1>5. /\ TypeOK /\ [Next]_vars /\ loop = "waiting" /\ IsStale(j)
           => (loop = "waiting")' \/ Held(j)'
      /\ TypeOK /\ [Next]_vars /\ loop = "purging"
           => (loop = "purging")' \/ (loop = "waiting")'
      /\ TypeOK /\ <<Next /\ ReaperList>>_vars /\ IsStale(j) => Held(j)'
      /\ TypeOK /\ <<Next /\ (Purge \/ PurgeSkipped)>>_vars
           => (loop = "waiting")'
  BY LoopStep
<1>6. TypeOK /\ <<ReapOne(j)>>_vars => ~Unfinished(j)'
  BY ReapedIsFinished
<1>7. TypeOK /\ Turning => loop = "waiting" \/ loop = "purging"
  BY DEF TypeOK, Turning
<1>8. /\ Ready(j) /\ loop = "waiting" => ENABLED <<ReaperList>>_vars
      /\ Ready(j) /\ loop = "purging" => ENABLED <<Purge \/ PurgeSkipped>>_vars
      /\ Ready(j) /\ Held(j) => ENABLED <<ReapOne(j)>>_vars
  BY DEF Ready
<1>9. (loop # "reaping") <=> Turning
  BY DEF Turning
<1>10. QED
  BY <1>1, <1>2, <1>3, <1>4, <1>5, <1>6, <1>7, <1>8, <1>9, PTL
  DEF Watched, JobFairness, ReaperEnds, IsSettled

(* Assumed of the theorem below, since ENABLED is beyond the prover: the   *)
(* loop's statements wait for nothing but the loop, as their guards say,   *)
(* and a job that exists can grow older.                                   *)
LoopIsReady ==
  /\ loop = "waiting" => ENABLED <<ReaperList>>_vars
  /\ loop = "purging" => ENABLED <<Purge \/ PurgeSkipped>>_vars
  /\ \A j \in Jobs :
       /\ loop = "reaping" /\ reaping[j] # NoRow => ENABLED <<ReapOne(j)>>_vars
       /\ j \in drawn /\ age[j] < MaxAge => ENABLED <<AgeJob(j)>>_vars

(* ADR-016: no job stays pending or running for ever, whatever the agent   *)
(* and the requests do (fail_stale_jobs.rs, the loop of main.rs), provided *)
(* that the loop's next statement can be executed wherever the loop is,    *)
(* and that each run of the reaper ends.                                   *)
THEOREM LoopSettles ==
  ASSUME MaxAge >= PastTimeout
  PROVE  FairSpec /\ []LoopIsReady /\ ReaperEnds => UnfinishedIsSettled
<1>1. ASSUME NEW j \in Jobs
      PROVE  FairSpec /\ []LoopIsReady /\ ReaperEnds => IsSettled(j)
  <2>1. JobsFairness => JobFairness(j)
    BY DEF JobsFairness
  <2>2. LoopIsReady => Ready(j)
    BY DEF LoopIsReady, Ready, Held
  <2>3. Watched(j) => IsSettled(j)
    BY EveryoneIsSettled
  <2>4. QED
    BY <2>1, <2>2, <2>3, FreshAlways, PTL
    DEF FairSpec, Spec, Fairness, Watched
<1>2. (\A j \in Jobs :
         FairSpec /\ []LoopIsReady /\ ReaperEnds => IsSettled(j))
      => (FairSpec /\ []LoopIsReady /\ ReaperEnds
            => \A j \in Jobs : IsSettled(j))
  OBVIOUS
<1>3. QED
  BY <1>1, <1>2 DEF UnfinishedIsSettled
==============================================================================
