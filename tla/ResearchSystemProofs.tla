------------------------- MODULE ResearchSystemProofs ------------------------
(***************************************************************************)
(* The backend with its agent is an instance of the open backend, so that  *)
(* every theorem of JobHandlers holds of the whole system; and the spend   *)
(* of an attempt is counted once.                                          *)
(***************************************************************************)
EXTENDS ResearchSystem, JobHandlersProofs
-----------------------------------------------------------------------------
(* A callback is one of the requests the backend answers at any time.      *)
LEMMA PostIsRequest ==
  ASSUME NEW t \in Tasks, NEW h \in Handlers, task[t].job \in Jobs, Post(t, h)
  PROVE  Request(h, task[t].job)
BY DEF Post, Request

LEMMA AgentIsEnvironment ==
  ASSUME SystemTypeOK, NEW t \in Tasks,
         \/ WorkerTakes(t) \/ Misconfigured(t) \/ Decide(t) \/ CallFails(t)
         \/ WorkerCrash(t) \/ LoseTask(t)
         \/ \E h \in Handlers : Post(t, h) \/ Enqueue(h, t)
  PROVE  [Next]_vars
<1>1. ASSUME NEW h \in Handlers, Post(t, h) PROVE Next
  <2>1. task[t].job \in Jobs
    BY <1>1 DEF Post, SystemTypeOK, Task
  <2>2. QED
    BY <1>1, <2>1, PostIsRequest DEF Next
<1>2. ASSUME NEW h \in Handlers, Enqueue(h, t) PROVE Next
  BY <1>2 DEF Enqueue, HandlerStep, Next
<1>3. QED
  BY <1>1, <1>2
  DEF WorkerTakes, Misconfigured, Decide, CallFails, WorkerCrash, LoseTask

LEMMA StepIsHandlers == SystemTypeOK /\ [SystemNext]_systemVars => [Next]_vars
<1> SUFFICES ASSUME SystemTypeOK, [SystemNext]_systemVars PROVE [Next]_vars
  OBVIOUS
<1>1. CASE User
  BY <1>1 DEF User, Request, Next
<1>2. CASE \E h \in Handlers : Serve(h) \/ Finish(h) \/ Abort(h)
  BY <1>2 DEF Serve, Finish, HandlerStep, Next
<1>3. CASE Background \/ \E j \in Jobs : AgeJob(j)
  BY <1>3 DEF Next
<1>4. CASE Agent
  BY <1>4, AgentIsEnvironment DEF Agent
<1>5. CASE UNCHANGED systemVars
  BY <1>5 DEF systemVars
<1>6. QED
  BY <1>1, <1>2, <1>3, <1>4, <1>5 DEF SystemNext
-----------------------------------------------------------------------------
(* A worker waits for one reply at a time, and only while it runs a task.  *)

CallersRun ==
  \A h \in Handlers :
    caller[h] # NoTask
      => task[caller[h]] # NoTask /\ task[caller[h]].at # "queued"

OneCallEach ==
  \A g, h \in Handlers : caller[g] = caller[h] /\ caller[g] # NoTask => g = h

SystemInv == SystemTypeOK /\ CallersRun /\ OneCallEach

LEMMA TaskTyped ==
  ASSUME SystemTypeOK, NEW t \in Tasks, task[t] # NoTask
  PROVE  task[t] \in Task
BY DEF SystemTypeOK

LEMMA PlaceTyped ==
  ASSUME NEW rec \in Task, NEW place \in Places
  PROVE  /\ [rec EXCEPT !.at = place] \in Task
         /\ [rec EXCEPT !.at = place].at = place
BY DEF Task

LEMMA LeaveTyped ==
  ASSUME NEW rec \in Task PROVE Leave(rec) \in Task \cup {NoTask}
<1>1. CASE rec.at = "retry" /\ rec.tries < MaxRetries
  <2>1. rec.tries + 1 \in 0..MaxRetries
    BY <1>1, AgentBounds DEF Task
  <2>2. QED
    BY <1>1, <2>1 DEF Leave, Task, Places
<1>2. CASE ~(rec.at = "retry" /\ rec.tries < MaxRetries)
  BY <1>2 DEF Leave
<1>3. QED
  BY <1>1, <1>2

LEMMA AfterTyped ==
  ASSUME NEW rec \in Task, rec.at # "queued", NEW ok \in BOOLEAN
  PROVE  After(rec, ok) \in Task \cup {NoTask}
<1>1. rec.at \in {"start", "work", "deliver", "ask", "fail", "broken", "done",
                  "retry"}
  BY DEF Task, Places
<1>2. CASE rec.at = "start"
  BY <1>2, PlaceTyped DEF After, Places
<1>3. CASE rec.at = "work"
  BY <1>3 DEF After
<1>4. CASE rec.at \in {"deliver", "ask"}
  BY <1>4, PlaceTyped DEF After, Places
<1>5. CASE rec.at = "fail"
  BY <1>5, PlaceTyped DEF After, Places
<1>6. CASE rec.at \in {"done", "retry"}
  BY <1>6, LeaveTyped DEF After
<1>7. CASE rec.at = "broken"
  <2>1. PICK ended \in Task : ended = [rec EXCEPT !.at = "retry"]
    BY PlaceTyped DEF Places
  <2>2. QED
    BY <1>7, <2>1, LeaveTyped DEF After
<1>8. QED
  BY <1>1, <1>2, <1>3, <1>4, <1>5, <1>6, <1>7

(* The agent's part of the invariant.                                      *)
AgentInv ==
  /\ task \in [Tasks -> Task \cup {NoTask}]
  /\ caller \in [Handlers -> Tasks \cup {NoTask}]
  /\ attempts \in [Jobs -> 0..MaxAttempts]
  /\ crashes \in 0..MaxCrashes
  /\ CallersRun
  /\ OneCallEach

LEMMA ReplyKeeps ==
  ASSUME SystemInv, NEW h \in Handlers, NEW ok \in BOOLEAN, Reply(h, ok)
  PROVE  AgentInv'
<1>1. CASE caller[h] = NoTask
  BY <1>1
  DEF Reply, SystemInv, SystemTypeOK, AgentInv, CallersRun, OneCallEach
<1>2. CASE caller[h] # NoTask
  <2>1. PICK t \in Tasks : t = caller[h] /\ task[t] \in Task
                           /\ task[t].at # "queued"
    BY <1>2 DEF SystemInv, SystemTypeOK, CallersRun
  <2>2. PICK new \in Task \cup {NoTask} : new = After(task[t], ok)
    BY <2>1, AfterTyped
  <2>3. /\ task' = [task EXCEPT ![t] = new]
        /\ caller' = [caller EXCEPT ![h] = NoTask]
        /\ attempts' = attempts /\ crashes' = crashes
    BY <1>2, <2>1, <2>2 DEF Reply
  <2>4. CallersRun'
    BY <1>2, <2>1, <2>3 DEF SystemInv, SystemTypeOK, CallersRun, OneCallEach
  <2>5. OneCallEach'
    BY <2>3 DEF SystemInv, SystemTypeOK, OneCallEach
  <2>6. QED
    BY <2>3, <2>4, <2>5 DEF SystemInv, SystemTypeOK, AgentInv
<1>3. QED
  BY <1>1, <1>2

(* A step of a task whose worker waits for no reply.                       *)
LEMMA MoveKeeps ==
  ASSUME SystemInv, NEW t \in Tasks, NEW new \in Task \cup {NoTask},
         ~Waiting(t), task' = [task EXCEPT ![t] = new],
         caller' = caller, attempts' \in [Jobs -> 0..MaxAttempts],
         crashes' = crashes
  PROVE  AgentInv'
BY DEF SystemInv, SystemTypeOK, AgentInv, CallersRun, OneCallEach, Waiting

(* A step that ends the wait of a task, if there is one.                   *)
LEMMA HangKeeps ==
  ASSUME SystemInv, NEW t \in Tasks, NEW new \in Task \cup {NoTask},
         task' = [task EXCEPT ![t] = new], caller' = Hung(t),
         attempts' = attempts, crashes' \in 0..MaxCrashes
  PROVE  AgentInv'
<1>1. /\ caller' \in [Handlers -> Tasks \cup {NoTask}]
      /\ task' \in [Tasks -> Task \cup {NoTask}]
  BY DEF Hung, SystemInv, SystemTypeOK
<1>2. ASSUME NEW h \in Handlers, caller'[h] # NoTask
      PROVE  caller'[h] = caller[h] /\ caller[h] # t
  BY <1>2 DEF Hung
<1>3. CallersRun'
  BY <1>1, <1>2 DEF SystemInv, SystemTypeOK, CallersRun
<1>4. OneCallEach'
  BY <1>2 DEF SystemInv, OneCallEach
<1>5. QED
  BY <1>1, <1>3, <1>4 DEF AgentInv, SystemInv, SystemTypeOK

LEMMA TaskStep ==
  ASSUME SystemInv, NEW t \in Tasks,
         \/ WorkerTakes(t) \/ Misconfigured(t) \/ Decide(t) \/ CallFails(t)
         \/ WorkerCrash(t) \/ LoseTask(t)
         \/ \E h \in Handlers : Post(t, h) \/ Enqueue(h, t)
  PROVE  AgentInv'
<1>1. ASSUME NEW place \in Places, task[t] # NoTask
      PROVE  [task[t] EXCEPT !.at = place] \in Task
  BY <1>1, TaskTyped, PlaceTyped DEF SystemInv
<1>2. Is(t, "queued") => ~Waiting(t)
  BY NoTaskIsNoTask DEF Is, Waiting, SystemInv, CallersRun
<1>3. CASE WorkerTakes(t)
  <2>1. [task[t] EXCEPT !.at = "start"] \in Task
    BY <1>1, <1>3 DEF WorkerTakes, Is, Places
  <2>2. task[t].job \in Jobs /\ attempts[task[t].job] \in 0..MaxAttempts
    BY <1>3, TaskTyped
    DEF WorkerTakes, Is, Task, SystemInv, SystemTypeOK
  <2>3. attempts[task[t].job] + 1 \in 0..MaxAttempts
    BY <1>3, <2>2, AgentBounds DEF WorkerTakes
  <2>4. attempts' \in [Jobs -> 0..MaxAttempts]
    BY <1>3, <2>3 DEF WorkerTakes, SystemInv, SystemTypeOK
  <2>5. QED
    BY <1>2, <1>3, <2>1, <2>4, MoveKeeps DEF WorkerTakes, To
<1>4. CASE Misconfigured(t)
  <2>1. [task[t] EXCEPT !.at = "broken"] \in Task
    BY <1>1, <1>4 DEF Misconfigured, Is, Places
  <2>2. QED
    BY <1>4, <2>1, MoveKeeps DEF Misconfigured, To, SystemInv, SystemTypeOK
<1>5. CASE Decide(t)
  <2>1. PICK place \in Places : To(t, place)
    BY <1>5 DEF Decide, Places
  <2>2. [task[t] EXCEPT !.at = place] \in Task
    BY <1>1, <1>5 DEF Decide, Is
  <2>3. QED
    BY <1>5, <2>1, <2>2, MoveKeeps DEF Decide, To, SystemInv, SystemTypeOK
<1>6. CASE CallFails(t)
  <2>1. After(task[t], FALSE) \in Task \cup {NoTask}
    BY <1>6, TaskTyped, AfterTyped DEF CallFails, SystemInv
  <2>2. QED
    BY <1>6, <2>1, HangKeeps DEF CallFails, SystemInv, SystemTypeOK
<1>7. CASE WorkerCrash(t)
  <2>1. [task[t] EXCEPT !.at = "queued"] \in Task
    BY <1>1, <1>7 DEF WorkerCrash, Places
  <2>2. crashes' \in 0..MaxCrashes
    BY <1>7, AgentBounds DEF WorkerCrash, SystemInv, SystemTypeOK
  <2>3. QED
    BY <1>7, <2>1, <2>2, HangKeeps DEF WorkerCrash, To
<1>8. CASE LoseTask(t)
  BY <1>2, <1>8, MoveKeeps DEF LoseTask, SystemInv, SystemTypeOK
<1>9. CASE \E h \in Handlers : Post(t, h)
  <2>1. PICK h \in Handlers : Post(t, h)
    BY <1>9
  <2>2. task[t] # NoTask /\ task[t].at # "queued"
    BY <2>1 DEF Post, Is
  <2>3. /\ caller' = [caller EXCEPT ![h] = t] /\ ~Waiting(t)
        /\ task' = task /\ attempts' = attempts /\ crashes' = crashes
    BY <2>1 DEF Post, Call
  <2>4. CallersRun' /\ OneCallEach'
    BY <2>2, <2>3
    DEF SystemInv, SystemTypeOK, CallersRun, OneCallEach, Waiting
  <2>5. QED
    BY <2>3, <2>4 DEF SystemInv, SystemTypeOK, AgentInv
<1>10. CASE \E h \in Handlers : Enqueue(h, t)
  <2>1. PICK h \in Handlers : Enqueue(h, t)
    BY <1>10
  <2>2. /\ work[h].job \in Jobs
        /\ work[h].copy.answer \in Answers \cup {None}
    BY <2>1, WorkTyped
    DEF Enqueue, AgentAccepts, At, SystemInv, SystemTypeOK, Row
  <2>3. ~Waiting(t)
    BY <2>1, NoTaskIsNoTask DEF Enqueue, Waiting, SystemInv, CallersRun
  <2>4. [job |-> work[h].job, answer |-> work[h].copy.answer, tries |-> 0,
         at |-> "queued"] \in Task
    BY <2>2, AgentBounds DEF Task, Places
  <2>5. QED
    BY <2>1, <2>3, <2>4, MoveKeeps DEF Enqueue, SystemInv, SystemTypeOK
<1>11. QED
  BY <1>3, <1>4, <1>5, <1>6, <1>7, <1>8, <1>9, <1>10

LEMMA SystemStep == SystemInv /\ [SystemNext]_systemVars => SystemInv'
<1> SUFFICES ASSUME SystemInv, [SystemNext]_systemVars PROVE SystemInv'
  OBVIOUS
<1>1. TypeOK'
  BY StepIsHandlers, TypeStep DEF SystemInv, SystemTypeOK
<1>2. AgentInv'
  <2>1. CASE UNCHANGED agentVars
    BY <2>1 DEF agentVars, SystemInv, SystemTypeOK, AgentInv, CallersRun,
       OneCallEach
  <2>2. CASE \E h \in Handlers, ok \in BOOLEAN : Reply(h, ok)
    BY <2>2, ReplyKeeps
  <2>3. CASE Agent
    BY <2>3, TaskStep DEF Agent
  <2>4. QED
    BY <2>1, <2>2, <2>3 DEF SystemNext, systemVars
<1>3. QED
  BY <1>1, <1>2 DEF AgentInv, SystemInv, SystemTypeOK

LEMMA SystemAlways == SystemSpec => []SystemInv
<1>1. SystemInit => SystemInv
  BY TypeInit, AgentBounds
  DEF SystemInit, SystemInv, SystemTypeOK, CallersRun, OneCallEach
<1>2. QED
  BY <1>1, SystemStep, PTL DEF SystemSpec

(* Type correctness of the whole system, and that no reply ever reaches a  *)
(* task that is queued or gone (tasks.py: a blocking call per attempt).    *)
THEOREM SystemTypeCorrect == SystemSpec => []SystemTypeOK
<1>1. QED
  BY SystemAlways, PTL DEF SystemInv

(* The workers only ever make the calls that JobHandlers answers: the      *)
(* whole system implements the open backend (sink.py, tasks.py).           *)
THEOREM SystemRefines == SystemSpec => HandlersImplemented
<1>1. SystemInit => Init
  BY DEF SystemInit
<1>2. SystemInv /\ [SystemNext]_systemVars => [Next]_vars
  BY StepIsHandlers DEF SystemInv
<1>3. QED
  BY <1>1, <1>2, SystemAlways, PTL DEF SystemSpec, Spec, HandlersImplemented
-----------------------------------------------------------------------------
(* The spend.  An attempt is counted once: while it runs, as unreported;   *)
(* then by the request that serves its report; then in the job's usage.    *)

Spent(j) == IF Exists(j) THEN jobs[j].usage ELSE 0

CountedOnce(j) ==
  Spent(j) + Cardinality(Reporting(j)) + Cardinality(Unreported(j))
    <= attempts[j]

(* A worker that waits for its usage report does nothing else.             *)
ReportsRun ==
  \A h \in Handlers :
    At(h, "charge") /\ caller[h] # NoTask =>
      /\ task[caller[h]].at \in {"done", "retry"}
      /\ task[caller[h]].job = work[h].job

(* The report of an attempt arrives.                                       *)
Reports(t, h) ==
  /\ Post(t, h)
  /\ Is(t, "done") \/ Is(t, "retry")
  /\ UsageFind(h, task[t].job)

(* A request that serves a report goes on with it, or ends, and its worker *)
(* has the reply.                                                          *)
LEMMA ChargeEnds ==
  ASSUME TypeOK, [SystemNext]_systemVars, NEW h \in Handlers, At(h, "charge")
  PROVE  \/ work'[h] = work[h]
         \/ /\ work'[h] = Idle
            /\ \E ok \in BOOLEAN : Reply(h, ok)
<1>1. ASSUME NEW g \in Handlers \ {h},
             HandlerStep(g) \/ \E j \in Jobs : Request(g, j)
      PROVE  work'[h] = work[h]
  BY <1>1, OthersWait
<1>2. CASE User
  <2>1. CASE \E u \in Users : Account(u)
    BY <2>1 DEF Account, DeleteJobs, DeleteUser, DeleteAborts
  <2>2. ASSUME NEW g \in Handlers, NEW j \in Jobs,
               \/ LaunchCheck(g, j)
               \/ \E u \in Users, a \in Answers : AnswerFind(g, u, j, a)
        PROVE  work'[h] = work[h]
    <3>1. g # h
      BY <2>2 DEF LaunchCheck, AnswerFind, Begin, At
    <3>2. QED
      BY <1>1, <2>2, <3>1 DEF Request
  <2>3. QED
    BY <1>2, <2>1, <2>2 DEF User
<1>3. ASSUME NEW g \in Handlers, Serve(g) PROVE work'[h] = work[h]
  <2>1. g # h
    BY <1>3 DEF Serve, LaunchInsert, DispatchError, AnswerClearSteps,
       AnswerUpdate, StoreResults, StoreNothing, At
  <2>2. QED
    BY <1>1, <1>3, <2>1 DEF Serve, HandlerStep
<1>4. ASSUME NEW g \in Handlers, NEW ok \in BOOLEAN,
             Finish(g) \/ Abort(g), Reply(g, ok)
      PROVE  \/ work'[h] = work[h]
             \/ /\ work'[h] = Idle
                /\ \E okay \in BOOLEAN : Reply(h, okay)
  <2>1. CASE g = h
    BY <1>4, <2>1 DEF Finish, DispatchOk, Update, AddUsage, AppendStep, Abort,
       End, TypeOK
  <2>2. CASE g # h
    BY <1>1, <1>4, <2>2 DEF Finish, HandlerStep
  <2>3. QED
    BY <2>1, <2>2
<1>5. CASE Background \/ \E j \in Jobs : AgeJob(j)
  BY <1>5 DEF Background, ReaperList, ReapOne, ReaperDone, ReaperError, Purge,
     PurgeSkipped, AgeJob
<1>6. CASE Agent
  <2>1. ASSUME NEW t \in Tasks, NEW g \in Handlers, Post(t, g)
        PROVE  work'[h] = work[h]
    <3>1. g # h
      BY <2>1 DEF Post, StartedFind, StepFind, ResultsFind, QuestionFind,
         FailureFind, UsageFind, Begin, At
    <3>2. QED
      BY <2>1, <3>1 DEF Post, StartedFind, StepFind, ResultsFind,
         QuestionFind, FailureFind, UsageFind, Begin, TypeOK
  <2>2. ASSUME NEW t \in Tasks, NEW g \in Handlers, Enqueue(g, t)
        PROVE  work'[h] = work[h]
    BY <2>2 DEF Enqueue, AgentAccepts, Go, At, TypeOK
  <2>3. QED
    BY <1>6, <2>1, <2>2 DEF Agent, WorkerTakes, Misconfigured, Decide,
       CallFails, WorkerCrash, LoseTask, vars
<1>7. CASE UNCHANGED systemVars
  BY <1>7 DEF systemVars, vars
<1>8. QED
  BY <1>2, <1>3, <1>4, <1>5, <1>6, <1>7 DEF SystemNext

(* Only the report of a worker makes a request serve a report.             *)
LEMMA ChargeBegins ==
  ASSUME TypeOK, [SystemNext]_systemVars, NEW h \in Handlers,
         At(h, "charge")', work'[h] # work[h]
  PROVE  work[h] = Idle /\ \E t \in Tasks : Reports(t, h)
<1>1. ASSUME NEW g \in Handlers \ {h},
             HandlerStep(g) \/ \E j \in Jobs : Request(g, j)
      PROVE  FALSE
  BY <1>1, OthersWait
<1>2. ~User
  <2>1. ASSUME NEW g \in Handlers, NEW j \in Jobs,
               \/ LaunchCheck(g, j)
               \/ \E u \in Users, a \in Answers : AnswerFind(g, u, j, a)
        PROVE  FALSE
    <3>1. g = h
      BY <1>1, <2>1 DEF Request
    <3>2. QED
      BY <2>1, <3>1 DEF LaunchCheck, AnswerFind, Begin, At, TypeOK
  <2>2. QED
    BY <2>1 DEF User, Account, DeleteJobs, DeleteUser, DeleteAborts
<1>3. ASSUME NEW g \in Handlers, Serve(g) \/ Finish(g) \/ Abort(g) PROVE FALSE
  <2>1. g = h
    BY <1>1, <1>3 DEF Serve, Finish, HandlerStep
  <2>2. CASE Serve(h)
    BY <2>2 DEF Serve, LaunchInsert, DispatchError, AnswerClearSteps,
       AnswerUpdate, StoreResults, StoreNothing, Go, At, TypeOK
  <2>3. CASE Finish(h) \/ Abort(h)
    BY <2>3 DEF Finish, DispatchOk, Update, AddUsage, AppendStep, Abort, End,
       At, TypeOK
  <2>4. QED
    BY <1>3, <2>1, <2>2, <2>3
<1>4. ~(Background \/ \E j \in Jobs : AgeJob(j))
  BY DEF Background, ReaperList, ReapOne, ReaperDone, ReaperError, Purge,
     PurgeSkipped, AgeJob
<1>5. ASSUME Agent
      PROVE  work[h] = Idle /\ \E t \in Tasks : Reports(t, h)
  <2>1. ASSUME NEW t \in Tasks, NEW g \in Handlers, Post(t, g)
        PROVE  work[h] = Idle /\ Reports(t, h)
    <3>1. g = h /\ work[h] = Idle
      BY <2>1 DEF Post, StartedFind, StepFind, ResultsFind, QuestionFind,
         FailureFind, UsageFind, Begin, TypeOK
    <3>2. (Is(t, "done") \/ Is(t, "retry")) /\ UsageFind(h, task[t].job)
      BY <2>1, <3>1 DEF Post, StartedFind, StepFind, ResultsFind,
         QuestionFind, FailureFind, UsageFind, Begin, At, TypeOK
    <3>3. QED
      BY <2>1, <3>1, <3>2 DEF Reports
  <2>2. ASSUME NEW t \in Tasks, NEW g \in Handlers, Enqueue(g, t) PROVE FALSE
    BY <2>2 DEF Enqueue, AgentAccepts, Go, At, TypeOK
  <2>3. QED
    BY <1>5, <2>1, <2>2 DEF Agent, WorkerTakes, Misconfigured, Decide,
       CallFails, WorkerCrash, LoseTask, vars
<1>6. ~UNCHANGED systemVars
  BY DEF systemVars, vars
<1>7. QED
  BY <1>2, <1>3, <1>4, <1>5, <1>6 DEF SystemNext

(* A task that ends its attempt leaves; what else its worker does keeps    *)
(* the job.                                                                *)
LEMMA LeaveEnds ==
  ASSUME NEW rec \in Task, Leave(rec) # NoTask
  PROVE  Leave(rec).at = "queued"
BY DEF Leave, Task

LEMMA AfterRuns ==
  ASSUME NEW rec \in Task, NEW ok \in BOOLEAN, rec.at # "queued",
         After(rec, ok) # NoTask, After(rec, ok).at # "queued"
  PROVE  After(rec, ok).job = rec.job /\ rec.at \notin {"done", "retry"}
<1>1. rec.at \in {"start", "work", "deliver", "ask", "fail", "broken", "done",
                  "retry"}
  BY DEF Task, Places
<1>2. CASE rec.at \in {"start", "work", "deliver", "ask", "fail"}
  BY <1>2 DEF After, Task
<1>3. CASE rec.at = "broken"
  <2>1. PICK ended \in Task : ended = [rec EXCEPT !.at = "retry"]
    BY PlaceTyped DEF Places
  <2>2. QED
    BY <1>3, <2>1, LeaveEnds DEF After
<1>4. CASE rec.at \in {"done", "retry"}
  BY <1>4, LeaveEnds DEF After
<1>5. QED
  BY <1>1, <1>2, <1>3, <1>4
-----------------------------------------------------------------------------
(* An attempt that is unreported after a step was so before.               *)

(* The step does not move the task.                                        *)
LEMMA StillUnreported ==
  ASSUME NEW j \in Jobs, NEW s \in Tasks, s \in Unreported(j)',
         task'[s] = task[s],
         \A g \in Handlers :
           At(g, "charge") /\ caller[g] = s
             => work'[g] = work[g] /\ caller'[g] = s
  PROVE  s \in Unreported(j)
BY DEF Unreported, Reporting, At

(* The worker of the task does not wait for its usage report.              *)
LEMMA Silent ==
  ASSUME NEW j \in Jobs, NEW t \in Tasks, task[t] # NoTask, task[t].job = j,
         task[t].at # "queued",
         \A g \in Handlers : At(g, "charge") => caller[g] # t
  PROVE  t \in Unreported(j)
BY DEF Unreported, Reporting

LEMMA ReplyUnreported ==
  ASSUME SystemInv, ReportsRun, [SystemNext]_systemVars, NEW j \in Jobs,
         NEW h \in Handlers, NEW ok \in BOOLEAN, Reply(h, ok), work[h] # Idle,
         \A g \in Handlers \ {h} : work'[g] = work[g]
  PROVE  Unreported(j)' \subseteq Unreported(j)
<1> SUFFICES ASSUME NEW s \in Unreported(j)' PROVE s \in Unreported(j)
  OBVIOUS
<1>1. s \in Tasks /\ s # NoTask
  BY NoTaskIsNoTask DEF Unreported
<1>2. CASE caller[h] # s
  <2>1. task'[s] = task[s] /\ caller' = [caller EXCEPT ![h] = NoTask]
    BY <1>1, <1>2 DEF Reply, SystemInv, SystemTypeOK
  <2>2. \A g \in Handlers : caller[g] = s => g # h /\ caller'[g] = s
    BY <1>2, <2>1 DEF SystemInv, SystemTypeOK
  <2>3. QED
    BY <1>1, <2>1, <2>2, StillUnreported
<1>3. CASE caller[h] = s
  <2>1. task[s] \in Task /\ task[s] # NoTask /\ task[s].at # "queued"
    BY <1>1, <1>3 DEF SystemInv, SystemTypeOK, CallersRun
  <2>2. task'[s] = After(task[s], ok)
    BY <1>1, <1>3 DEF Reply, SystemInv, SystemTypeOK
  <2>3. /\ task'[s] # NoTask /\ task'[s].at # "queued" /\ task'[s].job = j
    BY DEF Unreported
  <2>4. task[s].job = j /\ task[s].at \notin {"done", "retry"}
    BY <2>1, <2>2, <2>3, AfterRuns
  <2>5. \A g \in Handlers : At(g, "charge") => caller[g] # s
    BY <1>1, <2>4 DEF ReportsRun
  <2>6. QED
    BY <1>1, <2>1, <2>4, <2>5, Silent
<1>4. QED
  BY <1>2, <1>3

LEMMA TaskUnreported ==
  ASSUME SystemInv, ReportsRun, NEW j \in Jobs, NEW t \in Tasks,
         \/ WorkerTakes(t) \/ Misconfigured(t) \/ Decide(t) \/ CallFails(t)
         \/ WorkerCrash(t) \/ LoseTask(t),
         NEW s \in Unreported(j)'
  PROVE  s \in Unreported(j) \/ (s = t /\ WorkerTakes(t))
<1>1. s \in Tasks /\ task'[s] # NoTask /\ task'[s].at # "queued"
      /\ task'[s].job = j
  BY DEF Unreported
<1>2. work' = work
  BY DEF WorkerTakes, Misconfigured, Decide, CallFails, WorkerCrash, LoseTask,
     vars
<1>3. task[t] # NoTask /\ task[t] \in Task
  BY TaskTyped DEF WorkerTakes, Misconfigured, Decide, CallFails, WorkerCrash,
     LoseTask, Is, SystemInv
<1>4. CASE s # t
  <2>1. task'[s] = task[s]
    BY <1>1, <1>4 DEF WorkerTakes, Misconfigured, Decide, CallFails,
       WorkerCrash, LoseTask, To, SystemInv, SystemTypeOK
  <2>2. caller' = caller \/ caller' = Hung(t)
    BY DEF WorkerTakes, Misconfigured, Decide, CallFails, WorkerCrash, LoseTask
  <2>3. \A g \in Handlers : caller[g] = s => caller'[g] = s
    BY <1>4, <2>2 DEF Hung, SystemInv, SystemTypeOK
  <2>4. QED
    BY <1>1, <1>2, <2>1, <2>3, StillUnreported
<1>5. CASE s = t /\ (Misconfigured(t) \/ Decide(t))
  <2>1. \E place \in Places : task'[t] = [task[t] EXCEPT !.at = place]
    BY <1>5 DEF Misconfigured, Decide, To, Places, SystemInv, SystemTypeOK
  <2>2. task[t].job = j /\ task[t].at # "queued"
    BY <1>1, <1>3, <1>5, <2>1 DEF Misconfigured, Decide, Is, Task
  <2>3. \A g \in Handlers : caller[g] # t
    BY <1>5 DEF Misconfigured, Decide, Waiting
  <2>4. QED
    BY <1>3, <1>5, <2>2, <2>3, Silent
<1>6. CASE s = t /\ CallFails(t)
  <2>1. task[t].at # "queued" /\ task'[t] = After(task[t], FALSE)
    BY <1>6 DEF CallFails, SystemInv, SystemTypeOK
  <2>2. task[t].job = j /\ task[t].at \notin {"done", "retry"}
    BY <1>1, <1>3, <1>6, <2>1, AfterRuns
  <2>3. \A g \in Handlers : At(g, "charge") => caller[g] # t
    BY <1>1, <1>6, <2>2, NoTaskIsNoTask DEF ReportsRun
  <2>4. QED
    BY <1>3, <1>6, <2>1, <2>2, <2>3, Silent
<1>7. CASE s = t /\ (WorkerCrash(t) \/ LoseTask(t))
  <2>1. task'[t] = [task[t] EXCEPT !.at = "queued"] \/ task'[t] = NoTask
    BY <1>7 DEF WorkerCrash, LoseTask, To, SystemInv, SystemTypeOK
  <2>2. QED
    BY <1>1, <1>3, <1>7, <2>1 DEF Task
<1>8. QED
  BY <1>4, <1>5, <1>6, <1>7

LEMMA PostUnreported ==
  ASSUME SystemInv, NEW j \in Jobs, NEW t \in Tasks, NEW h \in Handlers,
         Post(t, h)
  PROVE  Unreported(j)' \subseteq Unreported(j)
<1>1. /\ task' = task /\ caller' = [caller EXCEPT ![h] = t]
  BY DEF Post, Call
<1>2. work[h] = Idle /\ \A g \in Handlers \ {h} : work'[g] = work[g]
  BY DEF Post, StartedFind, StepFind, ResultsFind, QuestionFind, FailureFind,
     UsageFind, Begin, SystemInv, SystemTypeOK, TypeOK
<1>3. \A g \in Handlers : At(g, "charge") => g # h /\ caller'[g] = caller[g]
  BY <1>1, <1>2 DEF At, SystemInv, SystemTypeOK
<1>4. ASSUME NEW s \in Unreported(j)' PROVE s \in Unreported(j)
  <2>1. s \in Tasks
    BY DEF Unreported
  <2>2. QED
    BY <1>1, <1>2, <1>3, <2>1, StillUnreported
<1>5. QED
  BY <1>4

(* The report takes its attempt out of the unreported ones.                *)
LEMMA ReportUnreported ==
  ASSUME SystemInv, NEW t \in Tasks, NEW h \in Handlers, Reports(t, h)
  PROVE  /\ task[t] # NoTask /\ task[t].job \in Jobs
         /\ t \in Unreported(task[t].job)
         /\ t \notin Unreported(task[t].job)'
         /\ At(h, "charge")' /\ work'[h].job = task[t].job
         /\ caller'[h] = t
<1>1. task[t] # NoTask /\ task[t].at # "queued" /\ task[t].job \in Jobs
  BY TaskTyped DEF Reports, Is, Task, SystemInv
<1>2. t \in Unreported(task[t].job)
  BY <1>1, Silent DEF Reports, Post, Call, Waiting
<1>3. task' = task /\ caller'[h] = t
  BY DEF Reports, Post, Call, SystemInv, SystemTypeOK
<1>4. /\ work'[h] = [pc |-> "charge", job |-> task[t].job, copy |-> NoRow]
  BY DEF Reports, UsageFind, Begin, SystemInv, SystemTypeOK, TypeOK
<1>5. TypeOK'
  <2>1. [Next]_vars
    BY AgentIsEnvironment DEF Reports, SystemInv
  <2>2. QED
    BY <2>1, TypeStep DEF SystemInv, SystemTypeOK
<1>6. At(h, "charge")' /\ work'[h].job = task[t].job
  <2>1. work'[h] # Idle
    BY <1>1, <1>4, IdleIsNoWork DEF Work, Pcs
  <2>2. QED
    BY <1>4, <2>1 DEF At
<1>7. t \notin Unreported(task[t].job)'
  BY <1>3, <1>6 DEF Unreported, Reporting
<1>8. QED
  BY <1>1, <1>2, <1>3, <1>6, <1>7

LEMMA EnqueueUnreported ==
  ASSUME SystemInv, NEW j \in Jobs, NEW t \in Tasks, NEW h \in Handlers,
         Enqueue(h, t)
  PROVE  Unreported(j)' \subseteq Unreported(j)
<1>1. /\ caller' = caller
      /\ \A s \in Tasks \ {t} : task'[s] = task[s]
      /\ task'[t].at = "queued"
  BY DEF Enqueue, SystemInv, SystemTypeOK
<1>2. \A g \in Handlers : At(g, "charge") => work'[g] = work[g]
  BY DEF Enqueue, AgentAccepts, At, Go, SystemInv, SystemTypeOK, TypeOK
<1>3. ASSUME NEW s \in Unreported(j)' PROVE s \in Unreported(j)
  <2>1. s \in Tasks /\ s # t
    BY <1>1 DEF Unreported
  <2>2. QED
    BY <1>1, <1>2, <2>1, StillUnreported
<1>4. QED
  BY <1>3

LEMMA EndsOne ==
  ASSUME TypeOK, NEW h \in Handlers, Finish(h) \/ Abort(h)
  PROVE  work[h] # Idle /\ \A g \in Handlers \ {h} : work'[g] = work[g]
<1>1. HandlerStep(h) /\ work[h] # Idle
  BY DEF Finish, HandlerStep, DispatchOk, Update, AddUsage, AppendStep, Abort,
     At
<1>2. QED
  BY <1>1, OthersWait

LEMMA UnreportedStep ==
  ASSUME SystemInv, ReportsRun, [SystemNext]_systemVars, NEW j \in Jobs,
         NEW s \in Unreported(j)'
  PROVE  s \in Unreported(j) \/ WorkerTakes(s)
<1>1. CASE \E h \in Handlers, ok \in BOOLEAN :
             (Finish(h) \/ Abort(h)) /\ Reply(h, ok)
  BY <1>1, EndsOne, ReplyUnreported DEF SystemInv, SystemTypeOK
<1>2. CASE UNCHANGED agentVars
  <2>1. s \in Tasks /\ s # NoTask /\ task' = task /\ caller' = caller
    BY <1>2, NoTaskIsNoTask DEF agentVars, Unreported
  <2>2. ASSUME NEW g \in Handlers, At(g, "charge"), caller[g] = s
        PROVE  work'[g] = work[g]
    <3>1. ~\E ok \in BOOLEAN : Reply(g, ok)
      BY <2>1, <2>2 DEF Reply, SystemInv, SystemTypeOK
    <3>2. QED
      BY <2>2, <3>1, ChargeEnds DEF SystemInv, SystemTypeOK
  <2>3. QED
    BY <2>1, <2>2, StillUnreported
<1>3. CASE Agent
  BY <1>3, TaskUnreported, PostUnreported, EnqueueUnreported DEF Agent
<1>4. QED
  BY <1>1, <1>2, <1>3 DEF SystemNext, systemVars, agentVars

(* While a request of its worker is served, an attempt does not move.      *)
LEMMA StillCalling ==
  ASSUME SystemInv, SystemInv', [SystemNext]_systemVars, NEW h \in Handlers,
         work[h] # Idle, caller'[h] # NoTask
  PROVE  caller'[h] = caller[h] /\ task'[caller[h]] = task[caller[h]]
<1> USE DEF SystemInv, SystemTypeOK
<1>1. ASSUME NEW g \in Handlers, NEW ok \in BOOLEAN, Reply(g, ok)
      PROVE  caller'[h] = caller[h] /\ task'[caller[h]] = task[caller[h]]
  <2>1. h # g /\ caller'[h] = caller[h]
    BY <1>1 DEF Reply
  <2>2. caller[g] # NoTask => caller[g] # caller[h]
    BY <2>1 DEF OneCallEach
  <2>3. QED
    BY <1>1, <2>1, <2>2 DEF Reply
<1>2. ASSUME NEW t \in Tasks,
             \/ WorkerTakes(t) \/ Misconfigured(t) \/ Decide(t)
             \/ CallFails(t) \/ WorkerCrash(t) \/ LoseTask(t)
      PROVE  caller'[h] = caller[h] /\ task'[caller[h]] = task[caller[h]]
  <2>1. caller'[h] = caller[h]
    BY <1>2 DEF WorkerTakes, Misconfigured, Decide, CallFails, WorkerCrash,
       LoseTask, Hung
  <2>2. caller[h] # t
    <3>1. CASE WorkerTakes(t) \/ LoseTask(t)
      BY <2>1, <3>1 DEF WorkerTakes, LoseTask, Is, CallersRun
    <3>2. CASE Misconfigured(t) \/ Decide(t)
      BY <3>2 DEF Misconfigured, Decide, Waiting
    <3>3. CASE CallFails(t) \/ WorkerCrash(t)
      BY <2>1, <3>3 DEF CallFails, WorkerCrash, Hung
    <3>4. QED
      BY <1>2, <3>1, <3>2, <3>3
  <2>3. QED
    BY <1>2, <2>1, <2>2 DEF WorkerTakes, Misconfigured, Decide, CallFails,
       WorkerCrash, LoseTask, To
<1>3. ASSUME NEW t \in Tasks, NEW g \in Handlers, Post(t, g)
      PROVE  caller'[h] = caller[h] /\ task'[caller[h]] = task[caller[h]]
  <2>1. work[g] = Idle
    BY <1>3 DEF Post, StartedFind, StepFind, ResultsFind, QuestionFind,
       FailureFind, UsageFind, Begin
  <2>2. QED
    BY <1>3, <2>1 DEF Post, Call
<1>4. ASSUME NEW t \in Tasks, NEW g \in Handlers, Enqueue(g, t)
      PROVE  caller'[h] = caller[h] /\ task'[caller[h]] = task[caller[h]]
  BY <1>4 DEF Enqueue, CallersRun
<1>5. QED
  BY <1>1, <1>2, <1>3, <1>4 DEF SystemNext, Agent, systemVars, agentVars

LEMMA ReportsRunStep ==
  SystemInv /\ SystemInv' /\ ReportsRun /\ [SystemNext]_systemVars
    => ReportsRun'
<1> SUFFICES ASSUME SystemInv, SystemInv', ReportsRun,
                    [SystemNext]_systemVars, NEW h \in Handlers,
                    At(h, "charge")', caller'[h] # NoTask
             PROVE  /\ task'[caller'[h]].at \in {"done", "retry"}
                    /\ task'[caller'[h]].job = work'[h].job
  BY DEF ReportsRun
<1>1. CASE work'[h] # work[h]
  <2>1. PICK t \in Tasks : Reports(t, h)
    BY <1>1, ChargeBegins DEF SystemInv, SystemTypeOK
  <2>2. caller'[h] = t /\ task' = task /\ work'[h].job = task[t].job
    BY <2>1, ReportUnreported DEF Reports, Post, Call
  <2>3. task[t].at \in {"done", "retry"}
    BY <2>1 DEF Reports, Is
  <2>4. QED
    BY <2>2, <2>3
<1>2. CASE work'[h] = work[h]
  <2>1. At(h, "charge")
    BY <1>2 DEF At
  <2>2. caller'[h] = caller[h] /\ task'[caller[h]] = task[caller[h]]
    BY <2>1, StillCalling DEF At
  <2>3. QED
    BY <1>2, <2>1, <2>2 DEF ReportsRun
<1>3. QED
  BY <1>1, <1>2
-----------------------------------------------------------------------------
(* The count.                                                              *)

LEMMA AttemptsCounted ==
  ASSUME NEW j \in Jobs
  PROVE  /\ IsFiniteSet(Reporting(j)) /\ IsFiniteSet(Unreported(j))
         /\ Cardinality(Reporting(j)) \in Nat
         /\ Cardinality(Unreported(j)) \in Nat
         /\ Cardinality(Reporting(j)') \in Nat
         /\ Cardinality(Unreported(j)') \in Nat
<1>1. /\ Reporting(j) \subseteq Handlers /\ Reporting(j)' \subseteq Handlers
      /\ Unreported(j) \subseteq Tasks /\ Unreported(j)' \subseteq Tasks
  BY DEF Reporting, Unreported
<1>2. QED
  BY <1>1, FiniteInstances, TasksFinite, FS_Subset, FS_CardinalityType

(* Only a report raises what a job has spent; a new row has spent nothing. *)
LEMMA SpentStep ==
  ASSUME TypeOK, TypeOK', Fresh, [Next]_vars, NEW j \in Jobs
  PROVE  /\ Spent(j) \in Nat /\ Spent(j)' \in Nat
         /\ Spent(j)' <= Spent(j) + 1
         /\ Spent(j)' <= Spent(j) \/ Charged(j)
<1>1. Spent(j) \in Nat /\ Spent(j)' \in Nat
  BY DEF Spent, Exists, TypeOK, Row
<1>2. CASE Stored(j)
  <2>1. jobs'[j] = NewJob
    BY <1>2, StoredIsNew
  <2>2. Spent(j)' = 0
    BY <2>1 DEF Spent, NewJob
  <2>3. QED
    BY <1>1, <2>2
<1>3. CASE Exists(j) /\ Overwritten(j)
  <2>1. PICK copy \in Row : jobs'[j] = [copy EXCEPT !.usage = jobs[j].usage]
    BY <1>3, WorkTyped DEF Overwritten, At
  <2>2. Spent(j)' <= jobs[j].usage /\ Spent(j) = jobs[j].usage
    BY <1>1, <1>3, <2>1, RowKept DEF Spent, Row, Exists
  <2>3. QED
    BY <1>1, <2>2
<1>4. CASE Exists(j) /\ Reaped(j)
  <2>1. Fail(reaping[j], "timeout") \in Row
    BY <1>4, FailIsRow DEF Reaped, TypeOK, Errors
  <2>2. Spent(j)' <= jobs[j].usage /\ Spent(j) = jobs[j].usage
    BY <1>1, <1>4, <2>1, RowKept DEF Reaped, Spent, Row, Exists
  <2>3. QED
    BY <1>1, <2>2
<1>5. CASE Exists(j) /\ Charged(j)
  <2>1. Spent(j)' <= jobs[j].usage + 1 /\ Spent(j) = jobs[j].usage
    BY <1>1, <1>5, RowKept DEF Charged, Spent, Row, Exists
  <2>2. QED
    BY <1>1, <1>5, <2>1
<1>6. CASE jobs'[j] = jobs[j] \/ Erased(j)
  BY <1>1, <1>6 DEF Erased, Spent, Exists
<1>7. QED
  BY <1>2, <1>3, <1>4, <1>5, <1>6, RowStep DEF RowChange

LEMMA AttemptsGrow ==
  ASSUME SystemInv, [SystemNext]_systemVars, NEW j \in Jobs
  PROVE  attempts[j] \in Nat /\ attempts'[j] \in Nat /\ attempts'[j] >= attempts[j]
<1>1. attempts \in [Jobs -> Nat]
  BY AgentBounds DEF SystemInv, SystemTypeOK
<1>2. CASE attempts' = attempts
  BY <1>1, <1>2
<1>3. ASSUME NEW t \in Tasks, WorkerTakes(t)
      PROVE  attempts'[j] \in {attempts[j], attempts[j] + 1}
  BY <1>1, <1>3 DEF WorkerTakes
<1>4. attempts' = attempts \/ \E t \in Tasks : WorkerTakes(t)
  BY DEF SystemNext, Reply, Agent, Misconfigured, Decide, CallFails,
     WorkerCrash, LoseTask, Post, Call, Enqueue, systemVars, agentVars
<1>5. QED
  BY <1>1, <1>2, <1>3, <1>4

LEMMA CountStep ==
  ASSUME SystemInv, SystemInv', Fresh, ReportsRun, [SystemNext]_systemVars,
         NEW j \in Jobs, CountedOnce(j)
  PROVE  CountedOnce(j)'
<1> DEFINE R == Reporting(j)
           U == Unreported(j)
<1>0. TypeOK /\ TypeOK' /\ [Next]_vars
  BY StepIsHandlers DEF SystemInv, SystemTypeOK
<1>1. ASSUME NEW g \in R', NEW h \in Handlers, h # g, work'[h] # work[h]
      PROVE  g \in R
  <2>1. g \in Handlers /\ work'[g] = work[g]
    BY <1>0, <1>1, OneAtATime DEF Reporting
  <2>2. QED
    BY <2>1 DEF Reporting, At
<1>2. ASSUME NEW h \in R, work'[h] # work[h]
      PROVE  CountedOnce(j)'
  <2>1. h \in Handlers /\ At(h, "charge")
    BY DEF Reporting
  <2>2. work'[h] = Idle /\ attempts' = attempts
    BY <1>0, <1>2, <2>1, ChargeEnds DEF Reply
  <2>3. R' \subseteq R \ {h}
    BY <1>1, <1>2, <2>1, <2>2 DEF Reporting, At
  <2>4. U' \subseteq U
    BY <1>2, UnreportedStep DEF WorkerTakes, vars
  <2>5. Cardinality(R') <= Cardinality(R) - 1 /\ Cardinality(U') <= Cardinality(U)
    <3> HIDE DEF R, U
    <3>1. IsFiniteSet(R) /\ IsFiniteSet(U)
      BY AttemptsCounted DEF R, U
    <3>2. QED
      BY <2>3, <2>4, <3>1, OneLess, FS_Subset
  <2>6. QED
    BY <1>0, <2>2, <2>5, SpentStep, AttemptsCounted, AttemptsGrow
    DEF CountedOnce
<1>3. ASSUME \A h \in R : work'[h] = work[h]
      PROVE  CountedOnce(j)'
  <2>1. Spent(j)' <= Spent(j)
    <3>1. ~Charged(j)
      BY <1>3 DEF Charged, Reporting, At
    <3>2. QED
      BY <1>0, <3>1, SpentStep
  <2>2. ASSUME NEW t \in Tasks, NEW h \in Handlers, Reports(t, h),
               task[t].job = j
        PROVE  CountedOnce(j)'
    <3>1. /\ t \in U /\ t \notin U' /\ work[h] = Idle /\ work'[h] # work[h]
          /\ attempts' = attempts
      BY <2>2, ReportUnreported
      DEF Reports, UsageFind, Begin, At, Post, Call
    <3>2. R' \subseteq R \cup {h}
      BY <1>1, <3>1
    <3>3. U' \subseteq U \ {t}
      BY <3>1, UnreportedStep DEF WorkerTakes, vars
    <3>4. Cardinality(R') <= Cardinality(R) + 1 /\ Cardinality(U') <= Cardinality(U) - 1
      <4> HIDE DEF R, U
      <4>1. IsFiniteSet(R) /\ IsFiniteSet(U)
        BY AttemptsCounted DEF R, U
      <4>2. QED
        BY <3>1, <3>2, <3>3, <4>1, OneMore, OneLess
    <3>5. QED
      BY <1>0, <2>1, <3>1, <3>4, SpentStep, AttemptsCounted, AttemptsGrow
      DEF CountedOnce
  <2>3. ASSUME NEW t \in Tasks, WorkerTakes(t), task[t].job = j
        PROVE  CountedOnce(j)'
    <3>1. work' = work /\ attempts'[j] = attempts[j] + 1
      BY <2>3 DEF WorkerTakes, vars, SystemInv, SystemTypeOK
    <3>2. R' = R
      BY <3>1 DEF Reporting, At
    <3>3. U' \subseteq U \cup {t}
      BY <2>3, TaskUnreported
    <3>4. Cardinality(U') <= Cardinality(U) + 1
      <4> HIDE DEF U
      <4>1. IsFiniteSet(U)
        BY AttemptsCounted DEF U
      <4>2. QED
        BY <3>3, <4>1, OneMore
    <3>5. QED
      BY <1>0, <2>1, <3>1, <3>2, <3>4, SpentStep, AttemptsCounted, AttemptsGrow
      DEF CountedOnce
  <2>4. ASSUME \A t \in Tasks, h \in Handlers :
                 Reports(t, h) => task[t].job # j,
               \A t \in Tasks : WorkerTakes(t) => task[t].job # j
        PROVE  CountedOnce(j)'
    <3>1. R' \subseteq R
      <4>1. ASSUME NEW g \in R' PROVE work'[g] = work[g]
        <5>1. g \in Handlers /\ At(g, "charge")' /\ work'[g].job = j
          BY DEF Reporting
        <5>2. QED
          BY <1>0, <2>4, <5>1, ChargeBegins, ReportUnreported
      <4>2. QED
        BY <4>1 DEF Reporting, At
    <3>2. U' \subseteq U
      <4>1. ASSUME NEW s \in U', WorkerTakes(s) PROVE FALSE
        <5>1. s \in Tasks /\ task'[s].job = j
          BY DEF Unreported
        <5>2. task[s] \in Task
          BY <4>1, <5>1, TaskTyped DEF WorkerTakes, Is, SystemInv
        <5>3. task'[s] = [task[s] EXCEPT !.at = "start"]
          BY <4>1, <5>1 DEF WorkerTakes, To, SystemInv, SystemTypeOK
        <5>4. QED
          BY <2>4, <4>1, <5>1, <5>2, <5>3 DEF Task
      <4>2. QED
        BY <4>1, UnreportedStep
    <3>3. Cardinality(R') <= Cardinality(R) /\ Cardinality(U') <= Cardinality(U)
      <4> HIDE DEF R, U
      <4>1. IsFiniteSet(R) /\ IsFiniteSet(U)
        BY AttemptsCounted DEF R, U
      <4>2. QED
        BY <3>1, <3>2, <4>1, FS_Subset
    <3>4. QED
      BY <1>0, <2>1, <3>3, SpentStep, AttemptsCounted, AttemptsGrow
      DEF CountedOnce
  <2>5. QED
    BY <2>2, <2>3, <2>4
<1>4. QED
  BY <1>2, <1>3

LEMMA SpendInit == SystemInit => ReportsRun /\ \A j \in Jobs : CountedOnce(j)
<1> SUFFICES ASSUME SystemInit
             PROVE  ReportsRun /\ \A j \in Jobs : CountedOnce(j)
  OBVIOUS
<1>1. ReportsRun
  BY DEF SystemInit, Init, ReportsRun, At
<1>2. ASSUME NEW j \in Jobs PROVE CountedOnce(j)
  <2>1. Reporting(j) = {} /\ Unreported(j) = {} /\ Spent(j) = 0
    BY DEF SystemInit, Init, Reporting, Unreported, At, Spent, Exists
  <2>2. Cardinality({}) = 0 /\ attempts[j] = 0
    BY FS_EmptySet DEF SystemInit
  <2>3. QED
    BY <2>1, <2>2 DEF CountedOnce
<1>3. QED
  BY <1>1, <1>2

(* ADR-038, "One usage callback per task attempt" (tasks.py): however      *)
(* often a task is retried or redelivered and whichever reply is lost, no  *)
(* attempt is added to its job twice.                                      *)
THEOREM SpendOnce == SystemSpec => []SpendCountedOnce
<1>1. SystemInv /\ SystemInv' /\ Fresh /\ ReportsRun
        /\ (\A j \in Jobs : CountedOnce(j)) /\ [SystemNext]_systemVars
        => ReportsRun' /\ (\A j \in Jobs : CountedOnce(j))'
  BY ReportsRunStep, CountStep
<1>2. (\A j \in Jobs : CountedOnce(j)) => SpendCountedOnce
  BY DEF CountedOnce, Spent, SpendCountedOnce
<1>3. SystemSpec => []Fresh
  BY SystemRefines, FreshAlways, PTL DEF HandlersImplemented
<1>4. QED
  BY <1>1, <1>2, <1>3, SpendInit, SystemAlways, PTL DEF SystemSpec
-----------------------------------------------------------------------------
(* The delivery.  The request of a worker that delivers has the results to *)
(* store, or has stored them and is about to write the completed row.      *)

Delivers(h) ==
  /\ work[h] # Idle
  /\ task[caller[h]].at = "deliver" =>
       /\ work[h].job = task[caller[h]].job
       /\ \/ work[h].pc = "store"
          \/ work[h].pc = "write" /\ work[h].copy.status = "completed"

DeliversRun == \A h \in Handlers : caller[h] # NoTask => Delivers(h)

LEMMA GoBusy ==
  ASSUME TypeOK, NEW h \in Handlers, work[h] # Idle, NEW pc \in Pcs,
         NEW copy \in Row, Go(h, pc, copy)
  PROVE  /\ work'[h] # Idle /\ work'[h].job = work[h].job
         /\ work'[h].pc = pc /\ work'[h].copy = copy
<1> DEFINE new == [pc |-> pc, job |-> work[h].job, copy |-> copy]
<1>1. new \in Work
  BY WorkTyped DEF Work
<1>2. new # Idle
  BY <1>1, IdleIsNoWork
<1>3. work'[h] = new
  BY DEF Go, TypeOK
<1>4. QED
  BY <1>2, <1>3

LEMMA BeginBusy ==
  ASSUME TypeOK, NEW h \in Handlers, NEW pc \in Pcs, NEW j \in Jobs,
         NEW copy \in Row \cup {NoRow}, Begin(h, pc, j, copy)
  PROVE  work'[h] # Idle /\ work'[h].job = j /\ work'[h].pc = pc
<1> DEFINE new == [pc |-> pc, job |-> j, copy |-> copy]
<1>1. new \in Work
  BY DEF Work
<1>2. new # Idle
  BY <1>1, IdleIsNoWork
<1>3. work'[h] = new
  BY DEF Begin, TypeOK
<1>4. QED
  BY <1>2, <1>3

(* What becomes of a request that is being served.                         *)
LEMMA CallGoesOn ==
  ASSUME TypeOK, [SystemNext]_systemVars, NEW h \in Handlers, work[h] # Idle
  PROVE  \/ work'[h] = work[h]
         \/ Serve(h)
         \/ \E ok \in BOOLEAN : Reply(h, ok)
         \/ AgentAccepts(h)
<1>1. ASSUME NEW g \in Handlers \ {h},
             HandlerStep(g) \/ \E j \in Jobs : Request(g, j)
      PROVE  work'[h] = work[h]
  BY <1>1, OthersWait
<1>2. CASE User
  <2>1. CASE \E u \in Users : Account(u)
    BY <2>1 DEF Account, DeleteJobs, DeleteUser, DeleteAborts
  <2>2. ASSUME NEW g \in Handlers, NEW j \in Jobs,
               \/ LaunchCheck(g, j)
               \/ \E u \in Users, a \in Answers : AnswerFind(g, u, j, a)
        PROVE  work'[h] = work[h]
    <3>1. g # h
      BY <2>2 DEF LaunchCheck, AnswerFind, Begin
    <3>2. QED
      BY <1>1, <2>2, <3>1 DEF Request
  <2>3. QED
    BY <1>2, <2>1, <2>2 DEF User
<1>3. ASSUME NEW g \in Handlers, Serve(g) PROVE work'[h] = work[h] \/ Serve(h)
  <2>1. CASE g # h
    BY <1>1, <1>3, <2>1 DEF Serve, HandlerStep
  <2>2. QED
    BY <1>3, <2>1
<1>4. ASSUME NEW g \in Handlers, NEW ok \in BOOLEAN,
             Finish(g) \/ Abort(g), Reply(g, ok)
      PROVE  work'[h] = work[h] \/ \E okay \in BOOLEAN : Reply(h, okay)
  <2>1. CASE g # h
    BY <1>4, <2>1, EndsOne
  <2>2. QED
    BY <1>4, <2>1
<1>5. CASE Background \/ \E j \in Jobs : AgeJob(j)
  BY <1>5 DEF Background, ReaperList, ReapOne, ReaperDone, ReaperError, Purge,
     PurgeSkipped, AgeJob
<1>6. CASE Agent
  <2>1. ASSUME NEW t \in Tasks, NEW g \in Handlers, Post(t, g)
        PROVE  work'[h] = work[h]
    BY <2>1 DEF Post, StartedFind, StepFind, ResultsFind, QuestionFind,
       FailureFind, UsageFind, Begin, TypeOK
  <2>2. ASSUME NEW t \in Tasks, NEW g \in Handlers, Enqueue(g, t)
        PROVE  work'[h] = work[h] \/ AgentAccepts(h)
    BY <2>2 DEF Enqueue, AgentAccepts, Go, TypeOK
  <2>3. QED
    BY <1>6, <2>1, <2>2 DEF Agent, WorkerTakes, Misconfigured, Decide,
       CallFails, WorkerCrash, LoseTask, vars
<1>7. CASE UNCHANGED systemVars
  BY <1>7 DEF systemVars, vars
<1>8. QED
  BY <1>2, <1>3, <1>4, <1>5, <1>6, <1>7 DEF SystemNext

LEMMA DeliversRunStep ==
  SystemInv /\ SystemInv' /\ DeliversRun /\ [SystemNext]_systemVars
    => DeliversRun'
<1> SUFFICES ASSUME SystemInv, SystemInv', DeliversRun,
                    [SystemNext]_systemVars, NEW h \in Handlers,
                    caller'[h] # NoTask
             PROVE  Delivers(h)'
  BY DEF DeliversRun
<1>0. TypeOK /\ TypeOK'
  BY DEF SystemInv, SystemTypeOK
<1>1. CASE work[h] # Idle
  <2>1. caller'[h] = caller[h] /\ task'[caller[h]] = task[caller[h]]
    BY <1>1, StillCalling
  <2>2. Delivers(h) /\ caller[h] # NoTask
    BY <2>1 DEF DeliversRun
  <2>3. work[h].job \in Jobs
        /\ (work[h].pc \notin {"append", "charge"} => work[h].copy \in Row)
    BY <1>0, <1>1, WorkTyped
  <2>4. CASE work'[h] = work[h]
    BY <2>1, <2>2, <2>4 DEF Delivers
  <2>5. CASE AgentAccepts(h)
    BY <1>0, <1>1, <2>1, <2>2, <2>3, <2>5, GoBusy
    DEF AgentAccepts, At, Pcs, Delivers
  <2>6. CASE (\E d \in Deliveries : StoreResults(h, d)) \/ StoreNothing(h)
    <3>1. work[h].pc = "store" /\ Go(h, "write", Complete(work[h].copy))
      BY <2>6 DEF StoreResults, StoreNothing, At
    <3>2. Complete(work[h].copy) \in Row
          /\ Complete(work[h].copy).status = "completed"
      BY <2>3, <3>1, CompleteIsRow DEF Complete, Row
    <3>3. QED
      BY <1>0, <1>1, <2>1, <2>2, <3>1, <3>2, GoBusy DEF Pcs, Delivers
  <2>7. CASE LaunchInsert(h) \/ AnswerClearSteps(h) \/ AnswerUpdate(h)
    BY <1>0, <1>1, <2>1, <2>2, <2>3, <2>7, GoBusy
    DEF LaunchInsert, AnswerClearSteps, AnswerUpdate, At, Pcs, Delivers
  <2>8. CASE DispatchError(h)
    <3>1. work[h].pc \in {"dispatch", "replied"}
          /\ Go(h, "write", Fail(work[h].copy, "dispatch"))
      BY <2>8 DEF DispatchError, At
    <3>2. Fail(work[h].copy, "dispatch") \in Row
      BY <2>3, <3>1, FailIsRow DEF Errors
    <3>3. QED
      BY <1>0, <1>1, <2>1, <2>2, <3>1, <3>2, GoBusy DEF Pcs, Delivers
  <2>9. ASSUME NEW ok \in BOOLEAN, Reply(h, ok) PROVE FALSE
    BY <2>9 DEF Reply, SystemInv, SystemTypeOK
  <2>10. QED
    BY <1>0, <1>1, <2>4, <2>5, <2>6, <2>7, <2>8, <2>9, CallGoesOn DEF Serve
<1>2. CASE work[h] = Idle
  <2>1. caller[h] = NoTask
    BY <1>2 DEF DeliversRun, Delivers
  <2>2. \E t \in Tasks : Post(t, h) /\ caller'[h] = t
    <3>1. caller \in [Handlers -> Tasks \cup {NoTask}]
      BY DEF SystemInv, SystemTypeOK
    <3>2. caller' # caller
      BY <2>1
    <3>3. ASSUME NEW g \in Handlers, NEW ok \in BOOLEAN, Reply(g, ok)
          PROVE  FALSE
      BY <2>1, <3>1, <3>3 DEF Reply
    <3>4. Agent
      BY <3>2, <3>3 DEF SystemNext, systemVars, agentVars
    <3>5. ASSUME NEW s \in Tasks, caller' = Hung(s) PROVE FALSE
      BY <2>1, <3>5 DEF Hung
    <3>6. PICK s \in Tasks, g \in Handlers : Post(s, g)
      BY <3>2, <3>4, <3>5 DEF Agent, WorkerTakes, Misconfigured, Decide,
         CallFails, WorkerCrash, LoseTask, Enqueue
    <3>7. caller' = [caller EXCEPT ![g] = s]
      BY <3>6 DEF Post, Call
    <3>8. QED
      BY <2>1, <3>1, <3>6, <3>7
  <2>3. PICK t \in Tasks : Post(t, h) /\ caller'[h] = t
    BY <2>2
  <2>4. task' = task /\ task[t] \in Task /\ task[t].job \in Jobs
    BY <2>3, TaskTyped DEF Post, Call, SystemInv, Task
  <2>5. work'[h] # Idle
    <3>1. PICK pc \in Pcs, copy \in Row \cup {NoRow} :
            Begin(h, pc, task[t].job, copy)
      <4>1. Exists(task[t].job)
        BY <2>3 DEF Post, StartedFind, StepFind, ResultsFind, QuestionFind,
           FailureFind, UsageFind
      <4>2. jobs[task[t].job] \in Row
        BY <1>0, <2>4, <4>1, RowKept
      <4>3. /\ Start(jobs[task[t].job]) \in Row
            /\ Fail(jobs[task[t].job], "agent") \in Row
            /\ \A q \in Questions : RequestInput(jobs[task[t].job], q) \in Row
        BY <4>2, StartIsRow, FailIsRow, RequestInputIsRow DEF Errors
      <4>4. QED
        BY <2>3, <4>2, <4>3 DEF Post, StartedFind, StepFind, ResultsFind,
           QuestionFind, FailureFind, UsageFind, Pcs
    <3>2. QED
      BY <1>0, <2>4, <3>1, BeginBusy
  <2>6. CASE task[t].at = "deliver"
    <3>1. Begin(h, "store", task[t].job, jobs[task[t].job])
      BY <2>3, <2>6 DEF Post, Is, ResultsFind
    <3>2. jobs[task[t].job] \in Row \cup {NoRow}
      BY <1>0, <2>4 DEF TypeOK
    <3>3. work'[h].job = task[t].job /\ work'[h].pc = "store"
      BY <1>0, <2>4, <3>1, <3>2, BeginBusy DEF Pcs
    <3>4. QED
      BY <2>3, <2>4, <2>5, <3>3 DEF Delivers
  <2>7. QED
    BY <2>3, <2>4, <2>5, <2>6 DEF Delivers
<1>3. QED
  BY <1>1, <1>2

(* A delivery is acknowledged by the handler that wrote the completed row. *)
LEMMA AcknowledgedStep ==
  ASSUME SystemInv, SystemInv', DeliversRun, HasResults,
         [SystemNext]_systemVars, NEW t \in Tasks,
         Is(t, "deliver"), task'[t] # NoTask, task'[t].at = "done"
  PROVE  LET j == task[t].job IN
         \/ jobs'[j] = NoRow
         \/ jobs'[j].status = "completed" /\ results'[j] # NoDelivery
<1> DEFINE j == task[t].job
<1>0. TypeOK /\ task[t] \in Task /\ j \in Jobs
  BY TaskTyped DEF Is, Task, SystemInv, SystemTypeOK
<1>1. task'[t] # task[t] /\ After(task[t], FALSE) # task'[t]
  BY <1>0 DEF Is, After, Task
<1>2. ~Agent
  <2>0. task \in [Tasks -> Task \cup {NoTask}] /\ task[t] # NoTask
        /\ task[t].at = "deliver"
    BY DEF SystemInv, SystemTypeOK, Is
  <2>1. ASSUME NEW s \in Tasks, NEW place \in {"start", "broken", "deliver",
               "ask", "fail", "queued"}, To(s, place)
        PROVE  FALSE
    <3>1. CASE s = t
      BY <1>0, <2>0, <2>1, <3>1 DEF To, Task
    <3>2. CASE s # t
      BY <1>1, <2>0, <2>1, <3>2 DEF To
    <3>3. QED
      BY <3>1, <3>2
  <2>2. ASSUME NEW s \in Tasks, CallFails(s) PROVE FALSE
    BY <1>1, <2>0, <2>2 DEF CallFails
  <2>3. ASSUME NEW s \in Tasks, LoseTask(s) PROVE FALSE
    BY <1>1, <2>0, <2>3 DEF LoseTask, Is
  <2>4. ASSUME NEW s \in Tasks, NEW h \in Handlers, Post(s, h) \/ Enqueue(h, s)
        PROVE  FALSE
    BY <1>1, <2>0, <2>4 DEF Post, Call, Enqueue
  <2>5. QED
    BY <2>1, <2>2, <2>3, <2>4
    DEF Agent, WorkerTakes, Misconfigured, Decide, WorkerCrash
<1>3. PICK h \in Handlers : Finish(h) /\ Reply(h, TRUE) /\ caller[h] = t
  BY <1>1, <1>2
  DEF SystemNext, systemVars, agentVars, Reply, SystemInv, SystemTypeOK
<1>4. Delivers(h)
  BY <1>3, NoTaskIsNoTask DEF DeliversRun
<1>5. /\ work[h] # Idle /\ work[h].job = j
      /\ work[h].pc = "store"
           \/ (work[h].pc = "write" /\ work[h].copy.status = "completed")
  BY <1>3, <1>4 DEF Delivers, Is
<1>6. Update(h) /\ At(h, "write") /\ work[h].copy.status = "completed"
  BY <1>3, <1>5 DEF Finish, DispatchOk, Update, AddUsage, AppendStep, At
<1>7. results' = results /\ Overwrite(j, work[h].copy)
  BY <1>5, <1>6 DEF Update
<1>8. CASE Exists(j)
  <2>1. work[h].copy \in Row
    BY <1>0, <1>6, WorkTyped DEF At
  <2>2. jobs'[j] = [work[h].copy EXCEPT !.usage = jobs[j].usage]
    BY <1>0, <1>7, <1>8 DEF Overwrite, TypeOK
  <2>3. jobs'[j].status = "completed"
    BY <1>6, <2>1, <2>2 DEF Row
  <2>4. results[j] # NoDelivery
    BY <1>5, <1>6, <1>8 DEF HasResults, CopiesHaveResults, At
  <2>5. QED
    BY <1>7, <2>3, <2>4
<1>9. CASE ~Exists(j)
  BY <1>7, <1>9 DEF Overwrite, Exists
<1>10. QED
  BY <1>8, <1>9

(* Job.complete accepts a late completion, and a worker whose delivery was *)
(* answered finds its job completed with the results in the table,         *)
(* whatever the reaper, a failure report or a lost reply wrote in between  *)
(* (sink.py, ingest_results.rs and job.rs).                                *)
THEOREM Acknowledged == SystemSpec => AcknowledgedIsVisible
<1>1. SystemInit => DeliversRun
  BY DEF SystemInit, DeliversRun
<1>2. SystemSpec => []HasResults
  BY SystemRefines, ResultsAlways, PTL DEF HandlersImplemented
<1>3. SystemInv /\ SystemInv' /\ DeliversRun /\ HasResults
        /\ [SystemNext]_systemVars
        => AcknowledgedShown
  BY AcknowledgedStep DEF AcknowledgedShown
<1>4. QED
  BY <1>1, <1>2, <1>3, DeliversRunStep, SystemAlways, PTL
  DEF SystemSpec, AcknowledgedIsVisible

(* What the backend promises whatever calls arrive, it promises with the   *)
(* real workers: coherent rows, results of the completed, erasure for      *)
(* good, the bounded overshoot of the quota, usage that is never lost and  *)
(* a life that only moves forward.                                         *)
THEOREM SystemKeepsTheBackendsPromises ==
  SystemSpec => /\ [](/\ RowsCoherent /\ CompletedHasResults
                      /\ ErasedForGood /\ QuotaOvershootBounded)
                /\ UsageNeverLost /\ LifeMovesForward
BY SystemRefines, Coherence, ResultsKept, Erasure, QuotaBound, UsageSafe,
   LifeRefines, PTL DEF HandlersImplemented
=============================================================================
