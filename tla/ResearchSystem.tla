---------------------------- MODULE ResearchSystem ---------------------------
(***************************************************************************)
(* The closed system: the backend of JobHandlers with the agent that calls *)
(* it.  The agent API turns an accepted dispatch into a Celery task; a     *)
(* worker runs the task as a sequence of blocking callbacks (started, then *)
(* journal steps, then results or a question, or a failure report; at the  *)
(* end the usage report), each of which may time out while the backend     *)
(* still executes it; a failed attempt is retried, and the task of a       *)
(* worker that dies is queued again (acks_late, reject_on_worker_lost).    *)
(***************************************************************************)
EXTENDS JobHandlers

CONSTANTS
  Tasks,        (* bound: tasks the broker and the workers hold at a time  *)
  NoTask,       (* a free slot, or a request no worker waits for           *)
  MaxRetries,   (* max_retries of the task (3 in the code)                 *)
  MaxCrashes,   (* bound: workers that die                                 *)
  MaxAttempts   (* bound: attempts started for one job                     *)

ASSUME AgentBounds ==
  MaxRetries \in Nat /\ MaxCrashes \in Nat /\ MaxAttempts \in Nat
ASSUME NoTaskIsNoTask == NoTask \notin Tasks
ASSUME TasksFinite == IsFiniteSet(Tasks)

VARIABLES
  task,      (* the tasks queued or running                                *)
  caller,    (* the task whose worker waits for the reply of a handler     *)
  attempts,  (* attempts started for each job                              *)
  crashes    (* workers that died                                          *)

agentVars == <<task, caller, attempts, crashes>>
systemVars == <<vars, agentVars>>

(* Where a task is: queued, or the next call of the attempt running it.    *)
(* `work` is between two calls; in "done" and "retry" only the usage       *)
(* report is left; "broken" reports a failure and then no usage.           *)
Places == {"queued", "start", "work", "deliver", "ask", "fail", "broken",
           "done", "retry"}

Task == [job : Jobs, answer : Answers \cup {None}, tries : 0..MaxRetries,
         at : Places]

SystemTypeOK ==
  /\ TypeOK
  /\ task \in [Tasks -> Task \cup {NoTask}]
  /\ caller \in [Handlers -> Tasks \cup {NoTask}]
  /\ attempts \in [Jobs -> 0..MaxAttempts]
  /\ crashes \in 0..MaxCrashes

SystemInit ==
  /\ Init
  /\ task = [t \in Tasks |-> NoTask]
  /\ caller = [h \in Handlers |-> NoTask]
  /\ attempts = [j \in Jobs |-> 0]
  /\ crashes = 0
-----------------------------------------------------------------------------
Is(t, place) == task[t] # NoTask /\ task[t].at = place

Waiting(t) == \E h \in Handlers : caller[h] = t

Hung(t) == [h \in Handlers |-> IF caller[h] = t THEN NoTask ELSE caller[h]]

To(t, place) == task' = [task EXCEPT ![t].at = place]

(* Mutant: one retry too many.                                             *)
LeaveLate(rec) ==
  IF rec.at = "retry" /\ rec.tries <= MaxRetries
  THEN [rec EXCEPT !.at = "queued", !.tries = @ + 1]
  ELSE NoTask

(* The end of an attempt: acknowledged, or retried while tries remain.     *)
Leave(rec) ==
  IF rec.at = "retry" /\ rec.tries < MaxRetries
  THEN [rec EXCEPT !.at = "queued", !.tries = @ + 1]
  ELSE NoTask

(* Mutant: a usage report without a reply is sent again.                   *)
AfterResends(rec, ok) ==
  CASE rec.at = "start" -> [rec EXCEPT !.at = IF ok THEN "work" ELSE "fail"]
    [] rec.at = "work" -> rec
    [] rec.at \in {"deliver", "ask"} ->
         [rec EXCEPT !.at = IF ok THEN "done" ELSE "fail"]
    [] rec.at = "fail" -> [rec EXCEPT !.at = "retry"]
    [] rec.at = "broken" -> Leave([rec EXCEPT !.at = "retry"])
    [] rec.at \in {"done", "retry"} -> IF ok THEN Leave(rec) ELSE rec

(* What an attempt does after the reply (or the error) of its call.  The   *)
(* journal and the usage report are best effort; any other error makes the *)
(* attempt report a failure, best effort too, and then raise.              *)
After(rec, ok) ==
  CASE rec.at = "start" -> [rec EXCEPT !.at = IF ok THEN "work" ELSE "fail"]
    [] rec.at = "work" -> rec
    [] rec.at \in {"deliver", "ask"} ->
         [rec EXCEPT !.at = IF ok THEN "done" ELSE "fail"]
    [] rec.at = "fail" -> [rec EXCEPT !.at = "retry"]
    [] rec.at = "broken" -> Leave([rec EXCEPT !.at = "retry"])
    [] rec.at \in {"done", "retry"} -> Leave(rec)

(* The handler ends: its reply reaches the worker that waits for it.       *)
Reply(h, ok) ==
  /\ IF caller[h] = NoTask
     THEN UNCHANGED task
     ELSE task' = [task EXCEPT ![caller[h]] = After(@, ok)]
  /\ caller' = [caller EXCEPT ![h] = NoTask]
  /\ UNCHANGED <<attempts, crashes>>
-----------------------------------------------------------------------------
(* The agent API: POST /tasks, then the worker that takes the task.        *)

Enqueue(h, t) ==
  /\ task[t] = NoTask
  /\ AgentAccepts(h)
  /\ task' = [task EXCEPT ![t] = [job |-> work[h].job,
                                  answer |-> work[h].copy.answer,
                                  tries |-> 0, at |-> "queued"]]
  /\ UNCHANGED <<caller, attempts, crashes>>

WorkerTakes(t) ==
  /\ Is(t, "queued")
  /\ attempts[task[t].job] < MaxAttempts
  /\ attempts' = [attempts EXCEPT ![task[t].job] = @ + 1]
  /\ To(t, "start")
  /\ UNCHANGED <<vars, caller, crashes>>

(* The providers cannot be built: the failure is reported at once.         *)
Misconfigured(t) ==
  /\ Is(t, "start") /\ ~Waiting(t)
  /\ To(t, "broken")
  /\ UNCHANGED <<vars, caller, attempts, crashes>>

(* The research itself: it ends with results, with a question (once per    *)
(* task, and only when the task carries no answer), or with an exception.  *)
Decide(t) ==
  /\ Is(t, "work") /\ ~Waiting(t)
  /\ \/ To(t, "deliver")
     \/ task[t].answer = None /\ To(t, "ask")
     \/ To(t, "fail")
  /\ UNCHANGED <<vars, caller, attempts, crashes>>

(* A callback: the worker sends the request and waits.                     *)
Call(t, h) ==
  /\ ~Waiting(t)
  /\ caller' = [caller EXCEPT ![h] = t]
  /\ UNCHANGED <<task, attempts, crashes>>

Post(t, h) ==
  /\ task[t] # NoTask
  /\ \/ Is(t, "start") /\ StartedFind(h, task[t].job)
     \/ Is(t, "work") /\ Steps # {} /\ StepFind(h, task[t].job)
     \/ Is(t, "deliver") /\ ResultsFind(h, task[t].job)
     \/ Is(t, "ask") /\ \E q \in Questions : QuestionFind(h, task[t].job, q)
     \/ (Is(t, "fail") \/ Is(t, "broken")) /\ FailureFind(h, task[t].job)
     \/ (Is(t, "done") \/ Is(t, "retry")) /\ UsageFind(h, task[t].job)
  /\ Call(t, h)

(* The call fails: the job is gone (404), the backend unreachable, or no   *)
(* reply came within 30 s, the handler then running on by itself.  Also an *)
(* attempt with nothing to report as usage.                                *)
CallFails(t) ==
  /\ task[t] # NoTask
  /\ task[t].at # "queued"
  /\ task[t].at = "work" => Waiting(t)
  /\ task' = [task EXCEPT ![t] = After(@, FALSE)]
  /\ caller' = Hung(t)
  /\ UNCHANGED <<vars, attempts, crashes>>

(* The worker process dies: its task is queued again.                      *)
WorkerCrash(t) ==
  /\ task[t] # NoTask
  /\ task[t].at # "queued"
  /\ crashes < MaxCrashes
  /\ crashes' = crashes + 1
  /\ To(t, "queued")
  /\ caller' = Hung(t)
  /\ UNCHANGED <<vars, attempts>>

(* The broker loses a queued task.                                         *)
LoseTask(t) ==
  /\ Is(t, "queued")
  /\ task' = [task EXCEPT ![t] = NoTask]
  /\ UNCHANGED <<vars, caller, attempts, crashes>>
-----------------------------------------------------------------------------
User ==
  \/ \E h \in Handlers, j \in Jobs :
       \/ LaunchCheck(h, j)
       \/ \E u \in Users, a \in Answers : AnswerFind(h, u, j, a)
  \/ \E u \in Users : Account(u)

(* The steps of a handler before its last.                                 *)
Serve(h) ==
  \/ LaunchInsert(h) \/ DispatchError(h)
  \/ AnswerClearSteps(h) \/ AnswerUpdate(h)
  \/ (\E d \in Deliveries : StoreResults(h, d)) \/ StoreNothing(h)

Finish(h) ==
  \/ DispatchOk(h) \/ Update(h) \/ AddUsage(h)
  \/ \E s \in Steps : AppendStep(h, s)

Agent ==
  \E t \in Tasks :
    \/ WorkerTakes(t) \/ Misconfigured(t) \/ Decide(t) \/ CallFails(t)
    \/ WorkerCrash(t) \/ LoseTask(t)
    \/ \E h \in Handlers : Post(t, h) \/ Enqueue(h, t)

SystemNext ==
  \/ User /\ UNCHANGED agentVars
  \/ \E h \in Handlers : Serve(h) /\ UNCHANGED agentVars
  \/ \E h \in Handlers : Finish(h) /\ Reply(h, TRUE)
  \/ \E h \in Handlers : Abort(h) /\ Reply(h, FALSE)
  \/ Background /\ UNCHANGED agentVars
  \/ (\E j \in Jobs : AgeJob(j)) /\ UNCHANGED agentVars
  \/ Agent

SystemSpec == SystemInit /\ [][SystemNext]_systemVars
-----------------------------------------------------------------------------
(* The closed system is an instance of the open one: everything shown of   *)
(* JobHandlers under arbitrary callbacks holds with the real agent.        *)
HandlersImplemented == Spec

(* The attempts of job j that may yet report their spend: those running,   *)
(* unless their report is being served, and the reports being served.      *)
Reporting(j) == {h \in Handlers : At(h, "charge") /\ work[h].job = j}

Unreported(j) ==
  {t \in Tasks :
     /\ task[t] # NoTask /\ task[t].job = j /\ task[t].at # "queued"
     /\ \A h \in Reporting(j) : caller[h] # t}

(* ADR-038: every attempt adds its own spend to the job, once: retries,    *)
(* redeliveries and lost replies never count an attempt twice.             *)
SpendCountedOnce ==
  \A j \in Jobs :
    Exists(j) => jobs[j].usage + Cardinality(Reporting(j))
                   + Cardinality(Unreported(j)) <= attempts[j]

(* A delivery acknowledged in this step, and what the step leaves shown.   *)
AcknowledgedShown ==
  \A t \in Tasks :
    (Is(t, "deliver") /\ task'[t] # NoTask /\ task'[t].at = "done") =>
      LET j == task[t].job IN
      \/ jobs'[j] = NoRow
      \/ jobs'[j].status = "completed" /\ results'[j] # NoDelivery

(* ADR-016, late completions: once the worker's delivery is acknowledged   *)
(* its job is completed with its results, even if the reaper, a failure    *)
(* report or a lost dispatch reply failed it meanwhile, or its row is gone. *)
AcknowledgedIsVisible == [][AcknowledgedShown]_systemVars
=============================================================================
