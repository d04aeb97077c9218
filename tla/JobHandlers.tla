---------------------------- MODULE JobHandlers ------------------------------
(***************************************************************************)
(* The backend's job use cases as they run in the server: each HTTP        *)
(* handler is a sequence of awaited database statements and network calls  *)
(* on its own copy of a job row, and any number of them interleave with    *)
(* each other and with the background loop (reaper and retention purge).   *)
(*                                                                         *)
(* The agent is the open environment here: any callback may arrive for any *)
(* job that exists, at any time and any number of times, which covers      *)
(* every retry, duplicate, delay and reordering of the worker's calls.     *)
(* The jobs are one-shot searches (recurring_search_id is None).           *)
(*                                                                         *)
(* A statement is atomic (one PostgreSQL statement or transaction); a      *)
(* handler may stop between two of them at any point (Abort): a database   *)
(* error, a crash of the server, a client that went away.                  *)
(***************************************************************************)
EXTENDS ResearchJob, FiniteSets

CONSTANTS
  Jobs,        (* job identifiers, each drawn once (Uuid::new_v4)          *)
  Users,       (* accounts                                                 *)
  Owner,       (* the account that launches each job                       *)
  Handlers,    (* requests the server may execute at the same time         *)
  Deliveries,  (* contents of a results callback                           *)
  Steps,       (* journal entries, identified by their sequence number     *)
  Quota,       (* daily_search_quota                                       *)
  NoRow,       (* no such row                                              *)
  Idle,        (* a handler that executes nothing                          *)
  NoDelivery,  (* no results stored                                        *)
  MaxUsage,    (* bound: usage reports accepted for one job                *)
  MaxAge       (* bound: the last age class a job reaches                  *)

ASSUME OwnerIsUser == Owner \in [Jobs -> Users]
ASSUME FiniteInstances == IsFiniteSet(Jobs) /\ IsFiniteSet(Handlers)
ASSUME QuotaIsNat == Quota \in Nat
ASSUME NoRowIsNoRow == NoRow \notin Row
ASSUME NoDeliveryIsNone == NoDelivery \notin Deliveries
ASSUME BoundsAreNat == MaxUsage \in Nat /\ MaxAge \in 0..3

VARIABLES
  users,     (* table users                                                *)
  jobs,      (* table research_jobs                                        *)
  results,   (* table search_results: the delivery a job's rows come from  *)
  steps,     (* table agent_steps                                          *)
  age,       (* how old created_at is, see below                           *)
  drawn,     (* identifiers already used                                   *)
  work,      (* what each handler is executing                             *)
  closing,   (* accounts whose deletion is in flight                       *)
  loop,      (* where the background loop is                               *)
  reaping    (* the stale jobs the reaper listed and has not failed yet    *)

vars == <<users, jobs, results, steps, age, drawn, work, closing, loop,
          reaping>>

(* Age classes of a job: 1 is past the job timeout (15 min by default),    *)
(* 2 also out of the quota's 24 h window, 3 also past the retention (days).*)
PastTimeout == 1
PastDay == 2
PastRetention == 3

(* What a handler does next, named by the statement or call it awaits.     *)
(*   insert   LaunchSearch: jobs.insert                                    *)
(*   clear    AnswerClarification: jobs.clear_steps                        *)
(*   resume   AnswerClarification: jobs.update before the dispatch         *)
(*   dispatch the POST /tasks request to the agent API                     *)
(*   replied  the agent API has the task, its response is on the way       *)
(*   store    IngestResults::complete: jobs.store_results                  *)
(*   append   IngestResults::record_step: jobs.append_step                 *)
(*   charge   IngestResults::record_usage: jobs.add_usage                  *)
(*   write    jobs.update, the last statement of every other use case      *)
Pcs == {"insert", "clear", "resume", "dispatch", "replied", "store", "append",
        "charge", "write"}

Work == [pc : Pcs, job : Jobs, copy : Row \cup {NoRow}]

ASSUME IdleIsNoWork == Idle \notin Work

TypeOK ==
  /\ users \in SUBSET Users
  /\ jobs \in [Jobs -> Row \cup {NoRow}]
  /\ results \in [Jobs -> Deliveries \cup {NoDelivery}]
  /\ steps \in [Jobs -> SUBSET Steps]
  /\ age \in [Jobs -> 0..3]
  /\ drawn \in SUBSET Jobs
  /\ work \in [Handlers -> Work \cup {Idle}]
  /\ \A h \in Handlers :
       work[h] # Idle /\ work[h].pc \notin {"append", "charge"}
         => work[h].copy \in Row
  /\ closing \in SUBSET Users
  /\ loop \in {"waiting", "reaping", "purging"}
  /\ reaping \in [Jobs -> Row \cup {NoRow}]

Init ==
  /\ users = Users
  /\ jobs = [j \in Jobs |-> NoRow]
  /\ results = [j \in Jobs |-> NoDelivery]
  /\ steps = [j \in Jobs |-> {}]
  /\ age = [j \in Jobs |-> 0]
  /\ drawn = {}
  /\ work = [h \in Handlers |-> Idle]
  /\ closing = {}
  /\ loop = "waiting"
  /\ reaping = [j \in Jobs |-> NoRow]
-----------------------------------------------------------------------------
Exists(j) == jobs[j] # NoRow

At(h, pc) == work[h] # Idle /\ work[h].pc = pc

Begin(h, pc, j, copy) ==
  /\ work[h] = Idle
  /\ work' = [work EXCEPT ![h] = [pc |-> pc, job |-> j, copy |-> copy]]

Go(h, pc, copy) ==
  work' = [work EXCEPT ![h] = [pc |-> pc, job |-> work[h].job, copy |-> copy]]

End(h) == work' = [work EXCEPT ![h] = Idle]

(* Mutant of update: the copy's usage is written too.                      *)
OverwriteAll(j, copy) ==
  jobs' = IF Exists(j) THEN [jobs EXCEPT ![j] = copy] ELSE jobs

(* jobs.update(copy): one UPDATE ... WHERE id, of every field but usage.    *)
(* It tests no status, and a row that is gone stays gone.                  *)
Overwrite(j, copy) ==
  jobs' = IF Exists(j)
          THEN [jobs EXCEPT ![j] = [copy EXCEPT !.usage = jobs[j].usage]]
          ELSE jobs

(* Deleting rows of research_jobs; results and steps cascade.              *)
Erase(gone) ==
  /\ jobs' = [j \in Jobs |-> IF j \in gone THEN NoRow ELSE jobs[j]]
  /\ results' = [j \in Jobs |-> IF j \in gone THEN NoDelivery ELSE results[j]]
  /\ steps' = [j \in Jobs |-> IF j \in gone THEN {} ELSE steps[j]]

OwnedBy(u) == {j \in Jobs : Owner[j] = u}

(* count_created_since(u, 24 h ago)                                        *)
Recent(u) == {j \in OwnedBy(u) : Exists(j) /\ age[j] < PastDay}

tables == <<users, jobs, results, steps>>
background == <<loop, reaping>>
-----------------------------------------------------------------------------
(* LaunchSearch::execute                                                   *)

(* Mutant: the quota test is off by one.                                   *)
LaunchCheckOffByOne(h, j) ==
  /\ j \notin drawn
  /\ Cardinality(Recent(Owner[j])) <= Quota
  /\ Begin(h, "insert", j, NewJob)
  /\ drawn' = drawn \cup {j}
  /\ UNCHANGED <<tables, age, closing, background>>

(* The count, the quota test and the construction of the job.              *)
LaunchCheck(h, j) ==
  /\ j \notin drawn
  /\ Cardinality(Recent(Owner[j])) < Quota
  /\ Begin(h, "insert", j, NewJob)
  /\ drawn' = drawn \cup {j}
  /\ UNCHANGED <<tables, age, closing, background>>

(* Mutant: no foreign key on user_id.                                      *)
LaunchInsertUnchecked(h) ==
  /\ At(h, "insert")
  /\ jobs' = [jobs EXCEPT ![work[h].job] = work[h].copy]
  /\ Go(h, "dispatch", work[h].copy)
  /\ UNCHANGED <<users, results, steps, age, drawn, closing, background>>

(* The foreign key on user_id refuses a job of a deleted account.          *)
LaunchInsert(h) ==
  /\ At(h, "insert")
  /\ Owner[work[h].job] \in users
  /\ jobs' = [jobs EXCEPT ![work[h].job] = work[h].copy]
  /\ Go(h, "dispatch", work[h].copy)
  /\ UNCHANGED <<users, results, steps, age, drawn, closing, background>>

(* The agent API enqueues the task; the handler has yet to see the reply.  *)
AgentAccepts(h) ==
  /\ At(h, "dispatch")
  /\ Go(h, "replied", work[h].copy)
  /\ UNCHANGED <<tables, age, drawn, closing, background>>

DispatchOk(h) ==
  /\ At(h, "replied")
  /\ End(h)
  /\ UNCHANGED <<tables, age, drawn, closing, background>>

(* The request failed before the agent had the task, or its reply was lost *)
(* or an error although the task is queued; the handler cannot tell.       *)
DispatchError(h) ==
  /\ At(h, "dispatch") \/ At(h, "replied")
  /\ Go(h, "write", Fail(work[h].copy, "dispatch"))
  /\ UNCHANGED <<tables, age, drawn, closing, background>>
-----------------------------------------------------------------------------
(* AnswerClarification::execute                                            *)

(* find, the owner filter and provide_answer.                              *)
AnswerFind(h, u, j, a) ==
  /\ Exists(j)
  /\ Owner[j] = u
  /\ CanAnswer(jobs[j])
  /\ Begin(h, "clear", j, ProvideAnswer(jobs[j], a))
  /\ UNCHANGED <<tables, age, drawn, closing, background>>

AnswerClearSteps(h) ==
  /\ At(h, "clear")
  /\ steps' = [steps EXCEPT ![work[h].job] = {}]
  /\ Go(h, "resume", work[h].copy)
  /\ UNCHANGED <<users, jobs, results, age, drawn, closing, background>>

AnswerUpdate(h) ==
  /\ At(h, "resume")
  /\ Overwrite(work[h].job, work[h].copy)
  /\ Go(h, "dispatch", work[h].copy)
  /\ UNCHANGED <<users, results, steps, age, drawn, closing, background>>
-----------------------------------------------------------------------------
(* IngestResults: the worker's callbacks.  Each reads the row first and    *)
(* answers 404, changing nothing, when there is none.                      *)

StartedFind(h, j) ==
  /\ Exists(j)
  /\ Begin(h, "write", j, Start(jobs[j]))
  /\ UNCHANGED <<tables, age, drawn, closing, background>>

(* Mutants: no 404 for a missing row; the job is completed before its      *)
(* results are stored.                                                     *)
ResultsFindUnchecked(h, j) ==
  /\ Begin(h, "store", j, jobs[j])
  /\ UNCHANGED <<tables, age, drawn, closing, background>>

ResultsFindCompletesFirst(h, j) ==
  /\ Exists(j)
  /\ Begin(h, "write", j, Complete(jobs[j]))
  /\ UNCHANGED <<tables, age, drawn, closing, background>>

ResultsFind(h, j) ==
  /\ Exists(j)
  /\ Begin(h, "store", j, jobs[j])
  /\ UNCHANGED <<tables, age, drawn, closing, background>>

(* Delete and insert in one transaction, then job.complete().  The foreign *)
(* key refuses results of a job that is gone (an Abort), unless the        *)
(* delivery is empty: then there is no row to refuse.                      *)
StoreResults(h, d) ==
  /\ At(h, "store")
  /\ Exists(work[h].job)
  /\ results' = [results EXCEPT ![work[h].job] = d]
  /\ Go(h, "write", Complete(work[h].copy))
  /\ UNCHANGED <<users, jobs, steps, age, drawn, closing, background>>

StoreNothing(h) ==
  /\ At(h, "store")
  /\ ~Exists(work[h].job)
  /\ Go(h, "write", Complete(work[h].copy))
  /\ UNCHANGED <<tables, age, drawn, closing, background>>

StepFind(h, j) ==
  /\ Exists(j)
  /\ Begin(h, "append", j, NoRow)
  /\ UNCHANGED <<tables, age, drawn, closing, background>>

(* INSERT ... ON CONFLICT DO NOTHING                                       *)
AppendStep(h, s) ==
  /\ At(h, "append")
  /\ Exists(work[h].job)
  /\ steps' = [steps EXCEPT ![work[h].job] = @ \cup {s}]
  /\ End(h)
  /\ UNCHANGED <<users, jobs, results, age, drawn, closing, background>>

QuestionFind(h, j, q) ==
  /\ Exists(j)
  /\ Begin(h, "write", j, RequestInput(jobs[j], q))
  /\ UNCHANGED <<tables, age, drawn, closing, background>>

UsageFind(h, j) ==
  /\ Exists(j)
  /\ Begin(h, "charge", j, NoRow)
  /\ UNCHANGED <<tables, age, drawn, closing, background>>

(* One UPDATE ... SET usage = usage + spend; of no row if the job is gone.  *)
AddUsage(h) ==
  /\ At(h, "charge")
  /\ IF Exists(work[h].job)
     THEN /\ jobs[work[h].job].usage < MaxUsage
          /\ jobs' = [jobs EXCEPT ![work[h].job].usage = @ + 1]
     ELSE jobs' = jobs
  /\ End(h)
  /\ UNCHANGED <<users, results, steps, age, drawn, closing, background>>

FailureFind(h, j) ==
  /\ Exists(j)
  /\ Begin(h, "write", j, Fail(jobs[j], "agent"))
  /\ UNCHANGED <<tables, age, drawn, closing, background>>
-----------------------------------------------------------------------------
(* jobs.update as the last statement of a handler.                         *)
Update(h) ==
  /\ At(h, "write")
  /\ Overwrite(work[h].job, work[h].copy)
  /\ End(h)
  /\ UNCHANGED <<users, results, steps, age, drawn, closing, background>>

(* An awaited call returns an error, or the handler's future is dropped.   *)
Abort(h) ==
  /\ work[h] # Idle
  /\ End(h)
  /\ UNCHANGED <<tables, age, drawn, closing, background>>
-----------------------------------------------------------------------------
(* DeleteAccount::execute: the jobs go first, the account last; its other  *)
(* tables lie in between and hold no jobs.                                 *)

DeleteJobs(u) ==
  /\ u \in users
  /\ Erase(OwnedBy(u))
  /\ closing' = closing \cup {u}
  /\ UNCHANGED <<users, age, drawn, work, background>>

(* Deleting the user cascades to the jobs inserted meanwhile.              *)
DeleteUser(u) ==
  /\ u \in closing
  /\ users' = users \ {u}
  /\ Erase(OwnedBy(u))
  /\ closing' = closing \ {u}
  /\ UNCHANGED <<age, drawn, work, background>>

DeleteAborts(u) ==
  /\ u \in closing
  /\ closing' = closing \ {u}
  /\ UNCHANGED <<tables, age, drawn, work, background>>
-----------------------------------------------------------------------------
(* The background loop of the leader: FailStaleJobs::execute, then the     *)
(* retention purge.                                                        *)

(* Mutant: running jobs are left out of list_unfinished.                   *)
IsStalePending(j) ==
  Exists(j) /\ jobs[j].status = "pending" /\ age[j] >= PastTimeout

IsStale(j) ==
  /\ Exists(j)
  /\ jobs[j].status \in {"pending", "running"}
  /\ age[j] >= PastTimeout

ReaperList ==
  /\ loop = "waiting"
  /\ loop' = "reaping"
  /\ reaping' = [j \in Jobs |-> IF IsStale(j) THEN jobs[j] ELSE NoRow]
  /\ UNCHANGED <<tables, age, drawn, work, closing>>

ReapOne(j) ==
  /\ loop = "reaping"
  /\ reaping[j] # NoRow
  /\ Overwrite(j, Fail(reaping[j], "timeout"))
  /\ reaping' = [reaping EXCEPT ![j] = NoRow]
  /\ UNCHANGED <<users, results, steps, age, drawn, work, closing, loop>>

(* Mutant: the run goes on until no job is stale.                          *)
ReaperDoneWhenNoneStale ==
  /\ loop = "reaping"
  /\ reaping = [j \in Jobs |-> NoRow]
  /\ \A j \in Jobs : ~IsStale(j)
  /\ loop' = "purging"
  /\ UNCHANGED <<tables, age, drawn, work, closing, reaping>>

ReaperDone ==
  /\ loop = "reaping"
  /\ reaping = [j \in Jobs |-> NoRow]
  /\ loop' = "purging"
  /\ UNCHANGED <<tables, age, drawn, work, closing, reaping>>

(* `?` on a failed update ends the reaper's run for this tick.             *)
ReaperError ==
  /\ loop = "reaping"
  /\ loop' = "purging"
  /\ reaping' = [j \in Jobs |-> NoRow]
  /\ UNCHANGED <<tables, age, drawn, work, closing>>

IsExpired(j) == Exists(j) /\ IsFinished(jobs[j]) /\ age[j] >= PastRetention

Purge ==
  /\ loop = "purging"
  /\ loop' = "waiting"
  /\ Erase({j \in Jobs : IsExpired(j)})
  /\ UNCHANGED <<users, age, drawn, work, closing, reaping>>

(* Retention is off, the purge failed, or the leader crashed.              *)
PurgeSkipped ==
  /\ loop = "purging"
  /\ loop' = "waiting"
  /\ UNCHANGED <<tables, age, drawn, work, closing, reaping>>

(* Time passes.                                                            *)
AgeJob(j) ==
  /\ j \in drawn
  /\ age[j] < MaxAge
  /\ age' = [age EXCEPT ![j] = @ + 1]
  /\ UNCHANGED <<tables, drawn, work, closing, background>>
-----------------------------------------------------------------------------
HandlerStep(h) ==
  \/ LaunchInsert(h) \/ AgentAccepts(h) \/ DispatchOk(h) \/ DispatchError(h)
  \/ AnswerClearSteps(h) \/ AnswerUpdate(h)
  \/ (\E d \in Deliveries : StoreResults(h, d)) \/ StoreNothing(h)
  \/ \E s \in Steps : AppendStep(h, s)
  \/ AddUsage(h) \/ Update(h) \/ Abort(h)

Request(h, j) ==
  \/ LaunchCheck(h, j)
  \/ \E u \in Users, a \in Answers : AnswerFind(h, u, j, a)
  \/ StartedFind(h, j) \/ ResultsFind(h, j) \/ StepFind(h, j)
  \/ \E q \in Questions : QuestionFind(h, j, q)
  \/ UsageFind(h, j) \/ FailureFind(h, j)

Account(u) == DeleteJobs(u) \/ DeleteUser(u) \/ DeleteAborts(u)

Background ==
  \/ ReaperList \/ ReaperDone \/ ReaperError \/ Purge \/ PurgeSkipped
  \/ \E j \in Jobs : ReapOne(j)

Next ==
  \/ \E h \in Handlers : HandlerStep(h)
  \/ \E h \in Handlers, j \in Jobs : Request(h, j)
  \/ \E u \in Users : Account(u)
  \/ Background
  \/ \E j \in Jobs : AgeJob(j)

Spec == Init /\ [][Next]_vars

(* The ticker keeps firing, time passes, and the database does not fail    *)
(* the reaper's update of one job forever.  Nothing is assumed of the      *)
(* requests: each may stop at any point, and the agent may stay silent.    *)
JobFairness(j) == SF_vars(ReapOne(j)) /\ WF_vars(AgeJob(j))

JobsFairness == \A j \in Jobs : JobFairness(j)

Fairness ==
  /\ WF_vars(ReaperList) /\ WF_vars(ReaperDone)
  /\ WF_vars(Purge \/ PurgeSkipped)
  /\ JobsFairness

FairSpec == Spec /\ Fairness
-----------------------------------------------------------------------------
(* Safety.                                                                 *)

(* Every stored row has the fields its status calls for (a failed job an   *)
(* error, a finished one its completion time, a waiting one its question), *)
(* although update writes a copy read long before.                         *)
RowsCoherent == \A j \in Jobs : Exists(j) => Coherent(jobs[j])

(* A completed job's results are in the table: complete() stores them      *)
(* before the status, and nothing of the job removes only them.            *)
CompletedHasResults ==
  \A j \in Jobs :
    Exists(j) /\ jobs[j].status = "completed" => results[j] # NoDelivery

(* ADR-058: once an account is gone nothing of it is left or comes back,   *)
(* whatever launches and callbacks were in flight during the deletion.     *)
ErasedForGood ==
  \A j \in Jobs :
    Owner[j] \notin users \/ ~Exists(j)
      => ~Exists(j) /\ results[j] = NoDelivery /\ steps[j] = {}

(* Requests that passed the quota test and have yet to insert their job.   *)
Inserting(u) == {h \in Handlers : At(h, "insert") /\ Owner[work[h].job] = u}

(* The quota is counted, then the job inserted, without a lock: concurrent *)
(* launches overshoot it, but by less than the number of requests the      *)
(* server executes at a time.                                              *)
QuotaOvershootBounded ==
  Handlers # {} =>
    \A u \in Users :
      Cardinality(Recent(u)) + Cardinality(Inserting(u))
        <= Quota + Cardinality(Handlers) - 1

(* ADR-038: the spend recorded for a job is written by add_usage only, so  *)
(* no life-cycle update, however stale its copy, takes any of it back.     *)
UsageNeverLost ==
  [][\A j \in Jobs :
       Exists(j) /\ jobs'[j] # NoRow => jobs'[j].usage >= jobs[j].usage]_vars

(* A request or the reaper still holds, for job j, a copy read before the  *)
(* completion, and may write it back.                                      *)
MayClobber(h, j) ==
  /\ work[h] # Idle
  /\ work[h].job = j
  /\ work[h].pc \in {"clear", "resume", "dispatch", "replied", "write"}
  /\ work[h].copy.status # "completed"

Settled(j) ==
  /\ Exists(j)
  /\ jobs[j].status = "completed"
  /\ reaping[j] = NoRow
  /\ \A h \in Handlers : ~MayClobber(h, j)

(* The job has no row yet and may still get one.                           *)
Unborn(j) ==
  j \notin drawn \/ \E h \in Handlers : At(h, "insert") /\ work[h].job = j

Phase(j) ==
  IF Exists(j)
  THEN IF Settled(j) THEN "settled" ELSE "open"
  ELSE IF Unborn(j) THEN "absent" ELSE "gone"

Lifecycle == INSTANCE JobLifecycle WITH phase <- [j \in Jobs |-> Phase(j)]

(* A job's life only moves forward: stored once, final once its completion *)
(* is settled, never back once its row is deleted.                         *)
LifeMovesForward == Lifecycle!Spec

Unfinished(j) == Exists(j) /\ jobs[j].status \in {"pending", "running"}

IsSettled(j) == Unfinished(j) ~> ~Unfinished(j)

(* Liveness, ADR-016: no job stays pending or running for ever, whatever   *)
(* message, reply or process was lost.                                     *)
UnfinishedIsSettled == \A j \in Jobs : IsSettled(j)

(* Every run of the reaper ends: what it lists is failed one by one, or an *)
(* error ends it, and the purge follows (main.rs).                         *)
ReaperEnds == []<>(loop # "reaping")
-----------------------------------------------------------------------------
(* What the documents say and interleaved handlers do not keep.            *)

(* ADR-016: "a failure never clobbers a completed job"; a completed job    *)
(* leaves that status only with its row.                                   *)
CompletedIsFinal ==
  [][\A j \in Jobs :
       Exists(j) /\ jobs[j].status = "completed" /\ jobs'[j] # NoRow
         => jobs'[j].status = "completed"]_vars

(* ADR-032: the reaper ignores a job that awaits input.                    *)
ReaperSparesWaiting ==
  [][\A j \in Jobs :
       Exists(j) /\ jobs[j].status = "awaiting_input" /\ jobs'[j] # NoRow
         => jobs'[j].error # "timeout"]_vars
=============================================================================
