# A TLA+ model of the research-job backend and its agent

This directory is a verification development of the repository in `src/`: TLA+
modules translated from its code, TLC configurations that check them on small
instances, and proofs checked by TLAPS. Paths below are relative to `src/`.

## 1. The system

A user launches a *research job* (a keyword) through the Rust backend
(`backend/`). The backend stores the job in PostgreSQL and posts a task to the
agent API (`agent/src/aiagent/adapters/api/app.py`), which enqueues it in Celery
over Redis. A Celery worker runs the research and reports back through the
backend's `/internal/jobs/{id}/...` endpoints: `started`, `steps`, `results`,
`question`, `usage`, `failure`. A Vue frontend follows the job by server-sent
events and by reading it. A background loop in the backend (one leader among the
replicas, by a PostgreSQL advisory lock) fails stale jobs, launches recurring
searches and purges old data.

### Inventory

| Component | State | Operations | What is hard | What makes it correct |
|---|---|---|---|---|
| Job entity (`domain/job.rs`) | status, error, question, answer, usage, completed_at | new, start, complete, fail, request_input, provide_answer | applied to copies of rows | the fields of a row agree with its status |
| Job use cases (`application/launch_search.rs`, `answer_clarification.rs`, `ingest_results.rs`, `fail_stale_jobs.rs`) | none of their own | one per endpoint, and the reaper | several awaited statements each, no transaction around them, any number in flight | a completed job keeps its results and its life moves forward; quota; spend never lost; nothing stuck |
| Persistence (`adapters/persistence/`) | tables and foreign keys; maps in the in-memory adapter | one statement per method | what a statement tests and what it overwrites; cascades | a deleted row does not come back |
| Background loop (`main.rs`), leader lock (`postgres.rs`, `leader_lock.rs`) | session advisory lock | reaper, scheduler, purges | stale list, an error ends a step, lock loss | no job stays unfinished for ever; one leader at a time |
| Recurring searches (`run_due_searches.rs`, `recurring_searches.rs`, `domain/recurring.rs`) | last_run_at, memory of URLs | create, delete, tick | crash between insert, dispatch and mark_ran; bounded memory | at most one run per interval; what was seen is not new again |
| Digests (`ingest_results.rs`, `adapters/digest.rs`, `notify.rs`) | none | after a completion | lost or sent twice | only for news, never fails the ingestion |
| Agent API and task (`app.py`, `tasks.py`, `celery_app.py`, `sink.py`) | Celery queue, attempts | enqueue, run, retry, redeliver | late acknowledgement, worker death, 30 s call time-outs, best-effort calls | delivered results are visible; spend is counted once; one question per job |
| Agent loop, LangGraph orchestrator (`run_agent_research.py`, `langgraph_agent.py`) | hits, journal, checkpoint | act, search, ask, critique, finish | budgets, one question per job, resume from a checkpoint | both decide, journal and deliver alike |
| Workflow research (`run_research.py`) | none | search, resolve, deliver | partial failure | started, then results or a failure |
| Result sets (`aggregating_search.py`, `urls.py`, `models.py`) | none | merge, canonicalise, sort, flag new | pure | no duplicates, sorted, complete |
| Sessions (`login_user.rs`, `refresh_session.rs`, `register_user.rs`; `frontend/src/api.ts`) | accounts, refresh-token families, the browser's cookie | register, login, rotate, revoke, expire, purge | find-then-insert, find-then-mark; tabs share a cookie; lost replies; deletion meanwhile | one account per address; a replaced token is unusable; a replay ends its own family only |
| Account deletion (`delete_account.rs`) | - | six deletions, user last | requests in flight; any step may fail | nothing left, nothing comes back, in either store |
| Knowledge base (`knowledge.rs`, `tasks.py`, `adapters/knowledge.py`) | documents, chunks, the embedding task | upload, embed, store, fail, delete, retrieve | late or repeated callbacks; no reaper | ready means searchable; pending means worked on |
| Profile and channels (`profile.rs`, `notification_channel.rs`, `notify.rs`, `digest.rs`) | channels | add, remove, notify | one destination fails, channels go, SMTP goes | each live destination is told; what was accepted can be addressed |
| Rate limiter, login throttle (`rate_limit.rs`) | counters per window | check | windows begin with a client or with the clock; replicas; Redis out of reach | refused only when over; at most twice the limit |
| Event stream (`sse.rs`, `queries.rs`) and run panel (`RunPanel.vue`) | last payload; what is shown | poll, emit, stop; follow, refresh, leave | torn reads, early ends, overlapping replies | a panel at rest shows how the job ended |
| Configuration and start (`config.rs`, `main.rs`) | the environment, the adapters | read, refuse, fall back, wire, listen, stop | combinations of gaps | production never runs degraded |
| HTTP surface, audit, telemetry, providers | events | - | pure I/O or single statements | the events' storage only |

`PROJECT.json` lists each part with its status and the hazards at their lines.

## 2. The modules

    ResearchJob        the entity: a row and the pure functions on it
      |  EXTENDS
    JobHandlers        the use cases as interleaved statements, the reaper, the
      |    |           purge, the account deletion; agent = open environment
      |    +-- INSTANCE JobLifecycle      abstract: a job's life moves forward
      |  EXTENDS
    ResearchSystem     JobHandlers closed with dispatch, tasks and workers

    RecurringRuns      the scheduler tick on several replicas, the leader lock,
                       the memory of a run, the digest (stands alone)

    Sessions           registration, login, rotation, logout, deletion, as
                       interleaved statements, with the browsers' cookies

    Stores             every repository method, in memory (Mem...) and in
      |                PostgreSQL (Pg...), as functions on a database
      |  EXTENDS
    StoreAgreement     the same calls on both, side by side

    KnowledgeBase      documents, their embedding task and its callbacks
    JobStream          the event stream of one job and the panel that reads it
    Notifications      channels, and a digest sent to each
    RateLimiter        one limiter on several replicas, in memory or in Redis
    Startup            from the environment to the listening server
    AgentGraph         the LangGraph orchestrator over the tasks of one job
      +-- INSTANCE AgentLoop            abstract: the hand-written loop

    MCJobHandlers, MCResearchSystem, MCRecurringRuns, MCSessions   for TLC
    MCServices         StoreAgreement, KnowledgeBase, JobStream, Notifications,
                       RateLimiter, Startup and AgentGraph side by side

    Proofs (each EXTENDS the module it is about, and those to its left):
    JobHandlersProofs (also JobLifecycle) <- ResearchSystemProofs
    SessionsProofs, RecurringRunsProofs
    StoresProofs       Stores and StoreAgreement             --+
    ServicesProofs     KnowledgeBase, Startup, Notifications,  |
                       JobStream and RateLimiter             --+-- MCServicesProofs
    AgentGraphProofs   AgentGraph, and AgentLoop's steps     --+

### ResearchJob

A row is a record of the fields the life cycle uses. `Start`, `Complete`, `Fail`,
`RequestInput` and `ProvideAnswer` are the methods of `ResearchJob`, their early
returns included; `error` is reduced to who wrote it, `usage` to a count of
reported attempts. `Coherent` is what every reader of a row relies on.

### JobHandlers

State: the tables (`users`, `jobs`, `results`, `steps`), an age class per job
instead of `created_at`, and what is in flight: `work[h]` is the statement or
call request `h` awaits together with the copy of the row it read, `loop` and
`reaping` are the background loop with the list of stale jobs it has read. One
action is one statement with the code up to the next `.await`:

| Use case | Actions |
|---|---|
| `LaunchSearch::execute` | `LaunchCheck`, `LaunchInsert`, `AgentAccepts`, `DispatchOk` / `DispatchError`, `Update` |
| `AnswerClarification::execute` | `AnswerFind`, `AnswerClearSteps`, `AnswerUpdate`, then the dispatch as above |
| `IngestResults::start`, `request_input`, `fail` | `StartedFind`, `QuestionFind`, `FailureFind`, then `Update` |
| `IngestResults::complete` | `ResultsFind`, `StoreResults` or `StoreNothing`, `Update` |
| `IngestResults::record_step`, `record_usage` | `StepFind`, `AppendStep`; `UsageFind`, `AddUsage` |
| `FailStaleJobs::execute` | `ReaperList`, `ReapOne`, `ReaperDone`, `ReaperError` |
| retention purge | `Purge`, `PurgeSkipped` (off by default, `DATA_RETENTION_DAYS=0`) |
| `DeleteAccount::execute` | `DeleteJobs`, `DeleteUser`, `DeleteAborts` |

`Abort` ends a request between any two statements: a database error, a dropped
connection, a crash. A crash of the whole server is several of them.
`Overwrite` is the `UPDATE` of `jobs.update`: every field but `usage`, no test
of the status, nothing if the row is gone. A delivery may be empty (no result
found): it is a member of `Deliveries` like any other, and `StoreNothing` is an
empty one that comes after the job's row is gone, when no foreign key objects.

The agent is an open environment here: any callback, for any stored job, at any
time, any number of times.

### ResearchSystem

Closes the system. `Enqueue` is the acceptance of a dispatch by the agent API; a
task is a record with its place in the attempt (`start`, `work`, `deliver` or
`ask`, `fail` or `broken`, and `done` or `retry` where only the usage report is
left). `Post` starts the request a worker sends and `caller` remembers who waits
for it; `Reply` gives the handler's end back to the worker; `CallFails` is a 404,
an unreachable backend, or the 30 s time-out with the handler still running.
`Leave` is the end of an attempt (acknowledged, or retried at most `MaxRetries`
times); `WorkerCrash` is the redelivery by `acks_late` and
`reject_on_worker_lost`; `LoseTask` is a broker that loses what is queued. The
broker's own redelivery of an unacknowledged task to a second worker while the
first still runs (Redis visibility time-out, one hour) is not modelled.

### RecurringRuns

The searches of one user, their runs (the columns of `research_jobs` and
`search_results` that the scheduler, the memory and the digest read), and the
background loop of every replica, where `tick[r]` holds the statement it awaits
and the variables of `RunDueSearches::execute`:

| Code | Actions |
|---|---|
| `RecurringSearches::create`, `delete` | `CreateCheck`, `CreateInsert`; `Delete` (which unlinks the runs) |
| `PostgresLeaderLock` | `Acquire`, `Release`, `UnlockFails`, `Recycle`, `SessionLost` |
| `RunDueSearches::execute` | `ListDue`, `NextSearch`, `Count`, `Recall`, `Insert` / `InsertRefused`, `Dispatch`, `FailRun`, `MarkRan`, `NoneLeft`, `TickFails` |
| `IngestResults::complete` of a run | `DeliverFind`, `DeliverStore`, `DeliverUpdate`, `DeliverDigest` / `DigestLookupFails`, `DeliverAborts` |

A session advisory lock is reentrant and belongs to a pooled connection, so
`locks[r]` counts: a failed unlock leaves one behind, which the same replica may
take again and which goes when the pool closes the connection. `Remembered` is
the `SELECT DISTINCT ON ... LIMIT` as PostgreSQL orders it. The other life of a
run is in `JobHandlers`; manual launches, which share the quota, are left out
here, and one callback of a run is served at a time.

### Sessions

State: the tables `users` (as the set `accounts`), `refresh_tokens` (`row`, with
the columns that never change in `issued`) and `security_events`; the refresh
cookie of each browser (`jar`); and, as in `JobHandlers`, the statement every
request awaits (`work`). All accounts have one e-mail address, so any two
registrations compete.

| Code | Actions |
|---|---|
| `RegisterUser::execute` | `RegisterFind`, `RegisterInsert` |
| `LoginUser::execute`, throttle | `LoginFind`, `InsertToken`; `LoginRefused` |
| `RefreshSession::rotate` | `RotateFind`, `MarkConsumed`, `InsertToken`; `RotateRefused`, then `RevokeFamily` and `AuditReuse`, or `CollectExpired` |
| `RefreshSession::revoke` | `LogoutFind`, `LogoutRevoke` |
| `DeleteAccount::execute` | `DeleteBegin`, `DeleteTokens`, `DeleteUser` |
| replies, errors, time | `ReplyGrant`, `ReplyClear`, `Abort`; `Expire`, `CookieExpires`, `PurgeTokens` |

`disturbed` is a history variable: the families that met anything but a sequence
of answered requests (two requests that overlap, an error, a lost reply, the
account's deletion). What `UndisturbedSurvives` says, it says of the others.

### Stores and StoreAgreement

Each repository method is an operator from a database to a database, an answer
and a value, once as `in_memory.rs` has it and once as the SQL and the keys of the
migrations have it. `StoreAgreement` applies each call to both, with whatever its
use case read before: for accounts that exist and for accounts deleted by
`DeleteAccount` (up to any of its six statements), on rows that are there and on
rows deleted since. `copies` is what such a late call still holds: a job found before
it was purged or deleted (`UseJob`), a search listed before it was deleted
(`InsertJob`); a registration looks its address up before another one inserts it
(`Register`).

Such calls leave rows in memory, of accounts that exist, that PostgreSQL does not
have. The history `strays` names them, by the call that made them:

* a second account of an address, inserted by a concurrent registration;
* a run inserted after its search was deleted;
* a job updated, or given results or steps, after it was deleted or purged;
* a run of a deleted search that was due for the purge: PostgreSQL has nulled its
  link and purges it, memory keeps both.

A row becomes a stray when the call is made, never by comparing the two stores.
`MemoryIsPostgres` says what remains the same: memory without its strays (`Clean`),
less what the keys of PostgreSQL remove or unlink (`RepairOf`: rows of deleted
accounts, links to deleted searches, repeated chunks and those of deleted
documents), is PostgreSQL. `RepliesAgree` says which calls are answered alike:
those for an account that exists, unless they make a stray, are on one, or store
chunks of a deleted document. `QueriesAgree` compares each read in the same way.

### KnowledgeBase, JobStream, Notifications, RateLimiter, Startup

`KnowledgeBase`: one document's way from `UploadInsert` over `DispatchEmbed` and the
task (`TakeTask`, `Embed`, `ReportEmpty`, `ReportFailure`, `GiveUp`, `WorkerDies`) to
the callbacks (`ChunksFind`, `ChunksWrite`, `FailureMark`, `CallbackFails`), which go
on when their caller has timed out. `dropped` and `late` are histories.

`JobStream`: the job moves as the other modules let it; every reader (the stream's
poll and each fetch) reads it in two statements (`QueriesFind`, `QueriesResults`;
the journal's read changes neither status nor results). `StreamSends` is one turn of
`job_updates_with`; `Follow`, `OnUpdate`, `StreamEnded`, `Refresh` and `Leave` are
the panel's functions.

`Notifications`: `Accepts` is `NotificationChannel::new` by classes of target and
secret; a digest is sent by `DigestFind`, `DigestWebhook`, `DigestList`,
`DigestNotify` for each channel and `DigestSent`, while channels come and go and
`Restart` brings the server back with or without SMTP.

`RateLimiter`: `AllowAt` and `TryAllow` are the two limiters, `FailOpen` is Redis
out of reach, which lets through without counting. `recent` is a history: for each
limiter (every replica's memory, and Redis) and client, how many requests were made
and how many passed in the last 1, 2, ... up to a window of instants, so that a
property about any stretch of time can be stated and proved for windows of any
length; `verdict` is the last answer and who gave it.

`Startup`: the environment is any combination of the classes of values that
`from_lookup` distinguishes; `FromLookup`, `StorePanics`, `Wire`, `BindAndServe` and
`Shutdown` are the steps of `main`.

`AgentLoop` is `run_agent_research` with its local variables, one action per call of
the policy, the search engine, the critic and the backend; `Start` is a task, which
begins from nothing. `AgentGraph` is `run_agent_graph`: `graph` is the checkpointed
`GraphState`, `node` the node that runs next, and the actions `...Node` are the
functions of `_build_graph`. A node is one step, because it is checkpointed whole:
when its task fails, or its worker is lost, the state is still that of the node
before. `Task` is the first task, the one that carries the answer, or a retry or
redelivery; with the answer it goes on from the checkpoint (`ResumedRun`), or begins
informed when Redis has none (`FreshRun`). `Phase` and `Turn` are the refinement
mapping. Links have a canonical link; a search may return two of one page. `Omit`,
the list comprehensions that filter hits by link or page, is a recursive function
rather than `SelectSeq`, of which the prover knows nothing.

## 3. What the runs check

| Run | Instance | Shows |
|---|---|---|
| `jobs` | 1 job, 2 requests, 1 question, answer, delivery and step, `MaxAge` 3 | `TypeOK`; `RowsCoherent`: no interleaving of stale copies leaves a row whose fields disagree; `CompletedHasResults`; `ErasedForGood` (ADR-058); `UsageNeverLost` (ADR-038); `LifeMovesForward`, the refinement of `JobLifecycle` |
| `job_quota` | 3 jobs, 2 requests, quota 1, `OneJobAges` | `QuotaOvershootBounded`: counting and inserting are two statements, so the quota is overshot, by less than the number of concurrent requests |
| `job_reaper` | 1 job, 2 requests, `MaxAge` 1, fairness | `UnfinishedIsSettled` (ADR-016); `ReaperEnds`: every run of the reaper ends, by an error or not |
| `system` | 1 job, 2 requests, 1 task slot, 1 retry, 1 crash, 2 attempts | `SystemTypeOK`; `SpendCountedOnce`; `AcknowledgedIsVisible` (late completions win). That the closed system is an instance of the open one, `HandlersImplemented`, is proved (section 4) |
| `recurring` | 2 replicas, 2 searches, quota 1, 1 fault | `LeadersBounded` (ADR-053), `RunsSpaced` (ADR-033), `ScheduleWithinQuota` (ADR-017): one fault costs at most one more leader, run or unit of quota |
| `recurring_digest` | 1 replica, 1 search, 2 runs that deliver, 1 fault | `AnsweredIsAnnounced` (ADR-036) |
| `recurring_served` | 2 replicas, 2 searches, 1 fault, fairness | `DueIsServed`: a due search is launched or skipped, and marked |
| `memory_alphabetical` | 1 replica, 1 search, 2 URLs, limit 1, 3 runs | counterexample: see section 5 |
| `completed_clobbered`, `reaper_waiting` | the closed system | counterexamples: see section 5 |
| `sessions` | 2 browsers, 2 accounts, 3 tokens, 2 requests | `OneAccountPerEmail`; `NothingNamesTheDeleted` (ADR-058); `ReplacedIsConsumed` and `UndisturbedSurvives` (ADR-056) |
| `services`, stores | 2 accounts, 2 addresses, 2 identifiers, 2 instants | but for strays the adapters hold the same (`MemoryIsPostgres`), answer calls (`RepliesAgree`) and questions alike (`QueriesAgree`); `DeletionConverges` (ADR-058): a deletion that ends leaves nothing of the account in either, strays included |
| `services`, knowledge | 1 document, 3 callbacks at a time | `RetrievedIsReady`, `PendingIsWorkedOn` (ADR-063) |
| `services`, stream | 1 fetch beside the stream | `QuietPanelIsRight`, `CompletedIsShownWhole` (ADR-026) |
| `services`, notifications | 2 channels of any kind | `LiveChannelsTold`, `AcceptedIsAddressable` (ADR-061/062) |
| `services`, limiter | limit 1, window 2, 2 replicas, an address and the shared bucket | `RefusedOnlyWhenOver`, `AtMostTwice` (ADR-017/037) |
| `services`, startup | every environment | `ListeningIsWhole` (ADR-020) |
| `services`, agent | 2 steps, 3 links of 2 pages, 3 tasks | `GraphIsTheLoop`: the graph implements the loop (ADR-046); `SearchBudget`: no pause, retry or repair search exceeds `AGENT_MAX_STEPS` |

**Bounds.** One job suffices where jobs do not interact; they interact only by
the quota, which has its own run with three. Two requests give every race of two
writers of a row; the reaper is a third writer in every run in which jobs age,
and in the closed system a request that timed out goes on while the worker
makes its next call. `MaxAge` 3 takes a job through the time-out, out of the quota's
window and past the retention; this orders the three constants as any sensible
configuration does (15 min < 24 h < days). `MaxUsage` lets a stale copy differ from the
row. Two attempts with one retry and one crash give a retry, a redelivery and a
resumed task after an answer, each against the handlers of the attempt before.
`OneJobAges` only limits how many jobs of `job_quota` leave the window.
Symmetry (handlers, in `job_quota` also jobs, in `recurring` replicas and
searches) is used in safety runs only.

In `recurring` the interval is longer than the quota's window (2 and 0 ticks, as
a weekly search and 24 h), so that the quota alone cannot space the runs; two
searches compete for a quota of one; one fault may strike at any statement, and
the theorems of section 4 say the same of any number. `MaxDelivered` is 0 where
no property looks at results. Two runs in `recurring_digest` give a second run
with the first one's memory, and redeliveries of both.
In `sessions` three tokens are a login and two rotations, or two families; two
requests are any race of two tabs, or of one tab and the deletion; two accounts
are a registration after a deletion, or two that compete. `services` is one run
of seven components that share no variable: a behaviour picks one and leaves the
others at rest, so the run explores the sum of their states, not the product, and
`MCServices` adds nothing to their actions. In the stores, identifiers are drawn in
order (they mean nothing); each behaviour exercises one group of tables (no
statement but the account's deletion touches two groups, and that one is in all
three, stopped after each statement that touches the group); accounts have an address of their own outside the first group. A job is
charged once, a document stored twice at most, two events are kept: each is the
least that tells the adapters apart. The calls are sequential: a use case's stale
reads are in `copies`, but a `DeleteAccount` runs in one step up to the statement it
stops at, so a call between two statements of the deletion that completes is not
covered there (it is, in PostgreSQL, by `JobHandlers` and `Sessions`). Events of one
instant are listed latest first in both stores, an order the SQL leaves open; the
limit of the recent URLs is not reached (`MemoryKeepsRecent` shows that the adapters
differ there). Three callbacks
are two that nobody waits for beside the one awaited. The limiter's clock runs to
instant 3, so that windows that begin at 0 and 1 end and another is entered, with
bursts of two at one instant.
In the agent, a budget of two steps leaves one for a repair search or none, the
links are two of one page and one of another, and three tasks are the one that asks,
the one of the answer and a retry of it.
Deadlock is not checked: a system whose identifiers are used up and whose
requests have ended stops, as it should.

**Fairness.** In `RecurringRuns` (`recurring_served`): every replica's ticker keeps
firing, so a lock that is free again and again is taken (strong fairness of
`Acquire`: another replica may hold it at any one tick), a loop that leads goes on
(weak fairness of `Work`), and the pool closes a connection in the end
(`Recycle`; sqlx's idle time-out and maximum lifetime). Faults are bounded, and
nothing is assumed of deliveries or users.

In `JobHandlers` (`job_reaper`): the ticker of `main.rs`
fires again after each run (weak fairness of `ReaperList`, `ReaperDone` and of
the purge step), time passes, and the database does not fail the reaper's
update of one job for ever (strong fairness of `ReapOne`, since `ReaperError`
may end a run at any time). Nothing is assumed of requests, users or the agent.

## 4. What is proved

All theorems hold for every number of jobs, users, requests, deliveries, tasks,
retries, channels, replicas, clients, limits, step budgets and every quota, from the
named assumptions on the constants
(`OwnerIsUser`, `FiniteInstances`, `TasksFinite`, `NoRowIsNoRow`, `NoneAreNot`, ...:
finite sets of requests, tasks and jobs, placeholders that are none of the values,
bounds that are numbers (`TimeIsCounted`), searches that return links
(`SearchesReturnLinks`)).

| Theorem | Says | Argument |
|---|---|---|
| `TypeCorrect` | `Spec => []TypeOK` | inductive as it stands: a handler's copy is a row wherever its next statement uses it |
| `UsageSafe` | `UsageNeverLost` | `RowStep`: a row changes only by insert, overwrite, reap, charge or erase; an insert finds no row (`Fresh`) |
| `Erasure` | `[]ErasedForGood` | every statement that adds results or steps needs its job's row, every insert its user's |
| `Coherence` | `[]RowsCoherent` | not inductive: a row is as good as the copies that will overwrite it. `AllCoherent` extends it to the copies of the handlers and of the reaper |
| `ResultsKept` | `[]CompletedHasResults` | likewise: a handler or reaper whose copy is completed implies the stored results (`HasResults`) |
| `QuotaBound` | `[]QuotaOvershootBounded` | a check adds one to `Inserting` when fewer than `Quota` are counted; the cardinality lemmas count the requests |
| `LifeRefines` | `Spec => LifeMovesForward` | each step maps to `Launch`, `Settle`, `Close` or a stutter; a settled job stays so because no request that read it before is left (`SettledStep`) |
| `LoopSettles` | `FairSpec /\ []LoopIsReady /\ ReaperEnds => UnfinishedIsSettled` | two assumptions: `LoopIsReady` says that each action of the loop is enabled where its own guard says so, which the definitions show but `ENABLED` keeps from the prover; `ReaperEnds` TLC checks. An unfinished job ages to the time-out or is settled (`WF` of `AgeJob`); the loop, which comes back to `waiting` because every run of the reaper ends, lists it, and from then on it is listed again on every tick (it only grows older: `GrownStep`), so the update of its row is possible again and again and strong fairness executes it |
| `SystemTypeCorrect` | `SystemSpec => []SystemTypeOK` | with `CallersRun` and `OneCallEach`: a worker waits for one reply, only while it runs a task |
| `SystemRefines` | `SystemSpec => HandlersImplemented` | every step of user, worker and broker is a step of the open backend or leaves it alone; so the theorems above hold of the closed system, which `SystemKeepsTheBackendsPromises` states |
| `TypeCorrect` (recurring) | `RecurringRuns`'s `[]TypeOK` | with `Placed`: a loop that serves a search holds it, one that dispatches a run has inserted it, and its `now` is past |
| `Leadership` | `[]LeadersBounded` | `LockSafe`: one replica at most holds the lock (`OneHolder`), and the `Orphans`, which lead without it, have each lost a session |
| `ScheduleQuota` | `[]ScheduleWithinQuota` | inductive with `LockSafe`: a replica that passes the test leaves room for its run, and the others about to insert lead too, so `Leadership` bounds them by the faults |
| `SpendOnce` | `SystemSpec => []SpendCountedOnce` | `ReportsRun`: a usage report that somebody waits for was sent by a task that has started and has nothing else left to do; so every step moves at most one unit between `Unreported`, `Reporting` and the row, and only `WorkerTakes` adds one, with an attempt (`TasksFinite` lets them be counted) |
| `Acknowledged` | `SystemSpec => AcknowledgedIsVisible` | `DeliversRun`: the request of a worker that waits to deliver has the results to store or writes the completed row, and that row is what its reply follows; with `HasResults` |
| `Spacing` | `[]RunsSpaced` | `Spaced`: for every window of one interval, the runs launched in it, the replicas without the lock that may still launch one there or set `last_run_at` back before it (`Stray`), and one if the lock lets a run through (`Open`) are at most `1 + faults`. An orphan that marks an older time reopens the window and stops being counted; a lost session, crash or error reopens it and is a fault |
| `Announced` | `[]AnsweredIsAnnounced` | `Unanswered`: a run with a delivery under way is not yet acknowledged, so a store can add no news to an answered run; the acknowledgement follows the announcement, or a failed look-up, which adds one to `Missed` and one fault |
| `TypeCorrect` (sessions), `OneAccount`, `NothingOfTheDeleted`, `ReplacedConsumed` | `Sessions`'s `[]TypeOK`, `[]OneAccountPerEmail`, `[]NothingNamesTheDeleted`, `[]ReplacedIsConsumed` | one invariant, `IInv`: a token named anywhere was drawn (`Grounded`), a registration holds an identifier of its own (`Registering`), a token about to be inserted is nobody else's (`Fresh`), a mark precedes the insert of its successor (`Matched`) |
| `UndisturbedIsKept` | `[]UndisturbedSurvives` | `SInv`: `IInv` with `Known` (a family never leaves the browser that logged in, and a rotation never leaves the family), `OneRequest` (an undisturbed family has one request at a time) and `Alive` (its cookie's token is live, and so is the one about to be granted) |
| `KnowledgeTyped`, `GroundedInReady`, `PendingHasAWay` | `KbSpec`'s `[]KbTypeOK`, `[]RetrievedIsReady`, `[]PendingIsWorkedOn` | `KbInv`: a document that nobody timed out on has one place on its way (`Orderly`), and chunks and status agree but for a late report (`Agreed`); a pending one has an upload, a task or a report to come (`Answerable`). The run checks them in the composition of `MCServices` |
| `StartTyped` | `StSpec => []StTypeOK` | `StShape`: once configured there is a configuration, once wired there are adapters, told apart from their placeholders by the fields they have |
| `NoDegradedProduction` | `StSpec => []ListeningIsWhole` | `StInv`: what is configured is sound (`Sane`) before anything is wired, and what is wired is what the configuration asks for (`AsConfigured`); the property itself only speaks of the last step of the start |
| `NotificationsTyped`, `EveryLiveChannelTold`, `AcceptedCanBeAddressed` | `NtSpec`'s `[]NtTypeOK`, `[]LiveChannelsTold`, `[]AcceptedIsAddressable` | `NtInv`: a listed channel that is up was told or is still to do (`TriedOrToDo`), the digest's copy of a channel was accepted when it was stored, and an identifier is drawn once, so a row never changes under the digest |
| `StreamTyped`, `ShownWhole`, `QuietIsRight` | `StreamSpec`'s `[]StreamTypeOK`, `[]CompletedIsShownWhole`, `[]QuietPanelIsRight` | `StreamInv`: whatever a reading holds (`ReadersTrue`), is on the wire or is shown (`ViewsTrue`) is true of the job and whole, and a panel that waits for nothing has seen the end or was overtaken (`AtRest`). The invariant must speak of the readings under way: the property does not see them until they arrive |
| `LimiterTyped`, `RefusedAsked`, `TwiceAtMost` | `RlSpec`'s `[]RlTypeOK`, `[]RefusedOnlyWhenOver`, `[]AtMostTwice` | `RlInv`: a window that began `age` instants ago has counted no more than was asked and no less than has passed since, and before it no more passed than one limit (`Counts`); a client without a window passed one limit at most (`Uncounted`). So when a window is dropped and another begins, the old one's limit and the new one's are the two |
| `GraphRunsTheLoop` | `AgSpec => GraphIsTheLoop` | `AgInv`: the journal is numbered by its positions (`Numbered`), before the finish it holds the policy's searches alone (`OnlySearches`) and after it more (`Finished`), a paused task is at the question. From these the turn is the length of the journal before the finish (`LedAll`) and no longer moves after it (`LedKept`), and the budget test of the graph, which counts the journal's searches, is that of the loop, which counts turns. One lemma per node maps it to its action of the loop |
| `AgentTyped`, `SearchesStayInBudget`, `SearchesAddNewPages` | `AgSpec`'s `[]AgTypeOK`, `[]SearchBudget`, `[]CollectedAreKept /\ FreshPages` | `Gathered`: the hits are links, their pages are the collected ones until the critic drops some, and a search is chosen only while one is left. It rests on what `Omit` keeps of a sequence (`OmitIs`, `OmitKeepsOthers`), by induction on its length: `SetInduction` derives the induction, for sets, from the pigeonhole principle, and `KeptExists` builds the recursive function with it |
| `MemoryStandsIn`, `AnswersAgree`, `ErasedEverywhere` | `StoresSpec`'s `[]MemoryIsPostgres`, `[]RepliesAgree`, `[]DeletionConverges` | `StoresAgree` proves `StoreInv`: `Agreeing` of PostgreSQL and of memory without its strays, `Remembered`, `AnsweredAlike` and `DeletionConverges`, by one lemma per method, in both stores, and one per action. A call on a stray leaves what is without strays as it was; any other call does to it what it does to the whole |
| `StoresTyped` | `StoresSpec => []StoresTypeOK` | `Members`: the tables in memory are keyed by identifiers, and their rows are of accounts that may register, by one lemma per method; PostgreSQL's keys, whose rows are memory's, then follow from `StoreInv` (`TypesFollow`) |
| `ServicesTyped`, `ServicesKeepTheirPromises` | `MCServices`'s `Spec => []ServicesTypeOK`, and every other property of the run | `EachRuns`: a behaviour of the composition is one of each component, since the others keep an initial state (`EachBegins`) and stutter (`EachSteps`) |
| `QuestionsAgree` | `StoresSpec => []QueriesAgree` | `Agreeing`: an account that exists has the same rows in both, the runs of its search, strays apart, are its own jobs (`RunsAlike`), and its chunks are of its documents (`RetrievedAlike`); with `Owners`, nothing is left over while no account was deleted. `Logged`: events are recorded in the order of time, and both stores keep the same of an account that exists, so the last recorded (memory) are the latest (PostgreSQL) |

`Agreeing` must say more than the three properties. Memory's rows, strays apart, are
PostgreSQL's and those whose owner is gone, table by table, and every row, and every account a row
names, bears an identifier drawn before: so a new account or row finds no leftover
under its own identifier. A job's search is one of its own account, so a deletion
unlinks no run of another account's. A stored document's chunks are its account's,
with a first copy among them, so what memory appends never replaces what
PostgreSQL keeps. `Remembered` is about the strays themselves: whatever job or search
memory has, a use case once inserted and may still hold, under the same owner; so a
late call names no row of another account's, and the deletion of an account, which
goes by owner, takes its strays with it.

Of jobs, `Fresh` says that an identifier drawn by a launch has no row until its insert,
and that no two handlers insert the same one. It is the strengthening all others
rest on: without it an insert could replace a row.

Only model-checked: `ReaperEnds`, from which `UnfinishedIsSettled` is proved (it
needs a rank on the listed jobs, an induction over temporal formulas); `DueIsServed`,
which needs such a rank and `ENABLED`; and the counterexamples. `LoopIsReady` is
assumed. Every other property of a run is a theorem. `CollectedAreKept` and
`FreshPages` are stated for the proofs and checked by no run; TLC finds no
counterexample to either on the agent of `services`.

## 5. Where documents and code disagree

* `CompletedIsFinal`: "a failure never clobbers a completed job"
  (`domain/job.rs:168`) holds of the entity, not of two handlers: a failure
  report that timed out, or a started call, writes the status it read before
  the results came.
* `ReaperSparesWaiting`: the reaper leaves waiting jobs out of its list, and then
  writes its copies: a job that began to wait in between is failed.
* `MemoryKeepsRecent`: the memory of a recurring search is "most recent first,
  capped by `limit`" (`domain/ports.rs:130`), and the in-memory adapter does that;
  the PostgreSQL query must order by URL first (`DISTINCT ON`) and keeps the
  alphabetically first 200, so what a later run delivered is news again.

Observed besides, in behaviours the models have and no run forbids, for the
documents do not say what should happen:

* The quota (`launch_search.rs:24`, "Max searches per user per rolling 24h") is
  overshot by concurrent launches; `QuotaOvershootBounded` states what does hold.
* Two concurrent answers to one question are both written and dispatched.
* A failed attempt reports its failure and is retried; the next attempt's
  question meets a failed job and is dropped, with success reported to the
  worker, whose task ends as paused. Nobody is asked anything.
* The guard against a second question is in the agent and sees the task's own
  answer only; the first task, redelivered after its worker died, asks again
  although the user has answered.
* Two concurrent rotations of one refresh token both succeed: the find does not
  mark. A reply lost after the mark costs the session at its next refresh.
* The in-memory adapter differs from PostgreSQL where keys would act, for accounts
  that exist too: it accepts a second account with an address (two concurrent
  registrations), a run of a search deleted after it was listed
  (`run_due_searches.rs:68`), results and steps of a job that was purged or deleted,
  which an update inserts again (`in_memory.rs:167`); a deleted search leaves its
  link in its runs, which are then never purged. These are the strays of
  `StoreAgreement`. It also keeps rows of deleted accounts inserted later, and events
  keep their id. Besides, `store_chunks` appends
  where PostgreSQL replaces, so repeated chunks can displace others in `retrieve`,
  and `results_for` keeps the order of storage.
* A failure report of the embedding task that follows chunks stored by a call that
  timed out marks the document failed, and `retrieve` goes on using its chunks. A
  document whose text, reply or report was lost stays pending: nothing reaps it.
* In the agent mode the links of one search are compared with those of earlier
  searches, not with each other (`run_agent_research.py:170`), and a repair search may
  bring back what the critic dropped; the graph does the same. After an answer the
  loop begins again with a whole step budget, the graph with what is left of it, and
  both with a new spend cap (`tasks.py:301`).
* A fetch of the run panel that is answered after a newer one shows the older
  state, and after a final one it stays, for the timer was cleared
  (`RunPanel.vue:52`).
* `from_lookup` "records a warning for each one used" of the development fallbacks
  (`config.rs:97`); the fallback of `INTERNAL_API_TOKEN` (`config.rs:128`) adds none.
* A retention of more days than `chrono` can subtract (`main.rs:233`, `main.rs:241`)
  would panic the background loop; the values are not bounded when read.

## 6. Plan

Done: `ResearchJob`, `JobHandlers`, `JobLifecycle`, `ResearchSystem`,
`RecurringRuns`, `Sessions`, `KnowledgeBase`, `JobStream`, `Notifications`,
`RateLimiter`, `Startup`, `Stores`, `StoreAgreement`, `AgentLoop` and `AgentGraph`
with their proofs.

What is left, in order: manual launches against the quota of the scheduler; `AgentLoop` as an implementation of the task of
`ResearchSystem`; merging the answers of several engines against a reference
definition.

### Not modelled

* LangGraph itself, which is not in this repository: `AgentGraph` takes from
  `langgraph_agent.py:16-21` that every super-step is persisted and that a resumed
  run goes on from there; its limit on super-steps is not modelled.
* Search engines, pages, the model's answers and the enrichment of results: any
  outcome, or a call that raises.
* The pure functions on texts (URLs, dates, chunks, journal wording): unit tests
  reach them, and no other component's state depends on more than their result.
* HTTP plumbing, telemetry, prompts and providers,
  templates and styles, deployment, scripts.

Liveness under fairness and ENABLED
stay with TLC, and so does what a recursive definition computes for every input.
