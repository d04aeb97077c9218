---------------------------- MODULE RecurringRuns ----------------------------
(***************************************************************************)
(* Recurring searches (ADR-033): the searches of one user, the scheduler   *)
(* tick that launches a run of every search that is due, on several        *)
(* replicas gated by a PostgreSQL session advisory lock (ADR-053), the     *)
(* memory a run carries to the agent, and the digest (ADR-036) that        *)
(* follows the delivery of its results.                                    *)
(*                                                                         *)
(* A run is a research job; of its life (JobHandlers) only what the        *)
(* scheduler, the memory and the digest see is kept here.  Time is a       *)
(* counter; the interval and the 24 h of the quota are numbers of ticks    *)
(* of it.                                                                  *)
(***************************************************************************)
EXTENDS Integers, Sequences, FiniteSets

CONSTANTS
  Replicas,     (* backend processes                                       *)
  Searches,     (* recurring searches, each id drawn once                  *)
  Urls,         (* canonical URLs, numbered in alphabetical order          *)
  NoSearch,     (* recurring_search_id IS NULL; no search                  *)
  Never,        (* last_run_at IS NULL                                     *)
  Interval,     (* interval_minutes of every search                        *)
  Day,          (* the 24 h window of the daily quota                      *)
  Quota,        (* daily_search_quota                                      *)
  MaxPerUser,   (* MAX_PER_USER                                            *)
  Limit,        (* SEEN_URLS_LIMIT                                         *)
  MaxClock,     (* bound: the last instant                                 *)
  MaxFaults,    (* bound: errors, crashes and lost sessions                *)
  MaxDelivered  (* bound: how many runs, the first ones, deliver results   *)

ASSUME SearchesFinite == IsFiniteSet(Searches) /\ NoSearch \notin Searches
ASSUME ReplicasFinite == IsFiniteSet(Replicas)
ASSUME UrlsAreOrdered == Urls \subseteq Nat
ASSUME NeverIsNoTime == Never \notin Nat
ASSUME TimesAreNat == Interval \in Nat \ {0} /\ Day \in Nat /\ MaxClock \in Nat
ASSUME LimitsAreNat == Quota \in Nat /\ MaxPerUser \in Nat /\ Limit \in Nat
ASSUME FaultsAreNat == MaxFaults \in Nat /\ MaxDelivered \in Nat

VARIABLES
  clock,      (* the time                                                  *)
  searches,   (* table recurring_searches                                  *)
  runs,       (* table research_jobs with its results, in insertion order  *)
  tasks,      (* runs whose task the agent has                             *)
  locks,      (* how often each replica's sessions hold the advisory lock  *)
  tick,       (* where the background loop of each replica is              *)
  delivery,   (* the results callback of each run that is being served     *)
  announced,  (* the URLs the digests of each run announced                *)
  acked,      (* runs whose last delivery was answered                     *)
  faults      (* errors, crashes and lost sessions so far                  *)

vars == <<clock, searches, runs, tasks, locks, tick, delivery, announced,
          acked, faults>>

Times == 0..MaxClock

(* new: id not drawn; checked: create counted the user's searches.         *)
Search == [state : {"new", "checked", "saved", "deleted"},
           last : Times \cup {Never}]

(* `of` and `due` are history: the search launched and the tick's `now`.   *)
Run == [search : Searches \cup {NoSearch}, of : Searches, due : Times,
        created : Times, status : {"pending", "completed", "failed"},
        memory : SUBSET Urls, found : SUBSET Urls]

(* What a replica's loop awaits next; `left` are the due searches not yet  *)
(* taken, `run` the job it inserted.                                       *)
Tick == [pc : {"idle", "list", "next", "count", "recall", "insert",
               "dispatch", "fail", "mark", "release"},
         now : Times, left : SUBSET Searches,
         search : Searches \cup {NoSearch}, created : Times,
         memory : SUBSET Urls, run : Nat]

Asleep == [pc |-> "idle", now |-> 0, left |-> {}, search |-> NoSearch,
           created |-> 0, memory |-> {}, run |-> 0]

TypeOK ==
  /\ clock \in Times
  /\ searches \in [Searches -> Search]
  /\ runs \in Seq(Run)
  /\ tasks \subseteq DOMAIN runs
  /\ locks \in [Replicas -> 0..(MaxFaults + 1)]
  /\ tick \in [Replicas -> Tick]
  /\ delivery \in Seq({"none", "store", "update", "digest"})
  /\ announced \in Seq(SUBSET Urls)
  /\ Len(delivery) = Len(runs) /\ Len(announced) = Len(runs)
  /\ acked \subseteq DOMAIN runs
  /\ faults \in 0..MaxFaults

Init ==
  /\ clock = 0
  /\ searches = [s \in Searches |-> [state |-> "new", last |-> Never]]
  /\ runs = <<>>
  /\ tasks = {}
  /\ locks = [r \in Replicas |-> 0]
  /\ tick = [r \in Replicas |-> Asleep]
  /\ delivery = <<>>
  /\ announced = <<>>
  /\ acked = {}
  /\ faults = 0
-----------------------------------------------------------------------------
Saved(s) == searches[s].state = "saved"

IsDue(s, now) ==
  \/ searches[s].last = Never
  \/ searches[s].last # Never /\ searches[s].last + Interval <= now

(* The user's jobs the quota counts at `now`, as indices of runs.          *)
Recent(now) == {i \in DOMAIN runs : runs[i].created >= now - Day}

RunsOf(s) == {i \in DOMAIN runs : runs[i].search = s}

Known(s) == UNION {runs[i].found : i \in RunsOf(s)}

(* DISTINCT ON (url) ... ORDER BY url ... LIMIT: the first URLs.           *)
Remembered(s) ==
  {u \in Known(s) : Cardinality({v \in Known(s) : v < u}) < Limit}

(* flag_new: a result is new unless the memory of its run has its URL.     *)
News(i) == runs[i].found \ runs[i].memory

At(r, pc) == tick[r].pc = pc
Go(r, pc) == tick' = [tick EXCEPT ![r].pc = pc]
Leading(r) == tick[r].pc # "idle"

tables == <<searches, runs, tasks>>
callbacks == <<delivery, announced, acked>>
-----------------------------------------------------------------------------
(* RecurringSearches: create counts, then inserts; delete unlinks the runs *)
(* (ON DELETE SET NULL).                                                   *)

CreateCheck(s) ==
  /\ searches[s].state = "new"
  /\ Cardinality({q \in Searches : Saved(q)}) < MaxPerUser
  /\ searches' = [searches EXCEPT ![s].state = "checked"]
  /\ UNCHANGED <<clock, runs, tasks, locks, tick, callbacks, faults>>

CreateInsert(s) ==
  /\ searches[s].state = "checked"
  /\ searches' = [searches EXCEPT ![s].state = "saved"]
  /\ UNCHANGED <<clock, runs, tasks, locks, tick, callbacks, faults>>

Delete(s) ==
  /\ Saved(s)
  /\ searches' = [searches EXCEPT ![s].state = "deleted"]
  /\ runs' = [i \in DOMAIN runs |->
                IF runs[i].search = s
                THEN [runs[i] EXCEPT !.search = NoSearch]
                ELSE runs[i]]
  /\ UNCHANGED <<clock, tasks, locks, tick, callbacks, faults>>
-----------------------------------------------------------------------------
(* The leader lock.  A session lock is reentrant, and belongs to the       *)
(* pooled connection that took it.                                         *)

(* Mutant: the loop of every replica leads.                                *)
AcquireAlways(r) ==
  /\ At(r, "idle")
  /\ locks' = [locks EXCEPT ![r] = @ + 1]
  /\ locks[r] <= MaxFaults
  /\ Go(r, "list")
  /\ UNCHANGED <<clock, tables, callbacks, faults>>

Acquire(r) ==
  /\ At(r, "idle")
  /\ \A q \in Replicas \ {r} : locks[q] = 0
  /\ locks' = [locks EXCEPT ![r] = @ + 1]
  /\ locks[r] <= MaxFaults
  /\ Go(r, "list")
  /\ UNCHANGED <<clock, tables, callbacks, faults>>

Release(r) ==
  /\ At(r, "release")
  /\ locks' = [locks EXCEPT ![r] = IF @ = 0 THEN 0 ELSE @ - 1]
  /\ tick' = [tick EXCEPT ![r] = Asleep]
  /\ UNCHANGED <<clock, tables, callbacks, faults>>

Fault ==
  /\ faults < MaxFaults
  /\ faults' = faults + 1

(* The unlock statement fails: the connection goes back to the pool with   *)
(* the lock, until the pool closes it (Recycle).                           *)
UnlockFails(r) ==
  /\ At(r, "release")
  /\ Fault
  /\ tick' = [tick EXCEPT ![r] = Asleep]
  /\ UNCHANGED <<clock, tables, locks, callbacks>>

Recycle(r) ==
  /\ At(r, "idle")
  /\ locks[r] > 0
  /\ locks' = [locks EXCEPT ![r] = 0]
  /\ UNCHANGED <<clock, tables, tick, callbacks, faults>>

(* PostgreSQL ends the session that holds the lock; the loop goes on.      *)
SessionLost(r) ==
  /\ locks[r] > 0
  /\ Fault
  /\ locks' = [locks EXCEPT ![r] = 0]
  /\ UNCHANGED <<clock, tables, tick, callbacks>>

Crash(r) ==
  /\ Leading(r)
  /\ Fault
  /\ locks' = [locks EXCEPT ![r] = 0]
  /\ tick' = [tick EXCEPT ![r] = Asleep]
  /\ UNCHANGED <<clock, tables, callbacks>>
-----------------------------------------------------------------------------
(* RunDueSearches::execute                                                 *)

ListDue(r) ==
  /\ At(r, "list")
  /\ tick' = [tick EXCEPT ![r] =
                [Asleep EXCEPT !.pc = "next", !.now = clock,
                   !.left = {s \in Searches : Saved(s) /\ IsDue(s, clock)}]]
  /\ UNCHANGED <<clock, tables, locks, callbacks, faults>>

NextSearch(r, s) ==
  /\ At(r, "next")
  /\ s \in tick[r].left
  /\ tick' = [tick EXCEPT ![r].pc = "count", ![r].search = s,
                          ![r].left = @ \ {s}]
  /\ UNCHANGED <<clock, tables, locks, callbacks, faults>>

NoneLeft(r) ==
  /\ At(r, "next")
  /\ tick[r].left = {}
  /\ Go(r, "release")
  /\ UNCHANGED <<clock, tables, locks, callbacks, faults>>

(* Mutants: the quota test is off by one; a skipped run is not marked.     *)
CountOffByOne(r) ==
  /\ At(r, "count")
  /\ IF Cardinality(Recent(tick[r].now)) > Quota
     THEN Go(r, "mark")
     ELSE Go(r, "recall")
  /\ UNCHANGED <<clock, tables, locks, callbacks, faults>>

CountSkipsUnmarked(r) ==
  /\ At(r, "count")
  /\ IF Cardinality(Recent(tick[r].now)) >= Quota
     THEN Go(r, "next")
     ELSE Go(r, "recall")
  /\ UNCHANGED <<clock, tables, locks, callbacks, faults>>

(* The quota: a skipped run is marked, not launched.                       *)
Count(r) ==
  /\ At(r, "count")
  /\ IF Cardinality(Recent(tick[r].now)) >= Quota
     THEN Go(r, "mark")
     ELSE Go(r, "recall")
  /\ UNCHANGED <<clock, tables, locks, callbacks, faults>>

(* Mutant: the job is dispatched before it is stored.                      *)
RecallDispatchesFirst(r) ==
  /\ At(r, "recall")
  /\ tick' = [tick EXCEPT ![r].pc = "dispatch", ![r].created = clock,
                          ![r].memory = Remembered(tick[r].search)]
  /\ UNCHANGED <<clock, tables, locks, callbacks, faults>>

(* The memory is read and the job built.                                   *)
Recall(r) ==
  /\ At(r, "recall")
  /\ tick' = [tick EXCEPT ![r].pc = "insert", ![r].created = clock,
                          ![r].memory = Remembered(tick[r].search)]
  /\ UNCHANGED <<clock, tables, locks, callbacks, faults>>

Insert(r) ==
  /\ At(r, "insert")
  /\ Saved(tick[r].search)
  /\ runs' = Append(runs,
                [search |-> tick[r].search, of |-> tick[r].search,
                 due |-> tick[r].now, created |-> tick[r].created,
                 status |-> "pending", memory |-> tick[r].memory,
                 found |-> {}])
  /\ delivery' = Append(delivery, "none")
  /\ announced' = Append(announced, {})
  /\ tick' = [tick EXCEPT ![r].pc = "dispatch", ![r].run = Len(runs) + 1]
  /\ UNCHANGED <<clock, searches, tasks, locks, acked, faults>>

(* The search was deleted meanwhile: its foreign key refuses the job, and  *)
(* the error ends the whole tick.                                          *)
InsertRefused(r) ==
  /\ At(r, "insert")
  /\ ~Saved(tick[r].search)
  /\ Go(r, "release")
  /\ UNCHANGED <<clock, tables, locks, callbacks, faults>>

(* The task is enqueued, or the request fails, or only its reply is lost.  *)
Dispatch(r) ==
  /\ At(r, "dispatch")
  /\ \/ tasks' = tasks \cup {tick[r].run} /\ Go(r, "mark")
     \/ tasks' = tasks \cup {tick[r].run} /\ Go(r, "fail")
     \/ tasks' = tasks /\ Go(r, "fail")
  /\ UNCHANGED <<clock, searches, runs, locks, callbacks, faults>>

(* job.fail on the copy, then jobs.update.                                 *)
FailRun(r) ==
  /\ At(r, "fail")
  /\ runs' = [runs EXCEPT ![tick[r].run].status = "failed"]
  /\ Go(r, "mark")
  /\ UNCHANGED <<clock, searches, tasks, locks, callbacks, faults>>

(* Mutant: a launched search is not marked.                                *)
MarkNothing(r) ==
  /\ At(r, "mark")
  /\ tick' = [tick EXCEPT ![r].pc = "next", ![r].search = NoSearch,
                          ![r].created = 0, ![r].memory = {}, ![r].run = 0]
  /\ UNCHANGED <<clock, tables, locks, callbacks, faults>>

(* mark_ran, of no row if the search is gone.                              *)
MarkRan(r) ==
  /\ At(r, "mark")
  /\ searches' = IF Saved(tick[r].search)
                 THEN [searches EXCEPT ![tick[r].search].last = tick[r].now]
                 ELSE searches
  /\ tick' = [tick EXCEPT ![r].pc = "next", ![r].search = NoSearch,
                          ![r].created = 0, ![r].memory = {}, ![r].run = 0]
  /\ UNCHANGED <<clock, runs, tasks, locks, callbacks, faults>>

(* `?`: an error of any statement ends the tick, nothing more is marked.   *)
TickFails(r) ==
  /\ tick[r].pc \in {"list", "count", "recall", "insert", "fail", "mark"}
  /\ Fault
  /\ Go(r, "release")
  /\ UNCHANGED <<clock, tables, locks, callbacks>>
-----------------------------------------------------------------------------
(* The results of a run: IngestResults::complete with its digest hook.     *)
(* Bound: one callback of a run is served at a time.                       *)

DeliverFind(i) ==
  /\ i \in tasks /\ i <= MaxDelivered
  /\ delivery[i] = "none"
  /\ delivery' = [delivery EXCEPT ![i] = "store"]
  /\ acked' = acked \ {i}
  /\ UNCHANGED <<clock, tables, locks, tick, announced, faults>>

(* store_results replaces the rows of an earlier delivery.                 *)
DeliverStore(i, found) ==
  /\ delivery[i] = "store"
  /\ runs' = [runs EXCEPT ![i].found = found]
  /\ delivery' = [delivery EXCEPT ![i] = "update"]
  /\ UNCHANGED <<clock, searches, tasks, locks, tick, announced, acked, faults>>

(* Mutant: no digest for a job that was completed before.                  *)
DeliverUpdateOnce(i) ==
  /\ delivery[i] = "update"
  /\ runs' = [runs EXCEPT ![i].status = "completed"]
  /\ IF runs[i].status = "completed"
     THEN /\ delivery' = [delivery EXCEPT ![i] = "none"]
          /\ acked' = acked \cup {i}
     ELSE /\ delivery' = [delivery EXCEPT ![i] = "digest"]
          /\ acked' = acked
  /\ UNCHANGED <<clock, searches, tasks, locks, tick, announced, faults>>

DeliverUpdate(i) ==
  /\ delivery[i] = "update"
  /\ runs' = [runs EXCEPT ![i].status = "completed"]
  /\ delivery' = [delivery EXCEPT ![i] = "digest"]
  /\ UNCHANGED <<clock, searches, tasks, locks, tick, announced, acked, faults>>

(* maybe_send_digest, then the reply.  Each destination is tried once.     *)
DeliverDigest(i) ==
  /\ delivery[i] = "digest"
  /\ announced' = IF runs[i].search # NoSearch
                  THEN [announced EXCEPT ![i] = @ \cup News(i)]
                  ELSE announced
  /\ delivery' = [delivery EXCEPT ![i] = "none"]
  /\ acked' = acked \cup {i}
  /\ UNCHANGED <<clock, tables, locks, tick, faults>>

(* The search cannot be looked up: no digest, and the reply all the same.  *)
DigestLookupFails(i) ==
  /\ delivery[i] = "digest"
  /\ Fault
  /\ delivery' = [delivery EXCEPT ![i] = "none"]
  /\ acked' = acked \cup {i}
  /\ UNCHANGED <<clock, tables, locks, tick, announced>>

(* The handler stops: an error, a crash of the server.  The worker gets no *)
(* reply and delivers again, or gives up.                                  *)
DeliverAborts(i) ==
  /\ delivery[i] # "none"
  /\ delivery' = [delivery EXCEPT ![i] = "none"]
  /\ UNCHANGED <<clock, tables, locks, tick, announced, acked, faults>>
-----------------------------------------------------------------------------
Pass ==
  /\ clock < MaxClock
  /\ clock' = clock + 1
  /\ UNCHANGED <<tables, locks, tick, callbacks, faults>>

User == \E s \in Searches : CreateCheck(s) \/ CreateInsert(s) \/ Delete(s)

(* What the loop of a replica does by itself once it leads.                *)
Work(r) ==
  \/ ListDue(r) \/ NoneLeft(r) \/ (\E s \in Searches : NextSearch(r, s))
  \/ Count(r) \/ Recall(r) \/ Insert(r) \/ InsertRefused(r)
  \/ Dispatch(r) \/ FailRun(r) \/ MarkRan(r) \/ Release(r)

Failure(r) == UnlockFails(r) \/ SessionLost(r) \/ Crash(r) \/ TickFails(r)

Deliver(i) ==
  \/ DeliverFind(i) \/ DeliverUpdate(i) \/ DeliverDigest(i)
  \/ DigestLookupFails(i) \/ DeliverAborts(i)
  \/ \E found \in SUBSET Urls : DeliverStore(i, found)

Next ==
  \/ Pass \/ User
  \/ \E r \in Replicas : Acquire(r) \/ Recycle(r) \/ Work(r) \/ Failure(r)
  \/ \E i \in DOMAIN runs : Deliver(i)

Spec == Init /\ [][Next]_vars

(* Every replica's ticker keeps firing and its loop goes on; a connection  *)
(* that kept the lock is closed by the pool in the end.                    *)
Fairness ==
  \A r \in Replicas :
    SF_vars(Acquire(r)) /\ WF_vars(Recycle(r)) /\ WF_vars(Work(r))

FairSpec == Spec /\ Fairness
-----------------------------------------------------------------------------
(* The lock lets a second replica lead only when a session was lost, one   *)
(* more for each.                                                          *)
LeadersBounded ==
  Cardinality({r \in Replicas : Leading(r)}) <= 1 + faults

(* ADR-033, ADR-053: a search is launched once per interval of scheduled   *)
(* times, whatever replicas run the loop; each error, crash or lost        *)
(* session costs at most one more run.                                     *)
RunsSpaced ==
  \A s \in Searches, t \in Times :
    Cardinality({i \in DOMAIN runs :
                   runs[i].of = s /\ runs[i].due \in t..(t + Interval - 1)})
      <= 1 + faults

(* Replicas that have counted and not yet inserted.                        *)
Inserting == {r \in Replicas : tick[r].pc \in {"recall", "insert"}}

(* ADR-017, "a schedule cannot outspend a user": scheduled runs stay       *)
(* within the daily quota, but for one more per fault.                     *)
ScheduleWithinQuota ==
  Cardinality(Recent(clock)) + Cardinality(Inserting) <= Quota + faults

(* ADR-036, "at-least-once": once a delivery is answered, the news among   *)
(* the stored results have been announced, unless the search was deleted   *)
(* or its lookup failed.  The memory travels in the task, so a second      *)
(* delivery has the same news.                                             *)
AnsweredIsAnnounced ==
  Cardinality({i \in acked : /\ runs[i].search # NoSearch
                             /\ ~ News(i) \subseteq announced[i]}) <= faults

(* No saved search waits for ever: its run is launched or skipped, and     *)
(* marked, even when a connection keeps the lock or a replica stops.       *)
DueIsServed ==
  \A s \in Searches :
    (Saved(s) /\ IsDue(s, clock)) ~> ~(Saved(s) /\ IsDue(s, clock))
-----------------------------------------------------------------------------
(* What the documents say and the scheduler does not keep.                 *)

LastSeen(s, u) ==
  CHOOSE i \in RunsOf(s) :
    /\ u \in runs[i].found
    /\ \A j \in RunsOf(s) : u \in runs[j].found => j <= i

(* ports.rs, the memory: "Most recent first, capped by `limit`".           *)
MemoryKeepsRecent ==
  [][\A r \in Replicas :
       At(r, "recall") /\ tick'[r].pc = "insert" =>
         LET s == tick[r].search IN
         \A kept \in tick'[r].memory, lost \in Known(s) \ tick'[r].memory :
           LastSeen(s, kept) >= LastSeen(s, lost)]_vars
=============================================================================
