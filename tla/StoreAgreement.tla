---------------------------- MODULE StoreAgreement ----------------------------
(***************************************************************************)
(* The same calls of the repository ports, one after the other, on both    *)
(* adapters: what memory holds is what PostgreSQL holds plus what its keys *)
(* would have refused, removed or unlinked.                                *)
(*                                                                         *)
(* The calls are those the use cases make, with whatever they read before: *)
(* for accounts that exist and for deleted ones (an access token outlives  *)
(* its account), on rows that are there and on rows deleted since.  Such   *)
(* late calls leave rows in memory that PostgreSQL does not have: strays.  *)
(* Each behaviour exercises one group of tables.                           *)
(***************************************************************************)
EXTENDS Stores

CONSTANTS Users, Emails, Ids,  (* Ids: of tokens, jobs, searches, documents *)
          MaxNow               (* bound: the last instant                   *)

ASSUME NobodyIsNoId == Nobody \notin Users \cup Ids
ASSUME TimeIsCounted == MaxNow \in Nat

VARIABLES
  area,   (* the group of tables this behaviour is about                   *)
  now,    (* the time                                                      *)
  used,   (* identifiers already drawn                                     *)
  mem,    (* the in-memory database                                        *)
  pg,     (* the PostgreSQL database                                       *)
  copies, (* jobs and searches as they were inserted: what a request that  *)
          (* read one still holds when the row is gone                     *)
  strays, (* history: the accounts and jobs memory has, or had, beyond     *)
          (* PostgreSQL, by what was called                                *)
  last    (* the last call, its account, what it did and both answers, if  *)
          (* it erased an account or was not answered alike                *)

storeVars == <<area, now, used, mem, pg, copies, strays, last>>

Areas == {"people", "jobs", "documents"}

NoCall == [user |-> Nobody, call |-> "none", mem |-> <<>>, pg |-> <<>>]

Owned(db) == {db.tokens, db.channels, db.jobs, db.searches, db.docs}

(* Both databases hold rows of accounts that were registered, and those of *)
(* PostgreSQL refer to rows that are there.                                *)
StoresTypeOK ==
  /\ area \in Areas
  /\ now \in 0..MaxNow
  /\ used \subseteq Users \cup Ids
  /\ \A db \in {mem, pg} :
       /\ DOMAIN db = DOMAIN Empty
       /\ DOMAIN db.users \subseteq Users \cap used
       /\ \A table \in Owned(db) :
            /\ DOMAIN table \subseteq Ids
            /\ \A x \in DOMAIN table : table[x].user \in Users \cap used
       /\ DOMAIN db.results \cup DOMAIN db.steps \subseteq Ids
       /\ \A c \in db.chunks : c.doc \in Ids /\ c.copy \in Nat
  /\ \A table \in Owned(pg) :
       \A x \in DOMAIN table : table[x].user \in DOMAIN pg.users
  /\ DOMAIN pg.results \cup DOMAIN pg.steps \subseteq DOMAIN pg.jobs
  /\ \A table \in {copies.jobs, copies.searches} :
       \A x \in DOMAIN table : x \in Ids \cap used /\ table[x].user \in Users \cap used
  /\ strays \subseteq used
  /\ last.user \in Users \cup {Nobody}

StoresInit ==
  /\ area \in Areas
  /\ now = 0
  /\ used = {}
  /\ mem = Empty
  /\ pg = Empty
  /\ copies = [jobs |-> <<>>, searches |-> <<>>]
  /\ strays = {}
  /\ last = NoCall
-----------------------------------------------------------------------------
(* One call on both adapters, on behalf of account u.                      *)
Both(u, call, m, p) ==
  /\ mem' = m.db
  /\ pg' = p.db
  /\ last' = IF call # "erase" /\ m.ok = p.ok /\ m.val = p.val THEN NoCall
             ELSE [user |-> u, call |-> call,
                   mem |-> <<m.ok, m.val>>, pg |-> <<p.ok, p.val>>]
  /\ UNCHANGED <<area, now>>

(* A call that leaves no stray.                                            *)
Call(u, m, p) ==
  /\ Both(u, "call", m, p)
  /\ UNCHANGED <<copies, strays>>

(* A call on row x, which may become one, or be one.                       *)
CallOn(u, x, isStray, m, p) ==
  /\ strays' = strays \cup {y \in {x} : isStray}
  /\ Both(u, IF x \in strays' THEN "late" ELSE "call", m, p)

Fresh(x) == x \notin used /\ used' = used \cup {x}

(* Bound: identifiers mean nothing, and are drawn in order.                *)
First(x, ids) == \A y \in ids : y < x => y \in used

Drawn(x) == x \in used /\ used' = used
Known(u) == u \in used

(* RegisterUser::execute, which looked the address up at some time before: *)
(* a concurrent registration may have taken it since.                      *)
Register(u, e) ==
  /\ Fresh(u) /\ First(u, Users)
  /\ CallOn(u, u, \E v \in DOMAIN mem.users \ strays : mem.users[v] = e,
            MemInsertUser(mem, u, e), PgInsertUser(pg, u, e))
  /\ UNCHANGED copies

(* DeleteAccount::execute up to its nth deletion, where an error ends it.  *)
(* Bound: no call comes between the statements of one execution.           *)
MemErase(u, n) ==
  LET searches == MemDeleteSearchesOf(mem, u).db
      jobs == MemDeleteJobsOf(searches, u).db
      tokens == MemDeleteTokensOf(jobs, u).db
      channels == MemDeleteChannelsOf(tokens, u).db
      docs == MemDeleteDocsOf(channels, u).db
  IN  <<searches, jobs, tokens, channels, docs, MemDeleteUser(docs, u).db>>[n]

PgErase(u, n) ==
  LET searches == PgDeleteSearchesOf(pg, u).db
      jobs == PgDeleteJobsOf(searches, u).db
      tokens == PgDeleteTokensOf(jobs, u).db
      channels == PgDeleteChannelsOf(tokens, u).db
      docs == PgDeleteDocsOf(channels, u).db
  IN  <<searches, jobs, tokens, channels, docs, PgDeleteUser(docs, u).db>>[n]

DeleteAccount(u, n) ==
  /\ Drawn(u)
  /\ Both(u, IF n = 6 THEN "erase" ELSE "call",
          Done(MemErase(u, n)), Done(PgErase(u, n)))
  /\ UNCHANGED <<copies, strays>>

Tick ==
  /\ now < MaxNow
  /\ now' = now + 1
  /\ last' = NoCall
  /\ UNCHANGED <<area, used, mem, pg, copies, strays>>
-----------------------------------------------------------------------------
(* Sessions, profile, audit.                                               *)

Token(u, f) == [user |-> u, family |-> f, expires |-> now + 1, consumed |-> FALSE]

IssueToken(u, t) ==
  /\ Fresh(t) /\ First(t, Ids)
  /\ \E f \in DOMAIN pg.tokens \cup {t} :
       Call(u, MemInsertToken(mem, t, Token(u, f)),
               PgInsertToken(pg, t, Token(u, f)))

(* The calls of RefreshSession on a token it was presented.                *)
UseToken(u, t) ==
  /\ Drawn(t)
  /\ t \in DOMAIN mem.tokens
  /\ mem.tokens[t].user = u
  /\ LET f == mem.tokens[t].family
     IN  \/ Call(u, MemMarkConsumed(mem, t), PgMarkConsumed(pg, t))
         \/ Call(u, MemDeleteToken(mem, t), PgDeleteToken(pg, t))
         \/ Call(u, MemDeleteFamily(mem, f), PgDeleteFamily(pg, f))

AddChannel(u, c) ==
  /\ Fresh(c) /\ First(c, Ids)
  /\ Call(u, MemInsertChannel(mem, c, [user |-> u]),
             PgInsertChannel(pg, c, [user |-> u]))

RemoveChannel(u, c) ==
  /\ Drawn(c)
  /\ Call(u, MemDeleteChannel(mem, u, c), PgDeleteChannel(pg, u, c))

(* Bound: two events at a time.                                            *)
RecordEvent(u) ==
  /\ Drawn(u)
  /\ Cardinality(DOMAIN mem.events) < 2
  /\ \E n \in {1} \cup {e + 1 : e \in DOMAIN mem.events} :
       /\ \A e \in DOMAIN mem.events : e < n
       /\ LET e == [user |-> u, created |-> now]
          IN  Call(u, MemRecord(mem, n, e), PgRecord(pg, n, e))

Housekeeping ==
  /\ UNCHANGED <<used, copies, strays>>
  /\ \/ Both(Nobody, "loop", MemDeleteExpired(mem, now), PgDeleteExpired(pg, now))
     \/ Both(Nobody, "loop", MemForgetEvents(mem, now), PgForgetEvents(pg, now))
-----------------------------------------------------------------------------
(* Jobs and recurring searches.                                            *)

(* LaunchSearch::execute, or RunDueSearches::execute with a search it      *)
(* listed, which may have been deleted since.                              *)
InsertJob(u, j) ==
  /\ Fresh(j) /\ First(j, Ids)
  /\ \E s \in Of(copies.searches, u) \cup {Nobody} :
       LET row == [user |-> u, search |-> s, status |-> "pending", usage |-> 0,
                   created |-> now]
       IN  /\ CallOn(u, j, s \notin DOMAIN mem.searches \cup {Nobody},
                     MemInsertJob(mem, j, row), PgInsertJob(pg, j, row))
           /\ copies' = [copies EXCEPT !.jobs = Put(@, j, row)]

(* What a use case found of job j, which may be gone by now.               *)
Found(j) == IF j \in DOMAIN mem.jobs THEN mem.jobs[j] ELSE copies.jobs[j]

(* The calls of the job use cases on a job they found: it may have been    *)
(* purged, or deleted by an account deletion, stopped or not, between the  *)
(* find and the statement.  Bound: a job is charged once.                  *)
UseJob(u, j) ==
  /\ Drawn(j)
  /\ j \in DOMAIN copies.jobs
  /\ Found(j).user = u
  /\ copies' = copies
  /\ LET copy == [Found(j) EXCEPT !.status = "completed", !.usage = 0]
         gone == j \notin DOMAIN mem.jobs
     IN  \/ CallOn(u, j, gone, MemUpdateJob(mem, j, copy), PgUpdateJob(pg, j, copy))
         \/ CallOn(u, j, gone, MemStoreResults(mem, j, {1}), PgStoreResults(pg, j, {1}))
         \/ CallOn(u, j, gone, MemAppendStep(mem, j, 1), PgAppendStep(pg, j, 1))
         \/ CallOn(u, j, FALSE, MemClearSteps(mem, j), PgClearSteps(pg, j))
         \/ /\ Found(j).usage = 0
            /\ CallOn(u, j, FALSE, MemAddUsage(mem, j), PgAddUsage(pg, j))

InsertSearch(u, s) ==
  /\ Fresh(s) /\ First(s, Ids)
  /\ LET row == [user |-> u, last |-> Nobody]
     IN  /\ Both(u, "call", MemInsertSearch(mem, s, row), PgInsertSearch(pg, s, row))
         /\ copies' = [copies EXCEPT !.searches = Put(@, s, row)]
  /\ strays' = strays

UseSearch(u, s) ==
  /\ Drawn(s)
  /\ \/ Call(u, MemDeleteSearch(mem, u, s), PgDeleteSearch(pg, u, s))
     \/ Call(u, MemMarkRan(mem, s, now), PgMarkRan(pg, s, now))

(* The retention purge.  Finished runs of deleted searches are one-shot    *)
(* jobs in PostgreSQL, which purges them; in memory their link stays.      *)
PurgeJobs ==
  /\ UNCHANGED <<used, copies>>
  /\ strays' = strays \cup
       {j \in DOMAIN mem.jobs :
          /\ mem.jobs[j].search \notin DOMAIN mem.searches \cup {Nobody}
          /\ mem.jobs[j].status \in Finished
          /\ mem.jobs[j].created < now}
  /\ Both(Nobody, "loop", MemPurgeJobs(mem, now), PgPurgeJobs(pg, now))
-----------------------------------------------------------------------------
(* Knowledge base.  A document has one chunk, always the same.             *)

InsertDoc(u, d) ==
  /\ Fresh(d)
  /\ LET r == [user |-> u, status |-> "pending"]
     IN  Call(u, MemInsertDoc(mem, d, r), PgInsertDoc(pg, d, r))

(* The embedding worker's calls; a redelivered task stores the chunks      *)
(* again.  Bound: twice.                                                   *)
UseDoc(u, d) ==
  /\ Drawn(d)
  /\ d \in DOMAIN mem.docs
  /\ mem.docs[d].user = u
  /\ \/ /\ Cardinality({c \in mem.chunks : c.doc = d}) < 2
        /\ Call(u, MemStoreChunks(mem, d, u, {d}), PgStoreChunks(pg, d, u, {d}))
     \/ Call(u, MemMarkFailed(mem, d), PgMarkFailed(pg, d))

RemoveDoc(u, d) ==
  /\ Drawn(d)
  /\ Call(u, MemDeleteDoc(mem, u, d), PgDeleteDoc(pg, u, d))

(* The document was deleted between find and store_chunks.                 *)
LateChunks(u, d) ==
  /\ Drawn(d)
  /\ Known(u)
  /\ d \notin DOMAIN mem.docs
  /\ \A c \in mem.chunks : c.doc # d
  /\ Both(u, "late", MemStoreChunks(mem, d, u, {d}), PgStoreChunks(pg, d, u, {d}))
  /\ UNCHANGED <<copies, strays>>
-----------------------------------------------------------------------------
People(u, i) ==
  \/ IssueToken(u, i) \/ UseToken(u, i) \/ AddChannel(u, i)
  \/ RemoveChannel(u, i) \/ RecordEvent(u)

Jobs(u, i) ==
  InsertJob(u, i) \/ UseJob(u, i) \/ InsertSearch(u, i) \/ UseSearch(u, i)

Documents(u, i) ==
  InsertDoc(u, i) \/ UseDoc(u, i) \/ RemoveDoc(u, i) \/ LateChunks(u, i)

(* The deletions after which a failed DeleteAccount has left something of  *)
(* the area's tables deleted, and the last one.                            *)
Stops ==
  {n \in 1..6 :
     n \in [people |-> {3, 4}, jobs |-> {1, 2}, documents |-> {5}][area] \cup {6}}

StoresNext ==
  \/ Tick
  \/ area = "people" /\ \E u \in Users, e \in Emails : Register(u, e)
  \/ area # "people" /\ \E u \in Users : Register(u, u)
  \/ \E u \in Users, n \in Stops : DeleteAccount(u, n)
  \/ area = "people" /\ Housekeeping
  \/ area = "people" /\ \E u \in Users, i \in Ids : Known(u) /\ People(u, i)
  \/ area = "jobs" /\ PurgeJobs
  \/ area = "jobs" /\ \E u \in Users, i \in Ids : Known(u) /\ Jobs(u, i)
  \/ area = "documents" /\ \E u \in Users, i \in Ids : Known(u) /\ Documents(u, i)

StoresSpec == StoresInit /\ [][StoresNext]_storeVars
-----------------------------------------------------------------------------
(* A database without the accounts and jobs in `out'.                      *)
Clean(db, out) == [DropJobs(db, out) EXCEPT !.users = Without(@, out)]

(* What the keys of PostgreSQL make of the other rows of memory: those of  *)
(* no account, job or document are gone, links to nothing are null, and    *)
(* chunks are stored once.  The audit trail is left to EventsAgree.        *)
Kept(db, table) == Without(table, {x \in DOMAIN table :
                                     table[x].user \notin DOMAIN db.users})

RepairOf(db) ==
  LET jobs == Kept(db, db.jobs)
      docs == Kept(db, db.docs)
  IN  [db EXCEPT
         !.tokens = Kept(db, @), !.channels = Kept(db, @),
         !.searches = Kept(db, @), !.docs = docs,
         !.jobs = Unlink(jobs, Ids \ DOMAIN db.searches),
         !.results = Without(@, DOMAIN @ \ DOMAIN jobs),
         !.steps = Without(@, DOMAIN @ \ DOMAIN jobs),
         !.events = pg.events,
         !.chunks = {c \in @ : c.copy = 0 /\ c.doc \in DOMAIN docs}]

(* The in-memory adapter stands in for PostgreSQL in development and in    *)
(* the tests: but for strays, and for what only a key would have done, it  *)
(* holds the same rows.  A stray is a second account of an address, a run  *)
(* inserted after its search was deleted, a job written after it was       *)
(* deleted, or a run of a deleted search that outlived the purge.          *)
MemoryIsPostgres == RepairOf(Clean(mem, strays)) = pg

(* A call for an account that exists is answered alike, unless it is on a  *)
(* stray, makes one, or stores chunks of a deleted document.               *)
RepliesAgree ==
  last.user \in DOMAIN pg.users /\ last.call = "call" => last.mem = last.pg

NamedBy(db, u) ==
  \/ u \in DOMAIN db.users
  \/ \E table \in Owned(db) : Of(table, u) # {}
  \/ \E c \in db.chunks : c.user = u

(* ADR-058: a deletion that reaches its end leaves no row that names the   *)
(* account in either store, strays included, whatever earlier deletions    *)
(* left half done and whatever was called for it in between.  (Calls       *)
(* between the statements of the deletion that completes are not covered.) *)
DeletionConverges ==
  last.call = "erase" => ~NamedBy(mem, last.user) /\ ~NamedBy(pg, last.user)

(* What users are answered of what exists, strays apart.  The quota and    *)
(* the memory of a search count strays, where there are any.               *)
ReadsAgree ==
  /\ \A e \in Emails : MemFindByEmail(mem, e) \ strays = PgFindByEmail(pg, e)
  /\ \A u \in DOMAIN pg.users :
       /\ MemChannelsOf(mem, u) = PgChannelsOf(pg, u)
       /\ MemJobsOf(mem, u) \ strays = PgJobsOf(pg, u)
       /\ Of(mem.jobs, u) \cap strays = {} =>
            MemCountSince(mem, u, now) = PgCountSince(pg, u, now)
       /\ MemSearchesOf(mem, u) = PgSearchesOf(pg, u)
       /\ MemDocsOf(mem, u) = PgDocsOf(pg, u)
       /\ (\A c \in mem.chunks : c.copy = 0 /\ c.doc \in DOMAIN mem.docs) =>
            \A k \in 0..2 : MemRetrieve(mem, u, k) = PgRetrieve(pg, u, k)
  /\ \A i \in Ids :
       /\ i \in DOMAIN pg.tokens => MemFindToken(mem, i) = PgFindToken(pg, i)
       /\ i \in DOMAIN pg.jobs => /\ MemResultsFor(mem, i) = PgResultsFor(pg, i)
                                  /\ MemStepsFor(mem, i) = PgStepsFor(pg, i)
       /\ i \in DOMAIN pg.searches =>
            /\ MemFindSearch(mem, i) = PgFindSearch(pg, i)
            /\ RunsOf(mem, i) \cap strays = {} =>
                 MemRecentUrls(mem, i) = PgRecentUrls(pg, i)
       /\ i \in DOMAIN pg.docs => MemFindDoc(mem, i) = PgFindDoc(pg, i)

(* What the background loop is answered of the accounts that exist.        *)
LoopReadsAgree ==
  /\ PgListDue(pg, now) =
       {s \in MemListDue(mem, now) : mem.searches[s].user \in DOMAIN pg.users}
  /\ PgUnfinished(pg, now) =
       {j \in MemUnfinished(mem, now) \ strays :
          mem.jobs[j].user \in DOMAIN pg.users}

(* What the reader of the audit trail is answered, while every account     *)
(* that asked for registration is there (PostgreSQL nulls the user of a    *)
(* deleted account's events, and refuses events of an account it lacks).   *)
EventsAgree ==
  DOMAIN pg.users = used \cap Users =>
    \A n \in 0..2 : MemRecentEvents(mem, n) = PgRecentEvents(pg, n)

(* Whatever is read of what exists, the two adapters answer alike, but for *)
(* strays, repeated chunks, and the limit of the recent URLs, which is not *)
(* reached here: MemoryKeepsRecent shows they differ there.                *)
QueriesAgree == ReadsAgree /\ LoopReadsAgree /\ EventsAgree
=============================================================================
