------------------------------- MODULE Stores --------------------------------
(***************************************************************************)
(* The two persistence adapters behind the repository ports, as functions  *)
(* of a database: PostgreSQL (Pg...) with its unique and foreign keys, and *)
(* the in-memory maps (Mem...), which have none.                           *)
(*                                                                         *)
(* A database is a record of tables, a table a function whose domain is    *)
(* the rows present.  A write returns the new database, whether the call   *)
(* was answered Ok, and what it returned.  Columns no query looks at are   *)
(* left out.  Lists are sets: both adapters sort them by created_at and    *)
(* leave ties open, but for results_for, which memory returns in the order *)
(* stored and PostgreSQL by publication date.                              *)
(***************************************************************************)
EXTENDS Naturals, FiniteSets

CONSTANT Nobody   (* user_id or recurring_search_id IS NULL; never ran      *)

Empty == [users |-> <<>>, tokens |-> <<>>, channels |-> <<>>, jobs |-> <<>>,
          results |-> <<>>, steps |-> <<>>, searches |-> <<>>, events |-> <<>>,
          docs |-> <<>>, chunks |-> {}]

Put(table, id, r) ==
  [x \in DOMAIN table \cup {id} |-> IF x = id THEN r ELSE table[x]]
Without(table, gone) == [x \in DOMAIN table \ gone |-> table[x]]
Of(table, u) == {x \in DOMAIN table : table[x].user = u}
Lookup(table, id) == IF id \in DOMAIN table THEN {table[id]} ELSE {}

Did(db, val) == [db |-> db, ok |-> TRUE, val |-> val]
Done(db) == Did(db, 0)
Refused(db) == [db |-> db, ok |-> FALSE, val |-> 0]

(* DELETE ... WHERE id AND user_id, answering whether there was such a row. *)
IsOwn(table, u, id) == id \in Of(table, u)
-----------------------------------------------------------------------------
(* users                                                                   *)

MemInsertUser(db, u, email) == Done([db EXCEPT !.users = Put(@, u, email)])

PgInsertUser(db, u, email) ==
  IF \E v \in DOMAIN db.users : db.users[v] = email
  THEN Refused(db)
  ELSE Done([db EXCEPT !.users = Put(@, u, email)])

MemFindByEmail(db, email) == {u \in DOMAIN db.users : db.users[u] = email}
PgFindByEmail(db, email) == {u \in DOMAIN db.users : db.users[u] = email}

MemDeleteUser(db, u) == Done([db EXCEPT !.users = Without(@, {u})])

(* ON DELETE SET NULL of recurring_search_id.                              *)
Unlink(jobs, gone) ==
  [j \in DOMAIN jobs |-> IF jobs[j].search \in gone
                         THEN [jobs[j] EXCEPT !.search = Nobody]
                         ELSE jobs[j]]

DropJobs(db, gone) ==
  [db EXCEPT !.jobs = Without(@, gone), !.results = Without(@, gone),
             !.steps = Without(@, gone)]

DropDocs(db, gone) ==
  [db EXCEPT !.docs = Without(@, gone),
             !.chunks = {c \in @ : c.doc \notin gone}]

(* The user's rows cascade; the events lose their user.                    *)
PgDeleteUser(db, u) ==
  LET rest == DropDocs(DropJobs(db, Of(db.jobs, u)), Of(db.docs, u))
  IN  Done([rest EXCEPT
              !.users = Without(@, {u}),
              !.tokens = Without(@, Of(@, u)),
              !.channels = Without(@, Of(@, u)),
              !.searches = Without(@, Of(@, u)),
              !.events = [e \in DOMAIN @ |->
                            IF @[e].user = u
                            THEN [@[e] EXCEPT !.user = Nobody] ELSE @[e]]])
-----------------------------------------------------------------------------
(* refresh_tokens: [user, family, expires, consumed]; the hash is the id.  *)

MemInsertToken(db, t, r) == Done([db EXCEPT !.tokens = Put(@, t, r)])

PgInsertToken(db, t, r) ==
  IF r.user \in DOMAIN db.users
  THEN Done([db EXCEPT !.tokens = Put(@, t, r)])
  ELSE Refused(db)

MemFindToken(db, t) == Lookup(db.tokens, t)
PgFindToken(db, t) == Lookup(db.tokens, t)

MemMarkConsumed(db, t) ==
  Done(IF t \in DOMAIN db.tokens
       THEN [db EXCEPT !.tokens[t].consumed = TRUE] ELSE db)
PgMarkConsumed(db, t) ==
  Done([db EXCEPT !.tokens = [x \in DOMAIN @ |->
          IF x = t THEN [@[x] EXCEPT !.consumed = TRUE] ELSE @[x]]])

MemDeleteToken(db, t) == Done([db EXCEPT !.tokens = Without(@, {t})])
PgDeleteToken(db, t) == Done([db EXCEPT !.tokens = Without(@, {t})])

FamilyRows(db, f) == {t \in DOMAIN db.tokens : db.tokens[t].family = f}
MemDeleteFamily(db, f) == Done([db EXCEPT !.tokens = Without(@, FamilyRows(db, f))])
PgDeleteFamily(db, f) == Done([db EXCEPT !.tokens = Without(@, FamilyRows(db, f))])

(* The six delete_all_for_user answer how many rows they deleted.          *)
MemDeleteTokensOf(db, u) ==
  Did([db EXCEPT !.tokens = Without(@, Of(@, u))], Cardinality(Of(db.tokens, u)))
PgDeleteTokensOf(db, u) ==
  Did([db EXCEPT !.tokens = Without(@, Of(@, u))], Cardinality(Of(db.tokens, u)))

ExpiredRows(db, now) == {t \in DOMAIN db.tokens : db.tokens[t].expires <= now}
MemDeleteExpired(db, now) ==
  Did([db EXCEPT !.tokens = Without(@, ExpiredRows(db, now))],
      Cardinality(ExpiredRows(db, now)))
PgDeleteExpired(db, now) ==
  Did([db EXCEPT !.tokens = Without(@, ExpiredRows(db, now))],
      Cardinality(ExpiredRows(db, now)))
-----------------------------------------------------------------------------
(* notification_channels: [user]                                           *)

MemInsertChannel(db, c, r) == Done([db EXCEPT !.channels = Put(@, c, r)])
PgInsertChannel(db, c, r) ==
  IF r.user \in DOMAIN db.users
  THEN Done([db EXCEPT !.channels = Put(@, c, r)]) ELSE Refused(db)

MemChannelsOf(db, u) == Of(db.channels, u)
PgChannelsOf(db, u) == Of(db.channels, u)

MemDeleteChannel(db, u, c) ==
  IF IsOwn(db.channels, u, c)
  THEN Did([db EXCEPT !.channels = Without(@, {c})], TRUE) ELSE Did(db, FALSE)
(* Mutant: the answer is that the statement ran.                           *)
PgDeleteChannelAlways(db, u, c) ==
  Did([db EXCEPT !.channels = Without(@, {c} \cap Of(@, u))], TRUE)

PgDeleteChannel(db, u, c) ==
  Did([db EXCEPT !.channels = Without(@, {c} \cap Of(@, u))],
      IsOwn(db.channels, u, c))

MemDeleteChannelsOf(db, u) ==
  Did([db EXCEPT !.channels = Without(@, Of(@, u))],
      Cardinality(Of(db.channels, u)))
PgDeleteChannelsOf(db, u) ==
  Did([db EXCEPT !.channels = Without(@, Of(@, u))],
      Cardinality(Of(db.channels, u)))
-----------------------------------------------------------------------------
(* security_events: [user, created], by their place in the order recorded  *)

MemRecord(db, n, e) == Done([db EXCEPT !.events = Put(@, n, e)])
PgRecord(db, n, e) ==
  IF e.user \in DOMAIN db.users \cup {Nobody}
  THEN Done([db EXCEPT !.events = Put(@, n, e)]) ELSE Refused(db)

(* The last `limit` of the vector, or the latest by created_at; among      *)
(* events of one instant, whose order SQL leaves open, the last recorded.  *)
MemRecentEvents(db, limit) ==
  {e \in DOMAIN db.events : Cardinality({d \in DOMAIN db.events : d > e}) < limit}
PgRecentEvents(db, limit) ==
  {e \in DOMAIN db.events :
     Cardinality({d \in DOMAIN db.events :
       \/ db.events[d].created > db.events[e].created
       \/ db.events[d].created = db.events[e].created /\ d > e}) < limit}

MemForgetEvents(db, cutoff) ==
  Done([db EXCEPT !.events =
          Without(@, {e \in DOMAIN @ : ~ @[e].created >= cutoff})])
PgForgetEvents(db, cutoff) ==
  Done([db EXCEPT !.events = Without(@, {e \in DOMAIN @ : @[e].created < cutoff})])
-----------------------------------------------------------------------------
(* research_jobs: [user, search, status, usage, created], search_results   *)
(* (a set of URLs), agent_steps (a set of sequence numbers)                *)

MemInsertJob(db, j, r) == Done([db EXCEPT !.jobs = Put(@, j, r)])
PgInsertJob(db, j, r) ==
  IF /\ r.user \in DOMAIN db.users
     /\ r.search \in DOMAIN db.searches \cup {Nobody}
  THEN Done([db EXCEPT !.jobs = Put(@, j, r)]) ELSE Refused(db)

(* Mutant: the update writes every field, the spend included.              *)
MemUpdateJobWhole(db, j, copy) == Done([db EXCEPT !.jobs = Put(@, j, copy)])

(* A missing row is inserted by the map, and left alone by the UPDATE.     *)
MemUpdateJob(db, j, copy) ==
  Done([db EXCEPT !.jobs =
          Put(@, j, IF j \in DOMAIN db.jobs
                    THEN [copy EXCEPT !.usage = db.jobs[j].usage]
                    ELSE copy)])
PgUpdateJob(db, j, copy) ==
  Done(IF j \in DOMAIN db.jobs
       THEN [db EXCEPT !.jobs[j].status = copy.status] ELSE db)

MemFindJob(db, j) == Lookup(db.jobs, j)
PgFindJob(db, j) == Lookup(db.jobs, j)
MemJobsOf(db, u) == Of(db.jobs, u)
PgJobsOf(db, u) == Of(db.jobs, u)

MemCountSince(db, u, since) ==
  Cardinality({j \in Of(db.jobs, u) : db.jobs[j].created >= since})
PgCountSince(db, u, since) ==
  Cardinality({j \in Of(db.jobs, u) : db.jobs[j].created >= since})

Open == {"pending", "running"}
Finished == {"completed", "failed"}
MemUnfinished(db, cutoff) ==
  {j \in DOMAIN db.jobs : db.jobs[j].status \in Open /\ db.jobs[j].created < cutoff}
PgUnfinished(db, cutoff) ==
  {j \in DOMAIN db.jobs : db.jobs[j].status \in Open /\ db.jobs[j].created < cutoff}

(* One-shot jobs only: recurring runs are the memory of their search.      *)
Purgeable(db, cutoff) ==
  {j \in DOMAIN db.jobs : /\ db.jobs[j].search = Nobody
                          /\ db.jobs[j].status \in Finished
                          /\ db.jobs[j].created < cutoff}
MemPurgeJobs(db, cutoff) ==
  Did(DropJobs(db, Purgeable(db, cutoff)), Cardinality(Purgeable(db, cutoff)))
PgPurgeJobs(db, cutoff) ==
  Did(DropJobs(db, Purgeable(db, cutoff)), Cardinality(Purgeable(db, cutoff)))

MemDeleteJobsOf(db, u) ==
  Did(DropJobs(db, Of(db.jobs, u)), Cardinality(Of(db.jobs, u)))
PgDeleteJobsOf(db, u) ==
  Did(DropJobs(db, Of(db.jobs, u)), Cardinality(Of(db.jobs, u)))

MemStoreResults(db, j, urls) == Done([db EXCEPT !.results = Put(@, j, urls)])
(* Without a result there is no row a foreign key could refuse.            *)
PgStoreResults(db, j, urls) ==
  IF j \in DOMAIN db.jobs THEN Done([db EXCEPT !.results = Put(@, j, urls)])
  ELSE IF urls = {} THEN Done(db) ELSE Refused(db)

Get(table, j) == IF j \in DOMAIN table THEN table[j] ELSE {}
MemResultsFor(db, j) == Get(db.results, j)
PgResultsFor(db, j) == Get(db.results, j)

MemAppendStep(db, j, s) ==
  Done([db EXCEPT !.steps = Put(@, j, Get(@, j) \cup {s})])
(* Mutant: a step of any job.                                              *)
PgAppendStepUnchecked(db, j, s) ==
  Done([db EXCEPT !.steps = Put(@, j, Get(@, j) \cup {s})])

PgAppendStep(db, j, s) ==
  IF j \in DOMAIN db.jobs
  THEN Done([db EXCEPT !.steps = Put(@, j, Get(@, j) \cup {s})])
  ELSE Refused(db)
MemStepsFor(db, j) == Get(db.steps, j)
PgStepsFor(db, j) == Get(db.steps, j)
MemClearSteps(db, j) == Done([db EXCEPT !.steps = Without(@, {j})])
PgClearSteps(db, j) == Done([db EXCEPT !.steps = Without(@, {j})])

MemAddUsage(db, j) ==
  Done(IF j \in DOMAIN db.jobs
       THEN [db EXCEPT !.jobs[j].usage = @ + 1] ELSE db)
PgAddUsage(db, j) ==
  Done(IF j \in DOMAIN db.jobs
       THEN [db EXCEPT !.jobs[j].usage = @ + 1] ELSE db)

RunsOf(db, s) == {j \in DOMAIN db.jobs : db.jobs[j].search = s}
(* The URLs of the search's runs; `limit` is not reached here.             *)
MemRecentUrls(db, s) == UNION {Get(db.results, j) : j \in RunsOf(db, s)}
PgRecentUrls(db, s) == UNION {Get(db.results, j) : j \in RunsOf(db, s)}
-----------------------------------------------------------------------------
(* recurring_searches: [user, last]; the interval is one tick              *)

MemInsertSearch(db, s, r) == Done([db EXCEPT !.searches = Put(@, s, r)])
PgInsertSearch(db, s, r) ==
  IF r.user \in DOMAIN db.users
  THEN Done([db EXCEPT !.searches = Put(@, s, r)]) ELSE Refused(db)

MemFindSearch(db, s) == Lookup(db.searches, s)
PgFindSearch(db, s) == Lookup(db.searches, s)
MemSearchesOf(db, u) == Of(db.searches, u)
PgSearchesOf(db, u) == Of(db.searches, u)

MemDeleteSearch(db, u, s) ==
  IF IsOwn(db.searches, u, s)
  THEN Did([db EXCEPT !.searches = Without(@, {s})], TRUE) ELSE Did(db, FALSE)
PgDeleteSearch(db, u, s) ==
  LET gone == {s} \cap Of(db.searches, u)
  IN  Did([db EXCEPT !.searches = Without(@, gone), !.jobs = Unlink(@, gone)],
          gone # {})

MemDeleteSearchesOf(db, u) ==
  Did([db EXCEPT !.searches = Without(@, Of(@, u))],
      Cardinality(Of(db.searches, u)))
PgDeleteSearchesOf(db, u) ==
  Did([db EXCEPT !.searches = Without(@, Of(@, u)),
                 !.jobs = Unlink(@, Of(db.searches, u))],
      Cardinality(Of(db.searches, u)))

(* Mutant: a search that never ran is not due.                             *)
MemListDueOnceRan(db, now) ==
  {s \in DOMAIN db.searches :
     IF db.searches[s].last = Nobody THEN FALSE ELSE now >= db.searches[s].last + 1}

MemListDue(db, now) ==
  {s \in DOMAIN db.searches :
     IF db.searches[s].last = Nobody THEN TRUE ELSE now >= db.searches[s].last + 1}
PgListDue(db, now) ==
  {s \in DOMAIN db.searches :
     IF db.searches[s].last = Nobody THEN TRUE ELSE db.searches[s].last + 1 <= now}

MemMarkRan(db, s, at) ==
  Done(IF s \in DOMAIN db.searches
       THEN [db EXCEPT !.searches[s].last = at] ELSE db)
PgMarkRan(db, s, at) ==
  Done(IF s \in DOMAIN db.searches
       THEN [db EXCEPT !.searches[s].last = at] ELSE db)
-----------------------------------------------------------------------------
(* documents: [user, status]; document_chunks: a set of [doc, user, copy,  *)
(* score], `copy` telling apart what one document was stored several times *)

MemInsertDoc(db, d, r) == Done([db EXCEPT !.docs = Put(@, d, r)])
PgInsertDoc(db, d, r) ==
  IF r.user \in DOMAIN db.users
  THEN Done([db EXCEPT !.docs = Put(@, d, r)]) ELSE Refused(db)

MemFindDoc(db, d) == Lookup(db.docs, d)
PgFindDoc(db, d) == Lookup(db.docs, d)
MemDocsOf(db, u) == Of(db.docs, u)
PgDocsOf(db, u) == Of(db.docs, u)

MemDeleteDoc(db, u, d) ==
  IF IsOwn(db.docs, u, d) THEN Did(DropDocs(db, {d}), TRUE) ELSE Did(db, FALSE)
PgDeleteDoc(db, u, d) ==
  Did(DropDocs(db, {d} \cap Of(db.docs, u)), IsOwn(db.docs, u, d))

SetReady(docs, d) ==
  IF d \in DOMAIN docs THEN [docs EXCEPT ![d].status = "ready"] ELSE docs

ChunksOf(d, u, copy, scores) ==
  {[doc |-> d, user |-> u, copy |-> copy, score |-> n] : n \in scores}

(* Memory appends to what an earlier delivery stored; PostgreSQL replaces. *)
MemStoreChunks(db, d, u, scores) ==
  LET copies == {c.copy : c \in {x \in db.chunks : x.doc = d}}
  IN  Done([db EXCEPT !.chunks = @ \cup ChunksOf(d, u, Cardinality(copies), scores),
                      !.docs = SetReady(@, d)])
PgStoreChunks(db, d, u, scores) ==
  IF d \notin DOMAIN db.docs /\ scores # {} THEN Refused(db)
  ELSE Done([db EXCEPT !.chunks = {c \in @ : c.doc # d} \cup ChunksOf(d, u, 0, scores),
                       !.docs = SetReady(@, d)])

MemMarkFailed(db, d) ==
  Done(IF d \in DOMAIN db.docs
       THEN [db EXCEPT !.docs[d].status = "failed"] ELSE db)
PgMarkFailed(db, d) ==
  Done(IF d \in DOMAIN db.docs
       THEN [db EXCEPT !.docs[d].status = "failed"] ELSE db)

(* The k chunks of the user most similar to the question (no two documents *)
(* have the same score); PostgreSQL joins the document.                    *)
Best(chunks, k) ==
  {c \in chunks :
     Cardinality({b \in chunks :
       \/ b.score > c.score
       \/ b.score = c.score /\ b.copy < c.copy}) < k}
MemRetrieve(db, u, k) == Best({c \in db.chunks : c.user = u}, k)
PgRetrieve(db, u, k) ==
  Best({c \in db.chunks : c.user = u /\ c.doc \in DOMAIN db.docs}, k)

(* Mutant: the chunks of the documents still listed, no others.            *)
MemDeleteDocsOfListed(db, u) ==
  Did(DropDocs(db, Of(db.docs, u)), Cardinality(Of(db.docs, u)))

MemDeleteDocsOf(db, u) ==
  Did([db EXCEPT !.docs = Without(@, Of(@, u)),
                 !.chunks = {c \in @ : c.user # u}],
      Cardinality(Of(db.docs, u)))
PgDeleteDocsOf(db, u) ==
  Did(DropDocs(db, Of(db.docs, u)), Cardinality(Of(db.docs, u)))
=============================================================================
