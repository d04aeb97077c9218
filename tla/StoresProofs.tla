---------------------------- MODULE StoresProofs -----------------------------
(***************************************************************************)
(* The two persistence adapters agree but for strays, for any accounts,    *)
(* rows and calls.                                                         *)
(***************************************************************************)
EXTENDS StoreAgreement, FiniteSetTheorems, TLAPS

(* The rows of a table whose account is among `users'.                     *)
Live(table, users) ==
  [x \in {y \in DOMAIN table : table[y].user \in users} |-> table[x]]

(* Rows and their accounts bear identifiers drawn before.                  *)
DrawnRows(table, drawn) ==
  \A x \in DOMAIN table :
    x \in drawn /\ "user" \in DOMAIN table[x] /\ table[x].user \in drawn

Database(db) ==
  db = [users |-> db.users, tokens |-> db.tokens, channels |-> db.channels,
        jobs |-> db.jobs, results |-> db.results, steps |-> db.steps,
        searches |-> db.searches, events |-> db.events, docs |-> db.docs,
        chunks |-> db.chunks]

-----------------------------------------------------------------------------
(* Tables.                                                                 *)

LEMMA PutIs ==
  ASSUME NEW t, NEW id, NEW r
  PROVE  /\ DOMAIN Put(t, id, r) = DOMAIN t \cup {id}
         /\ \A x \in DOMAIN t \cup {id} :
              Put(t, id, r)[x] = IF x = id THEN r ELSE t[x]
BY DEF Put

LEMMA LiveIs ==
  ASSUME NEW t, NEW users
  PROVE  /\ DOMAIN Live(t, users) = {y \in DOMAIN t : t[y].user \in users}
         /\ \A x \in DOMAIN Live(t, users) : Live(t, users)[x] = t[x]
BY DEF Live

LEMMA WithoutIs ==
  ASSUME NEW t, NEW gone
  PROVE  /\ DOMAIN Without(t, gone) = DOMAIN t \ gone
         /\ \A x \in DOMAIN t \ gone : Without(t, gone)[x] = t[x]
BY DEF Without

(* A row of a live account is added to both.                               *)
LEMMA LivePut ==
  ASSUME NEW t, NEW users, NEW id, NEW r, r.user \in users
  PROVE  Live(Put(t, id, r), users) = Put(Live(t, users), id, r)
BY DEF Live, Put

(* A row of no account takes the place of none.                            *)
LEMMA DeadPut ==
  ASSUME NEW t, NEW users, NEW id, NEW r, r.user \notin users,
         id \notin DOMAIN Live(t, users)
  PROVE  Live(Put(t, id, r), users) = Live(t, users)
BY DEF Live, Put

LEMMA LiveWithout ==
  ASSUME NEW t, NEW users, NEW gone
  PROVE  Live(Without(t, gone), users) = Without(Live(t, users), gone)
BY DEF Live, Without

(* Of what an account that exists owns, memory's extra rows are none.      *)
LEMMA LiveOf ==
  ASSUME NEW t, NEW users, NEW u
  PROVE  Of(Live(t, users), u) = IF u \in users THEN Of(t, u) ELSE {}
BY DEF Live, Of

LEMMA LiveFewer ==
  ASSUME NEW t, NEW users, NEW u
  PROVE  Live(t, users \ {u}) = Without(Live(t, users), Of(Live(t, users), u))
BY DEF Live, Of, Without

(* An account just registered owns no row.                                 *)
LEMMA LiveMore ==
  ASSUME NEW t, NEW users, NEW drawn, DrawnRows(t, drawn),
         NEW u, u \notin drawn
  PROVE  Live(t, users \cup {u}) = Live(t, users)
BY DEF Live, DrawnRows

LEMMA LiveWithoutOf ==
  ASSUME NEW t, NEW users, NEW u
  PROVE  Live(Without(t, Of(t, u)), users)
           = Without(Live(t, users), Of(Live(t, users), u))
BY DEF Live, Of, Without

-----------------------------------------------------------------------------
(* Agreement of two databases, when `drawn' are the identifiers in use.    *)

UsersAgree(m, p, drawn) ==
  p.users = m.users /\ DOMAIN m.users \subseteq drawn

TokensAgree(m, p, drawn) ==
  /\ DrawnRows(m.tokens, drawn)
  /\ p.tokens = Live(m.tokens, DOMAIN m.users)

ChannelsAgree(m, p, drawn) ==
  /\ DrawnRows(m.channels, drawn)
  /\ p.channels = Live(m.channels, DOMAIN m.users)

SearchesAgree(m, p, drawn) ==
  /\ DrawnRows(m.searches, drawn) /\ DOMAIN m.searches \subseteq Ids
  /\ p.searches = Live(m.searches, DOMAIN m.users)

(* A job's search is one of its account, or is gone.                       *)
JobRows(table, searches, drawn) ==
  /\ DrawnRows(table, drawn)
  /\ \A j \in DOMAIN table :
       /\ table[j] = [user |-> table[j].user, search |-> table[j].search,
                      status |-> table[j].status, usage |-> table[j].usage,
                      created |-> table[j].created]
       /\ table[j].search \in (drawn \cap Ids) \cup {Nobody}
       /\ table[j].search \in DOMAIN searches
            => searches[table[j].search].user = table[j].user

(* The rows whose job is stored.                                           *)
OfJobs(table, jobs) ==
  [x \in {y \in DOMAIN table : y \in DOMAIN jobs} |-> table[x]]

JobsAgree(m, p, drawn) ==
  /\ JobRows(m.jobs, m.searches, drawn)
  /\ DOMAIN m.results \cup DOMAIN m.steps \subseteq drawn
  /\ p.jobs = Unlink(Live(m.jobs, DOMAIN m.users), Ids \ DOMAIN m.searches)
  /\ p.results = OfJobs(m.results, p.jobs)
  /\ p.steps = OfJobs(m.steps, p.jobs)

(* The chunks of a stored document are its account's, the first copy among *)
(* them.                                                                   *)
Chunks(chunks, docs, drawn) ==
  /\ IsFiniteSet(chunks)
  /\ \A c \in chunks :
       /\ c = [doc |-> c.doc, user |-> c.user, copy |-> c.copy,
               score |-> c.score]
       /\ c.doc \in drawn /\ c.copy \in Nat
       /\ c.doc \in DOMAIN docs =>
            /\ c.user = docs[c.doc].user /\ c.score = c.doc
            /\ \E b \in chunks : b.doc = c.doc /\ b.copy = 0

DocsAgree(m, p, drawn) ==
  /\ DrawnRows(m.docs, drawn)
  /\ Chunks(m.chunks, m.docs, drawn)
  /\ p.docs = Live(m.docs, DOMAIN m.users)
  /\ p.chunks = {c \in m.chunks : c.copy = 0 /\ c.doc \in DOMAIN p.docs}

Agreeing(m, p, drawn) ==
  /\ Database(m) /\ Database(p)
  /\ UsersAgree(m, p, drawn) /\ TokensAgree(m, p, drawn)
  /\ ChannelsAgree(m, p, drawn) /\ SearchesAgree(m, p, drawn)
  /\ JobsAgree(m, p, drawn) /\ DocsAgree(m, p, drawn)

(* Drawing one more identifier changes nothing.                            *)
LEMMA MoreDrawn ==
  ASSUME NEW m, NEW p, NEW drawn, Agreeing(m, p, drawn),
         NEW more, drawn \subseteq more
  PROVE  Agreeing(m, p, more)
<1>1. \A table : DrawnRows(table, drawn) => DrawnRows(table, more)
  BY DEF DrawnRows
<1>2. UsersAgree(m, p, more)
  BY DEF Agreeing, UsersAgree
<1>3. TokensAgree(m, p, more)
  BY <1>1 DEF Agreeing, TokensAgree
<1>4. ChannelsAgree(m, p, more)
  BY <1>1 DEF Agreeing, ChannelsAgree
<1>5. SearchesAgree(m, p, more)
  BY <1>1 DEF Agreeing, SearchesAgree
<1>6. JobsAgree(m, p, more)
  <2>1. JobRows(m.jobs, m.searches, more)
    BY <1>1 DEF Agreeing, JobsAgree, JobRows
  <2>2. DOMAIN m.results \cup DOMAIN m.steps \subseteq more
    BY DEF Agreeing, JobsAgree
  <2>3. QED
    BY <2>1, <2>2 DEF Agreeing, JobsAgree
<1>7. DocsAgree(m, p, more)
  <2>1. DrawnRows(m.docs, more)
    BY <1>1 DEF Agreeing, DocsAgree
  <2>2. Chunks(m.chunks, m.docs, more)
    BY DEF Agreeing, DocsAgree, Chunks
  <2>3. QED
    BY <2>1, <2>2 DEF Agreeing, DocsAgree
<1>8. QED
  BY <1>2, <1>3, <1>4, <1>5, <1>6, <1>7 DEF Agreeing

(* One table changes on both sides, and the others are left.               *)
LEMMA TokensChange ==
  ASSUME NEW m, NEW p, NEW drawn, Agreeing(m, p, drawn),
         NEW t, DrawnRows(t, drawn)
  PROVE  Agreeing([m EXCEPT !.tokens = t],
                  [p EXCEPT !.tokens = Live(t, DOMAIN m.users)], drawn)
<1> DEFINE n == [m EXCEPT !.tokens = t]
           q == [p EXCEPT !.tokens = Live(t, DOMAIN m.users)]
<1>1. /\ Database(n) /\ Database(q)
      /\ n.users = m.users /\ n.tokens = t /\ n.channels = m.channels
      /\ n.jobs = m.jobs /\ n.results = m.results /\ n.steps = m.steps
      /\ n.searches = m.searches /\ n.docs = m.docs /\ n.chunks = m.chunks
      /\ q.users = p.users /\ q.tokens = Live(t, DOMAIN m.users)
      /\ q.channels = p.channels
      /\ q.jobs = p.jobs /\ q.results = p.results /\ q.steps = p.steps
      /\ q.searches = p.searches /\ q.docs = p.docs /\ q.chunks = p.chunks
  BY DEF Agreeing, Database
<1> HIDE DEF n, q
<1>2. UsersAgree(n, q, drawn) /\ ChannelsAgree(n, q, drawn)
      /\ SearchesAgree(n, q, drawn)
  BY <1>1 DEF Agreeing, UsersAgree, ChannelsAgree, SearchesAgree
<1>3. TokensAgree(n, q, drawn)
  BY <1>1 DEF Agreeing, TokensAgree
<1>4. JobsAgree(n, q, drawn) /\ DocsAgree(n, q, drawn)
  BY <1>1 DEF Agreeing, JobsAgree, DocsAgree
<1>5. QED
  BY <1>1, <1>2, <1>3, <1>4 DEF Agreeing, n, q

LEMMA ChannelsChange ==
  ASSUME NEW m, NEW p, NEW drawn, Agreeing(m, p, drawn),
         NEW t, DrawnRows(t, drawn)
  PROVE  Agreeing([m EXCEPT !.channels = t],
                  [p EXCEPT !.channels = Live(t, DOMAIN m.users)], drawn)
<1> DEFINE n == [m EXCEPT !.channels = t]
           q == [p EXCEPT !.channels = Live(t, DOMAIN m.users)]
<1>1. /\ Database(n) /\ Database(q)
      /\ n.users = m.users /\ n.tokens = m.tokens /\ n.channels = t
      /\ n.jobs = m.jobs /\ n.results = m.results /\ n.steps = m.steps
      /\ n.searches = m.searches /\ n.docs = m.docs /\ n.chunks = m.chunks
      /\ q.users = p.users /\ q.tokens = p.tokens
      /\ q.channels = Live(t, DOMAIN m.users)
      /\ q.jobs = p.jobs /\ q.results = p.results /\ q.steps = p.steps
      /\ q.searches = p.searches /\ q.docs = p.docs /\ q.chunks = p.chunks
  BY DEF Agreeing, Database
<1> HIDE DEF n, q
<1>2. UsersAgree(n, q, drawn) /\ TokensAgree(n, q, drawn)
      /\ SearchesAgree(n, q, drawn)
  BY <1>1 DEF Agreeing, UsersAgree, TokensAgree, SearchesAgree
<1>3. ChannelsAgree(n, q, drawn)
  BY <1>1 DEF Agreeing, ChannelsAgree
<1>4. JobsAgree(n, q, drawn) /\ DocsAgree(n, q, drawn)
  BY <1>1 DEF Agreeing, JobsAgree, DocsAgree
<1>5. QED
  BY <1>1, <1>2, <1>3, <1>4 DEF Agreeing, n, q

LEMMA EventsChange ==
  ASSUME NEW m, NEW p, NEW drawn, Agreeing(m, p, drawn), NEW e, NEW f
  PROVE  Agreeing([m EXCEPT !.events = e], [p EXCEPT !.events = f], drawn)
<1> DEFINE n == [m EXCEPT !.events = e]
           q == [p EXCEPT !.events = f]
<1>1. /\ Database(n) /\ Database(q)
      /\ n.users = m.users /\ n.tokens = m.tokens
      /\ n.channels = m.channels
      /\ n.jobs = m.jobs /\ n.results = m.results /\ n.steps = m.steps
      /\ n.searches = m.searches /\ n.docs = m.docs /\ n.chunks = m.chunks
      /\ q.users = p.users /\ q.tokens = p.tokens
      /\ q.channels = p.channels
      /\ q.jobs = p.jobs /\ q.results = p.results /\ q.steps = p.steps
      /\ q.searches = p.searches /\ q.docs = p.docs /\ q.chunks = p.chunks
  BY DEF Agreeing, Database
<1> HIDE DEF n, q
<1>2. UsersAgree(n, q, drawn) /\ TokensAgree(n, q, drawn)
      /\ ChannelsAgree(n, q, drawn) /\ SearchesAgree(n, q, drawn)
  BY <1>1 DEF Agreeing, UsersAgree, TokensAgree, ChannelsAgree, SearchesAgree
<1>3. JobsAgree(n, q, drawn) /\ DocsAgree(n, q, drawn)
  BY <1>1 DEF Agreeing, JobsAgree, DocsAgree
<1>4. QED
  BY <1>1, <1>2, <1>3 DEF Agreeing, n, q

(* Only the rows of jobs and searches differ.                              *)
LEMMA WorkChange ==
  ASSUME NEW m, NEW p, NEW drawn, Agreeing(m, p, drawn),
         NEW n, NEW q, Database(n), Database(q),
         n.users = m.users, n.tokens = m.tokens, n.channels = m.channels,
         n.docs = m.docs, n.chunks = m.chunks,
         q.users = p.users, q.tokens = p.tokens, q.channels = p.channels,
         q.docs = p.docs, q.chunks = p.chunks,
         SearchesAgree(n, q, drawn), JobsAgree(n, q, drawn)
  PROVE  Agreeing(n, q, drawn)
<1>1. UsersAgree(n, q, drawn) /\ TokensAgree(n, q, drawn)
      /\ ChannelsAgree(n, q, drawn)
  BY DEF Agreeing, UsersAgree, TokensAgree, ChannelsAgree
<1>2. DocsAgree(n, q, drawn)
  BY DEF Agreeing, DocsAgree
<1>3. QED
  BY <1>1, <1>2 DEF Agreeing

(* Only the rows of the documents differ.                                  *)
LEMMA KnowledgeChange ==
  ASSUME NEW m, NEW p, NEW drawn, Agreeing(m, p, drawn),
         NEW n, NEW q, Database(n), Database(q),
         n.users = m.users, n.tokens = m.tokens, n.channels = m.channels,
         n.jobs = m.jobs, n.results = m.results, n.steps = m.steps,
         n.searches = m.searches,
         q.users = p.users, q.tokens = p.tokens, q.channels = p.channels,
         q.jobs = p.jobs, q.results = p.results, q.steps = p.steps,
         q.searches = p.searches,
         DocsAgree(n, q, drawn)
  PROVE  Agreeing(n, q, drawn)
<1>1. UsersAgree(n, q, drawn) /\ TokensAgree(n, q, drawn)
      /\ ChannelsAgree(n, q, drawn) /\ SearchesAgree(n, q, drawn)
  BY DEF Agreeing, UsersAgree, TokensAgree, ChannelsAgree, SearchesAgree
<1>2. JobsAgree(n, q, drawn)
  BY DEF Agreeing, JobsAgree
<1>3. QED
  BY <1>1, <1>2 DEF Agreeing

-----------------------------------------------------------------------------
(* Call by call: each keeps the agreement, and is answered alike when it   *)
(* is made for an account that exists.                                     *)

Alike(a, b) == a.ok = b.ok /\ a.val = b.val

LEMMA DoneAlike ==
  ASSUME NEW a, NEW b, NEW x, NEW y, a = Done(x), b = Done(y)
  PROVE  a.db = x /\ b.db = y /\ Alike(a, b)
BY DEF Done, Did, Alike

LEMMA DidAlike ==
  ASSUME NEW a, NEW b, NEW x, NEW y, NEW v, a = Did(x, v), b = Did(y, v)
  PROVE  a.db = x /\ b.db = y /\ Alike(a, b)
BY DEF Did, Alike

(* A row written where there is one, or not.                               *)
LEMMA ExceptIsPut ==
  ASSUME NEW t, NEW id, id \in DOMAIN t, NEW r
  PROVE  [t EXCEPT ![id] = r] = Put(t, id, r)
<1>1. DOMAIN t \cup {id} = DOMAIN t
  OBVIOUS
<1>2. QED
  BY <1>1 DEF Put

LEMMA PutToken ==
  ASSUME NEW m, NEW p, NEW drawn, Agreeing(m, p, drawn), NEW t, NEW r,
         DrawnRows(Put(m.tokens, t, r), drawn)
  PROVE  /\ r.user \in DOMAIN m.users
              => Agreeing([m EXCEPT !.tokens = Put(m.tokens, t, r)],
                          [p EXCEPT !.tokens = Put(p.tokens, t, r)], drawn)
         /\ r.user \notin DOMAIN m.users /\ t \notin DOMAIN p.tokens
              => Agreeing([m EXCEPT !.tokens = Put(m.tokens, t, r)], p, drawn)
<1>1. p.tokens = Live(m.tokens, DOMAIN m.users)
  BY DEF Agreeing, TokensAgree
<1>2. Agreeing([m EXCEPT !.tokens = Put(m.tokens, t, r)],
               [p EXCEPT !.tokens = Live(Put(m.tokens, t, r), DOMAIN m.users)],
               drawn)
  BY TokensChange
<1>3. CASE r.user \in DOMAIN m.users
  <2>1. Live(Put(m.tokens, t, r), DOMAIN m.users) = Put(p.tokens, t, r)
    BY <1>1, <1>3, LivePut
  <2>2. QED
    BY <1>2, <1>3, <2>1
<1>4. CASE r.user \notin DOMAIN m.users /\ t \notin DOMAIN p.tokens
  <2>1. Live(Put(m.tokens, t, r), DOMAIN m.users) = p.tokens
    BY <1>1, <1>4, DeadPut
  <2>2. [p EXCEPT !.tokens = p.tokens] = p
    BY DEF Agreeing, Database
  <2>3. QED
    BY <1>2, <1>4, <2>1, <2>2
<1>5. QED
  BY <1>3, <1>4

LEMMA InsertTokenAgrees ==
  ASSUME NEW m, NEW p, NEW drawn, Agreeing(m, p, drawn),
         NEW t, t \in drawn, t \notin DOMAIN m.tokens,
         NEW r, DrawnRows(Put(m.tokens, t, r), drawn)
  PROVE  /\ Agreeing(MemInsertToken(m, t, r).db, PgInsertToken(p, t, r).db,
                     drawn)
         /\ r.user \in DOMAIN m.users
              => Alike(MemInsertToken(m, t, r), PgInsertToken(p, t, r))
<1>1. p.users = m.users /\ p.tokens = Live(m.tokens, DOMAIN m.users)
  BY DEF Agreeing, UsersAgree, TokensAgree
<1>2. t \notin DOMAIN p.tokens
  BY <1>1 DEF Live
<1>3. CASE r.user \in DOMAIN m.users
  BY <1>1, <1>3, PutToken
     DEF MemInsertToken, PgInsertToken, Alike, Done, Did
<1>4. CASE r.user \notin DOMAIN m.users
  BY <1>1, <1>2, <1>4, PutToken
     DEF MemInsertToken, PgInsertToken, Done, Did, Refused
<1>5. QED
  BY <1>3, <1>4

(* Rows of the tokens are deleted on both sides.                           *)
LEMMA TokensWithout ==
  ASSUME NEW m, NEW p, NEW drawn, Agreeing(m, p, drawn), NEW gone, NEW lost,
         Without(Live(m.tokens, DOMAIN m.users), gone)
           = Without(p.tokens, lost)
  PROVE  Agreeing([m EXCEPT !.tokens = Without(m.tokens, gone)],
                  [p EXCEPT !.tokens = Without(p.tokens, lost)], drawn)
<1>1. DrawnRows(m.tokens, drawn)
  BY DEF Agreeing, TokensAgree
<1>2. DrawnRows(Without(m.tokens, gone), drawn)
  BY <1>1 DEF Without, DrawnRows
<1>3. Live(Without(m.tokens, gone), DOMAIN m.users) = Without(p.tokens, lost)
  BY LiveWithout
<1>4. QED
  BY <1>2, <1>3, TokensChange

LEMMA MarkConsumedAgrees ==
  ASSUME NEW m, NEW p, NEW drawn, Agreeing(m, p, drawn), NEW t
  PROVE  /\ Agreeing(MemMarkConsumed(m, t).db, PgMarkConsumed(p, t).db, drawn)
         /\ Alike(MemMarkConsumed(m, t), PgMarkConsumed(p, t))
<1> DEFINE r == [m.tokens[t] EXCEPT !.consumed = TRUE]
<1>1. /\ DrawnRows(m.tokens, drawn) /\ Database(m) /\ Database(p)
      /\ p.tokens = Live(m.tokens, DOMAIN m.users)
  BY DEF Agreeing, TokensAgree
<1>2. CASE t \in DOMAIN m.tokens
  <2>1. r.user = m.tokens[t].user /\ "user" \in DOMAIN r
    BY <1>1, <1>2 DEF DrawnRows
  <2> HIDE DEF r
  <2>2. DrawnRows(Put(m.tokens, t, r), drawn)
    BY <1>1, <1>2, <2>1 DEF DrawnRows, Put
  <2>3. MemMarkConsumed(m, t)
          = Done([m EXCEPT !.tokens = Put(m.tokens, t, r)])
    <3>1. [m.tokens EXCEPT ![t] = r] = Put(m.tokens, t, r)
      BY <1>2, ExceptIsPut
    <3>2. MemMarkConsumed(m, t)
            = Done([m EXCEPT !.tokens = [m.tokens EXCEPT ![t] = r]])
      BY <1>2 DEF MemMarkConsumed, r
    <3>3. QED
      BY <3>1, <3>2
  <2>4. CASE m.tokens[t].user \in DOMAIN m.users
    <3>1. t \in DOMAIN p.tokens /\ p.tokens[t] = m.tokens[t]
      BY <1>1, <1>2, <2>4 DEF Live
    <3>2. [x \in DOMAIN p.tokens |->
             IF x = t THEN [p.tokens[x] EXCEPT !.consumed = TRUE]
             ELSE p.tokens[x]] = Put(p.tokens, t, r)
      BY <3>1 DEF Put, r
    <3>3. PgMarkConsumed(p, t)
            = Done([p EXCEPT !.tokens = Put(p.tokens, t, r)])
      BY <3>2 DEF PgMarkConsumed
    <3>4. Agreeing([m EXCEPT !.tokens = Put(m.tokens, t, r)],
                   [p EXCEPT !.tokens = Put(p.tokens, t, r)], drawn)
      BY <2>1, <2>2, <2>4, PutToken
    <3>5. QED
      BY <2>3, <3>3, <3>4, DoneAlike
  <2>5. CASE m.tokens[t].user \notin DOMAIN m.users
    <3>1. t \notin DOMAIN p.tokens
      BY <1>1, <1>2, <2>5 DEF Live
    <3>2. [x \in DOMAIN p.tokens |->
             IF x = t THEN [p.tokens[x] EXCEPT !.consumed = TRUE]
             ELSE p.tokens[x]] = p.tokens
      BY <1>1, <3>1 DEF Live
    <3>3. PgMarkConsumed(p, t) = Done(p)
      BY <1>1, <3>2 DEF PgMarkConsumed, Database
    <3>4. Agreeing([m EXCEPT !.tokens = Put(m.tokens, t, r)], p, drawn)
      BY <2>1, <2>2, <2>5, <3>1, PutToken
    <3>5. QED
      BY <2>3, <3>3, <3>4, DoneAlike
  <2>6. QED
    BY <2>4, <2>5
<1>3. CASE t \notin DOMAIN m.tokens
  <2>1. t \notin DOMAIN p.tokens
    BY <1>1, <1>3 DEF Live
  <2>2. [x \in DOMAIN p.tokens |->
           IF x = t THEN [p.tokens[x] EXCEPT !.consumed = TRUE]
           ELSE p.tokens[x]] = p.tokens
    BY <1>1, <2>1 DEF Live
  <2>3. PgMarkConsumed(p, t) = Done(p)
    BY <1>1, <2>2 DEF PgMarkConsumed, Database
  <2>4. MemMarkConsumed(m, t) = Done(m)
    BY <1>3 DEF MemMarkConsumed
  <2>5. QED
    BY <2>3, <2>4, DoneAlike
<1>4. QED
  BY <1>2, <1>3

LEMMA DeleteTokenAgrees ==
  ASSUME NEW m, NEW p, NEW drawn, Agreeing(m, p, drawn), NEW t
  PROVE  /\ Agreeing(MemDeleteToken(m, t).db, PgDeleteToken(p, t).db, drawn)
         /\ Alike(MemDeleteToken(m, t), PgDeleteToken(p, t))
<1>1. p.tokens = Live(m.tokens, DOMAIN m.users)
  BY DEF Agreeing, TokensAgree
<1>2. Agreeing([m EXCEPT !.tokens = Without(m.tokens, {t})],
               [p EXCEPT !.tokens = Without(p.tokens, {t})], drawn)
  BY <1>1, TokensWithout
<1>3. /\ MemDeleteToken(m, t) = Done([m EXCEPT !.tokens = Without(m.tokens, {t})])
      /\ PgDeleteToken(p, t) = Done([p EXCEPT !.tokens = Without(p.tokens, {t})])
  BY DEF MemDeleteToken, PgDeleteToken
<1>4. QED
  BY <1>2, <1>3, DoneAlike

LEMMA DeleteFamilyAgrees ==
  ASSUME NEW m, NEW p, NEW drawn, Agreeing(m, p, drawn), NEW f
  PROVE  /\ Agreeing(MemDeleteFamily(m, f).db, PgDeleteFamily(p, f).db, drawn)
         /\ Alike(MemDeleteFamily(m, f), PgDeleteFamily(p, f))
<1> DEFINE gone == FamilyRows(m, f)
           lost == FamilyRows(p, f)
<1>1. p.tokens = Live(m.tokens, DOMAIN m.users)
  BY DEF Agreeing, TokensAgree
<1>2. Without(Live(m.tokens, DOMAIN m.users), gone) = Without(p.tokens, lost)
  BY <1>1 DEF Without, Live, FamilyRows
<1>3. /\ MemDeleteFamily(m, f) = Done([m EXCEPT !.tokens = Without(m.tokens, gone)])
      /\ PgDeleteFamily(p, f) = Done([p EXCEPT !.tokens = Without(p.tokens, lost)])
  BY DEF MemDeleteFamily, PgDeleteFamily
<1> HIDE DEF gone, lost
<1>4. Agreeing([m EXCEPT !.tokens = Without(m.tokens, gone)],
               [p EXCEPT !.tokens = Without(p.tokens, lost)], drawn)
  BY <1>2, TokensWithout
<1>5. QED
  BY <1>3, <1>4, DoneAlike

LEMMA DeleteTokensOfAgrees ==
  ASSUME NEW m, NEW p, NEW drawn, Agreeing(m, p, drawn), NEW u
  PROVE  Agreeing(MemDeleteTokensOf(m, u).db, PgDeleteTokensOf(p, u).db, drawn)
<1> DEFINE gone == Of(m.tokens, u)
           lost == Of(p.tokens, u)
<1>1. p.tokens = Live(m.tokens, DOMAIN m.users)
  BY DEF Agreeing, TokensAgree
<1>2. Without(Live(m.tokens, DOMAIN m.users), gone) = Without(p.tokens, lost)
  BY <1>1 DEF Without, Live, Of
<1>3. /\ MemDeleteTokensOf(m, u).db = [m EXCEPT !.tokens = Without(m.tokens, gone)]
      /\ PgDeleteTokensOf(p, u).db = [p EXCEPT !.tokens = Without(p.tokens, lost)]
  BY DEF MemDeleteTokensOf, PgDeleteTokensOf, Did
<1> HIDE DEF gone, lost
<1>4. QED
  BY <1>2, <1>3, TokensWithout

LEMMA DeleteExpiredAgrees ==
  ASSUME NEW m, NEW p, NEW drawn, Agreeing(m, p, drawn), NEW at
  PROVE  Agreeing(MemDeleteExpired(m, at).db, PgDeleteExpired(p, at).db, drawn)
<1> DEFINE gone == ExpiredRows(m, at)
           lost == ExpiredRows(p, at)
<1>1. p.tokens = Live(m.tokens, DOMAIN m.users)
  BY DEF Agreeing, TokensAgree
<1>2. Without(Live(m.tokens, DOMAIN m.users), gone) = Without(p.tokens, lost)
  BY <1>1 DEF Without, Live, ExpiredRows
<1>3. /\ MemDeleteExpired(m, at).db = [m EXCEPT !.tokens = Without(m.tokens, gone)]
      /\ PgDeleteExpired(p, at).db = [p EXCEPT !.tokens = Without(p.tokens, lost)]
  BY DEF MemDeleteExpired, PgDeleteExpired, Did
<1> HIDE DEF gone, lost
<1>4. QED
  BY <1>2, <1>3, TokensWithout

-----------------------------------------------------------------------------
(* Channels and events.                                                    *)

LEMMA InsertChannelAgrees ==
  ASSUME NEW m, NEW p, NEW drawn, Agreeing(m, p, drawn),
         NEW c, c \notin DOMAIN m.channels,
         NEW r, DrawnRows(Put(m.channels, c, r), drawn)
  PROVE  /\ Agreeing(MemInsertChannel(m, c, r).db,
                     PgInsertChannel(p, c, r).db, drawn)
         /\ r.user \in DOMAIN m.users
              => Alike(MemInsertChannel(m, c, r), PgInsertChannel(p, c, r))
<1> DEFINE n == Put(m.channels, c, r)
<1>1. /\ p.users = m.users /\ p.channels = Live(m.channels, DOMAIN m.users)
      /\ Database(p)
  BY DEF Agreeing, UsersAgree, ChannelsAgree
<1>2. MemInsertChannel(m, c, r) = Done([m EXCEPT !.channels = n])
  BY DEF MemInsertChannel
<1> HIDE DEF n
<1>3. Agreeing([m EXCEPT !.channels = n],
               [p EXCEPT !.channels = Live(n, DOMAIN m.users)], drawn)
  BY ChannelsChange DEF n
<1>4. CASE r.user \in DOMAIN m.users
  <2>1. Live(n, DOMAIN m.users) = Put(p.channels, c, r)
    BY <1>1, <1>4, LivePut DEF n
  <2>2. PgInsertChannel(p, c, r) = Done([p EXCEPT !.channels = Put(p.channels, c, r)])
    BY <1>1, <1>4 DEF PgInsertChannel
  <2>3. QED
    BY <1>2, <1>3, <2>1, <2>2, DoneAlike
<1>5. CASE r.user \notin DOMAIN m.users
  <2>1. c \notin DOMAIN Live(m.channels, DOMAIN m.users)
    BY DEF Live
  <2>2. Live(n, DOMAIN m.users) = p.channels
    BY <1>1, <1>5, <2>1, DeadPut DEF n
  <2>3. [p EXCEPT !.channels = p.channels] = p
    BY <1>1 DEF Database
  <2>4. PgInsertChannel(p, c, r).db = p
    BY <1>1, <1>5 DEF PgInsertChannel, Refused
  <2>5. MemInsertChannel(m, c, r).db = [m EXCEPT !.channels = n]
    BY <1>2 DEF Done, Did
  <2>6. QED
    BY <1>3, <1>5, <2>2, <2>3, <2>4, <2>5
<1>6. QED
  BY <1>4, <1>5

LEMMA ChannelsWithout ==
  ASSUME NEW m, NEW p, NEW drawn, Agreeing(m, p, drawn), NEW gone, NEW lost,
         Without(Live(m.channels, DOMAIN m.users), gone)
           = Without(p.channels, lost)
  PROVE  Agreeing([m EXCEPT !.channels = Without(m.channels, gone)],
                  [p EXCEPT !.channels = Without(p.channels, lost)], drawn)
<1>1. DrawnRows(m.channels, drawn)
  BY DEF Agreeing, ChannelsAgree
<1>2. DrawnRows(Without(m.channels, gone), drawn)
  BY <1>1 DEF Without, DrawnRows
<1>3. Live(Without(m.channels, gone), DOMAIN m.users) = Without(p.channels, lost)
  BY LiveWithout
<1>4. QED
  BY <1>2, <1>3, ChannelsChange

LEMMA DeleteChannelAgrees ==
  ASSUME NEW m, NEW p, NEW drawn, Agreeing(m, p, drawn), NEW u, NEW c
  PROVE  /\ Agreeing(MemDeleteChannel(m, u, c).db,
                     PgDeleteChannel(p, u, c).db, drawn)
         /\ u \in DOMAIN m.users
              => Alike(MemDeleteChannel(m, u, c), PgDeleteChannel(p, u, c))
<1> DEFINE lost == {c} \cap Of(p.channels, u)
<1>1. p.channels = Live(m.channels, DOMAIN m.users) /\ Database(p)
  BY DEF Agreeing, ChannelsAgree
<1>2. PgDeleteChannel(p, u, c)
        = Did([p EXCEPT !.channels = Without(p.channels, lost)],
              IsOwn(p.channels, u, c))
  BY DEF PgDeleteChannel
<1>3. CASE IsOwn(m.channels, u, c)
  <2>1. MemDeleteChannel(m, u, c)
          = Did([m EXCEPT !.channels = Without(m.channels, {c})], TRUE)
    BY <1>3 DEF MemDeleteChannel
  <2>2. Without(Live(m.channels, DOMAIN m.users), {c})
          = Without(p.channels, lost)
    BY <1>1, <1>3 DEF Without, Live, Of, IsOwn
  <2>3. Agreeing([m EXCEPT !.channels = Without(m.channels, {c})],
                 [p EXCEPT !.channels = Without(p.channels, lost)], drawn)
    BY <2>2, ChannelsWithout
  <2>4. u \in DOMAIN m.users => IsOwn(p.channels, u, c) = TRUE
    BY <1>1, <1>3 DEF IsOwn, Of, Live
  <2>5. MemDeleteChannel(m, u, c).db
          = [m EXCEPT !.channels = Without(m.channels, {c})]
    BY <2>1 DEF Did
  <2>6. PgDeleteChannel(p, u, c).db
          = [p EXCEPT !.channels = Without(p.channels, lost)]
    BY <1>2 DEF Did
  <2>7. u \in DOMAIN m.users
          => PgDeleteChannel(p, u, c)
               = Did([p EXCEPT !.channels = Without(p.channels, lost)], TRUE)
    BY <1>2, <2>4, Zenon
  <2> HIDE DEF lost
  <2>8. ASSUME u \in DOMAIN m.users
        PROVE  Alike(MemDeleteChannel(m, u, c), PgDeleteChannel(p, u, c))
    <3>1. PgDeleteChannel(p, u, c)
            = Did([p EXCEPT !.channels = Without(p.channels, lost)], TRUE)
      BY <2>7, <2>8
    <3>2. Alike(Did([m EXCEPT !.channels = Without(m.channels, {c})], TRUE),
                Did([p EXCEPT !.channels = Without(p.channels, lost)], TRUE))
      BY DEF Alike, Did
    <3>3. QED
      BY <2>1, <3>1, <3>2
  <2>9. QED
    BY <2>3, <2>5, <2>6, <2>8
<1>4. CASE ~IsOwn(m.channels, u, c)
  <2>1. MemDeleteChannel(m, u, c) = Did(m, FALSE)
    BY <1>4 DEF MemDeleteChannel
  <2>2. IsOwn(p.channels, u, c) = FALSE /\ lost = {}
    BY <1>1, <1>4 DEF IsOwn, Of, Live
  <2>3. Without(p.channels, {}) = p.channels
    BY <1>1 DEF Without, Live
  <2>4. [p EXCEPT !.channels = Without(p.channels, lost)] = p
    BY <1>1, <2>2, <2>3 DEF Database
  <2>5. PgDeleteChannel(p, u, c) = Did(p, FALSE)
    BY <1>2, <2>2, <2>4, Zenon
  <2>6. QED
    BY <2>1, <2>5, DidAlike
<1>5. QED
  BY <1>3, <1>4

LEMMA DeleteChannelsOfAgrees ==
  ASSUME NEW m, NEW p, NEW drawn, Agreeing(m, p, drawn), NEW u
  PROVE  Agreeing(MemDeleteChannelsOf(m, u).db, PgDeleteChannelsOf(p, u).db,
                  drawn)
<1> DEFINE gone == Of(m.channels, u)
           lost == Of(p.channels, u)
<1>1. p.channels = Live(m.channels, DOMAIN m.users)
  BY DEF Agreeing, ChannelsAgree
<1>2. Without(Live(m.channels, DOMAIN m.users), gone) = Without(p.channels, lost)
  BY <1>1 DEF Without, Live, Of
<1>3. /\ MemDeleteChannelsOf(m, u).db
           = [m EXCEPT !.channels = Without(m.channels, gone)]
      /\ PgDeleteChannelsOf(p, u).db
           = [p EXCEPT !.channels = Without(p.channels, lost)]
  BY DEF MemDeleteChannelsOf, PgDeleteChannelsOf, Did
<1> HIDE DEF gone, lost
<1>4. QED
  BY <1>2, <1>3, ChannelsWithout

LEMMA RecordAgrees ==
  ASSUME NEW m, NEW p, NEW drawn, Agreeing(m, p, drawn), NEW n, NEW e
  PROVE  /\ Agreeing(MemRecord(m, n, e).db, PgRecord(p, n, e).db, drawn)
         /\ e.user \in DOMAIN m.users => Alike(MemRecord(m, n, e), PgRecord(p, n, e))
<1>1. p.users = m.users /\ Database(p)
  BY DEF Agreeing, UsersAgree
<1>2. MemRecord(m, n, e) = Done([m EXCEPT !.events = Put(m.events, n, e)])
  BY DEF MemRecord
<1>3. CASE e.user \in DOMAIN p.users \cup {Nobody}
  <2>1. PgRecord(p, n, e) = Done([p EXCEPT !.events = Put(p.events, n, e)])
    BY <1>3 DEF PgRecord
  <2>2. Agreeing([m EXCEPT !.events = Put(m.events, n, e)],
                 [p EXCEPT !.events = Put(p.events, n, e)], drawn)
    BY EventsChange
  <2>3. QED
    BY <1>2, <2>1, <2>2, DoneAlike
<1>4. CASE e.user \notin DOMAIN p.users \cup {Nobody}
  <2>1. PgRecord(p, n, e).db = [p EXCEPT !.events = p.events]
    BY <1>1, <1>4 DEF PgRecord, Refused, Database
  <2>2. MemRecord(m, n, e).db = [m EXCEPT !.events = Put(m.events, n, e)]
    BY <1>2 DEF Done, Did
  <2>3. Agreeing([m EXCEPT !.events = Put(m.events, n, e)],
                 [p EXCEPT !.events = p.events], drawn)
    BY EventsChange
  <2>4. QED
    BY <1>1, <1>4, <2>1, <2>2, <2>3
<1>5. QED
  BY <1>3, <1>4

LEMMA ForgetEventsAgrees ==
  ASSUME NEW m, NEW p, NEW drawn, Agreeing(m, p, drawn), NEW at
  PROVE  Agreeing(MemForgetEvents(m, at).db, PgForgetEvents(p, at).db, drawn)
<1>1. PICK e : MemForgetEvents(m, at) = Done([m EXCEPT !.events = e])
  BY DEF MemForgetEvents
<1>2. PICK f : PgForgetEvents(p, at) = Done([p EXCEPT !.events = f])
  BY DEF PgForgetEvents
<1>3. Agreeing([m EXCEPT !.events = e], [p EXCEPT !.events = f], drawn)
  BY EventsChange
<1>4. QED
  BY <1>1, <1>2, <1>3, DoneAlike

-----------------------------------------------------------------------------
(* Jobs and recurring searches.                                            *)

(* What PostgreSQL has of a row of memory's.                               *)
Linked(r, searches) ==
  IF r.search \in Ids \ DOMAIN searches THEN [r EXCEPT !.search = Nobody] ELSE r

JobShape(r) ==
  r = [user |-> r.user, search |-> r.search, status |-> r.status,
       usage |-> r.usage, created |-> r.created]

LEMMA LinkedIs ==
  ASSUME NEW r, JobShape(r), NEW searches
  PROVE  /\ Linked(r, searches)
              = [user |-> r.user, search |-> Linked(r, searches).search,
                 status |-> r.status, usage |-> r.usage,
                 created |-> r.created]
         /\ Linked(r, searches).search
              = IF r.search \in Ids \ DOMAIN searches THEN Nobody
                ELSE r.search
BY DEF Linked, JobShape

LEMMA JobsOfPg ==
  ASSUME NEW m, NEW p, NEW drawn, JobsAgree(m, p, drawn)
  PROVE  /\ DOMAIN p.jobs
              = {j \in DOMAIN m.jobs : m.jobs[j].user \in DOMAIN m.users}
         /\ \A j \in DOMAIN p.jobs : p.jobs[j] = Linked(m.jobs[j], m.searches)
         /\ p.jobs = [j \in DOMAIN p.jobs |-> p.jobs[j]]
         /\ \A j \in DOMAIN m.jobs : JobShape(m.jobs[j])
BY DEF JobsAgree, Unlink, Live, Linked, JobRows, JobShape

(* The other direction.                                                    *)
LEMMA JobsFromRows ==
  ASSUME NEW jobs, NEW users, NEW searches, NEW table,
         table = [j \in DOMAIN table |-> table[j]],
         DOMAIN table = {j \in DOMAIN jobs : jobs[j].user \in users},
         \A j \in DOMAIN table : table[j] = Linked(jobs[j], searches)
  PROVE  table = Unlink(Live(jobs, users), Ids \ DOMAIN searches)
<1>1. DOMAIN Live(jobs, users) = DOMAIN table
  BY DEF Live
<1>2. \A j \in DOMAIN table : Live(jobs, users)[j] = jobs[j]
  BY DEF Live
<1>3. Unlink(Live(jobs, users), Ids \ DOMAIN searches)
        = [j \in DOMAIN table |-> Linked(jobs[j], searches)]
  BY <1>1, <1>2 DEF Unlink, Linked
<1>4. QED
  BY <1>3

RowsOf(table, jobs, users, searches) ==
  /\ table = [j \in DOMAIN table |-> table[j]]
  /\ DOMAIN table = {j \in DOMAIN jobs : jobs[j].user \in users}
  /\ \A j \in DOMAIN table : table[j] = Linked(jobs[j], searches)

LEMMA RowsAreJobs ==
  ASSUME NEW jobs, NEW users, NEW searches, NEW table,
         RowsOf(table, jobs, users, searches)
  PROVE  table = Unlink(Live(jobs, users), Ids \ DOMAIN searches)
BY JobsFromRows DEF RowsOf

(* A row of a job is written.                                              *)
LEMMA PutJob ==
  ASSUME NEW m, NEW p, NEW drawn, Agreeing(m, p, drawn), NEW j, NEW r,
         JobRows(Put(m.jobs, j, r), m.searches, drawn),
         j \in DOMAIN p.jobs \/ j \notin DOMAIN m.results \cup DOMAIN m.steps
           \/ r.user \notin DOMAIN m.users
  PROVE  /\ r.user \in DOMAIN m.users
              => Agreeing([m EXCEPT !.jobs = Put(m.jobs, j, r)],
                          [p EXCEPT !.jobs = Put(p.jobs, j, Linked(r, m.searches))],
                          drawn)
         /\ r.user \notin DOMAIN m.users /\ j \notin DOMAIN p.jobs
              => Agreeing([m EXCEPT !.jobs = Put(m.jobs, j, r)], p, drawn)
<1> DEFINE n == [m EXCEPT !.jobs = Put(m.jobs, j, r)]
<1>1. /\ JobsAgree(m, p, drawn) /\ SearchesAgree(m, p, drawn)
      /\ Database(m) /\ Database(p)
  BY DEF Agreeing
<1>2. /\ Database(n)
      /\ n.users = m.users /\ n.tokens = m.tokens /\ n.channels = m.channels
      /\ n.jobs = Put(m.jobs, j, r) /\ n.results = m.results
      /\ n.steps = m.steps
      /\ n.searches = m.searches /\ n.docs = m.docs /\ n.chunks = m.chunks
  BY <1>1 DEF Database
<1> HIDE DEF n
<1>3. /\ DOMAIN p.jobs
           = {i \in DOMAIN m.jobs : m.jobs[i].user \in DOMAIN m.users}
      /\ \A i \in DOMAIN p.jobs : p.jobs[i] = Linked(m.jobs[i], m.searches)
      /\ p.jobs = [i \in DOMAIN p.jobs |-> p.jobs[i]]
  BY <1>1, JobsOfPg
<1>4. /\ DOMAIN n.jobs = DOMAIN m.jobs \cup {j}
      /\ \A i \in DOMAIN n.jobs : n.jobs[i] = IF i = j THEN r ELSE m.jobs[i]
  BY <1>2 DEF Put
<1>5. CASE r.user \in DOMAIN m.users
  <2> DEFINE t == Put(p.jobs, j, Linked(r, m.searches))
             q == [p EXCEPT !.jobs = t]
  <2>1. /\ DOMAIN t = DOMAIN p.jobs \cup {j}
        /\ \A i \in DOMAIN t : t[i] = IF i = j THEN Linked(r, m.searches)
                                      ELSE p.jobs[i]
        /\ t = [i \in DOMAIN t |-> t[i]]
    BY DEF Put
  <2> HIDE DEF t
  <2>2. /\ Database(q)
        /\ q.users = p.users /\ q.tokens = p.tokens /\ q.channels = p.channels
        /\ q.jobs = t /\ q.results = p.results /\ q.steps = p.steps
        /\ q.searches = p.searches /\ q.docs = p.docs /\ q.chunks = p.chunks
    BY <1>1 DEF Database
  <2> HIDE DEF q
  <2>3. DOMAIN t = {i \in DOMAIN n.jobs : n.jobs[i].user \in DOMAIN m.users}
    BY <1>3, <1>4, <1>5, <2>1
  <2>4. \A i \in DOMAIN t : t[i] = Linked(n.jobs[i], m.searches)
    BY <1>3, <1>4, <2>1
  <2>5. t = Unlink(Live(n.jobs, DOMAIN m.users), Ids \ DOMAIN m.searches)
    BY <2>1, <2>3, <2>4, JobsFromRows
  <2>6. /\ OfJobs(m.results, t) = OfJobs(m.results, p.jobs)
        /\ OfJobs(m.steps, t) = OfJobs(m.steps, p.jobs)
    BY <1>5, <2>1 DEF OfJobs
  <2>7. JobsAgree(n, q, drawn)
    BY <1>1, <1>2, <2>2, <2>5, <2>6 DEF JobsAgree
  <2>8. SearchesAgree(n, q, drawn)
    BY <1>1, <1>2, <2>2 DEF SearchesAgree
  <2>9. Agreeing(n, q, drawn)
    BY <1>2, <2>2, <2>7, <2>8, WorkChange
  <2>10. QED
    BY <1>5, <2>9 DEF n, q, t
<1>6. CASE r.user \notin DOMAIN m.users /\ j \notin DOMAIN p.jobs
  <2>1. DOMAIN p.jobs = {i \in DOMAIN n.jobs : n.jobs[i].user \in DOMAIN m.users}
    BY <1>3, <1>4, <1>6
  <2>2. \A i \in DOMAIN p.jobs : p.jobs[i] = Linked(n.jobs[i], m.searches)
    BY <1>3, <1>4, <1>6
  <2>3. p.jobs = Unlink(Live(n.jobs, DOMAIN m.users), Ids \ DOMAIN m.searches)
    BY <1>3, <2>1, <2>2, JobsFromRows
  <2>4. JobsAgree(n, p, drawn)
    BY <1>1, <1>2, <2>3 DEF JobsAgree
  <2>5. SearchesAgree(n, p, drawn)
    BY <1>1, <1>2 DEF SearchesAgree
  <2>6. Agreeing(n, p, drawn)
    BY <1>1, <1>2, <2>4, <2>5, WorkChange
  <2>7. QED
    BY <1>6, <2>6 DEF n
<1>7. QED
  BY <1>5, <1>6

LEMMA InsertJobAgrees ==
  ASSUME NEW m, NEW p, NEW drawn, Agreeing(m, p, drawn), NEW j, NEW r,
         j \in drawn, j \notin DOMAIN m.results \cup DOMAIN m.steps,
         j \notin DOMAIN m.jobs, JobShape(r), r.user \in drawn,
         r.search \in Of(m.searches, r.user) \cup {Nobody}
  PROVE  /\ Agreeing(MemInsertJob(m, j, r).db, PgInsertJob(p, j, r).db, drawn)
         /\ r.user \in DOMAIN m.users
              => Alike(MemInsertJob(m, j, r), PgInsertJob(p, j, r))
<1>1. /\ p.users = m.users /\ JobsAgree(m, p, drawn)
      /\ SearchesAgree(m, p, drawn)
  BY DEF Agreeing, UsersAgree
<1>2. Nobody \notin DOMAIN m.searches
  BY <1>1, NobodyIsNoId DEF SearchesAgree
<1>3. r.search \in DOMAIN m.searches
        => /\ r.search \in drawn \cap Ids
           /\ m.searches[r.search].user = r.user
  BY <1>1, <1>2 DEF SearchesAgree, DrawnRows, Live, Of
<1>4. /\ r.search \in DOMAIN m.searches \cup {Nobody}
      /\ r.user \in DOMAIN m.users
           => r.search \in DOMAIN p.searches \cup {Nobody}
  BY <1>1 DEF SearchesAgree, Live, Of
<1>5. "user" \in DOMAIN r
  BY DEF JobShape
<1>6. JobRows(Put(m.jobs, j, r), m.searches, drawn)
  <2>1. JobRows(m.jobs, m.searches, drawn)
    BY <1>1 DEF JobsAgree
  <2>2. DrawnRows(Put(m.jobs, j, r), drawn)
    BY <1>5, <2>1 DEF JobRows, DrawnRows, Put
  <2>3. \A i \in DOMAIN Put(m.jobs, j, r) :
          Put(m.jobs, j, r)[i] = IF i = j THEN r ELSE m.jobs[i]
    BY DEF Put
  <2>4. \A i \in DOMAIN Put(m.jobs, j, r) : i = j \/ i \in DOMAIN m.jobs
    BY DEF Put
  <2>5. r.search \in (drawn \cap Ids) \cup {Nobody}
    BY <1>3, <1>4
  <2>6. QED
    BY <1>3, <2>1, <2>2, <2>3, <2>4, <2>5 DEF JobRows, JobShape
<1>7. Linked(r, m.searches) = r
  BY <1>4, NobodyIsNoId DEF Linked
<1>8. MemInsertJob(m, j, r) = Done([m EXCEPT !.jobs = Put(m.jobs, j, r)])
  BY DEF MemInsertJob
<1>9. CASE r.user \in DOMAIN m.users
  <2>1. PgInsertJob(p, j, r) = Done([p EXCEPT !.jobs = Put(p.jobs, j, r)])
    BY <1>1, <1>4, <1>9 DEF PgInsertJob
  <2>2. Agreeing([m EXCEPT !.jobs = Put(m.jobs, j, r)],
                 [p EXCEPT !.jobs = Put(p.jobs, j, r)], drawn)
    BY <1>6, <1>7, <1>9, PutJob
  <2>3. QED
    BY <1>8, <2>1, <2>2, DoneAlike
<1>10. CASE r.user \notin DOMAIN m.users
  <2>1. PgInsertJob(p, j, r).db = p
    BY <1>1, <1>10 DEF PgInsertJob, Refused
  <2>2. j \notin DOMAIN p.jobs
    <3>1. DOMAIN p.jobs = {i \in DOMAIN m.jobs : m.jobs[i].user \in DOMAIN m.users}
      BY <1>1, JobsOfPg
    <3>2. QED
      BY <3>1
  <2>3. Agreeing([m EXCEPT !.jobs = Put(m.jobs, j, r)], p, drawn)
    BY <1>6, <1>10, <2>2, PutJob
  <2>4. MemInsertJob(m, j, r).db = [m EXCEPT !.jobs = Put(m.jobs, j, r)]
    BY <1>8 DEF Done, Did
  <2>5. QED
    BY <1>10, <2>1, <2>3, <2>4
<1>11. QED
  BY <1>9, <1>10

(* A row keeps its account and its search.                                 *)
LEMMA ChangeJob ==
  ASSUME NEW m, NEW p, NEW drawn, Agreeing(m, p, drawn), NEW j, NEW r,
         j \in DOMAIN m.jobs, JobShape(r), r.user = m.jobs[j].user,
         r.search = m.jobs[j].search
  PROVE  /\ j \in DOMAIN p.jobs
              => Agreeing([m EXCEPT !.jobs = Put(m.jobs, j, r)],
                          [p EXCEPT !.jobs = Put(p.jobs, j, Linked(r, m.searches))],
                          drawn)
         /\ j \notin DOMAIN p.jobs
              => Agreeing([m EXCEPT !.jobs = Put(m.jobs, j, r)], p, drawn)
         /\ j \in DOMAIN p.jobs <=> m.jobs[j].user \in DOMAIN m.users
<1>1. JobsAgree(m, p, drawn)
  BY DEF Agreeing
<1>2. j \in DOMAIN p.jobs <=> m.jobs[j].user \in DOMAIN m.users
  <2>1. DOMAIN p.jobs = {i \in DOMAIN m.jobs : m.jobs[i].user \in DOMAIN m.users}
    BY <1>1, JobsOfPg
  <2>2. QED
    BY <2>1
<1>3. JobRows(Put(m.jobs, j, r), m.searches, drawn)
  <2>1. JobRows(m.jobs, m.searches, drawn)
    BY <1>1 DEF JobsAgree
  <2>2. "user" \in DOMAIN r
    BY DEF JobShape
  <2>3. /\ DOMAIN Put(m.jobs, j, r) = DOMAIN m.jobs
        /\ \A i \in DOMAIN m.jobs :
             Put(m.jobs, j, r)[i] = IF i = j THEN r ELSE m.jobs[i]
    BY DEF Put
  <2>4. DrawnRows(Put(m.jobs, j, r), drawn)
    BY <2>1, <2>2, <2>3 DEF JobRows, DrawnRows
  <2>5. \A i \in DOMAIN m.jobs :
          /\ m.jobs[i].search \in (drawn \cap Ids) \cup {Nobody}
          /\ m.jobs[i].search \in DOMAIN m.searches
               => m.searches[m.jobs[i].search].user = m.jobs[i].user
          /\ JobShape(m.jobs[i])
    BY <2>1 DEF JobRows, JobShape
  <2>6. \A i \in DOMAIN m.jobs :
          /\ Put(m.jobs, j, r)[i].search = m.jobs[i].search
          /\ Put(m.jobs, j, r)[i].user = m.jobs[i].user
          /\ JobShape(Put(m.jobs, j, r)[i])
    BY <2>3, <2>5
  <2>7. QED
    BY <2>3, <2>4, <2>5, <2>6 DEF JobRows, JobShape
<1>4. QED
  BY <1>2, <1>3, PutJob

(* A job updated from a copy of the row that was read.                     *)
LEMMA UpdateJobAgrees ==
  ASSUME NEW m, NEW p, NEW drawn, Agreeing(m, p, drawn), NEW j, NEW copy,
         j \in DOMAIN m.jobs, JobShape(copy), copy.user = m.jobs[j].user,
         copy.search = m.jobs[j].search, copy.created = m.jobs[j].created
  PROVE  /\ Agreeing(MemUpdateJob(m, j, copy).db, PgUpdateJob(p, j, copy).db,
                     drawn)
         /\ Alike(MemUpdateJob(m, j, copy), PgUpdateJob(p, j, copy))
<1> DEFINE r == [copy EXCEPT !.usage = m.jobs[j].usage]
           l == Linked(r, m.searches)
<1>1. JobsAgree(m, p, drawn) /\ Database(m) /\ Database(p)
  BY DEF Agreeing
<1>2. /\ JobShape(r) /\ r.user = copy.user /\ r.search = copy.search
      /\ r.created = copy.created /\ r.status = copy.status
      /\ r.usage = m.jobs[j].usage
  BY DEF JobShape
<1>3. MemUpdateJob(m, j, copy) = Done([m EXCEPT !.jobs = Put(m.jobs, j, r)])
  BY DEF MemUpdateJob
<1> HIDE DEF r
<1>4. CASE j \in DOMAIN p.jobs
  <2>1. p.jobs[j] = Linked(m.jobs[j], m.searches) /\ JobShape(m.jobs[j])
    BY <1>1, <1>4, JobsOfPg
  <2>2. [p.jobs[j] EXCEPT !.status = copy.status] = l
    BY <1>2, <2>1, LinkedIs DEF JobShape
  <2> HIDE DEF l
  <2>3. [p.jobs EXCEPT ![j].status = copy.status] = [p.jobs EXCEPT ![j] = l]
    BY <1>4, <2>2
  <2>4. [p.jobs EXCEPT ![j].status = copy.status] = Put(p.jobs, j, l)
    BY <1>4, <2>3, ExceptIsPut
  <2>5. PgUpdateJob(p, j, copy) = Done([p EXCEPT !.jobs = Put(p.jobs, j, l)])
    BY <1>4, <2>4 DEF PgUpdateJob
  <2>6. Agreeing([m EXCEPT !.jobs = Put(m.jobs, j, r)],
                 [p EXCEPT !.jobs = Put(p.jobs, j, l)], drawn)
    BY <1>2, <1>4, ChangeJob DEF l
  <2>7. QED
    BY <1>3, <2>5, <2>6, DoneAlike
<1>5. CASE j \notin DOMAIN p.jobs
  <2>1. PgUpdateJob(p, j, copy) = Done(p)
    BY <1>5 DEF PgUpdateJob
  <2>2. Agreeing([m EXCEPT !.jobs = Put(m.jobs, j, r)], p, drawn)
    BY <1>2, <1>5, ChangeJob
  <2>3. QED
    BY <1>3, <2>1, <2>2, DoneAlike
<1>6. QED
  BY <1>4, <1>5

LEMMA AddUsageAgrees ==
  ASSUME NEW m, NEW p, NEW drawn, Agreeing(m, p, drawn), NEW j,
         j \in DOMAIN m.jobs
  PROVE  /\ Agreeing(MemAddUsage(m, j).db, PgAddUsage(p, j).db, drawn)
         /\ Alike(MemAddUsage(m, j), PgAddUsage(p, j))
<1> DEFINE r == [m.jobs[j] EXCEPT !.usage = m.jobs[j].usage + 1]
           l == Linked(r, m.searches)
<1>1. JobsAgree(m, p, drawn) /\ Database(m) /\ Database(p)
  BY DEF Agreeing
<1>2. JobShape(m.jobs[j])
  BY <1>1, JobsOfPg
<1>3. /\ JobShape(r) /\ r.user = m.jobs[j].user /\ r.status = m.jobs[j].status
      /\ r.search = m.jobs[j].search /\ r.created = m.jobs[j].created
      /\ r.usage = m.jobs[j].usage + 1
  BY <1>2 DEF JobShape
<1>4. [m.jobs EXCEPT ![j].usage = m.jobs[j].usage + 1] = Put(m.jobs, j, r)
  BY ExceptIsPut
<1>5. MemAddUsage(m, j) = Done([m EXCEPT !.jobs = Put(m.jobs, j, r)])
  BY <1>4 DEF MemAddUsage
<1> HIDE DEF r
<1>6. CASE j \in DOMAIN p.jobs
  <2>1. p.jobs[j] = Linked(m.jobs[j], m.searches)
    BY <1>1, <1>6, JobsOfPg
  <2>2. [p.jobs[j] EXCEPT !.usage = p.jobs[j].usage + 1] = l
    BY <1>2, <1>3, <2>1, LinkedIs DEF JobShape
  <2> HIDE DEF l
  <2>3. [p.jobs EXCEPT ![j].usage = p.jobs[j].usage + 1] = [p.jobs EXCEPT ![j] = l]
    BY <1>6, <2>2
  <2>4. [p.jobs EXCEPT ![j].usage = p.jobs[j].usage + 1] = Put(p.jobs, j, l)
    BY <1>6, <2>3, ExceptIsPut
  <2>5. PgAddUsage(p, j) = Done([p EXCEPT !.jobs = Put(p.jobs, j, l)])
    BY <1>6, <2>4 DEF PgAddUsage
  <2>6. Agreeing([m EXCEPT !.jobs = Put(m.jobs, j, r)],
                 [p EXCEPT !.jobs = Put(p.jobs, j, l)], drawn)
    BY <1>3, <1>6, ChangeJob DEF l
  <2>7. QED
    BY <1>5, <2>5, <2>6, DoneAlike
<1>7. CASE j \notin DOMAIN p.jobs
  <2>1. PgAddUsage(p, j) = Done(p)
    BY <1>7 DEF PgAddUsage
  <2>2. Agreeing([m EXCEPT !.jobs = Put(m.jobs, j, r)], p, drawn)
    BY <1>3, <1>7, ChangeJob
  <2>3. QED
    BY <1>5, <2>1, <2>2, DoneAlike
<1>8. QED
  BY <1>6, <1>7

(* What is stored of a job: results and steps.                             *)
LEMMA ResultsChange ==
  ASSUME NEW m, NEW p, NEW drawn, Agreeing(m, p, drawn),
         NEW t, DOMAIN t \subseteq drawn
  PROVE  Agreeing([m EXCEPT !.results = t],
                  [p EXCEPT !.results = OfJobs(t, p.jobs)], drawn)
<1> DEFINE n == [m EXCEPT !.results = t]
           q == [p EXCEPT !.results = OfJobs(t, p.jobs)]
<1>1. /\ Database(n) /\ Database(q)
      /\ n.users = m.users /\ n.tokens = m.tokens /\ n.channels = m.channels
      /\ n.jobs = m.jobs /\ n.results = t /\ n.steps = m.steps
      /\ n.searches = m.searches /\ n.docs = m.docs /\ n.chunks = m.chunks
      /\ q.users = p.users /\ q.tokens = p.tokens /\ q.channels = p.channels
      /\ q.jobs = p.jobs /\ q.results = OfJobs(t, p.jobs) /\ q.steps = p.steps
      /\ q.searches = p.searches /\ q.docs = p.docs /\ q.chunks = p.chunks
  BY DEF Agreeing, Database
<1> HIDE DEF n, q
<1>2. SearchesAgree(n, q, drawn)
  BY <1>1 DEF Agreeing, SearchesAgree
<1>3. JobsAgree(n, q, drawn)
  BY <1>1 DEF Agreeing, JobsAgree
<1>4. Agreeing(n, q, drawn)
  BY <1>1, <1>2, <1>3, WorkChange
<1>5. QED
  BY <1>4 DEF n, q

LEMMA StepsChange ==
  ASSUME NEW m, NEW p, NEW drawn, Agreeing(m, p, drawn),
         NEW t, DOMAIN t \subseteq drawn
  PROVE  Agreeing([m EXCEPT !.steps = t],
                  [p EXCEPT !.steps = OfJobs(t, p.jobs)], drawn)
<1> DEFINE n == [m EXCEPT !.steps = t]
           q == [p EXCEPT !.steps = OfJobs(t, p.jobs)]
<1>1. /\ Database(n) /\ Database(q)
      /\ n.users = m.users /\ n.tokens = m.tokens /\ n.channels = m.channels
      /\ n.jobs = m.jobs /\ n.results = m.results /\ n.steps = t
      /\ n.searches = m.searches /\ n.docs = m.docs /\ n.chunks = m.chunks
      /\ q.users = p.users /\ q.tokens = p.tokens /\ q.channels = p.channels
      /\ q.jobs = p.jobs /\ q.results = p.results /\ q.steps = OfJobs(t, p.jobs)
      /\ q.searches = p.searches /\ q.docs = p.docs /\ q.chunks = p.chunks
  BY DEF Agreeing, Database
<1> HIDE DEF n, q
<1>2. SearchesAgree(n, q, drawn)
  BY <1>1 DEF Agreeing, SearchesAgree
<1>3. JobsAgree(n, q, drawn)
  BY <1>1 DEF Agreeing, JobsAgree
<1>4. Agreeing(n, q, drawn)
  BY <1>1, <1>2, <1>3, WorkChange
<1>5. QED
  BY <1>4 DEF n, q

LEMMA PutOfJobs ==
  ASSUME NEW t, NEW jobs, NEW j, NEW r
  PROVE  OfJobs(Put(t, j, r), jobs)
           = IF j \in DOMAIN jobs THEN Put(OfJobs(t, jobs), j, r)
             ELSE OfJobs(t, jobs)
<1>1. j \in DOMAIN jobs
        => OfJobs(Put(t, j, r), jobs) = Put(OfJobs(t, jobs), j, r)
  BY DEF OfJobs, Put
<1>2. j \notin DOMAIN jobs => OfJobs(Put(t, j, r), jobs) = OfJobs(t, jobs)
  BY DEF OfJobs, Put
<1>3. QED
  BY <1>1, <1>2

LEMMA GetOfJobs ==
  ASSUME NEW t, NEW jobs, NEW j, j \in DOMAIN jobs
  PROVE  Get(OfJobs(t, jobs), j) = Get(t, j)
BY DEF OfJobs, Get

LEMMA StoreResultsAgrees ==
  ASSUME NEW m, NEW p, NEW drawn, Agreeing(m, p, drawn),
         NEW j, j \in drawn, NEW urls, urls # {}
  PROVE  /\ Agreeing(MemStoreResults(m, j, urls).db,
                     PgStoreResults(p, j, urls).db, drawn)
         /\ j \in DOMAIN p.jobs
              => Alike(MemStoreResults(m, j, urls), PgStoreResults(p, j, urls))
<1> DEFINE t == Put(m.results, j, urls)
<1>1. /\ p.results = OfJobs(m.results, p.jobs) /\ Database(p)
      /\ DOMAIN m.results \subseteq drawn
  BY DEF Agreeing, JobsAgree
<1>2. MemStoreResults(m, j, urls) = Done([m EXCEPT !.results = t])
  BY DEF MemStoreResults
<1>3. DOMAIN t \subseteq drawn
  BY <1>1 DEF Put
<1>4. /\ j \in DOMAIN p.jobs => OfJobs(t, p.jobs) = Put(p.results, j, urls)
      /\ j \notin DOMAIN p.jobs => OfJobs(t, p.jobs) = p.results
  <2>1. OfJobs(t, p.jobs)
          = IF j \in DOMAIN p.jobs THEN Put(OfJobs(m.results, p.jobs), j, urls)
            ELSE OfJobs(m.results, p.jobs)
    BY PutOfJobs
  <2>2. QED
    BY <1>1, <2>1
<1> HIDE DEF t
<1>5. Agreeing([m EXCEPT !.results = t],
               [p EXCEPT !.results = OfJobs(t, p.jobs)], drawn)
  BY <1>3, ResultsChange
<1>6. CASE j \in DOMAIN p.jobs
  <2>1. PgStoreResults(p, j, urls)
          = Done([p EXCEPT !.results = OfJobs(t, p.jobs)])
    BY <1>4, <1>6 DEF PgStoreResults
  <2>2. QED
    BY <1>2, <1>5, <2>1, DoneAlike
<1>7. CASE j \notin DOMAIN p.jobs
  <2>1. PgStoreResults(p, j, urls).db = p
    BY <1>7 DEF PgStoreResults, Refused
  <2>2. [p EXCEPT !.results = OfJobs(t, p.jobs)] = p
    BY <1>1, <1>4, <1>7 DEF Database
  <2>3. MemStoreResults(m, j, urls).db = [m EXCEPT !.results = t]
    BY <1>2 DEF Done, Did
  <2>4. QED
    BY <1>5, <1>7, <2>1, <2>2, <2>3
<1>8. QED
  BY <1>6, <1>7

LEMMA AppendStepAgrees ==
  ASSUME NEW m, NEW p, NEW drawn, Agreeing(m, p, drawn),
         NEW j, j \in drawn, NEW s
  PROVE  /\ Agreeing(MemAppendStep(m, j, s).db, PgAppendStep(p, j, s).db, drawn)
         /\ j \in DOMAIN p.jobs
              => Alike(MemAppendStep(m, j, s), PgAppendStep(p, j, s))
<1> DEFINE t == Put(m.steps, j, Get(m.steps, j) \cup {s})
<1>1. /\ p.steps = OfJobs(m.steps, p.jobs) /\ Database(p)
      /\ DOMAIN m.steps \subseteq drawn
  BY DEF Agreeing, JobsAgree
<1>2. MemAppendStep(m, j, s) = Done([m EXCEPT !.steps = t])
  BY DEF MemAppendStep
<1>3. DOMAIN t \subseteq drawn
  BY <1>1 DEF Put
<1>4. /\ j \in DOMAIN p.jobs
           => OfJobs(t, p.jobs) = Put(p.steps, j, Get(m.steps, j) \cup {s})
      /\ j \notin DOMAIN p.jobs => OfJobs(t, p.jobs) = p.steps
      /\ j \in DOMAIN p.jobs => Get(p.steps, j) = Get(m.steps, j)
  <2>1. OfJobs(t, p.jobs)
          = IF j \in DOMAIN p.jobs
            THEN Put(OfJobs(m.steps, p.jobs), j, Get(m.steps, j) \cup {s})
            ELSE OfJobs(m.steps, p.jobs)
    BY PutOfJobs
  <2>2. j \in DOMAIN p.jobs => Get(OfJobs(m.steps, p.jobs), j) = Get(m.steps, j)
    BY GetOfJobs
  <2>3. QED
    BY <1>1, <2>1, <2>2
<1> HIDE DEF t
<1>5. Agreeing([m EXCEPT !.steps = t],
               [p EXCEPT !.steps = OfJobs(t, p.jobs)], drawn)
  BY <1>3, StepsChange
<1>6. CASE j \in DOMAIN p.jobs
  <2>1. PgAppendStep(p, j, s) = Done([p EXCEPT !.steps = OfJobs(t, p.jobs)])
    BY <1>4, <1>6 DEF PgAppendStep
  <2>2. QED
    BY <1>2, <1>5, <2>1, DoneAlike
<1>7. CASE j \notin DOMAIN p.jobs
  <2>1. PgAppendStep(p, j, s).db = p
    BY <1>7 DEF PgAppendStep, Refused
  <2>2. [p EXCEPT !.steps = OfJobs(t, p.jobs)] = p
    BY <1>1, <1>4, <1>7 DEF Database
  <2>3. MemAppendStep(m, j, s).db = [m EXCEPT !.steps = t]
    BY <1>2 DEF Done, Did
  <2>4. QED
    BY <1>5, <1>7, <2>1, <2>2, <2>3
<1>8. QED
  BY <1>6, <1>7

LEMMA ClearStepsAgrees ==
  ASSUME NEW m, NEW p, NEW drawn, Agreeing(m, p, drawn), NEW j
  PROVE  /\ Agreeing(MemClearSteps(m, j).db, PgClearSteps(p, j).db, drawn)
         /\ Alike(MemClearSteps(m, j), PgClearSteps(p, j))
<1>1. /\ p.steps = OfJobs(m.steps, p.jobs)
      /\ DOMAIN m.steps \subseteq drawn
  BY DEF Agreeing, JobsAgree
<1>2. DOMAIN Without(m.steps, {j}) \subseteq drawn
  BY <1>1 DEF Without
<1>3. OfJobs(Without(m.steps, {j}), p.jobs) = Without(p.steps, {j})
  BY <1>1 DEF OfJobs, Without
<1>4. Agreeing([m EXCEPT !.steps = Without(m.steps, {j})],
               [p EXCEPT !.steps = Without(p.steps, {j})], drawn)
  BY <1>2, <1>3, StepsChange
<1>5. /\ MemClearSteps(m, j) = Done([m EXCEPT !.steps = Without(m.steps, {j})])
      /\ PgClearSteps(p, j) = Done([p EXCEPT !.steps = Without(p.steps, {j})])
  BY DEF MemClearSteps, PgClearSteps
<1>6. QED
  BY <1>4, <1>5, DoneAlike

LEMMA DroppedJobs ==
  ASSUME NEW db, Database(db), NEW gone
  PROVE  /\ Database(DropJobs(db, gone))
         /\ DropJobs(db, gone).users = db.users
         /\ DropJobs(db, gone).tokens = db.tokens
         /\ DropJobs(db, gone).channels = db.channels
         /\ DropJobs(db, gone).jobs = Without(db.jobs, gone)
         /\ DropJobs(db, gone).results = Without(db.results, gone)
         /\ DropJobs(db, gone).steps = Without(db.steps, gone)
         /\ DropJobs(db, gone).searches = db.searches
         /\ DropJobs(db, gone).events = db.events
         /\ DropJobs(db, gone).docs = db.docs
         /\ DropJobs(db, gone).chunks = db.chunks
<1> DEFINE jobs == Without(db.jobs, gone)
           results == Without(db.results, gone)
           steps == Without(db.steps, gone)
<1>1. DropJobs(db, gone)
        = [db EXCEPT !.jobs = jobs, !.results = results, !.steps = steps]
  BY DEF DropJobs
<1>2. jobs = Without(db.jobs, gone) /\ results = Without(db.results, gone)
      /\ steps = Without(db.steps, gone)
  OBVIOUS
<1> HIDE DEF jobs, results, steps
<1>3. DropJobs(db, gone)
        = [users |-> db.users, tokens |-> db.tokens, channels |-> db.channels,
           jobs |-> jobs, results |-> results, steps |-> steps,
           searches |-> db.searches, events |-> db.events, docs |-> db.docs,
           chunks |-> db.chunks]
  BY <1>1 DEF Database
<1>4. QED
  BY <1>2, <1>3 DEF Database

(* Jobs go, with what is stored of them.                                   *)
LEMMA JobsWithout ==
  ASSUME NEW m, NEW p, NEW drawn, Agreeing(m, p, drawn), NEW gone, NEW lost,
         \A j \in DOMAIN p.jobs : j \in gone <=> j \in lost
  PROVE  Agreeing(DropJobs(m, gone), DropJobs(p, lost), drawn)
<1> DEFINE n == DropJobs(m, gone)
           q == DropJobs(p, lost)
<1>0. Database(m) /\ Database(p)
  BY DEF Agreeing
<1>1. /\ Database(n)
      /\ n.users = m.users /\ n.tokens = m.tokens /\ n.channels = m.channels
      /\ n.jobs = Without(m.jobs, gone) /\ n.results = Without(m.results, gone)
      /\ n.steps = Without(m.steps, gone)
      /\ n.searches = m.searches /\ n.docs = m.docs /\ n.chunks = m.chunks
  BY <1>0, DroppedJobs
<1>2. /\ Database(q)
      /\ q.users = p.users /\ q.tokens = p.tokens /\ q.channels = p.channels
      /\ q.jobs = Without(p.jobs, lost)
      /\ q.results = Without(p.results, lost)
      /\ q.steps = Without(p.steps, lost)
      /\ q.searches = p.searches /\ q.docs = p.docs /\ q.chunks = p.chunks
  BY <1>0, DroppedJobs
<1> HIDE DEF n, q
<1>3. JobsAgree(m, p, drawn)
  BY DEF Agreeing
<1>4. SearchesAgree(n, q, drawn)
  BY <1>1, <1>2 DEF Agreeing, SearchesAgree
<1>5. JobsAgree(n, q, drawn)
  <2>1. JobRows(n.jobs, n.searches, drawn)
    <3>1. JobRows(m.jobs, m.searches, drawn)
      BY <1>3 DEF JobsAgree
    <3>2. /\ DOMAIN n.jobs \subseteq DOMAIN m.jobs
          /\ \A i \in DOMAIN n.jobs : n.jobs[i] = m.jobs[i]
      BY <1>1 DEF Without
    <3>3. QED
      BY <1>1, <3>1, <3>2 DEF JobRows, DrawnRows
  <2>2. DOMAIN n.results \cup DOMAIN n.steps \subseteq drawn
    BY <1>1, <1>3 DEF JobsAgree, Without
  <2>3. q.jobs = Unlink(Live(n.jobs, DOMAIN n.users), Ids \ DOMAIN n.searches)
    <3>1. /\ DOMAIN p.jobs
               = {i \in DOMAIN m.jobs : m.jobs[i].user \in DOMAIN m.users}
          /\ \A i \in DOMAIN p.jobs : p.jobs[i] = Linked(m.jobs[i], m.searches)
      BY <1>3, JobsOfPg
    <3>2. /\ DOMAIN q.jobs = DOMAIN p.jobs \ lost
          /\ \A i \in DOMAIN q.jobs : q.jobs[i] = p.jobs[i]
         /\ q.jobs = [i \in DOMAIN q.jobs |-> q.jobs[i]]
      BY <1>2 DEF Without
    <3>3. /\ DOMAIN n.jobs = DOMAIN m.jobs \ gone
          /\ \A i \in DOMAIN n.jobs : n.jobs[i] = m.jobs[i]
      BY <1>1 DEF Without
    <3>4. DOMAIN q.jobs
            = {i \in DOMAIN n.jobs : n.jobs[i].user \in DOMAIN n.users}
      BY <1>1, <3>1, <3>2, <3>3
    <3>5. \A i \in DOMAIN q.jobs : q.jobs[i] = Linked(n.jobs[i], n.searches)
      BY <1>1, <3>1, <3>2, <3>3, <3>4
    <3>6. QED
      BY <3>2, <3>4, <3>5, JobsFromRows
  <2>4. q.results = OfJobs(n.results, q.jobs)
    <3>1. OfJobs(Without(m.results, gone), Without(p.jobs, lost))
            = Without(OfJobs(m.results, p.jobs), lost)
      BY DEF OfJobs, Without
    <3>2. QED
      BY <1>1, <1>2, <1>3, <3>1 DEF JobsAgree
  <2>5. q.steps = OfJobs(n.steps, q.jobs)
    <3>1. OfJobs(Without(m.steps, gone), Without(p.jobs, lost))
            = Without(OfJobs(m.steps, p.jobs), lost)
      BY DEF OfJobs, Without
    <3>2. QED
      BY <1>1, <1>2, <1>3, <3>1 DEF JobsAgree
  <2>6. QED
    BY <2>1, <2>2, <2>3, <2>4, <2>5 DEF JobsAgree
<1>6. Agreeing(n, q, drawn)
  BY <1>1, <1>2, <1>4, <1>5, WorkChange
<1>7. QED
  BY <1>6 DEF n, q

LEMMA DeleteJobsOfAgrees ==
  ASSUME NEW m, NEW p, NEW drawn, Agreeing(m, p, drawn), NEW u
  PROVE  Agreeing(MemDeleteJobsOf(m, u).db, PgDeleteJobsOf(p, u).db, drawn)
<1>1. JobsAgree(m, p, drawn)
  BY DEF Agreeing
<1>2. /\ DOMAIN p.jobs \subseteq DOMAIN m.jobs
      /\ \A i \in DOMAIN p.jobs : p.jobs[i].user = m.jobs[i].user
  <2>1. /\ DOMAIN p.jobs
             = {i \in DOMAIN m.jobs : m.jobs[i].user \in DOMAIN m.users}
        /\ \A i \in DOMAIN p.jobs : p.jobs[i] = Linked(m.jobs[i], m.searches)
        /\ \A i \in DOMAIN m.jobs : JobShape(m.jobs[i])
    BY <1>1, JobsOfPg
  <2>2. QED
    BY <2>1 DEF Linked, JobShape
<1>3. \A j \in DOMAIN p.jobs : j \in Of(m.jobs, u) <=> j \in Of(p.jobs, u)
  BY <1>2 DEF Of
<1>4. Agreeing(DropJobs(m, Of(m.jobs, u)), DropJobs(p, Of(p.jobs, u)), drawn)
  BY <1>3, JobsWithout
<1>5. QED
  BY <1>4 DEF MemDeleteJobsOf, PgDeleteJobsOf, Did

(* The purge: of a run whose search is gone PostgreSQL has no link left.   *)
LEMMA PurgedAlike ==
  ASSUME NEW m, NEW p, NEW drawn, Agreeing(m, p, drawn), NEW at,
         NEW j \in DOMAIN p.jobs
  PROVE  j \in Purgeable(p, at)
           <=> /\ m.jobs[j].search \notin DOMAIN m.searches
               /\ m.jobs[j].status \in Finished
               /\ m.jobs[j].created < at
<1>1. JobsAgree(m, p, drawn) /\ SearchesAgree(m, p, drawn)
  BY DEF Agreeing
<1>2. /\ j \in DOMAIN m.jobs /\ JobShape(m.jobs[j])
      /\ p.jobs[j] = Linked(m.jobs[j], m.searches)
  BY <1>1, JobsOfPg
<1>3. /\ p.jobs[j].search = IF m.jobs[j].search \in Ids \ DOMAIN m.searches
                            THEN Nobody ELSE m.jobs[j].search
      /\ p.jobs[j].status = m.jobs[j].status
      /\ p.jobs[j].created = m.jobs[j].created
  BY <1>2, LinkedIs
<1>4. m.jobs[j].search \in Ids \cup {Nobody} /\ Nobody \notin DOMAIN m.searches
  BY <1>1, <1>2, NobodyIsNoId DEF JobsAgree, JobRows, SearchesAgree
<1>5. QED
  BY <1>3, <1>4 DEF Purgeable

LEMMA TwoTables ==
  ASSUME NEW db, Database(db), NEW searches, NEW jobs
  PROVE  [db EXCEPT !.searches = searches, !.jobs = jobs]
           = [users |-> db.users, tokens |-> db.tokens,
              channels |-> db.channels, jobs |-> jobs,
              results |-> db.results, steps |-> db.steps,
              searches |-> searches, events |-> db.events,
              docs |-> db.docs, chunks |-> db.chunks]
<1> DEFINE e == [db EXCEPT !.searches = searches]
<1>1. [db EXCEPT !.searches = searches, !.jobs = jobs] = [e EXCEPT !.jobs = jobs]
  BY DEF Database
<1>2. e = [users |-> db.users, tokens |-> db.tokens, channels |-> db.channels,
           jobs |-> db.jobs, results |-> db.results, steps |-> db.steps,
           searches |-> searches, events |-> db.events, docs |-> db.docs,
           chunks |-> db.chunks]
  BY DEF Database
<1> HIDE DEF e
<1>3. QED
  BY <1>1, <1>2

(* The searches change: PostgreSQL unlinks the jobs of those that go.      *)
LEMMA SearchesChange ==
  ASSUME NEW m, NEW p, NEW drawn, Agreeing(m, p, drawn),
         NEW t, DrawnRows(t, drawn), DOMAIN t \subseteq Ids,
         \A j \in DOMAIN m.jobs :
           m.jobs[j].search \in DOMAIN t
             => /\ m.jobs[j].search \in DOMAIN m.searches
                /\ t[m.jobs[j].search].user
                     = m.searches[m.jobs[j].search].user,
         NEW jobs, jobs = [j \in DOMAIN jobs |-> jobs[j]],
         DOMAIN jobs = DOMAIN p.jobs,
         \A j \in DOMAIN jobs : jobs[j] = Linked(m.jobs[j], t)
  PROVE  Agreeing([m EXCEPT !.searches = t],
                  [p EXCEPT !.searches = Live(t, DOMAIN m.users),
                            !.jobs = jobs], drawn)
<1> DEFINE n == [m EXCEPT !.searches = t]
           q == [p EXCEPT !.searches = Live(t, DOMAIN m.users), !.jobs = jobs]
<1>1. Database(m) /\ Database(p)
  BY DEF Agreeing
<1>2. q = [users |-> p.users, tokens |-> p.tokens, channels |-> p.channels,
           jobs |-> jobs, results |-> p.results, steps |-> p.steps,
           searches |-> Live(t, DOMAIN m.users), events |-> p.events,
           docs |-> p.docs, chunks |-> p.chunks]
  BY <1>1, TwoTables
<1>3. /\ Database(n) /\ Database(q)
      /\ n.users = m.users /\ n.tokens = m.tokens /\ n.channels = m.channels
      /\ n.jobs = m.jobs /\ n.results = m.results /\ n.steps = m.steps
      /\ n.searches = t /\ n.docs = m.docs /\ n.chunks = m.chunks
      /\ q.users = p.users /\ q.tokens = p.tokens /\ q.channels = p.channels
      /\ q.jobs = jobs /\ q.results = p.results /\ q.steps = p.steps
      /\ q.searches = Live(t, DOMAIN m.users)
      /\ q.docs = p.docs /\ q.chunks = p.chunks
  BY <1>1, <1>2 DEF Database
<1> HIDE DEF n, q
<1>4. JobsAgree(m, p, drawn)
  BY DEF Agreeing
<1>5. SearchesAgree(n, q, drawn)
  BY <1>3 DEF SearchesAgree
<1>6. JobsAgree(n, q, drawn)
  <2>1. JobRows(n.jobs, n.searches, drawn)
    <3>1. JobRows(m.jobs, m.searches, drawn)
      BY <1>4 DEF JobsAgree
    <3>2. QED
      BY <1>3, <3>1 DEF JobRows
  <2>2. q.jobs = Unlink(Live(n.jobs, DOMAIN n.users), Ids \ DOMAIN n.searches)
    <3>1. DOMAIN p.jobs
            = {i \in DOMAIN m.jobs : m.jobs[i].user \in DOMAIN m.users}
      BY <1>4, JobsOfPg
    <3>2. RowsOf(jobs, m.jobs, DOMAIN m.users, t)
      BY <3>1 DEF RowsOf
    <3>3. jobs = Unlink(Live(m.jobs, DOMAIN m.users), Ids \ DOMAIN t)
      BY <3>2, RowsAreJobs
    <3>4. QED
      BY <1>3, <3>3
  <2>3. OfJobs(m.results, jobs) = OfJobs(m.results, p.jobs)
        /\ OfJobs(m.steps, jobs) = OfJobs(m.steps, p.jobs)
    BY DEF OfJobs
  <2>4. QED
    BY <1>3, <1>4, <2>1, <2>2, <2>3 DEF JobsAgree
<1>7. Agreeing(n, q, drawn)
  BY <1>3, <1>5, <1>6, WorkChange
<1>8. QED
  BY <1>7 DEF n, q

(* A new search, or one that is still its account's: no job changes.       *)
LEMMA PutSearch ==
  ASSUME NEW m, NEW p, NEW drawn, Agreeing(m, p, drawn),
         NEW s, s \in drawn \cap Ids, NEW r, "user" \in DOMAIN r,
         r.user \in drawn,
         \/ s \in DOMAIN m.searches /\ r.user = m.searches[s].user
         \/ \A j \in DOMAIN m.jobs : m.jobs[j].search # s
  PROVE  Agreeing([m EXCEPT !.searches = Put(m.searches, s, r)],
                  [p EXCEPT !.searches
                              = Live(Put(m.searches, s, r), DOMAIN m.users)],
                  drawn)
<1> DEFINE t == Put(m.searches, s, r)
<1>1. /\ JobsAgree(m, p, drawn) /\ SearchesAgree(m, p, drawn)
      /\ Database(p)
  BY DEF Agreeing
<1>2. /\ DOMAIN t = DOMAIN m.searches \cup {s}
      /\ \A x \in DOMAIN t : t[x] = IF x = s THEN r ELSE m.searches[x]
  BY DEF Put
<1> HIDE DEF t
<1>3. DrawnRows(t, drawn) /\ DOMAIN t \subseteq Ids
  BY <1>1, <1>2 DEF SearchesAgree, DrawnRows
<1>4. \A j \in DOMAIN m.jobs :
        m.jobs[j].search \in DOMAIN t
          => /\ m.jobs[j].search \in DOMAIN m.searches
             /\ t[m.jobs[j].search].user = m.searches[m.jobs[j].search].user
  BY <1>2
<1>5. /\ p.jobs = [j \in DOMAIN p.jobs |-> p.jobs[j]]
      /\ DOMAIN p.jobs
           = {i \in DOMAIN m.jobs : m.jobs[i].user \in DOMAIN m.users}
      /\ \A j \in DOMAIN p.jobs : p.jobs[j] = Linked(m.jobs[j], m.searches)
  BY <1>1, JobsOfPg
<1>6. \A j \in DOMAIN p.jobs : Linked(m.jobs[j], m.searches) = Linked(m.jobs[j], t)
  BY <1>2, <1>5 DEF Linked
<1>7. \A j \in DOMAIN p.jobs : p.jobs[j] = Linked(m.jobs[j], t)
  BY <1>5, <1>6
<1>8. Agreeing([m EXCEPT !.searches = t],
               [p EXCEPT !.searches = Live(t, DOMAIN m.users),
                         !.jobs = p.jobs], drawn)
  BY <1>3, <1>4, <1>5, <1>7, SearchesChange
<1>9. [p EXCEPT !.searches = Live(t, DOMAIN m.users), !.jobs = p.jobs]
        = [p EXCEPT !.searches = Live(t, DOMAIN m.users)]
  BY <1>1 DEF Database
<1>10. QED
  BY <1>8, <1>9 DEF t

LEMMA InsertSearchAgrees ==
  ASSUME NEW m, NEW p, NEW drawn, Agreeing(m, p, drawn),
         NEW s, s \in drawn \cap Ids, s \notin DOMAIN m.searches,
         \A j \in DOMAIN m.jobs : m.jobs[j].search # s,
         NEW r, "user" \in DOMAIN r, r.user \in drawn
  PROVE  /\ Agreeing(MemInsertSearch(m, s, r).db, PgInsertSearch(p, s, r).db,
                     drawn)
         /\ r.user \in DOMAIN m.users
              => Alike(MemInsertSearch(m, s, r), PgInsertSearch(p, s, r))
<1> DEFINE t == Put(m.searches, s, r)
<1>1. /\ p.users = m.users /\ p.searches = Live(m.searches, DOMAIN m.users)
      /\ Database(p)
  BY DEF Agreeing, UsersAgree, SearchesAgree
<1>2. MemInsertSearch(m, s, r) = Done([m EXCEPT !.searches = t])
  BY DEF MemInsertSearch
<1>3. Agreeing([m EXCEPT !.searches = t],
               [p EXCEPT !.searches = Live(t, DOMAIN m.users)], drawn)
  BY PutSearch
<1> HIDE DEF t
<1>4. CASE r.user \in DOMAIN m.users
  <2>1. Live(t, DOMAIN m.users) = Put(p.searches, s, r)
    BY <1>1, <1>4, LivePut DEF t
  <2>2. PgInsertSearch(p, s, r)
          = Done([p EXCEPT !.searches = Put(p.searches, s, r)])
    BY <1>1, <1>4 DEF PgInsertSearch
  <2>3. QED
    BY <1>2, <1>3, <2>1, <2>2, DoneAlike
<1>5. CASE r.user \notin DOMAIN m.users
  <2>1. s \notin DOMAIN Live(m.searches, DOMAIN m.users)
    BY DEF Live
  <2>2. Live(t, DOMAIN m.users) = p.searches
    BY <1>1, <1>5, <2>1, DeadPut DEF t
  <2>3. [p EXCEPT !.searches = p.searches] = p
    BY <1>1 DEF Database
  <2>4. PgInsertSearch(p, s, r).db = p
    BY <1>1, <1>5 DEF PgInsertSearch, Refused
  <2>5. MemInsertSearch(m, s, r).db = [m EXCEPT !.searches = t]
    BY <1>2 DEF Done, Did
  <2>6. QED
    BY <1>3, <1>5, <2>2, <2>3, <2>4, <2>5
<1>6. QED
  BY <1>4, <1>5

LEMMA MarkRanAgrees ==
  ASSUME NEW m, NEW p, NEW drawn, Agreeing(m, p, drawn), NEW s, NEW at
  PROVE  /\ Agreeing(MemMarkRan(m, s, at).db, PgMarkRan(p, s, at).db, drawn)
         /\ Alike(MemMarkRan(m, s, at), PgMarkRan(p, s, at))
<1>1. /\ SearchesAgree(m, p, drawn) /\ Database(p)
      /\ p.searches = Live(m.searches, DOMAIN m.users)
  BY DEF Agreeing, SearchesAgree
<1>2. CASE s \in DOMAIN m.searches
  <2> DEFINE r == [m.searches[s] EXCEPT !.last = at]
  <2>1. /\ s \in drawn \cap Ids /\ "user" \in DOMAIN m.searches[s]
        /\ m.searches[s].user \in drawn
    BY <1>1, <1>2 DEF SearchesAgree, DrawnRows
  <2>2. "user" \in DOMAIN r /\ r.user = m.searches[s].user
    BY <2>1
  <2>3. [m.searches EXCEPT ![s].last = at] = Put(m.searches, s, r)
    BY <1>2, ExceptIsPut
  <2>4. MemMarkRan(m, s, at)
          = Done([m EXCEPT !.searches = Put(m.searches, s, r)])
    BY <1>2, <2>3 DEF MemMarkRan
  <2>5. s \in DOMAIN p.searches => p.searches[s] = m.searches[s]
    BY <1>1 DEF Live
  <2>6. s \in DOMAIN p.searches <=> m.searches[s].user \in DOMAIN m.users
    BY <1>1, <1>2 DEF Live
  <2>7. s \in DOMAIN p.searches
          => [p.searches EXCEPT ![s].last = at] = Put(p.searches, s, r)
    BY <2>5, ExceptIsPut
  <2> HIDE DEF r
  <2>8. Agreeing([m EXCEPT !.searches = Put(m.searches, s, r)],
                 [p EXCEPT !.searches
                             = Live(Put(m.searches, s, r), DOMAIN m.users)],
                 drawn)
    BY <1>2, <2>1, <2>2, PutSearch
  <2>9. CASE s \in DOMAIN p.searches
    <3>1. Live(Put(m.searches, s, r), DOMAIN m.users) = Put(p.searches, s, r)
      BY <1>1, <2>2, <2>6, <2>9, LivePut
    <3>2. PgMarkRan(p, s, at)
            = Done([p EXCEPT !.searches = Put(p.searches, s, r)])
      BY <2>7, <2>9 DEF PgMarkRan
    <3>3. QED
      BY <2>4, <2>8, <3>1, <3>2, DoneAlike
  <2>10. CASE s \notin DOMAIN p.searches
    <3>1. Live(Put(m.searches, s, r), DOMAIN m.users) = p.searches
      BY <1>1, <2>2, <2>6, <2>10, DeadPut
    <3>2. [p EXCEPT !.searches = p.searches] = p
      BY <1>1 DEF Database
    <3>3. PgMarkRan(p, s, at) = Done(p)
      BY <2>10 DEF PgMarkRan
    <3>4. QED
      BY <2>4, <2>8, <3>1, <3>2, <3>3, DoneAlike
  <2>11. QED
    BY <2>9, <2>10
<1>3. CASE s \notin DOMAIN m.searches
  <2>1. s \notin DOMAIN p.searches
    BY <1>1, <1>3 DEF Live
  <2>2. MemMarkRan(m, s, at) = Done(m) /\ PgMarkRan(p, s, at) = Done(p)
    BY <1>3, <2>1 DEF MemMarkRan, PgMarkRan
  <2>3. QED
    BY <2>2, DoneAlike
<1>4. QED
  BY <1>2, <1>3

(* Searches go, of one account.                                            *)
LEMMA SearchesWithout ==
  ASSUME NEW m, NEW p, NEW drawn, Agreeing(m, p, drawn), NEW gone,
         gone \subseteq DOMAIN m.searches, NEW lost,
         lost = gone \cap DOMAIN p.searches
  PROVE  Agreeing([m EXCEPT !.searches = Without(m.searches, gone)],
                  [p EXCEPT !.searches = Without(p.searches, lost),
                            !.jobs = Unlink(p.jobs, lost)], drawn)
<1> DEFINE t == Without(m.searches, gone)
           jobs == Unlink(p.jobs, lost)
<1>1. /\ JobsAgree(m, p, drawn) /\ SearchesAgree(m, p, drawn)
      /\ Database(p)
  BY DEF Agreeing
<1>2. /\ DOMAIN t = DOMAIN m.searches \ gone
      /\ \A x \in DOMAIN t : t[x] = m.searches[x]
  BY DEF Without
<1>3. DrawnRows(t, drawn) /\ DOMAIN t \subseteq Ids
  BY <1>1, <1>2 DEF SearchesAgree, DrawnRows
<1>4. Live(t, DOMAIN m.users) = Without(p.searches, lost)
  BY <1>1 DEF Live, Without, SearchesAgree
<1>5. /\ DOMAIN jobs = DOMAIN p.jobs
      /\ jobs = [j \in DOMAIN p.jobs |-> jobs[j]]
      /\ \A j \in DOMAIN p.jobs :
           jobs[j] = IF p.jobs[j].search \in lost
                     THEN [p.jobs[j] EXCEPT !.search = Nobody] ELSE p.jobs[j]
  BY DEF Unlink
<1> HIDE DEF t, jobs
<1>6. /\ DOMAIN p.jobs
           = {i \in DOMAIN m.jobs : m.jobs[i].user \in DOMAIN m.users}
      /\ \A j \in DOMAIN p.jobs : p.jobs[j] = Linked(m.jobs[j], m.searches)
      /\ \A j \in DOMAIN m.jobs : JobShape(m.jobs[j])
  BY <1>1, JobsOfPg
<1>7. Nobody \notin lost
  BY <1>1, NobodyIsNoId DEF SearchesAgree
<1>8. ASSUME NEW j \in DOMAIN p.jobs
      PROVE  jobs[j] = Linked(m.jobs[j], t)
  <2>1. j \in DOMAIN m.jobs /\ m.jobs[j].user \in DOMAIN m.users
    BY <1>6
  <2>2. p.jobs[j] = Linked(m.jobs[j], m.searches) /\ JobShape(m.jobs[j])
    BY <1>6, <2>1
  <2>3. m.jobs[j].search \in DOMAIN m.searches
          => m.searches[m.jobs[j].search].user = m.jobs[j].user
    BY <1>1, <2>1 DEF JobsAgree, JobRows
  <2>4. m.jobs[j].search \in DOMAIN m.searches
          => m.jobs[j].search \in DOMAIN p.searches
    BY <1>1, <2>1, <2>3 DEF SearchesAgree, Live
  <2>5. CASE m.jobs[j].search \in gone
    <3>1. m.jobs[j].search \in lost /\ m.jobs[j].search \in Ids
      BY <1>1, <2>4, <2>5 DEF SearchesAgree
    <3>2. p.jobs[j] = m.jobs[j]
      BY <2>2, <2>5 DEF Linked
    <3>3. jobs[j] = [m.jobs[j] EXCEPT !.search = Nobody]
      BY <1>5, <3>1, <3>2
    <3>4. Linked(m.jobs[j], t) = [m.jobs[j] EXCEPT !.search = Nobody]
      BY <1>2, <2>5, <3>1 DEF Linked
    <3>5. QED
      BY <3>3, <3>4
  <2>6. CASE m.jobs[j].search \notin gone
    <3>1. Linked(m.jobs[j], t) = p.jobs[j]
      BY <1>2, <2>2, <2>6 DEF Linked
    <3>2. p.jobs[j].search \in {m.jobs[j].search, Nobody}
      BY <2>2, LinkedIs
    <3>3. p.jobs[j].search \notin lost
      BY <1>7, <2>6, <3>2
    <3>4. QED
      BY <1>5, <3>1, <3>3
  <2>7. QED
    BY <2>5, <2>6
<1>9. \A j \in DOMAIN m.jobs :
        m.jobs[j].search \in DOMAIN t
          => /\ m.jobs[j].search \in DOMAIN m.searches
             /\ t[m.jobs[j].search].user = m.searches[m.jobs[j].search].user
  BY <1>2
<1>10. Agreeing([m EXCEPT !.searches = t],
                [p EXCEPT !.searches = Live(t, DOMAIN m.users),
                          !.jobs = jobs], drawn)
  BY <1>3, <1>5, <1>8, <1>9, SearchesChange
<1>11. QED
  BY <1>4, <1>10 DEF t, jobs

LEMMA DeleteSearchesOfAgrees ==
  ASSUME NEW m, NEW p, NEW drawn, Agreeing(m, p, drawn), NEW u
  PROVE  Agreeing(MemDeleteSearchesOf(m, u).db, PgDeleteSearchesOf(p, u).db,
                  drawn)
<1> DEFINE gone == Of(m.searches, u)
           lost == Of(p.searches, u)
<1>1. p.searches = Live(m.searches, DOMAIN m.users)
  BY DEF Agreeing, SearchesAgree
<1>2. gone \subseteq DOMAIN m.searches /\ lost = gone \cap DOMAIN p.searches
  BY <1>1 DEF Of, Live
<1>3. MemDeleteSearchesOf(m, u).db
        = [m EXCEPT !.searches = Without(m.searches, gone)]
  BY DEF MemDeleteSearchesOf, Did
<1>4. PgDeleteSearchesOf(p, u).db
        = [p EXCEPT !.searches = Without(p.searches, lost),
                    !.jobs = Unlink(p.jobs, lost)]
  BY DEF PgDeleteSearchesOf, Did
<1> HIDE DEF gone, lost
<1>5. Agreeing([m EXCEPT !.searches = Without(m.searches, gone)],
               [p EXCEPT !.searches = Without(p.searches, lost),
                         !.jobs = Unlink(p.jobs, lost)], drawn)
  BY <1>2, SearchesWithout
<1>6. QED
  BY <1>3, <1>4, <1>5

LEMMA DeleteSearchAgrees ==
  ASSUME NEW m, NEW p, NEW drawn, Agreeing(m, p, drawn), NEW u, NEW s
  PROVE  /\ Agreeing(MemDeleteSearch(m, u, s).db, PgDeleteSearch(p, u, s).db,
                     drawn)
         /\ u \in DOMAIN m.users
              => Alike(MemDeleteSearch(m, u, s), PgDeleteSearch(p, u, s))
<1> DEFINE lost == {s} \cap Of(p.searches, u)
           q == [p EXCEPT !.searches = Without(p.searches, lost),
                          !.jobs = Unlink(p.jobs, lost)]
<1>1. /\ p.searches = Live(m.searches, DOMAIN m.users)
      /\ Database(p) /\ JobsAgree(m, p, drawn)
  BY DEF Agreeing, SearchesAgree
<1>2. PgDeleteSearch(p, u, s) = Did(q, lost # {})
  BY DEF PgDeleteSearch
<1>3. CASE IsOwn(m.searches, u, s)
  <2> DEFINE n == [m EXCEPT !.searches = Without(m.searches, {s})]
  <2>1. MemDeleteSearch(m, u, s) = Did(n, TRUE)
    BY <1>3 DEF MemDeleteSearch
  <2>2. {s} \subseteq DOMAIN m.searches /\ lost = {s} \cap DOMAIN p.searches
    BY <1>1, <1>3 DEF Of, Live, IsOwn
  <2>3. u \in DOMAIN m.users => s \in lost
    BY <1>1, <1>3 DEF Of, Live, IsOwn
  <2> HIDE DEF lost
  <2>4. Agreeing(n, q, drawn)
    BY <2>2, SearchesWithout
  <2>5. MemDeleteSearch(m, u, s).db = n /\ PgDeleteSearch(p, u, s).db = q
    BY <1>2, <2>1 DEF Did
  <2> HIDE DEF n, q
  <2>6. ASSUME u \in DOMAIN m.users
        PROVE  Alike(MemDeleteSearch(m, u, s), PgDeleteSearch(p, u, s))
    <3>1. (lost # {}) = TRUE
      BY <2>3, <2>6
    <3>2. PgDeleteSearch(p, u, s) = Did(q, TRUE)
      BY <1>2, <3>1, Zenon
    <3>3. Alike(Did(n, TRUE), Did(q, TRUE))
      BY DEF Alike, Did
    <3>4. QED
      BY <2>1, <3>2, <3>3
  <2>7. QED
    BY <2>4, <2>5, <2>6
<1>4. CASE ~IsOwn(m.searches, u, s)
  <2>1. MemDeleteSearch(m, u, s) = Did(m, FALSE)
    BY <1>4 DEF MemDeleteSearch
  <2>2. lost = {}
    BY <1>1, <1>4 DEF IsOwn, Of, Live
  <2>3. Without(p.searches, {}) = p.searches
    BY <1>1 DEF Without, Live
  <2>4. Unlink(p.jobs, {}) = p.jobs
    <3>1. p.jobs = [j \in DOMAIN p.jobs |-> p.jobs[j]]
      BY <1>1, JobsOfPg
    <3>2. QED
      BY <3>1 DEF Unlink
  <2>5. q = p
    BY <1>1, <2>2, <2>3, <2>4 DEF Database
  <2> HIDE DEF q
  <2>6. (lost # {}) = FALSE
    BY <2>2
  <2> HIDE DEF lost
  <2>7. PgDeleteSearch(p, u, s) = Did(p, FALSE)
    BY <1>2, <2>5, <2>6, Zenon
  <2>8. QED
    BY <2>1, <2>7, DidAlike
<1>5. QED
  BY <1>3, <1>4

-----------------------------------------------------------------------------
(* Documents.                                                              *)

WithDocs(db, docs, chunks) ==
  [users |-> db.users, tokens |-> db.tokens, channels |-> db.channels,
   jobs |-> db.jobs, results |-> db.results, steps |-> db.steps,
   searches |-> db.searches, events |-> db.events, docs |-> docs,
   chunks |-> chunks]

LEMMA WithDocsIs ==
  ASSUME NEW db, Database(db), NEW docs
  PROVE  /\ [db EXCEPT !.docs = docs] = WithDocs(db, docs, db.chunks)
         /\ WithDocs(db, db.docs, db.chunks) = db
BY DEF Database, WithDocs

LEMMA DocsThenChunks ==
  ASSUME NEW db, Database(db), NEW docs, NEW chunks
  PROVE  [db EXCEPT !.docs = docs, !.chunks = chunks]
           = WithDocs(db, docs, chunks)
<1>1. [db EXCEPT !.docs = docs] = WithDocs(db, docs, db.chunks)
  BY DEF Database, WithDocs
<1>2. [db EXCEPT !.docs = docs, !.chunks = chunks]
        = [[db EXCEPT !.docs = docs] EXCEPT !.chunks = chunks]
  BY DEF Database
<1>3. [WithDocs(db, docs, db.chunks) EXCEPT !.chunks = chunks]
        = WithDocs(db, docs, chunks)
  BY DEF WithDocs
<1>4. QED
  BY <1>1, <1>2, <1>3

LEMMA ChunksThenDocs ==
  ASSUME NEW db, Database(db), NEW docs, NEW chunks
  PROVE  [db EXCEPT !.chunks = chunks, !.docs = docs]
           = WithDocs(db, docs, chunks)
<1>1. [db EXCEPT !.chunks = chunks] = WithDocs(db, db.docs, chunks)
  BY DEF Database, WithDocs
<1>2. [db EXCEPT !.chunks = chunks, !.docs = docs]
        = [[db EXCEPT !.chunks = chunks] EXCEPT !.docs = docs]
  BY DEF Database
<1>3. [WithDocs(db, db.docs, chunks) EXCEPT !.docs = docs]
        = WithDocs(db, docs, chunks)
  BY DEF WithDocs
<1>4. QED
  BY <1>1, <1>2, <1>3

(* The chunks PostgreSQL has of memory's.                                  *)
StoredOf(chunks, docs) == {c \in chunks : c.copy = 0 /\ c.doc \in DOMAIN docs}

LEMMA DocsChange ==
  ASSUME NEW m, NEW p, NEW drawn, Agreeing(m, p, drawn),
         NEW docs, DrawnRows(docs, drawn),
         NEW chunks, Chunks(chunks, docs, drawn),
         NEW rows, rows = Live(docs, DOMAIN m.users)
  PROVE  Agreeing(WithDocs(m, docs, chunks),
                  WithDocs(p, rows, StoredOf(chunks, rows)), drawn)
<1> DEFINE n == WithDocs(m, docs, chunks)
           q == WithDocs(p, rows, StoredOf(chunks, rows))
<1>1. /\ Database(n) /\ n.users = m.users /\ n.tokens = m.tokens
      /\ n.channels = m.channels /\ n.jobs = m.jobs /\ n.results = m.results
      /\ n.steps = m.steps /\ n.searches = m.searches
      /\ n.docs = docs /\ n.chunks = chunks
  BY DEF Database, WithDocs
<1>2. /\ Database(q) /\ q.users = p.users /\ q.tokens = p.tokens
      /\ q.channels = p.channels /\ q.jobs = p.jobs /\ q.results = p.results
      /\ q.steps = p.steps /\ q.searches = p.searches
      /\ q.docs = rows /\ q.chunks = StoredOf(chunks, rows)
  BY DEF Database, WithDocs
<1> HIDE DEF n, q
<1>3. DocsAgree(n, q, drawn)
  BY <1>1, <1>2 DEF DocsAgree, StoredOf
<1>4. Agreeing(n, q, drawn)
  BY <1>1, <1>2, <1>3, KnowledgeChange
<1>5. QED
  BY <1>4 DEF n, q

LEMMA InsertDocAgrees ==
  ASSUME NEW m, NEW p, NEW drawn, Agreeing(m, p, drawn),
         NEW d, d \in drawn, d \notin DOMAIN m.docs,
         \A c \in m.chunks : c.doc # d,
         NEW r, "user" \in DOMAIN r, r.user \in drawn
  PROVE  /\ Agreeing(MemInsertDoc(m, d, r).db, PgInsertDoc(p, d, r).db, drawn)
         /\ r.user \in DOMAIN m.users
              => Alike(MemInsertDoc(m, d, r), PgInsertDoc(p, d, r))
<1> DEFINE docs == Put(m.docs, d, r)
           rows == Live(docs, DOMAIN m.users)
<1>1. /\ p.users = m.users /\ DocsAgree(m, p, drawn)
      /\ Database(m) /\ Database(p)
  BY DEF Agreeing, UsersAgree
<1>2. /\ DOMAIN docs = DOMAIN m.docs \cup {d}
      /\ \A x \in DOMAIN docs : docs[x] = IF x = d THEN r ELSE m.docs[x]
  BY DEF Put
<1>3. MemInsertDoc(m, d, r) = Done(WithDocs(m, docs, m.chunks))
  <2>1. MemInsertDoc(m, d, r) = Done([m EXCEPT !.docs = docs])
    BY DEF MemInsertDoc
  <2> HIDE DEF docs
  <2>2. QED
    BY <1>1, <2>1, WithDocsIs
<1>4. DOMAIN rows \ {d} = DOMAIN p.docs
  BY <1>1, <1>2 DEF Live, DocsAgree
<1> HIDE DEF docs, rows
<1>5. DrawnRows(docs, drawn)
  BY <1>1, <1>2 DEF DocsAgree, DrawnRows
<1>6. Chunks(m.chunks, docs, drawn)
  BY <1>1, <1>2 DEF DocsAgree, Chunks
<1>7. StoredOf(m.chunks, rows) = p.chunks
  BY <1>1, <1>4 DEF DocsAgree, StoredOf
<1>8. Agreeing(WithDocs(m, docs, m.chunks), WithDocs(p, rows, p.chunks), drawn)
  BY <1>5, <1>6, <1>7, DocsChange DEF rows
<1>9. CASE r.user \in DOMAIN m.users
  <2>1. rows = Put(p.docs, d, r)
    BY <1>1, <1>9, LivePut DEF DocsAgree, rows, docs
  <2>2. PgInsertDoc(p, d, r) = Done([p EXCEPT !.docs = rows])
    BY <1>1, <1>9, <2>1 DEF PgInsertDoc
  <2>3. PgInsertDoc(p, d, r) = Done(WithDocs(p, rows, p.chunks))
    BY <1>1, <2>2, WithDocsIs
  <2>4. QED
    BY <1>3, <1>8, <2>3, DoneAlike
<1>10. CASE r.user \notin DOMAIN m.users
  <2>1. d \notin DOMAIN Live(m.docs, DOMAIN m.users)
    BY DEF Live
  <2>2. rows = p.docs
    BY <1>1, <1>10, <2>1, DeadPut DEF DocsAgree, rows, docs
  <2>3. PgInsertDoc(p, d, r).db = p
    BY <1>1, <1>10 DEF PgInsertDoc, Refused
  <2>4. MemInsertDoc(m, d, r).db = WithDocs(m, docs, m.chunks)
    BY <1>3 DEF Done, Did
  <2>5. WithDocs(p, p.docs, p.chunks) = p
    BY <1>1, WithDocsIs
  <2>6. QED
    BY <1>8, <1>10, <2>2, <2>3, <2>4, <2>5
<1>11. QED
  BY <1>9, <1>10

(* A document's status changes, and nothing else of it.                    *)
StatusSet(s, t, d, status) == s = [t EXCEPT ![d].status = status]

StatusKept(s, t, d, status, users) ==
  /\ DOMAIN s = DOMAIN t
  /\ \A x \in DOMAIN t : s[x].user = t[x].user
  /\ \A x \in DOMAIN t : "user" \in DOMAIN t[x]
                           => "user" \in DOMAIN s[x]
  /\ Live(s, users)
       = IF d \in DOMAIN Live(t, users)
         THEN [Live(t, users) EXCEPT ![d].status = status]
         ELSE Live(t, users)

LEMMA StatusIs ==
  ASSUME NEW t, NEW d \in DOMAIN t, NEW status, NEW users,
         "user" \in DOMAIN t[d],
         NEW s, StatusSet(s, t, d, status)
  PROVE  StatusKept(s, t, d, status, users)
<1> DEFINE r == [t[d] EXCEPT !.status = status]
           live == Live(t, users)
<1>1. r.user = t[d].user /\ "user" \in DOMAIN r
  OBVIOUS
<1>2. s = [t EXCEPT ![d] = r]
  BY DEF StatusSet
<1>3. s = Put(t, d, r)
  <2> HIDE DEF r
  <2>1. [t EXCEPT ![d] = r] = Put(t, d, r)
    BY ExceptIsPut
  <2>2. QED
    BY <1>2, <2>1
<1>4. /\ DOMAIN live = {y \in DOMAIN t : t[y].user \in users}
      /\ \A x \in DOMAIN live : live[x] = t[x]
  BY LiveIs
<1> HIDE DEF live
<1>5. ASSUME d \in DOMAIN live
      PROVE  [live EXCEPT ![d].status = status] = Put(live, d, r)
  <2>1. [live EXCEPT ![d].status = status] = [live EXCEPT ![d] = r]
    BY <1>4, <1>5
  <2>2. QED
    BY <1>5, <2>1, ExceptIsPut
<1> HIDE DEF r
<1>6. /\ DOMAIN s = DOMAIN t
      /\ \A x \in DOMAIN t : s[x] = IF x = d THEN r ELSE t[x]
  BY <1>2
<1>7. CASE d \in DOMAIN live
  <2>1. r.user \in users
    BY <1>1, <1>4, <1>7
  <2>2. Live(Put(t, d, r), users) = Put(Live(t, users), d, r)
    BY <2>1, LivePut
  <2>3. Live(s, users) = Put(live, d, r)
    BY <1>3, <2>2 DEF live
  <2>4. QED
    BY <1>1, <1>5, <1>6, <1>7, <2>3 DEF live, StatusKept
<1>8. CASE d \notin DOMAIN live
  <2>1. r.user \notin users /\ d \notin DOMAIN Live(t, users)
    BY <1>1, <1>4, <1>8 DEF live
  <2>2. Live(Put(t, d, r), users) = Live(t, users)
    BY <2>1, DeadPut
  <2>3. Live(s, users) = live
    BY <1>3, <2>2 DEF live
  <2>4. QED
    BY <1>1, <1>6, <1>8, <2>3 DEF live, StatusKept
<1>9. QED
  BY <1>7, <1>8

(* The documents keep their accounts, and the chunks are enough.           *)
LEMMA StatusChanges ==
  ASSUME NEW m, NEW p, NEW drawn, Agreeing(m, p, drawn),
         NEW d, NEW status, NEW docs,
         docs = [m.docs EXCEPT ![d].status = status],
         d \in DOMAIN m.docs
  PROVE  /\ DrawnRows(docs, drawn) /\ DOMAIN docs = DOMAIN m.docs
         /\ \A x \in DOMAIN docs : docs[x].user = m.docs[x].user
         /\ Chunks(m.chunks, docs, drawn)
         /\ Live(docs, DOMAIN m.users)
              = IF d \in DOMAIN p.docs
                THEN [p.docs EXCEPT ![d].status = status] ELSE p.docs
         /\ DOMAIN Live(docs, DOMAIN m.users) = DOMAIN p.docs
<1>1. /\ DrawnRows(m.docs, drawn) /\ Chunks(m.chunks, m.docs, drawn)
      /\ p.docs = Live(m.docs, DOMAIN m.users)
  BY DEF Agreeing, DocsAgree
<1>2. "user" \in DOMAIN m.docs[d]
  BY <1>1 DEF DrawnRows
<1>3. /\ DOMAIN docs = DOMAIN m.docs
      /\ \A x \in DOMAIN m.docs : docs[x].user = m.docs[x].user
      /\ \A x \in DOMAIN m.docs : "user" \in DOMAIN m.docs[x]
                                    => "user" \in DOMAIN docs[x]
      /\ Live(docs, DOMAIN m.users)
           = IF d \in DOMAIN Live(m.docs, DOMAIN m.users)
             THEN [Live(m.docs, DOMAIN m.users) EXCEPT ![d].status = status]
             ELSE Live(m.docs, DOMAIN m.users)
  <2>1. StatusSet(docs, m.docs, d, status)
    BY DEF StatusSet
  <2>2. QED
    <3>1. StatusKept(docs, m.docs, d, status, DOMAIN m.users)
      BY <1>2, <2>1, StatusIs
    <3>2. QED
      BY <3>1 DEF StatusKept
<1>4. DrawnRows(docs, drawn)
  BY <1>1, <1>3 DEF DrawnRows
<1>5. Chunks(m.chunks, docs, drawn)
  BY <1>1, <1>3 DEF Chunks
<1>6. QED
  BY <1>1, <1>3, <1>4, <1>5

LEMMA MarkFailedAgrees ==
  ASSUME NEW m, NEW p, NEW drawn, Agreeing(m, p, drawn), NEW d,
         d \in DOMAIN m.docs
  PROVE  /\ Agreeing(MemMarkFailed(m, d).db, PgMarkFailed(p, d).db, drawn)
         /\ Alike(MemMarkFailed(m, d), PgMarkFailed(p, d))
<1> DEFINE docs == [m.docs EXCEPT ![d].status = "failed"]
           rows == Live(docs, DOMAIN m.users)
<1>1. /\ DocsAgree(m, p, drawn) /\ Database(m) /\ Database(p)
  BY DEF Agreeing
<1>2. MemMarkFailed(m, d) = Done([m EXCEPT !.docs = docs])
  BY DEF MemMarkFailed
<1>3. /\ DrawnRows(docs, drawn) /\ Chunks(m.chunks, docs, drawn)
      /\ rows = IF d \in DOMAIN p.docs
                THEN [p.docs EXCEPT ![d].status = "failed"] ELSE p.docs
      /\ DOMAIN rows = DOMAIN p.docs
  BY StatusChanges
<1>4. PgMarkFailed(p, d)
        = Done(IF d \in DOMAIN p.docs THEN [p EXCEPT !.docs = rows] ELSE p)
  BY <1>3 DEF PgMarkFailed
<1> HIDE DEF docs
<1>5. Agreeing(WithDocs(m, docs, m.chunks),
               WithDocs(p, rows, StoredOf(m.chunks, rows)), drawn)
  BY <1>3, DocsChange
<1> HIDE DEF rows
<1>6. StoredOf(m.chunks, rows) = p.chunks
  BY <1>1, <1>3 DEF DocsAgree, StoredOf
<1>7. MemMarkFailed(m, d) = Done(WithDocs(m, docs, m.chunks))
  BY <1>1, <1>2, WithDocsIs
<1>8. PgMarkFailed(p, d) = Done(WithDocs(p, rows, p.chunks))
  BY <1>1, <1>3, <1>4, WithDocsIs
<1>9. QED
  BY <1>5, <1>6, <1>7, <1>8, DoneAlike

(* What a document's chunks are numbered with.                             *)
Copies(chunks, d) == {c.copy : c \in {x \in chunks : x.doc = d}}

LEMMA CopiesCounted ==
  ASSUME NEW chunks, IsFiniteSet(chunks), NEW d
  PROVE  /\ Cardinality(Copies(chunks, d)) \in Nat
         /\ Cardinality(Copies(chunks, d)) = 0
              <=> \A c \in chunks : c.doc # d
<1> DEFINE X == {x \in chunks : x.doc = d}
           f == [c \in X |-> c.copy]
<1>1. IsFiniteSet(X)
  BY FS_Subset
<1>2. f \in Surjection(X, Copies(chunks, d))
  BY DEF Surjection, Copies
<1>3. IsFiniteSet(Copies(chunks, d))
  BY <1>1, <1>2, FS_Surjection
<1>4. /\ Cardinality(Copies(chunks, d)) \in Nat
      /\ Cardinality(Copies(chunks, d)) = 0 <=> Copies(chunks, d) = {}
  BY <1>3, FS_CardinalityType, FS_EmptySet
<1>5. Copies(chunks, d) = {} <=> \A c \in chunks : c.doc # d
  BY DEF Copies
<1>6. QED
  BY <1>4, <1>5

LEMMA OneChunk ==
  ASSUME NEW d, NEW u, NEW copy
  PROVE  ChunksOf(d, u, copy, {d})
           = {[doc |-> d, user |-> u, copy |-> copy, score |-> d]}
BY DEF ChunksOf

(* The chunks of a document that is stored, again or not.                  *)
LEMMA StoreChunksAgrees ==
  ASSUME NEW m, NEW p, NEW drawn, Agreeing(m, p, drawn), NEW d, NEW u,
         d \in DOMAIN m.docs, u = m.docs[d].user
  PROVE  /\ Agreeing(MemStoreChunks(m, d, u, {d}).db,
                     PgStoreChunks(p, d, u, {d}).db, drawn)
         /\ u \in DOMAIN m.users
              => Alike(MemStoreChunks(m, d, u, {d}), PgStoreChunks(p, d, u, {d}))
<1> DEFINE docs == [m.docs EXCEPT ![d].status = "ready"]
           rows == Live(docs, DOMAIN m.users)
           k == Cardinality(Copies(m.chunks, d))
           new == [doc |-> d, user |-> u, copy |-> k, score |-> d]
           chunks == m.chunks \cup {new}
           first == [doc |-> d, user |-> u, copy |-> 0, score |-> d]
<1>1. /\ DocsAgree(m, p, drawn) /\ Database(m) /\ Database(p)
      /\ d \in drawn
  BY DEF Agreeing, DocsAgree, DrawnRows
<1>2. IsFiniteSet(m.chunks) /\ Chunks(m.chunks, m.docs, drawn)
  BY <1>1 DEF DocsAgree, Chunks
<1>3. k \in Nat /\ (k = 0 <=> \A c \in m.chunks : c.doc # d)
  BY <1>2, CopiesCounted
<1>4. MemStoreChunks(m, d, u, {d})
        = Done([m EXCEPT !.chunks = chunks, !.docs = docs])
  BY OneChunk DEF MemStoreChunks, SetReady, Copies
<1>5. /\ DrawnRows(docs, drawn) /\ Chunks(m.chunks, docs, drawn)
      /\ DOMAIN docs = DOMAIN m.docs
      /\ \A x \in DOMAIN docs : docs[x].user = m.docs[x].user
      /\ rows = IF d \in DOMAIN p.docs
                THEN [p.docs EXCEPT ![d].status = "ready"] ELSE p.docs
      /\ DOMAIN rows = DOMAIN p.docs
  BY StatusChanges
<1> HIDE DEF docs, k
<1>6. /\ new.doc = d /\ new.user = u /\ new.copy = k /\ new.score = d
      /\ new = [doc |-> new.doc, user |-> new.user, copy |-> new.copy,
                score |-> new.score]
  OBVIOUS
<1>7. new = first \/ first \in m.chunks
  <2>1. CASE k = 0
    BY <2>1
  <2>2. CASE k # 0
    <3>1. PICK c \in m.chunks : c.doc = d
      BY <1>3, <2>2
    <3>2. PICK b \in m.chunks : b.doc = d /\ b.copy = 0
      BY <1>2, <3>1 DEF Chunks
    <3>3. b = [doc |-> b.doc, user |-> b.user, copy |-> b.copy,
               score |-> b.score] /\ b.user = u /\ b.score = d
      BY <1>2, <3>2 DEF Chunks
    <3>4. b = first
      BY <3>2, <3>3
    <3>5. QED
      BY <3>2, <3>4
  <2>3. QED
    BY <2>1, <2>2
<1>8. first.doc = d /\ first.copy = 0
  OBVIOUS
<1>9. first \in chunks
  BY <1>7
<1> HIDE DEF new, first
<1>10. Chunks(chunks, docs, drawn)
  <2>1. IsFiniteSet(chunks)
    BY <1>2, FS_AddElement
  <2>2. \A c \in m.chunks :
          /\ c = [doc |-> c.doc, user |-> c.user, copy |-> c.copy,
                  score |-> c.score]
          /\ c.doc \in drawn /\ c.copy \in Nat
          /\ c.doc \in DOMAIN docs =>
               /\ c.user = docs[c.doc].user /\ c.score = c.doc
               /\ \E b \in m.chunks : b.doc = c.doc /\ b.copy = 0
    BY <1>5 DEF Chunks
  <2>3. docs[d].user = u
    BY <1>5
  <2>4. \E b \in chunks : b.doc = d /\ b.copy = 0
    BY <1>8, <1>9
  <2>5. /\ new.doc \in drawn /\ new.copy \in Nat
        /\ new.user = docs[new.doc].user /\ new.score = new.doc
        /\ \E b \in chunks : b.doc = new.doc /\ b.copy = 0
    BY <1>1, <1>3, <1>6, <2>3, <2>4
  <2>6. QED
    BY <1>6, <2>1, <2>2, <2>5 DEF Chunks
<1>11. Agreeing(WithDocs(m, docs, chunks),
                WithDocs(p, rows, StoredOf(chunks, rows)), drawn)
  BY <1>5, <1>10, DocsChange
<1>12. MemStoreChunks(m, d, u, {d}) = Done(WithDocs(m, docs, chunks))
  <2> HIDE DEF chunks
  <2>1. [m EXCEPT !.chunks = chunks, !.docs = docs] = WithDocs(m, docs, chunks)
    BY <1>1, ChunksThenDocs, Zenon
  <2>2. QED
    BY <1>4, <2>1
<1> HIDE DEF rows
<1>13. CASE d \in DOMAIN p.docs
  <2> DEFINE stored == {c \in p.chunks : c.doc # d} \cup {first}
  <2>1. PgStoreChunks(p, d, u, {d})
          = Done([p EXCEPT !.chunks = stored, !.docs = rows])
    <3>1. SetReady(p.docs, d) = rows
      BY <1>5, <1>13 DEF SetReady
    <3>2. ChunksOf(d, u, 0, {d}) = {first}
      BY OneChunk DEF first
    <3>3. QED
      BY <1>13, <3>1, <3>2 DEF PgStoreChunks
  <2>2. ASSUME NEW c \in m.chunks, c.doc = d, c.copy = 0
        PROVE  c = first
    <3>1. /\ c = [doc |-> c.doc, user |-> c.user, copy |-> c.copy,
                  score |-> c.score]
          /\ c.user = u /\ c.score = d
      BY <1>2, <2>2 DEF Chunks
    <3>2. QED
      BY <2>2, <3>1 DEF first
  <2>3. k = 0 => new = first
    BY DEF new, first
  <2>4. StoredOf(chunks, rows) \subseteq stored
    BY <1>1, <1>5, <1>6, <2>2, <2>3 DEF StoredOf, DocsAgree
  <2>5. stored \subseteq StoredOf(chunks, rows)
    BY <1>1, <1>5, <1>8, <1>9, <1>13 DEF StoredOf, DocsAgree
  <2>6. stored = StoredOf(chunks, rows)
    BY <2>4, <2>5
  <2> HIDE DEF stored
  <2>7. PgStoreChunks(p, d, u, {d})
          = Done(WithDocs(p, rows, StoredOf(chunks, rows)))
    <3>1. [p EXCEPT !.chunks = stored, !.docs = rows] = WithDocs(p, rows, stored)
      BY <1>1, ChunksThenDocs, Zenon
    <3>2. QED
      BY <2>1, <2>6, <3>1
  <2>8. QED
    BY <1>11, <1>12, <2>7, DoneAlike
<1>14. CASE d \notin DOMAIN p.docs
  <2>1. PgStoreChunks(p, d, u, {d}).db = p
    BY <1>14 DEF PgStoreChunks, Refused
  <2>2. u \notin DOMAIN m.users
    BY <1>1, <1>14 DEF DocsAgree, Live
  <2>3. rows = p.docs
    BY <1>5, <1>14
  <2>4. StoredOf(chunks, rows) = p.chunks
    BY <1>1, <1>6, <1>14, <2>3 DEF StoredOf, DocsAgree
  <2>5. WithDocs(p, p.docs, p.chunks) = p
    BY <1>1, WithDocsIs
  <2>6. MemStoreChunks(m, d, u, {d}).db = WithDocs(m, docs, chunks)
    BY <1>12 DEF Done, Did
  <2>7. QED
    BY <1>11, <2>1, <2>2, <2>3, <2>4, <2>5, <2>6
<1>15. QED
  BY <1>13, <1>14

(* The document was deleted between find and store_chunks.                 *)
LEMMA LateChunksAgree ==
  ASSUME NEW m, NEW p, NEW drawn, Agreeing(m, p, drawn), NEW d, NEW u,
         d \in drawn, d \notin DOMAIN m.docs, \A c \in m.chunks : c.doc # d
  PROVE  Agreeing(MemStoreChunks(m, d, u, {d}).db,
                  PgStoreChunks(p, d, u, {d}).db, drawn)
<1> DEFINE k == Cardinality(Copies(m.chunks, d))
           new == [doc |-> d, user |-> u, copy |-> k, score |-> d]
           chunks == m.chunks \cup {new}
<1>1. /\ DocsAgree(m, p, drawn) /\ Database(m) /\ Database(p)
      /\ IsFiniteSet(m.chunks) /\ Chunks(m.chunks, m.docs, drawn)
  BY DEF Agreeing, DocsAgree, Chunks
<1>2. k \in Nat
  BY <1>1, CopiesCounted
<1>3. MemStoreChunks(m, d, u, {d})
        = Done([m EXCEPT !.chunks = chunks, !.docs = m.docs])
  BY OneChunk DEF MemStoreChunks, SetReady, Copies
<1> HIDE DEF k
<1>4. /\ new.doc = d /\ new.copy = k
      /\ new = [doc |-> new.doc, user |-> new.user, copy |-> new.copy,
                score |-> new.score]
  OBVIOUS
<1> HIDE DEF new
<1>5. IsFiniteSet(chunks)
  BY <1>1, FS_AddElement
<1>6. Chunks(chunks, m.docs, drawn)
  BY <1>1, <1>2, <1>4, <1>5 DEF Chunks
<1>7. d \notin DOMAIN p.docs /\ p.docs = Live(m.docs, DOMAIN m.users)
  BY <1>1 DEF DocsAgree, Live
<1>8. StoredOf(chunks, p.docs) = p.chunks
  BY <1>1, <1>4, <1>7 DEF StoredOf, DocsAgree
<1> HIDE DEF chunks
<1>9. DrawnRows(m.docs, drawn)
  BY <1>1 DEF DocsAgree
<1>10. Agreeing(WithDocs(m, m.docs, chunks),
                WithDocs(p, p.docs, StoredOf(chunks, p.docs)), drawn)
  BY <1>6, <1>7, <1>9, DocsChange
<1>11. WithDocs(p, p.docs, p.chunks) = p
  BY <1>1, WithDocsIs
<1>12. [m EXCEPT !.chunks = chunks, !.docs = m.docs] = WithDocs(m, m.docs, chunks)
  BY <1>1, ChunksThenDocs, Zenon
<1>13. MemStoreChunks(m, d, u, {d}).db = WithDocs(m, m.docs, chunks)
  BY <1>3, <1>12 DEF Done, Did
<1>14. PgStoreChunks(p, d, u, {d}).db = p
  BY <1>7 DEF PgStoreChunks, Refused
<1>15. QED
  BY <1>8, <1>10, <1>11, <1>13, <1>14

(* Documents go, with their chunks.                                        *)
LEMMA DropDocsIs ==
  ASSUME NEW db, Database(db), NEW gone
  PROVE  DropDocs(db, gone)
           = WithDocs(db, Without(db.docs, gone),
                      {c \in db.chunks : c.doc \notin gone})
<1> DEFINE docs == Without(db.docs, gone)
           chunks == {c \in db.chunks : c.doc \notin gone}
<1>1. DropDocs(db, gone) = [db EXCEPT !.docs = docs, !.chunks = chunks]
  BY DEF DropDocs
<1> HIDE DEF docs, chunks
<1>2. DropDocs(db, gone) = WithDocs(db, docs, chunks)
  <2>1. [db EXCEPT !.docs = docs, !.chunks = chunks] = WithDocs(db, docs, chunks)
    BY DocsThenChunks, Zenon
  <2>2. QED
    BY <1>1, <2>1
<1>3. QED
  BY <1>2 DEF docs, chunks

LEMMA DocsWithout ==
  ASSUME NEW m, NEW p, NEW drawn, Agreeing(m, p, drawn), NEW gone, NEW lost,
         \A d \in DOMAIN p.docs : d \in gone <=> d \in lost,
         NEW chunks, chunks \subseteq m.chunks,
         \A c \in m.chunks : c.doc \in DOMAIN m.docs \ gone => c \in chunks
  PROVE  Agreeing(WithDocs(m, Without(m.docs, gone), chunks),
                  DropDocs(p, lost), drawn)
<1> DEFINE docs == Without(m.docs, gone)
           rows == Without(p.docs, lost)
<1>1. /\ DocsAgree(m, p, drawn) /\ Database(p)
      /\ IsFiniteSet(m.chunks) /\ Chunks(m.chunks, m.docs, drawn)
  BY DEF Agreeing, DocsAgree, Chunks
<1>2. /\ DOMAIN docs = DOMAIN m.docs \ gone
      /\ \A x \in DOMAIN docs : docs[x] = m.docs[x]
      /\ DOMAIN rows = DOMAIN p.docs \ lost
  BY DEF Without
<1>3. rows = Live(docs, DOMAIN m.users)
  BY <1>1 DEF DocsAgree, Live, Without
<1> HIDE DEF docs, rows
<1>4. DrawnRows(docs, drawn)
  BY <1>1, <1>2 DEF DocsAgree, DrawnRows
<1>5. Chunks(chunks, docs, drawn)
  <2>1. IsFiniteSet(chunks)
    BY <1>1, FS_Subset
  <2>2. ASSUME NEW c \in chunks
        PROVE  /\ c = [doc |-> c.doc, user |-> c.user, copy |-> c.copy,
                       score |-> c.score]
               /\ c.doc \in drawn /\ c.copy \in Nat
               /\ c.doc \in DOMAIN docs =>
                    /\ c.user = docs[c.doc].user /\ c.score = c.doc
                    /\ \E b \in chunks : b.doc = c.doc /\ b.copy = 0
    BY <1>1, <1>2, <2>2 DEF Chunks
  <2>3. QED
    BY <2>1, <2>2 DEF Chunks
<1>6. StoredOf(chunks, rows) = {c \in p.chunks : c.doc \notin lost}
  <2>1. DOMAIN p.docs \subseteq DOMAIN m.docs
    BY <1>1 DEF DocsAgree, Live
  <2>2. p.chunks = {c \in m.chunks : c.copy = 0 /\ c.doc \in DOMAIN p.docs}
    BY <1>1 DEF DocsAgree
  <2>3. QED
    BY <1>2, <2>1, <2>2 DEF StoredOf
<1>7. Agreeing(WithDocs(m, docs, chunks),
               WithDocs(p, rows, StoredOf(chunks, rows)), drawn)
  BY <1>3, <1>4, <1>5, DocsChange
<1>8. DropDocs(p, lost) = WithDocs(p, rows, {c \in p.chunks : c.doc \notin lost})
  BY <1>1, DropDocsIs DEF rows
<1>9. QED
  BY <1>6, <1>7, <1>8 DEF docs

LEMMA DeleteDocAgrees ==
  ASSUME NEW m, NEW p, NEW drawn, Agreeing(m, p, drawn), NEW u, NEW d
  PROVE  /\ Agreeing(MemDeleteDoc(m, u, d).db, PgDeleteDoc(p, u, d).db, drawn)
         /\ u \in DOMAIN m.users
              => Alike(MemDeleteDoc(m, u, d), PgDeleteDoc(p, u, d))
<1> DEFINE lost == {d} \cap Of(p.docs, u)
           q == DropDocs(p, lost)
<1>1. /\ DocsAgree(m, p, drawn) /\ Database(m) /\ Database(p)
      /\ p.docs = Live(m.docs, DOMAIN m.users)
  BY DEF Agreeing, DocsAgree
<1>2. PgDeleteDoc(p, u, d) = Did(q, IsOwn(p.docs, u, d))
  BY DEF PgDeleteDoc
<1>3. CASE IsOwn(m.docs, u, d)
  <2> DEFINE n == DropDocs(m, {d})
             chunks == {c \in m.chunks : c.doc \notin {d}}
  <2>1. MemDeleteDoc(m, u, d) = Did(n, TRUE)
    BY <1>3 DEF MemDeleteDoc
  <2>2. \A x \in DOMAIN p.docs : x \in {d} <=> x \in lost
    BY <1>1, <1>3 DEF Of, Live, IsOwn
  <2>3. Agreeing(WithDocs(m, Without(m.docs, {d}), chunks), q, drawn)
    <3> HIDE DEF lost
    <3>1. /\ chunks \subseteq m.chunks
          /\ \A c \in m.chunks : c.doc \in DOMAIN m.docs \ {d} => c \in chunks
      OBVIOUS
    <3> HIDE DEF chunks
    <3>2. QED
      BY <2>2, <3>1, DocsWithout
  <2>4. n = WithDocs(m, Without(m.docs, {d}), chunks)
    BY <1>1, DropDocsIs
  <2> HIDE DEF n, q, chunks
  <2>5. MemDeleteDoc(m, u, d).db = n /\ PgDeleteDoc(p, u, d).db = q
    BY <1>2, <2>1 DEF Did
  <2>6. ASSUME u \in DOMAIN m.users
        PROVE  Alike(MemDeleteDoc(m, u, d), PgDeleteDoc(p, u, d))
    <3>1. IsOwn(p.docs, u, d) = TRUE
      BY <1>1, <1>3, <2>6 DEF IsOwn, Of, Live
    <3>2. PgDeleteDoc(p, u, d) = Did(q, TRUE)
      BY <1>2, <3>1, Zenon
    <3>3. Alike(Did(n, TRUE), Did(q, TRUE))
      BY DEF Alike, Did
    <3>4. QED
      BY <2>1, <3>2, <3>3
  <2>7. QED
    BY <2>3, <2>4, <2>5, <2>6
<1>4. CASE ~IsOwn(m.docs, u, d)
  <2>1. MemDeleteDoc(m, u, d) = Did(m, FALSE)
    BY <1>4 DEF MemDeleteDoc
  <2>2. IsOwn(p.docs, u, d) = FALSE /\ lost = {}
    BY <1>1, <1>4 DEF IsOwn, Of, Live
  <2>3. Without(p.docs, {}) = p.docs
    BY <1>1 DEF Without, Live
  <2>4. {c \in p.chunks : c.doc \notin {}} = p.chunks
    OBVIOUS
  <2>5. q = WithDocs(p, p.docs, p.chunks)
    BY <1>1, <2>2, <2>3, <2>4, DropDocsIs
  <2>6. q = p
    BY <1>1, <2>5, WithDocsIs
  <2> HIDE DEF q
  <2>7. PgDeleteDoc(p, u, d) = Did(p, FALSE)
    BY <1>2, <2>2, <2>6, Zenon
  <2>8. QED
    BY <2>1, <2>7, DidAlike
<1>5. QED
  BY <1>3, <1>4

LEMMA DeleteDocsOfAgrees ==
  ASSUME NEW m, NEW p, NEW drawn, Agreeing(m, p, drawn), NEW u
  PROVE  Agreeing(MemDeleteDocsOf(m, u).db, PgDeleteDocsOf(p, u).db, drawn)
<1> DEFINE gone == Of(m.docs, u)
           lost == Of(p.docs, u)
           docs == Without(m.docs, gone)
           chunks == {c \in m.chunks : c.user # u}
<1>1. /\ DocsAgree(m, p, drawn) /\ Database(m) /\ Database(p)
      /\ p.docs = Live(m.docs, DOMAIN m.users)
      /\ Chunks(m.chunks, m.docs, drawn)
  BY DEF Agreeing, DocsAgree
<1>2. \A d \in DOMAIN p.docs : d \in gone <=> d \in lost
  BY <1>1 DEF Of, Live
<1>3. \A c \in m.chunks : c.doc \in DOMAIN m.docs \ gone => c \in chunks
  BY <1>1 DEF Chunks, Of
<1>4. chunks \subseteq m.chunks
  OBVIOUS
<1>5. MemDeleteDocsOf(m, u).db = [m EXCEPT !.docs = docs, !.chunks = chunks]
  BY DEF MemDeleteDocsOf, Did
<1>6. PgDeleteDocsOf(p, u).db = DropDocs(p, lost)
  BY DEF PgDeleteDocsOf, Did
<1> HIDE DEF chunks, lost, gone
<1>7. Agreeing(WithDocs(m, docs, chunks), DropDocs(p, lost), drawn)
  BY <1>2, <1>3, <1>4, DocsWithout
<1> HIDE DEF docs
<1>8. MemDeleteDocsOf(m, u).db = WithDocs(m, docs, chunks)
  <2>1. [m EXCEPT !.docs = docs, !.chunks = chunks] = WithDocs(m, docs, chunks)
    BY <1>1, DocsThenChunks, Zenon
  <2>2. QED
    BY <1>5, <2>1
<1>9. QED
  BY <1>6, <1>7, <1>8

-----------------------------------------------------------------------------
(* Accounts.                                                               *)

LEMMA UsersOnly ==
  ASSUME NEW db, Database(db), NEW users
  PROVE  LET n == [db EXCEPT !.users = users]
         IN  /\ Database(n) /\ n.users = users /\ n.tokens = db.tokens
             /\ n.channels = db.channels /\ n.jobs = db.jobs
             /\ n.results = db.results /\ n.steps = db.steps
             /\ n.searches = db.searches /\ n.docs = db.docs
             /\ n.chunks = db.chunks
BY DEF Database

LEMMA InsertUserAgrees ==
  ASSUME NEW m, NEW p, NEW drawn, Agreeing(m, p, drawn), NEW u, u \notin drawn,
         NEW email, PgFindByEmail(p, email) = {}
  PROVE  /\ Agreeing(MemInsertUser(m, u, email).db,
                     PgInsertUser(p, u, email).db, drawn \cup {u})
         /\ Alike(MemInsertUser(m, u, email), PgInsertUser(p, u, email))
<1> DEFINE users == Put(m.users, u, email)
           n == [m EXCEPT !.users = users]
           q == [p EXCEPT !.users = users]
<1>1. Database(m) /\ Database(p) /\ p.users = m.users
      /\ DOMAIN m.users \subseteq drawn
  BY DEF Agreeing, UsersAgree
<1>2. /\ MemInsertUser(m, u, email) = Done(n)
      /\ PgInsertUser(p, u, email) = Done(q)
  BY <1>1 DEF MemInsertUser, PgInsertUser, PgFindByEmail
<1>3. DOMAIN users = DOMAIN m.users \cup {u}
  BY DEF Put
<1>4. /\ Database(n) /\ n.users = users /\ n.tokens = m.tokens
      /\ n.channels = m.channels /\ n.jobs = m.jobs
      /\ n.results = m.results /\ n.steps = m.steps
      /\ n.searches = m.searches /\ n.docs = m.docs /\ n.chunks = m.chunks
  BY <1>1, UsersOnly
<1>5. /\ Database(q) /\ q.users = users /\ q.tokens = p.tokens
      /\ q.channels = p.channels /\ q.jobs = p.jobs
      /\ q.results = p.results /\ q.steps = p.steps
      /\ q.searches = p.searches /\ q.docs = p.docs /\ q.chunks = p.chunks
  BY <1>1, UsersOnly
<1> HIDE DEF n, q, users
<1>6. \A table : DrawnRows(table, drawn)
        => Live(table, DOMAIN m.users \cup {u}) = Live(table, DOMAIN m.users)
  BY LiveMore
<1>7. Agreeing(n, q, drawn \cup {u})
  <2>1. Agreeing(m, p, drawn \cup {u})
    BY MoreDrawn
  <2>2. /\ DrawnRows(m.tokens, drawn) /\ DrawnRows(m.channels, drawn)
        /\ DrawnRows(m.searches, drawn) /\ DrawnRows(m.jobs, drawn)
        /\ DrawnRows(m.docs, drawn)
    BY DEF Agreeing, TokensAgree, ChannelsAgree, SearchesAgree, JobsAgree,
           JobRows, DocsAgree
  <2>3. UsersAgree(n, q, drawn \cup {u})
    BY <1>1, <1>3, <1>4, <1>5 DEF UsersAgree
  <2>4. TokensAgree(n, q, drawn \cup {u})
    BY <1>3, <1>4, <1>5, <1>6, <2>1, <2>2 DEF Agreeing, TokensAgree
  <2>5. ChannelsAgree(n, q, drawn \cup {u})
    BY <1>3, <1>4, <1>5, <1>6, <2>1, <2>2 DEF Agreeing, ChannelsAgree
  <2>6. SearchesAgree(n, q, drawn \cup {u})
    BY <1>3, <1>4, <1>5, <1>6, <2>1, <2>2 DEF Agreeing, SearchesAgree
  <2>7. JobsAgree(n, q, drawn \cup {u})
    BY <1>3, <1>4, <1>5, <1>6, <2>1, <2>2 DEF Agreeing, JobsAgree
  <2>8. DocsAgree(n, q, drawn \cup {u})
    BY <1>3, <1>4, <1>5, <1>6, <2>1, <2>2 DEF Agreeing, DocsAgree
  <2>9. QED
    BY <1>4, <1>5, <2>3, <2>4, <2>5, <2>6, <2>7, <2>8 DEF Agreeing
<1>8. QED
  BY <1>2, <1>7, DoneAlike

Revised(q, db, users, tokens, channels, searches, events) ==
  q = [db EXCEPT !.users = users, !.tokens = tokens, !.channels = channels,
                 !.searches = searches, !.events = events]

LEMMA FiveTables ==
  ASSUME NEW db, Database(db), NEW users, NEW tokens, NEW channels,
         NEW searches, NEW events, NEW q,
         Revised(q, db, users, tokens, channels, searches, events)
  PROVE  q = [users |-> users, tokens |-> tokens, channels |-> channels,
              jobs |-> db.jobs, results |-> db.results, steps |-> db.steps,
              searches |-> searches, events |-> events, docs |-> db.docs,
              chunks |-> db.chunks]
<1> DEFINE a == [db EXCEPT !.users = users]
           b == [a EXCEPT !.tokens = tokens]
           c == [b EXCEPT !.channels = channels]
           d == [c EXCEPT !.searches = searches]
<1>1. q = [d EXCEPT !.events = events]
  BY DEF Database, Revised
<1>2. a = [users |-> users, tokens |-> db.tokens, channels |-> db.channels,
           jobs |-> db.jobs, results |-> db.results, steps |-> db.steps,
           searches |-> db.searches, events |-> db.events, docs |-> db.docs,
           chunks |-> db.chunks]
  BY DEF Database
<1> HIDE DEF a
<1>3. b = [users |-> users, tokens |-> tokens, channels |-> db.channels,
           jobs |-> db.jobs, results |-> db.results, steps |-> db.steps,
           searches |-> db.searches, events |-> db.events, docs |-> db.docs,
           chunks |-> db.chunks]
  BY <1>2
<1> HIDE DEF b
<1>4. c = [users |-> users, tokens |-> tokens, channels |-> channels,
           jobs |-> db.jobs, results |-> db.results, steps |-> db.steps,
           searches |-> db.searches, events |-> db.events, docs |-> db.docs,
           chunks |-> db.chunks]
  BY <1>3
<1> HIDE DEF c
<1>5. d = [users |-> users, tokens |-> tokens, channels |-> channels,
           jobs |-> db.jobs, results |-> db.results, steps |-> db.steps,
           searches |-> searches, events |-> db.events, docs |-> db.docs,
           chunks |-> db.chunks]
  BY <1>4
<1> HIDE DEF d
<1>6. QED
  BY <1>1, <1>5

(* PostgreSQL's cascade, table by table.                                   *)
Cascaded(q, db, u) ==
  /\ Database(q) /\ q.users = Without(db.users, {u})
  /\ q.tokens = Without(db.tokens, Of(db.tokens, u))
  /\ q.channels = Without(db.channels, Of(db.channels, u))
  /\ q.jobs = Without(db.jobs, Of(db.jobs, u))
  /\ q.results = Without(db.results, Of(db.jobs, u))
  /\ q.steps = Without(db.steps, Of(db.jobs, u))
  /\ q.searches = Without(db.searches, Of(db.searches, u))
  /\ q.docs = Without(db.docs, Of(db.docs, u))
  /\ q.chunks = {c \in db.chunks : c.doc \notin Of(db.docs, u)}

LEMMA CascadeIs ==
  ASSUME NEW db, Database(db), NEW u
  PROVE  Cascaded(PgDeleteUser(db, u).db, db, u)
<1> DEFINE r == DropJobs(db, Of(db.jobs, u))
           rest == DropDocs(r, Of(db.docs, u))
           chunks == {c \in db.chunks : c.doc \notin Of(db.docs, u)}
           docs == Without(db.docs, Of(db.docs, u))
<1>1. /\ Database(r) /\ r.users = db.users /\ r.tokens = db.tokens
      /\ r.channels = db.channels
      /\ r.jobs = Without(db.jobs, Of(db.jobs, u))
      /\ r.results = Without(db.results, Of(db.jobs, u))
      /\ r.steps = Without(db.steps, Of(db.jobs, u))
      /\ r.searches = db.searches /\ r.docs = db.docs /\ r.chunks = db.chunks
  BY DroppedJobs
<1>2. PICK events :
        PgDeleteUser(db, u).db
          = [rest EXCEPT !.users = Without(@, {u}),
                         !.tokens = Without(@, Of(@, u)),
                         !.channels = Without(@, Of(@, u)),
                         !.searches = Without(@, Of(@, u)),
                         !.events = events]
  BY DEF PgDeleteUser, Done, Did
<1> HIDE DEF r
<1>3. rest = WithDocs(r, docs, chunks)
  BY <1>1, DropDocsIs
<1> HIDE DEF docs, chunks
<1>4. /\ Database(rest) /\ rest.users = db.users /\ rest.tokens = db.tokens
      /\ rest.channels = db.channels /\ rest.jobs = r.jobs
      /\ rest.results = r.results /\ rest.steps = r.steps
      /\ rest.searches = db.searches /\ rest.docs = docs
      /\ rest.chunks = chunks
  BY <1>1, <1>3 DEF Database, WithDocs
<1> HIDE DEF rest
<1>5. PgDeleteUser(db, u).db
        = [users |-> Without(db.users, {u}),
           tokens |-> Without(db.tokens, Of(db.tokens, u)),
           channels |-> Without(db.channels, Of(db.channels, u)),
           jobs |-> rest.jobs, results |-> rest.results, steps |-> rest.steps,
           searches |-> Without(db.searches, Of(db.searches, u)),
           events |-> events, docs |-> docs, chunks |-> chunks]
  <2> DEFINE users == Without(db.users, {u})
             tokens == Without(db.tokens, Of(db.tokens, u))
             channels == Without(db.channels, Of(db.channels, u))
             searches == Without(db.searches, Of(db.searches, u))
  <2>1. PgDeleteUser(db, u).db
          = [rest EXCEPT !.users = users, !.tokens = tokens,
                         !.channels = channels, !.searches = searches,
                         !.events = events]
    BY <1>2, <1>4
  <2> HIDE DEF users, tokens, channels, searches
  <2>2. PgDeleteUser(db, u).db
          = [users |-> users, tokens |-> tokens, channels |-> channels,
             jobs |-> rest.jobs, results |-> rest.results,
             steps |-> rest.steps, searches |-> searches, events |-> events,
             docs |-> rest.docs, chunks |-> rest.chunks]
    <3>1. Database(rest)
      BY <1>4
    <3>2. Revised(PgDeleteUser(db, u).db, rest, users, tokens, channels,
                  searches, events)
      BY <2>1 DEF Revised
    <3>3. QED
      BY <3>1, <3>2, FiveTables
  <2>3. QED
    BY <1>4, <2>2 DEF users, tokens, channels, searches
<1>6. QED
  BY <1>1, <1>4, <1>5 DEF Database, docs, chunks, Cascaded

LEMMA DeleteUserAgrees ==
  ASSUME NEW m, NEW p, NEW drawn, Agreeing(m, p, drawn), NEW u
  PROVE  Agreeing(MemDeleteUser(m, u).db, PgDeleteUser(p, u).db, drawn)
<1> DEFINE users == Without(m.users, {u})
           n == [m EXCEPT !.users = users]
           q == PgDeleteUser(p, u).db
<1>1. /\ Database(m) /\ Database(p) /\ p.users = m.users
      /\ DOMAIN m.users \subseteq drawn
      /\ TokensAgree(m, p, drawn) /\ ChannelsAgree(m, p, drawn)
      /\ SearchesAgree(m, p, drawn) /\ JobsAgree(m, p, drawn)
      /\ DocsAgree(m, p, drawn)
  BY DEF Agreeing, UsersAgree
<1>2. MemDeleteUser(m, u).db = n
  BY DEF MemDeleteUser, Done, Did
<1>3. DOMAIN users = DOMAIN m.users \ {u}
  BY DEF Without
<1>4. /\ Database(n) /\ n.users = users /\ n.tokens = m.tokens
      /\ n.channels = m.channels /\ n.jobs = m.jobs
      /\ n.results = m.results /\ n.steps = m.steps
      /\ n.searches = m.searches /\ n.docs = m.docs /\ n.chunks = m.chunks
  BY <1>1, UsersOnly
<1>5. /\ Database(q) /\ q.users = users
      /\ q.tokens = Without(p.tokens, Of(p.tokens, u))
      /\ q.channels = Without(p.channels, Of(p.channels, u))
      /\ q.jobs = Without(p.jobs, Of(p.jobs, u))
      /\ q.results = Without(p.results, Of(p.jobs, u))
      /\ q.steps = Without(p.steps, Of(p.jobs, u))
      /\ q.searches = Without(p.searches, Of(p.searches, u))
      /\ q.docs = Without(p.docs, Of(p.docs, u))
      /\ q.chunks = {c \in p.chunks : c.doc \notin Of(p.docs, u)}
  <2>1. Cascaded(q, p, u)
    BY <1>1, CascadeIs
  <2>2. QED
    BY <1>1, <2>1 DEF Cascaded
<1> HIDE DEF n, q, users
<1>6. \A table : Live(table, DOMAIN m.users \ {u})
                   = Without(Live(table, DOMAIN m.users),
                             Of(Live(table, DOMAIN m.users), u))
  BY LiveFewer
<1>7. UsersAgree(n, q, drawn)
  BY <1>1, <1>3, <1>4, <1>5 DEF UsersAgree
<1>8. TokensAgree(n, q, drawn)
  BY <1>1, <1>3, <1>4, <1>5, <1>6 DEF TokensAgree
<1>9. ChannelsAgree(n, q, drawn)
  BY <1>1, <1>3, <1>4, <1>5, <1>6 DEF ChannelsAgree
<1>10. SearchesAgree(n, q, drawn)
  BY <1>1, <1>3, <1>4, <1>5, <1>6 DEF SearchesAgree
<1>11. JobsAgree(n, q, drawn)
  <2>1. /\ DOMAIN p.jobs
             = {i \in DOMAIN m.jobs : m.jobs[i].user \in DOMAIN m.users}
        /\ \A i \in DOMAIN p.jobs : p.jobs[i] = Linked(m.jobs[i], m.searches)
        /\ \A j \in DOMAIN m.jobs : JobShape(m.jobs[j])
    BY <1>1, JobsOfPg
  <2>2. \A i \in DOMAIN p.jobs : p.jobs[i].user = m.jobs[i].user
    BY <2>1 DEF Linked, JobShape
  <2>3. /\ DOMAIN q.jobs = DOMAIN p.jobs \ Of(p.jobs, u)
        /\ q.jobs = [i \in DOMAIN q.jobs |-> q.jobs[i]]
        /\ \A i \in DOMAIN q.jobs : q.jobs[i] = p.jobs[i]
    BY <1>5 DEF Without
  <2>4. DOMAIN q.jobs = {i \in DOMAIN m.jobs : m.jobs[i].user \in DOMAIN users}
    BY <1>3, <2>1, <2>2, <2>3 DEF Of
  <2>5. RowsOf(q.jobs, m.jobs, DOMAIN users, m.searches)
    BY <2>1, <2>3, <2>4 DEF RowsOf
  <2>6. q.jobs = Unlink(Live(m.jobs, DOMAIN users), Ids \ DOMAIN m.searches)
    BY <2>5, RowsAreJobs
  <2>7. /\ p.results = OfJobs(m.results, p.jobs)
        /\ p.steps = OfJobs(m.steps, p.jobs)
    BY <1>1 DEF JobsAgree
  <2>8. q.results = OfJobs(m.results, q.jobs)
    BY <1>5, <2>3, <2>7 DEF OfJobs, Without
  <2>9. q.steps = OfJobs(m.steps, q.jobs)
    BY <1>5, <2>3, <2>7 DEF OfJobs, Without
  <2>10. QED
    BY <1>1, <1>4, <2>6, <2>8, <2>9 DEF JobsAgree
<1>12. DocsAgree(n, q, drawn)
  <2>1. q.docs = Live(n.docs, DOMAIN n.users)
    <3>1. p.docs = Live(m.docs, DOMAIN m.users)
      BY <1>1 DEF DocsAgree
    <3>2. Live(m.docs, DOMAIN m.users \ {u}) = Without(p.docs, Of(p.docs, u))
      BY <1>6, <3>1
    <3>3. QED
      BY <1>3, <1>4, <1>5, <3>2
  <2>2. DOMAIN q.docs = DOMAIN p.docs \ Of(p.docs, u)
    BY <1>5 DEF Without
  <2>3. q.chunks = {c \in n.chunks : c.copy = 0 /\ c.doc \in DOMAIN q.docs}
    BY <1>1, <1>4, <1>5, <2>2 DEF DocsAgree
  <2>4. QED
    BY <1>1, <1>4, <2>1, <2>3 DEF DocsAgree
<1>13. QED
  BY <1>2, <1>4, <1>5, <1>7, <1>8, <1>9, <1>10, <1>11, <1>12 DEF Agreeing, q

-----------------------------------------------------------------------------
(* Strays.  What a call does to memory is what it does to memory without   *)
(* them, where it is not about one.                                        *)

LEMMA SameTables ==
  ASSUME NEW a, NEW b, Database(a), Database(b),
         a.users = b.users, a.tokens = b.tokens, a.channels = b.channels,
         a.jobs = b.jobs, a.results = b.results, a.steps = b.steps,
         a.searches = b.searches, a.events = b.events, a.docs = b.docs,
         a.chunks = b.chunks
  PROVE  a = b
BY DEF Database

LEMMA CleanIs ==
  ASSUME NEW db, Database(db), NEW out
  PROVE  /\ Database(Clean(db, out))
         /\ Clean(db, out).users = Without(db.users, out)
         /\ Clean(db, out).tokens = db.tokens
         /\ Clean(db, out).channels = db.channels
         /\ Clean(db, out).jobs = Without(db.jobs, out)
         /\ Clean(db, out).results = Without(db.results, out)
         /\ Clean(db, out).steps = Without(db.steps, out)
         /\ Clean(db, out).searches = db.searches
         /\ Clean(db, out).events = db.events
         /\ Clean(db, out).docs = db.docs
         /\ Clean(db, out).chunks = db.chunks
<1> DEFINE r == DropJobs(db, out)
           users == Without(db.users, out)
<1>1. /\ Database(r) /\ r.users = db.users /\ r.tokens = db.tokens
      /\ r.channels = db.channels /\ r.jobs = Without(db.jobs, out)
      /\ r.results = Without(db.results, out)
      /\ r.steps = Without(db.steps, out) /\ r.searches = db.searches
      /\ r.events = db.events /\ r.docs = db.docs /\ r.chunks = db.chunks
  BY DroppedJobs
<1>2. "users" \in DOMAIN r
  BY <1>1 DEF Database
<1>3. Clean(db, out) = [r EXCEPT !.users = users]
  BY <1>1, <1>2 DEF Clean
<1> HIDE DEF r
<1>4. /\ Database([r EXCEPT !.users = users])
      /\ [r EXCEPT !.users = users].events = r.events
  BY <1>1 DEF Database
<1>5. QED
  BY <1>1, <1>3, <1>4, UsersOnly

(* What a call did to memory and answered is what it does without strays.  *)
Mirrored(m, n, out) ==
  Clean(m.db, out) = n.db /\ m.ok = n.ok /\ m.val = n.val

(* Accounts and jobs are no tokens, channels, searches, events, documents. *)
LEMMA AsideMirrored ==
  ASSUME NEW db, Database(db), NEW out, NEW t, NEW v
  PROVE  /\ Mirrored(Did([db EXCEPT !.tokens = t], v),
                     Did([Clean(db, out) EXCEPT !.tokens = t], v), out)
         /\ Mirrored(Did([db EXCEPT !.channels = t], v),
                     Did([Clean(db, out) EXCEPT !.channels = t], v), out)
         /\ Mirrored(Did([db EXCEPT !.searches = t], v),
                     Did([Clean(db, out) EXCEPT !.searches = t], v), out)
         /\ Mirrored(Did([db EXCEPT !.events = t], v),
                     Did([Clean(db, out) EXCEPT !.events = t], v), out)
<1> DEFINE c == Clean(db, out)
<1>1. /\ Database(c) /\ c.users = Without(db.users, out)
      /\ c.tokens = db.tokens /\ c.channels = db.channels
      /\ c.jobs = Without(db.jobs, out)
      /\ c.results = Without(db.results, out)
      /\ c.steps = Without(db.steps, out) /\ c.searches = db.searches
      /\ c.events = db.events /\ c.docs = db.docs /\ c.chunks = db.chunks
  BY CleanIs
<1> HIDE DEF c
<1> DEFINE Same(n, d) ==
             /\ Database(n) /\ Database(d)
             /\ d.users = Without(n.users, out)
             /\ d.tokens = n.tokens /\ d.channels = n.channels
             /\ d.jobs = Without(n.jobs, out)
             /\ d.results = Without(n.results, out)
             /\ d.steps = Without(n.steps, out) /\ d.searches = n.searches
             /\ d.events = n.events /\ d.docs = n.docs /\ d.chunks = n.chunks
<1>2. ASSUME NEW n, NEW d, Same(n, d)
      PROVE  Clean(n, out) = d
  BY <1>2, CleanIs, SameTables
<1>3. /\ Same([db EXCEPT !.tokens = t], [c EXCEPT !.tokens = t])
      /\ Same([db EXCEPT !.channels = t], [c EXCEPT !.channels = t])
      /\ Same([db EXCEPT !.searches = t], [c EXCEPT !.searches = t])
      /\ Same([db EXCEPT !.events = t], [c EXCEPT !.events = t])
  BY <1>1 DEF Database
<1> HIDE DEF Same
<1>4. /\ Clean([db EXCEPT !.tokens = t], out) = [c EXCEPT !.tokens = t]
      /\ Clean([db EXCEPT !.channels = t], out) = [c EXCEPT !.channels = t]
      /\ Clean([db EXCEPT !.searches = t], out) = [c EXCEPT !.searches = t]
      /\ Clean([db EXCEPT !.events = t], out) = [c EXCEPT !.events = t]
  BY <1>2, <1>3
<1>5. ASSUME NEW a, NEW b, Clean(a, out) = b
      PROVE  Mirrored(Did(a, v), Did(b, v), out)
  BY <1>5 DEF Mirrored, Did
<1>6. QED
  BY <1>4, <1>5 DEF c

LEMMA CleanDocs ==
  ASSUME NEW db, Database(db), NEW out, NEW docs, NEW chunks
  PROVE  Clean(WithDocs(db, docs, chunks), out)
           = WithDocs(Clean(db, out), docs, chunks)
<1> DEFINE n == WithDocs(db, docs, chunks)
<1>1. /\ Database(n) /\ n.users = db.users /\ n.tokens = db.tokens
      /\ n.channels = db.channels /\ n.jobs = db.jobs
      /\ n.results = db.results /\ n.steps = db.steps
      /\ n.searches = db.searches /\ n.events = db.events
      /\ n.docs = docs /\ n.chunks = chunks
  BY DEF WithDocs, Database
<1> HIDE DEF n
<1>2. Clean(n, out) = WithDocs(Clean(n, out), docs, chunks)
  <2>1. /\ Database(Clean(n, out)) /\ Clean(n, out).docs = docs
        /\ Clean(n, out).chunks = chunks
    BY <1>1, CleanIs
  <2>2. QED
    BY <2>1 DEF WithDocs, Database
<1>3. WithDocs(Clean(n, out), docs, chunks)
        = WithDocs(Clean(db, out), docs, chunks)
  BY <1>1, CleanIs DEF WithDocs
<1>4. QED
  BY <1>2, <1>3 DEF n

(* Rows that stay and rows that do not.                                    *)
LEMMA WithoutPut ==
  ASSUME NEW t, NEW x, NEW r, NEW out
  PROVE  /\ x \notin out
              => Without(Put(t, x, r), out) = Put(Without(t, out), x, r)
         /\ x \in out => Without(Put(t, x, r), out) = Without(t, out)
<1>1. ASSUME x \notin out
      PROVE  Without(Put(t, x, r), out) = Put(Without(t, out), x, r)
  BY <1>1 DEF Without, Put
<1>2. ASSUME x \in out
      PROVE  Without(Put(t, x, r), out) = Without(t, out)
  BY <1>2 DEF Without, Put
<1>3. QED
  BY <1>1, <1>2

LEMMA WithoutTwice ==
  ASSUME NEW t, NEW a, NEW b
  PROVE  /\ Without(Without(t, a), b) = Without(t, a \cup b)
         /\ Without(Without(t, a), b) = Without(Without(t, b), a)
BY DEF Without

WithUsers(db, t) == [db EXCEPT !.users = t]
WithJobs(db, t) == [db EXCEPT !.jobs = t]
WithResults(db, t) == [db EXCEPT !.results = t]
WithSteps(db, t) == [db EXCEPT !.steps = t]

LEMMA CleanWork ==
  ASSUME NEW db, Database(db), NEW out, NEW t, NEW s, s = Without(t, out)
  PROVE  /\ Clean(WithUsers(db, t), out) = WithUsers(Clean(db, out), s)
         /\ Clean(WithJobs(db, t), out) = WithJobs(Clean(db, out), s)
         /\ Clean(WithResults(db, t), out) = WithResults(Clean(db, out), s)
         /\ Clean(WithSteps(db, t), out) = WithSteps(Clean(db, out), s)
<1> DEFINE c == Clean(db, out)
<1>1. /\ Database(c) /\ c.users = Without(db.users, out)
      /\ c.tokens = db.tokens /\ c.channels = db.channels
      /\ c.jobs = Without(db.jobs, out)
      /\ c.results = Without(db.results, out)
      /\ c.steps = Without(db.steps, out) /\ c.searches = db.searches
      /\ c.events = db.events /\ c.docs = db.docs /\ c.chunks = db.chunks
  BY CleanIs
<1> HIDE DEF c
<1> DEFINE Same(n, d) ==
             /\ Database(n) /\ Database(d)
             /\ d.users = Without(n.users, out)
             /\ d.tokens = n.tokens /\ d.channels = n.channels
             /\ d.jobs = Without(n.jobs, out)
             /\ d.results = Without(n.results, out)
             /\ d.steps = Without(n.steps, out) /\ d.searches = n.searches
             /\ d.events = n.events /\ d.docs = n.docs /\ d.chunks = n.chunks
<1>2. ASSUME NEW n, NEW d, Same(n, d)
      PROVE  Clean(n, out) = d
  BY <1>2, CleanIs, SameTables
<1>3. /\ Same([db EXCEPT !.users = t], [c EXCEPT !.users = s])
      /\ Same([db EXCEPT !.jobs = t], [c EXCEPT !.jobs = s])
      /\ Same([db EXCEPT !.results = t], [c EXCEPT !.results = s])
      /\ Same([db EXCEPT !.steps = t], [c EXCEPT !.steps = s])
  BY <1>1 DEF Database
<1> HIDE DEF Same
<1>4. /\ Clean([db EXCEPT !.users = t], out) = [c EXCEPT !.users = s]
      /\ Clean([db EXCEPT !.jobs = t], out) = [c EXCEPT !.jobs = s]
      /\ Clean([db EXCEPT !.results = t], out) = [c EXCEPT !.results = s]
      /\ Clean([db EXCEPT !.steps = t], out) = [c EXCEPT !.steps = s]
  BY <1>2, <1>3
<1>5. QED
  BY <1>4 DEF c, WithUsers, WithJobs, WithResults, WithSteps

LEMMA ShownPut ==
  ASSUME NEW db, Database(db), NEW out, NEW x, x \notin out, NEW r
  PROVE  /\ Clean(WithUsers(db, Put(db.users, x, r)), out)
              = WithUsers(Clean(db, out), Put(Clean(db, out).users, x, r))
         /\ Clean(WithJobs(db, Put(db.jobs, x, r)), out)
              = WithJobs(Clean(db, out), Put(Clean(db, out).jobs, x, r))
         /\ Clean(WithResults(db, Put(db.results, x, r)), out)
              = WithResults(Clean(db, out), Put(Clean(db, out).results, x, r))
         /\ Clean(WithSteps(db, Put(db.steps, x, r)), out)
              = WithSteps(Clean(db, out), Put(Clean(db, out).steps, x, r))
<1> DEFINE c == Clean(db, out)
<1>1. /\ c.users = Without(db.users, out) /\ c.jobs = Without(db.jobs, out)
      /\ c.results = Without(db.results, out)
      /\ c.steps = Without(db.steps, out)
  BY CleanIs
<1>2. \A t : Put(Without(t, out), x, r) = Without(Put(t, x, r), out)
  BY WithoutPut
<1>3. QED
  BY <1>1, <1>2, CleanWork

LEMMA HiddenPut ==
  ASSUME NEW db, Database(db), NEW out, NEW x \in out, NEW r
  PROVE  /\ Clean(WithUsers(db, Put(db.users, x, r)), out) = Clean(db, out)
         /\ Clean(WithJobs(db, Put(db.jobs, x, r)), out) = Clean(db, out)
         /\ Clean(WithResults(db, Put(db.results, x, r)), out) = Clean(db, out)
         /\ Clean(WithSteps(db, Put(db.steps, x, r)), out) = Clean(db, out)
<1> DEFINE c == Clean(db, out)
<1>1. /\ c.users = Without(db.users, out) /\ c.jobs = Without(db.jobs, out)
      /\ c.results = Without(db.results, out)
      /\ c.steps = Without(db.steps, out) /\ Database(c)
  BY CleanIs
<1>2. \A t : Without(t, out) = Without(Put(t, x, r), out)
  BY WithoutPut
<1> HIDE DEF c
<1>3. /\ WithUsers(c, c.users) = c /\ WithJobs(c, c.jobs) = c
      /\ WithResults(c, c.results) = c /\ WithSteps(c, c.steps) = c
  BY <1>1 DEF Database, WithUsers, WithJobs, WithResults, WithSteps
<1>4. QED
  BY <1>1, <1>2, <1>3, CleanWork DEF c

LEMMA CleanWithout ==
  ASSUME NEW db, Database(db), NEW out, NEW x
  PROVE  /\ Clean(WithSteps(db, Without(db.steps, {x})), out)
              = WithSteps(Clean(db, out), Without(Clean(db, out).steps, {x}))
         /\ Clean(WithUsers(db, Without(db.users, {x})), out)
              = WithUsers(Clean(db, out), Without(Clean(db, out).users, {x}))
<1>1. /\ Clean(db, out).users = Without(db.users, out)
      /\ Clean(db, out).steps = Without(db.steps, out)
  BY CleanIs
<1>2. \A t : Without(Without(t, out), {x}) = Without(Without(t, {x}), out)
  BY DEF Without
<1> DEFINE c == Clean(db, out)
           users == Without(db.users, {x})
           steps == Without(db.steps, {x})
<1>3. /\ Without(c.users, {x}) = Without(users, out)
      /\ Without(c.steps, {x}) = Without(steps, out)
  BY <1>1, <1>2
<1> HIDE DEF c, users, steps
<1>4. /\ Clean(WithSteps(db, steps), out) = WithSteps(c, Without(c.steps, {x}))
      /\ Clean(WithUsers(db, users), out) = WithUsers(c, Without(c.users, {x}))
  BY <1>3, CleanWork DEF c
<1>5. QED
  BY <1>4 DEF c, users, steps

LEMMA CleanDropped ==
  ASSUME NEW db, Database(db), NEW out, NEW gone
  PROVE  Clean(DropJobs(db, gone), out) = DropJobs(Clean(db, out), gone)
<1> DEFINE c == Clean(db, out)
           n == DropJobs(db, gone)
           d == DropJobs(c, gone)
           e == Clean(n, out)
<1>1. Database(c) /\ Database(n)
  BY CleanIs, DroppedJobs
<1>2. /\ Database(d) /\ d.users = Without(db.users, out)
      /\ d.tokens = db.tokens /\ d.channels = db.channels
      /\ d.jobs = Without(Without(db.jobs, out), gone)
      /\ d.results = Without(Without(db.results, out), gone)
      /\ d.steps = Without(Without(db.steps, out), gone)
      /\ d.searches = db.searches /\ d.events = db.events
      /\ d.docs = db.docs /\ d.chunks = db.chunks
  BY <1>1, CleanIs, DroppedJobs
<1>3. /\ Database(e) /\ e.users = Without(db.users, out)
      /\ e.tokens = db.tokens /\ e.channels = db.channels
      /\ e.jobs = Without(Without(db.jobs, gone), out)
      /\ e.results = Without(Without(db.results, gone), out)
      /\ e.steps = Without(Without(db.steps, gone), out)
      /\ e.searches = db.searches /\ e.events = db.events
      /\ e.docs = db.docs /\ e.chunks = db.chunks
  BY <1>1, CleanIs, DroppedJobs
<1>4. \A t : Without(Without(t, gone), out) = Without(Without(t, out), gone)
  BY DEF Without
<1> HIDE DEF d, e
<1>5. d.jobs = e.jobs /\ d.results = e.results /\ d.steps = e.steps
  BY <1>2, <1>3, <1>4
<1>6. e = d
  BY <1>2, <1>3, <1>5, SameTables
<1>7. QED
  BY <1>6 DEF d, e

(* Jobs that are strays are gone from memory.                              *)
LEMMA CleanGone ==
  ASSUME NEW db, Database(db), NEW out, NEW gone,
         gone \cap DOMAIN db.users = {}
  PROVE  Clean(db, out \cup gone) = DropJobs(Clean(db, out), gone)
<1> DEFINE c == Clean(db, out)
           d == DropJobs(c, gone)
           e == Clean(db, out \cup gone)
<1>1. Database(c)
  BY CleanIs
<1>2. /\ Database(d) /\ d.users = Without(db.users, out)
      /\ d.tokens = db.tokens /\ d.channels = db.channels
      /\ d.jobs = Without(Without(db.jobs, out), gone)
      /\ d.results = Without(Without(db.results, out), gone)
      /\ d.steps = Without(Without(db.steps, out), gone)
      /\ d.searches = db.searches /\ d.events = db.events
      /\ d.docs = db.docs /\ d.chunks = db.chunks
  BY <1>1, CleanIs, DroppedJobs
<1>3. /\ Database(e) /\ e.users = Without(db.users, out \cup gone)
      /\ e.tokens = db.tokens /\ e.channels = db.channels
      /\ e.jobs = Without(db.jobs, out \cup gone)
      /\ e.results = Without(db.results, out \cup gone)
      /\ e.steps = Without(db.steps, out \cup gone)
      /\ e.searches = db.searches /\ e.events = db.events
      /\ e.docs = db.docs /\ e.chunks = db.chunks
  BY CleanIs
<1>4. \A t : Without(t, out \cup gone) = Without(Without(t, out), gone)
  BY WithoutTwice
<1>5. Without(db.users, out \cup gone) = Without(db.users, out)
  BY DEF Without
<1> HIDE DEF d, e
<1>6. /\ d.users = e.users /\ d.jobs = e.jobs /\ d.results = e.results
      /\ d.steps = e.steps
  BY <1>2, <1>3, <1>4, <1>5
<1>7. e = d
  BY <1>2, <1>3, <1>6, SameTables
<1>8. QED
  BY <1>7 DEF d, e

LEMMA DroppedTwice ==
  ASSUME NEW db, Database(db), NEW a, NEW b
  PROVE  DropJobs(DropJobs(db, a), b) = DropJobs(db, a \cup b)
<1> DEFINE d == DropJobs(DropJobs(db, a), b)
           e == DropJobs(db, a \cup b)
<1>1. Database(DropJobs(db, a))
  BY DroppedJobs
<1>2. /\ Database(d) /\ d.users = db.users
      /\ d.tokens = db.tokens /\ d.channels = db.channels
      /\ d.jobs = Without(Without(db.jobs, a), b)
      /\ d.results = Without(Without(db.results, a), b)
      /\ d.steps = Without(Without(db.steps, a), b)
      /\ d.searches = db.searches /\ d.events = db.events
      /\ d.docs = db.docs /\ d.chunks = db.chunks
  BY <1>1, DroppedJobs
<1>3. /\ Database(e) /\ e.users = db.users
      /\ e.tokens = db.tokens /\ e.channels = db.channels
      /\ e.jobs = Without(db.jobs, a \cup b)
      /\ e.results = Without(db.results, a \cup b)
      /\ e.steps = Without(db.steps, a \cup b)
      /\ e.searches = db.searches /\ e.events = db.events
      /\ e.docs = db.docs /\ e.chunks = db.chunks
  BY DroppedJobs
<1>4. \A t : Without(t, a \cup b) = Without(Without(t, a), b)
  BY WithoutTwice
<1> HIDE DEF d, e
<1>5. d.jobs = e.jobs /\ d.results = e.results /\ d.steps = e.steps
  BY <1>2, <1>3, <1>4
<1>6. e = d
  BY <1>2, <1>3, <1>5, SameTables
<1>7. QED
  BY <1>6 DEF d, e

-----------------------------------------------------------------------------
(* The calls one after the other.                                          *)

Cleaned == Clean(mem, strays)

(* What memory has was inserted by someone, strays included.               *)
Remembered ==
  /\ Database(mem)
  /\ copies = [jobs |-> copies.jobs, searches |-> copies.searches]
  /\ strays \subseteq used /\ DOMAIN mem.users \subseteq used
  /\ DrawnRows(mem.jobs, used) /\ DrawnRows(copies.jobs, used)
  /\ DrawnRows(copies.searches, used) /\ DOMAIN copies.searches \subseteq Ids
  /\ DOMAIN mem.jobs \cup DOMAIN mem.results \cup DOMAIN mem.steps
       \subseteq DOMAIN copies.jobs
  /\ DOMAIN mem.users \cap DOMAIN copies.jobs = {}
  /\ \A s \in DOMAIN mem.searches :
       /\ s \in DOMAIN copies.searches
       /\ mem.searches[s].user = copies.searches[s].user

(* What was answered differently was asked for an account that is gone,    *)
(* or about a stray.                                                       *)
AnsweredAlike == last.call = "call" => last.user \notin DOMAIN pg.users

StoreInv ==
  /\ Agreeing(Cleaned, pg, used) /\ Remembered
  /\ AnsweredAlike /\ DeletionConverges

LEMMA CleanedIs ==
  ASSUME StoreInv
  PROVE  /\ Database(mem) /\ Database(Cleaned) /\ Database(pg)
         /\ pg.users = Cleaned.users
         /\ Cleaned.users = Without(mem.users, strays)
         /\ Cleaned.tokens = mem.tokens /\ Cleaned.channels = mem.channels
         /\ Cleaned.jobs = Without(mem.jobs, strays)
         /\ Cleaned.results = Without(mem.results, strays)
         /\ Cleaned.steps = Without(mem.steps, strays)
         /\ Cleaned.searches = mem.searches /\ Cleaned.events = mem.events
         /\ Cleaned.docs = mem.docs /\ Cleaned.chunks = mem.chunks
BY CleanIs DEF StoreInv, Remembered, Cleaned, Agreeing, UsersAgree

LEMMA Concluded ==
  ASSUME NEW u, NEW call, NEW m, NEW p, Both(u, call, m, p),
         call # "erase", Remembered',
         Agreeing(Clean(m.db, strays'), p.db, used'),
         call = "call" /\ u \in DOMAIN p.db.users => Alike(m, p)
  PROVE  StoreInv'
<1>1. mem' = m.db /\ pg' = p.db
  BY DEF Both
<1>2. \/ last' = NoCall
      \/ /\ last'.call = call /\ last'.user = u
         /\ ~(m.ok = p.ok /\ m.val = p.val)
  BY DEF Both
<1>3. last'.call # "erase" /\ (last'.call = "call" => last'.user \notin DOMAIN pg'.users)
  BY <1>1, <1>2 DEF NoCall, Alike
<1>4. Agreeing(Cleaned, pg, used)'
  BY <1>1 DEF Cleaned
<1>5. QED
  BY <1>3, <1>4 DEF StoreInv, AnsweredAlike, DeletionConverges

(* Memory with some rows gone, or written over.                            *)
Lesser(db, d) ==
  /\ Database(d)
  /\ DOMAIN d.users \subseteq DOMAIN db.users
  /\ DOMAIN d.jobs \subseteq DOMAIN db.jobs
  /\ \A j \in DOMAIN d.jobs :
       /\ "user" \in DOMAIN db.jobs[j] => "user" \in DOMAIN d.jobs[j]
       /\ d.jobs[j].user = db.jobs[j].user
  /\ DOMAIN d.results \subseteq DOMAIN db.results
  /\ DOMAIN d.steps \subseteq DOMAIN db.steps
  /\ DOMAIN d.searches \subseteq DOMAIN db.searches
  /\ \A s \in DOMAIN d.searches : d.searches[s].user = db.searches[s].user

LEMMA StillRemembered ==
  ASSUME Remembered, used \subseteq used', copies' = copies,
         strays' \subseteq used', Lesser(mem, mem')
  PROVE  Remembered'
<1>1. DrawnRows(mem.jobs, used)'
  BY DEF Remembered, Lesser, DrawnRows
<1>2. DrawnRows(copies.jobs, used)' /\ DrawnRows(copies.searches, used)'
  BY DEF Remembered, DrawnRows
<1>3. QED
  BY <1>1, <1>2 DEF Remembered, Lesser

(* A call that is about no stray.                                          *)
LEMMA CallAnswers ==
  ASSUME StoreInv, NEW u, NEW m, NEW n, NEW p, Call(u, m, p),
         used \subseteq used', Mirrored(m, n, strays), Lesser(mem, m.db),
         Agreeing(n.db, p.db, used'),
         u \in DOMAIN Cleaned.users => Alike(n, p)
  PROVE  StoreInv'
<1>1. /\ Both(u, "call", m, p) /\ mem' = m.db /\ copies' = copies
      /\ strays' = strays
  BY DEF Call, Both
<1>2. Remembered'
  BY <1>1, StillRemembered DEF StoreInv, Remembered
<1>3. p.db.users = n.db.users /\ n.db = Clean(m.db, strays)
  BY DEF Mirrored, Agreeing, UsersAgree
<1>4. DOMAIN p.db.users \subseteq DOMAIN Cleaned.users
  <2>1. /\ Clean(m.db, strays).users = Without(m.db.users, strays)
        /\ Cleaned.users = Without(mem.users, strays)
    BY CleanedIs, CleanIs DEF Lesser
  <2>2. QED
    BY <1>3, <2>1 DEF Lesser, Without
<1>5. Alike(n, p) => Alike(m, p)
  BY DEF Alike, Mirrored
<1>6. QED
  BY <1>1, <1>2, <1>3, <1>4, <1>5, Concluded

LEMMA LoopAnswers ==
  ASSUME StoreInv, NEW u, NEW call, NEW m, NEW n, NEW p, Both(u, call, m, p),
         call \in {"loop", "late"}, used' = used, copies' = copies,
         strays' = strays, Mirrored(m, n, strays), Lesser(mem, m.db),
         Agreeing(n.db, p.db, used')
  PROVE  StoreInv'
<1>1. mem' = m.db
  BY DEF Both
<1>2. Remembered'
  BY <1>1, StillRemembered DEF StoreInv, Remembered
<1>3. QED
  BY <1>2, Concluded DEF Mirrored

LEMMA DocsMirrored ==
  ASSUME NEW db, Database(db), NEW out, NEW t, NEW s, NEW v
  PROVE  /\ Mirrored(Did(WithDocs(db, t, s), v),
                     Did(WithDocs(Clean(db, out), t, s), v), out)
         /\ Mirrored(Did(db, v), Did(Clean(db, out), v), out)
BY CleanDocs DEF Mirrored, Did

LEMMA AsideLesser ==
  ASSUME NEW db, Database(db), NEW t, NEW s
  PROVE  /\ Lesser(db, [db EXCEPT !.tokens = t])
         /\ Lesser(db, [db EXCEPT !.channels = t])
         /\ Lesser(db, [db EXCEPT !.events = t])
         /\ Lesser(db, WithDocs(db, t, s))
         /\ Lesser(db, db)
         /\ (/\ DOMAIN t \subseteq DOMAIN db.searches
             /\ \A x \in DOMAIN t : t[x].user = db.searches[x].user)
            => Lesser(db, [db EXCEPT !.searches = t])
<1>1. ASSUME NEW d, Database(d), d.users = db.users, d.jobs = db.jobs,
             d.results = db.results, d.steps = db.steps,
             \/ d.searches = db.searches
             \/ /\ DOMAIN d.searches \subseteq DOMAIN db.searches
                /\ \A x \in DOMAIN d.searches :
                     d.searches[x].user = db.searches[x].user
      PROVE  Lesser(db, d)
  BY <1>1 DEF Lesser
<1>2. Lesser(db, [db EXCEPT !.tokens = t])
  <2> DEFINE d == [db EXCEPT !.tokens = t]
  <2>1. /\ Database(d) /\ d.users = db.users /\ d.jobs = db.jobs
        /\ d.results = db.results /\ d.steps = db.steps
        /\ d.searches = db.searches
    BY DEF Database
  <2> HIDE DEF d
  <2>2. QED
    BY <1>1, <2>1 DEF d
<1>3. Lesser(db, [db EXCEPT !.channels = t])
  <2> DEFINE d == [db EXCEPT !.channels = t]
  <2>1. /\ Database(d) /\ d.users = db.users /\ d.jobs = db.jobs
        /\ d.results = db.results /\ d.steps = db.steps
        /\ d.searches = db.searches
    BY DEF Database
  <2> HIDE DEF d
  <2>2. QED
    BY <1>1, <2>1 DEF d
<1>4. Lesser(db, [db EXCEPT !.events = t])
  <2> DEFINE d == [db EXCEPT !.events = t]
  <2>1. /\ Database(d) /\ d.users = db.users /\ d.jobs = db.jobs
        /\ d.results = db.results /\ d.steps = db.steps
        /\ d.searches = db.searches
    BY DEF Database
  <2> HIDE DEF d
  <2>2. QED
    BY <1>1, <2>1 DEF d
<1>5. Lesser(db, WithDocs(db, t, s))
  <2> DEFINE d == WithDocs(db, t, s)
  <2>1. /\ Database(d) /\ d.users = db.users /\ d.jobs = db.jobs
        /\ d.results = db.results /\ d.steps = db.steps
        /\ d.searches = db.searches
    BY DEF Database, WithDocs
  <2> HIDE DEF d
  <2>2. QED
    BY <1>1, <2>1 DEF d
<1>6. ASSUME DOMAIN t \subseteq DOMAIN db.searches,
             \A x \in DOMAIN t : t[x].user = db.searches[x].user
      PROVE  Lesser(db, [db EXCEPT !.searches = t])
  <2> DEFINE d == [db EXCEPT !.searches = t]
  <2>1. /\ Database(d) /\ d.users = db.users /\ d.jobs = db.jobs
        /\ d.results = db.results /\ d.steps = db.steps
        /\ d.searches = t
    BY DEF Database
  <2> HIDE DEF d
  <2>2. QED
    BY <1>1, <1>6, <2>1 DEF d
<1>7. QED
  BY <1>1, <1>2, <1>3, <1>4, <1>5, <1>6

Follows(db, m, n, out) == Mirrored(m, n, out) /\ Lesser(db, m.db)

LEMMA AsideFollows ==
  ASSUME NEW db, Database(db), NEW out, NEW t, NEW s, NEW v
  PROVE  /\ Follows(db, Did([db EXCEPT !.tokens = t], v),
                    Did([Clean(db, out) EXCEPT !.tokens = t], v), out)
         /\ Follows(db, Did([db EXCEPT !.channels = t], v),
                    Did([Clean(db, out) EXCEPT !.channels = t], v), out)
         /\ Follows(db, Did([db EXCEPT !.events = t], v),
                    Did([Clean(db, out) EXCEPT !.events = t], v), out)
         /\ Follows(db, Did(WithDocs(db, t, s), v),
                    Did(WithDocs(Clean(db, out), t, s), v), out)
         /\ Follows(db, Did(db, v), Did(Clean(db, out), v), out)
         /\ (/\ DOMAIN t \subseteq DOMAIN db.searches
             /\ \A x \in DOMAIN t : t[x].user = db.searches[x].user)
            => Follows(db, Did([db EXCEPT !.searches = t], v),
                       Did([Clean(db, out) EXCEPT !.searches = t], v), out)
<1> DEFINE c == Clean(db, out)
<1>1. ASSUME NEW a, NEW b, Mirrored(Did(a, v), Did(b, v), out), Lesser(db, a)
      PROVE  Follows(db, Did(a, v), Did(b, v), out)
  BY <1>1 DEF Follows, Did
<1>2. /\ Follows(db, Did([db EXCEPT !.tokens = t], v),
                 Did([c EXCEPT !.tokens = t], v), out)
      /\ Follows(db, Did([db EXCEPT !.channels = t], v),
                 Did([c EXCEPT !.channels = t], v), out)
      /\ Follows(db, Did([db EXCEPT !.events = t], v),
                 Did([c EXCEPT !.events = t], v), out)
  BY <1>1, AsideMirrored, AsideLesser
<1>3. /\ Follows(db, Did(WithDocs(db, t, s), v), Did(WithDocs(c, t, s), v), out)
      /\ Follows(db, Did(db, v), Did(c, v), out)
  BY <1>1, DocsMirrored, AsideLesser
<1>4. ASSUME DOMAIN t \subseteq DOMAIN db.searches,
             \A x \in DOMAIN t : t[x].user = db.searches[x].user
      PROVE  Follows(db, Did([db EXCEPT !.searches = t], v),
                     Did([c EXCEPT !.searches = t], v), out)
  <2>1. Lesser(db, [db EXCEPT !.searches = t])
    BY <1>4, AsideLesser
  <2>2. QED
    BY <1>1, <2>1, AsideMirrored
<1>5. QED
  BY <1>2, <1>3, <1>4

LEMMA TokenCallsFollow ==
  ASSUME NEW db, Database(db), NEW out, NEW t, NEW r, NEW f, NEW at
  PROVE  /\ Follows(db, MemInsertToken(db, t, r),
                    MemInsertToken(Clean(db, out), t, r), out)
         /\ Follows(db, MemMarkConsumed(db, t),
                    MemMarkConsumed(Clean(db, out), t), out)
         /\ Follows(db, MemDeleteToken(db, t),
                    MemDeleteToken(Clean(db, out), t), out)
         /\ Follows(db, MemDeleteFamily(db, f),
                    MemDeleteFamily(Clean(db, out), f), out)
         /\ Follows(db, MemDeleteExpired(db, at),
                    MemDeleteExpired(Clean(db, out), at), out)
<1> DEFINE c == Clean(db, out)
           marked == [db.tokens EXCEPT ![t].consumed = TRUE]
<1>1. c.tokens = db.tokens
  BY CleanIs
<1>2. \A s, v : Follows(db, Did([db EXCEPT !.tokens = s], v),
                        Did([c EXCEPT !.tokens = s], v), out)
  BY AsideFollows
<1>3. Follows(db, Done(db), Done(c), out)
  BY AsideFollows DEF Done
<1> HIDE DEF c
<1>4. Follows(db, MemInsertToken(db, t, r), MemInsertToken(c, t, r), out)
  BY <1>1, <1>2 DEF MemInsertToken, Done
<1>5. Follows(db, MemMarkConsumed(db, t), MemMarkConsumed(c, t), out)
  <2>1. CASE t \in DOMAIN db.tokens
    <3>1. MemMarkConsumed(db, t) = Done([db EXCEPT !.tokens = marked])
      BY <2>1 DEF MemMarkConsumed
    <3>2. MemMarkConsumed(c, t) = Done([c EXCEPT !.tokens = marked])
      BY <1>1, <2>1 DEF MemMarkConsumed
    <3> HIDE DEF marked
    <3>3. QED
      BY <1>2, <3>1, <3>2 DEF Done
  <2>2. CASE t \notin DOMAIN db.tokens
    BY <1>1, <1>3, <2>2 DEF MemMarkConsumed
  <2>3. QED
    BY <2>1, <2>2
<1>6. Follows(db, MemDeleteToken(db, t), MemDeleteToken(c, t), out)
  BY <1>1, <1>2 DEF MemDeleteToken, Done
<1>7. Follows(db, MemDeleteFamily(db, f), MemDeleteFamily(c, f), out)
  <2>1. FamilyRows(c, f) = FamilyRows(db, f)
    BY <1>1 DEF FamilyRows
  <2>2. QED
    BY <1>1, <1>2, <2>1 DEF MemDeleteFamily, Done
<1>8. Follows(db, MemDeleteExpired(db, at), MemDeleteExpired(c, at), out)
  <2>1. ExpiredRows(c, at) = ExpiredRows(db, at)
    BY <1>1 DEF ExpiredRows
  <2>2. QED
    BY <1>1, <1>2, <2>1 DEF MemDeleteExpired
<1>9. QED
  BY <1>4, <1>5, <1>6, <1>7, <1>8 DEF c

LEMMA ChannelCallsFollow ==
  ASSUME NEW db, Database(db), NEW out, NEW x, NEW r, NEW u
  PROVE  /\ Follows(db, MemInsertChannel(db, x, r),
                    MemInsertChannel(Clean(db, out), x, r), out)
         /\ Follows(db, MemDeleteChannel(db, u, x),
                    MemDeleteChannel(Clean(db, out), u, x), out)
<1> DEFINE c == Clean(db, out)
<1>1. c.channels = db.channels
  BY CleanIs
<1>2. \A s, v : /\ Follows(db, Did([db EXCEPT !.channels = s], v),
                           Did([c EXCEPT !.channels = s], v), out)
                /\ Follows(db, Did(db, v), Did(c, v), out)
  BY AsideFollows
<1> HIDE DEF c
<1>3. Follows(db, MemInsertChannel(db, x, r), MemInsertChannel(c, x, r), out)
  BY <1>1, <1>2 DEF MemInsertChannel, Done
<1>4. Follows(db, MemDeleteChannel(db, u, x), MemDeleteChannel(c, u, x), out)
  BY <1>1, <1>2 DEF MemDeleteChannel
<1>5. QED
  BY <1>3, <1>4 DEF c

LEMMA EventCallsFollow ==
  ASSUME NEW db, Database(db), NEW out, NEW n, NEW e, NEW at
  PROVE  /\ Follows(db, MemRecord(db, n, e),
                    MemRecord(Clean(db, out), n, e), out)
         /\ Follows(db, MemForgetEvents(db, at),
                    MemForgetEvents(Clean(db, out), at), out)
<1> DEFINE c == Clean(db, out)
<1>1. c.events = db.events
  BY CleanIs
<1>2. \A s, v : Follows(db, Did([db EXCEPT !.events = s], v),
                        Did([c EXCEPT !.events = s], v), out)
  BY AsideFollows
<1> HIDE DEF c
<1>3. Follows(db, MemRecord(db, n, e), MemRecord(c, n, e), out)
  BY <1>1, <1>2 DEF MemRecord, Done
<1>4. Follows(db, MemForgetEvents(db, at), MemForgetEvents(c, at), out)
  BY <1>1, <1>2 DEF MemForgetEvents, Done
<1>5. QED
  BY <1>3, <1>4 DEF c

LEMMA SearchCallsFollow ==
  ASSUME NEW db, Database(db), NEW out, NEW s, NEW r, NEW u, NEW at
  PROVE  /\ Mirrored(MemInsertSearch(db, s, r),
                     MemInsertSearch(Clean(db, out), s, r), out)
         /\ Follows(db, MemDeleteSearch(db, u, s),
                    MemDeleteSearch(Clean(db, out), u, s), out)
         /\ Follows(db, MemMarkRan(db, s, at),
                    MemMarkRan(Clean(db, out), s, at), out)
<1> DEFINE c == Clean(db, out)
           fewer == Without(db.searches, {s})
           ran == [db.searches EXCEPT ![s].last = at]
<1>1. c.searches = db.searches
  BY CleanIs
<1>2. \A v : Follows(db, Did(db, v), Did(c, v), out)
  BY AsideFollows
<1>3. \A t, v : Mirrored(Did([db EXCEPT !.searches = t], v),
                         Did([c EXCEPT !.searches = t], v), out)
  BY AsideMirrored
<1>4. \A v : Follows(db, Did([db EXCEPT !.searches = fewer], v),
                     Did([c EXCEPT !.searches = fewer], v), out)
  <2>1. /\ DOMAIN fewer \subseteq DOMAIN db.searches
        /\ \A x \in DOMAIN fewer : fewer[x].user = db.searches[x].user
    BY DEF Without
  <2> HIDE DEF fewer
  <2>2. QED
    BY <2>1, AsideFollows
<1>5. \A v : Follows(db, Did([db EXCEPT !.searches = ran], v),
                     Did([c EXCEPT !.searches = ran], v), out)
  <2>1. /\ DOMAIN ran \subseteq DOMAIN db.searches
        /\ \A x \in DOMAIN ran : ran[x].user = db.searches[x].user
    OBVIOUS
  <2> HIDE DEF ran
  <2>2. QED
    BY <2>1, AsideFollows
<1> HIDE DEF c
<1>6. Mirrored(MemInsertSearch(db, s, r), MemInsertSearch(c, s, r), out)
  BY <1>1, <1>3 DEF MemInsertSearch, Done
<1>7. Follows(db, MemDeleteSearch(db, u, s), MemDeleteSearch(c, u, s), out)
  BY <1>1, <1>2, <1>4 DEF MemDeleteSearch
<1>8. Follows(db, MemMarkRan(db, s, at), MemMarkRan(c, s, at), out)
  <2>1. CASE s \in DOMAIN db.searches
    <3>1. MemMarkRan(db, s, at) = Done([db EXCEPT !.searches = ran])
      BY <2>1 DEF MemMarkRan
    <3>2. MemMarkRan(c, s, at) = Done([c EXCEPT !.searches = ran])
      BY <1>1, <2>1 DEF MemMarkRan
    <3> HIDE DEF ran
    <3>3. QED
      BY <1>5, <3>1, <3>2 DEF Done
  <2>2. CASE s \notin DOMAIN db.searches
    BY <1>1, <1>2, <2>2 DEF MemMarkRan, Done
  <2>3. QED
    BY <2>1, <2>2
<1>9. QED
  BY <1>6, <1>7, <1>8 DEF c

LEMMA DocCallsFollow ==
  ASSUME NEW db, Database(db), NEW out, NEW d, NEW r, NEW u
  PROVE  /\ Follows(db, MemInsertDoc(db, d, r),
                    MemInsertDoc(Clean(db, out), d, r), out)
         /\ Follows(db, MemStoreChunks(db, d, u, {d}),
                    MemStoreChunks(Clean(db, out), d, u, {d}), out)
         /\ Follows(db, MemMarkFailed(db, d),
                    MemMarkFailed(Clean(db, out), d), out)
         /\ Follows(db, MemDeleteDoc(db, u, d),
                    MemDeleteDoc(Clean(db, out), u, d), out)
<1> DEFINE c == Clean(db, out)
<1>1. c.docs = db.docs /\ c.chunks = db.chunks /\ Database(c)
  BY CleanIs
<1>2. \A t, s, v : /\ Follows(db, Did(WithDocs(db, t, s), v),
                              Did(WithDocs(c, t, s), v), out)
                   /\ Follows(db, Did(db, v), Did(c, v), out)
  BY AsideFollows
<1> HIDE DEF c
<1>3. \A t : /\ [db EXCEPT !.docs = t] = WithDocs(db, t, db.chunks)
             /\ [c EXCEPT !.docs = t] = WithDocs(c, t, db.chunks)
  BY <1>1, WithDocsIs
<1>4. Follows(db, MemInsertDoc(db, d, r), MemInsertDoc(c, d, r), out)
  <2> DEFINE t == Put(db.docs, d, r)
  <2>1. /\ MemInsertDoc(db, d, r) = Done([db EXCEPT !.docs = t])
        /\ MemInsertDoc(c, d, r) = Done([c EXCEPT !.docs = t])
    BY <1>1 DEF MemInsertDoc
  <2> HIDE DEF t
  <2>2. QED
    BY <1>2, <1>3, <2>1 DEF Done
<1>5. Follows(db, MemStoreChunks(db, d, u, {d}),
              MemStoreChunks(c, d, u, {d}), out)
  <2> DEFINE k == Cardinality({x.copy : x \in {y \in db.chunks : y.doc = d}})
             t == SetReady(db.docs, d)
             s == db.chunks \cup ChunksOf(d, u, k, {d})
  <2>1. /\ MemStoreChunks(db, d, u, {d})
             = Done([db EXCEPT !.chunks = s, !.docs = t])
        /\ MemStoreChunks(c, d, u, {d})
             = Done([c EXCEPT !.chunks = s, !.docs = t])
    BY <1>1 DEF MemStoreChunks
  <2> HIDE DEF s, t
  <2>2. /\ [db EXCEPT !.chunks = s, !.docs = t] = WithDocs(db, t, s)
        /\ [c EXCEPT !.chunks = s, !.docs = t] = WithDocs(c, t, s)
    BY <1>1, ChunksThenDocs
  <2>3. QED
    BY <1>2, <2>1, <2>2 DEF Done
<1>6. Follows(db, MemMarkFailed(db, d), MemMarkFailed(c, d), out)
  <2> DEFINE t == [db.docs EXCEPT ![d].status = "failed"]
  <2>1. CASE d \in DOMAIN db.docs
    <3>1. MemMarkFailed(db, d) = Done([db EXCEPT !.docs = t])
      BY <2>1 DEF MemMarkFailed
    <3>2. MemMarkFailed(c, d) = Done([c EXCEPT !.docs = t])
      BY <1>1, <2>1 DEF MemMarkFailed
    <3> HIDE DEF t
    <3>3. QED
      BY <1>2, <1>3, <3>1, <3>2 DEF Done
  <2>2. CASE d \notin DOMAIN db.docs
    BY <1>1, <1>2, <2>2 DEF MemMarkFailed, Done
  <2>3. QED
    BY <2>1, <2>2
<1>7. Follows(db, MemDeleteDoc(db, u, d), MemDeleteDoc(c, u, d), out)
  <2> DEFINE t == Without(db.docs, {d})
             s == {x \in db.chunks : x.doc \notin {d}}
  <2>1. CASE IsOwn(db.docs, u, d)
    <3>1. /\ MemDeleteDoc(db, u, d)
               = Did([db EXCEPT !.docs = t, !.chunks = s], TRUE)
          /\ MemDeleteDoc(c, u, d)
               = Did([c EXCEPT !.docs = t, !.chunks = s], TRUE)
      BY <1>1, <2>1 DEF MemDeleteDoc, DropDocs
    <3> HIDE DEF s, t
    <3>2. /\ [db EXCEPT !.docs = t, !.chunks = s] = WithDocs(db, t, s)
          /\ [c EXCEPT !.docs = t, !.chunks = s] = WithDocs(c, t, s)
      BY <1>1, DocsThenChunks
    <3>3. Follows(db, Did(WithDocs(db, t, s), TRUE),
                  Did(WithDocs(c, t, s), TRUE), out)
      BY <1>2
    <3>4. QED
      BY <3>1, <3>2, <3>3
  <2>2. CASE ~IsOwn(db.docs, u, d)
    BY <1>1, <1>2, <2>2 DEF MemDeleteDoc
  <2>3. QED
    BY <2>1, <2>2
<1>8. QED
  BY <1>4, <1>5, <1>6, <1>7 DEF c

LEMMA TickKeeps ==
  ASSUME StoreInv, Tick
  PROVE  StoreInv'
BY DEF Tick, StoreInv, Cleaned, Remembered, AnsweredAlike, DeletionConverges,
       NoCall

(* A second account of an address is a stray.                              *)
LEMMA RegisterKeeps ==
  ASSUME StoreInv, NEW u, NEW e, Register(u, e)
  PROVE  StoreInv'
<1> DEFINE m == MemInsertUser(mem, u, e)
           n == MemInsertUser(Cleaned, u, e)
           p == PgInsertUser(pg, u, e)
           isStray == \E v \in DOMAIN mem.users \ strays : mem.users[v] = e
<1>1. /\ Agreeing(Cleaned, pg, used) /\ u \notin used /\ used' = used \cup {u}
      /\ Remembered /\ CallOn(u, u, isStray, m, p) /\ copies' = copies
  BY DEF StoreInv, Register, Fresh
<1>2. isStray <=> PgFindByEmail(pg, e) # {}
  BY CleanedIs DEF PgFindByEmail, Without
<1>3. m.db = WithUsers(mem, Put(mem.users, u, e))
  BY DEF MemInsertUser, Done, Did, WithUsers
<1>d. Database(mem)
  BY <1>1 DEF Remembered
<1>4. /\ Database(m.db) /\ m.db.users = Put(mem.users, u, e)
      /\ m.db.jobs = mem.jobs /\ m.db.results = mem.results
      /\ m.db.steps = mem.steps /\ m.db.searches = mem.searches
  BY <1>1, <1>3 DEF Remembered, Database, WithUsers
<1>5. mem' = m.db /\ strays' = strays \cup {y \in {u} : isStray}
  BY <1>1 DEF CallOn, Both
<1> HIDE DEF m, n, p, isStray
<1>6. Remembered'
  <2>1. /\ DrawnRows(mem'.jobs, used') /\ DrawnRows(copies'.jobs, used')
        /\ DrawnRows(copies'.searches, used')
    BY <1>1, <1>4, <1>5 DEF Remembered, DrawnRows
  <2>2. DOMAIN mem'.users = DOMAIN mem.users \cup {u}
    BY <1>4, <1>5 DEF Put
  <2>3. DOMAIN mem'.users \cap DOMAIN copies'.jobs = {}
    BY <1>1, <2>2 DEF Remembered, DrawnRows
  <2>4. QED
    BY <1>1, <1>4, <1>5, <2>1, <2>2, <2>3 DEF Remembered
<1>7. CASE isStray
  <2>1. strays' = strays \cup {u} /\ p.db = pg
    BY <1>2, <1>5, <1>7 DEF p, PgInsertUser, PgFindByEmail, Refused
  <2>2. Clean(m.db, strays') = Clean(mem, strays')
    BY <1>3, <1>d, <2>1, HiddenPut
  <2>3. Clean(mem, strays') = Cleaned
    <3>1. /\ DOMAIN mem.users \subseteq used /\ DOMAIN mem.jobs \subseteq used
          /\ DOMAIN mem.results \subseteq used /\ DOMAIN mem.steps \subseteq used
      BY <1>1 DEF Remembered, DrawnRows
    <3>2. /\ Without(mem.users, strays') = Without(mem.users, strays)
          /\ Without(mem.jobs, strays') = Without(mem.jobs, strays)
          /\ Without(mem.results, strays') = Without(mem.results, strays)
          /\ Without(mem.steps, strays') = Without(mem.steps, strays)
      BY <1>1, <2>1, <3>1 DEF Without
    <3> DEFINE c == Clean(mem, strays')
               d == Clean(mem, strays)
    <3>3. /\ Database(c) /\ Database(d) /\ c.users = d.users
          /\ c.tokens = d.tokens /\ c.channels = d.channels
          /\ c.jobs = d.jobs /\ c.results = d.results /\ c.steps = d.steps
          /\ c.searches = d.searches /\ c.events = d.events
          /\ c.docs = d.docs /\ c.chunks = d.chunks
      BY <1>1, <3>2, CleanIs DEF Remembered
    <3> HIDE DEF c, d
    <3>4. c = d
      BY <3>3, SameTables
    <3>5. QED
      BY <3>4 DEF c, d, Cleaned
  <2>4. Agreeing(Clean(m.db, strays'), p.db, used')
    BY <1>1, <2>1, <2>2, <2>3, MoreDrawn
  <2>5. Both(u, "late", m, p)
    BY <1>1, <2>1 DEF CallOn
  <2>6. QED
    BY <1>6, <2>4, <2>5, Concluded
<1>8. CASE ~isStray
  <2>1. strays' = strays /\ u \notin strays
    BY <1>1, <1>5, <1>8 DEF Remembered
  <2>2. Clean(m.db, strays) = n.db
    <3>1. Clean(m.db, strays)
            = WithUsers(Clean(mem, strays),
                        Put(Clean(mem, strays).users, u, e))
      BY <1>3, <1>d, <2>1, ShownPut
    <3>2. QED
      BY <3>1 DEF n, MemInsertUser, Done, Did, Cleaned, WithUsers
  <2>3. Agreeing(n.db, p.db, used') /\ Alike(n, p)
    BY <1>1, <1>2, <1>8, InsertUserAgrees DEF n, p
  <2>4. Alike(m, p)
    BY <2>3 DEF Alike, m, n, MemInsertUser, Done, Did
  <2>5. Both(u, "call", m, p)
    BY <1>1, <2>1 DEF CallOn
  <2>6. QED
    BY <1>6, <2>1, <2>2, <2>3, <2>4, <2>5, Concluded
<1>9. QED
  BY <1>7, <1>8

(* An identifier not drawn yet names nothing.                              *)
LEMMA Unseen ==
  ASSUME NEW m, NEW p, NEW drawn, Agreeing(m, p, drawn), NEW x, x \notin drawn
  PROVE  /\ x \notin DOMAIN m.tokens /\ x \notin DOMAIN m.channels
         /\ x \notin DOMAIN m.searches /\ x \notin DOMAIN m.jobs
         /\ x \notin DOMAIN m.docs
         /\ x \notin DOMAIN m.results \cup DOMAIN m.steps
         /\ \A c \in m.chunks : c.doc # x
         /\ x # Nobody => \A j \in DOMAIN m.jobs : m.jobs[j].search # x
<1>1. /\ TokensAgree(m, p, drawn) /\ ChannelsAgree(m, p, drawn)
      /\ SearchesAgree(m, p, drawn) /\ JobsAgree(m, p, drawn)
      /\ DocsAgree(m, p, drawn)
  BY DEF Agreeing
<1>2. x \notin DOMAIN m.tokens /\ x \notin DOMAIN m.channels
      /\ x \notin DOMAIN m.searches
  BY <1>1 DEF TokensAgree, ChannelsAgree, SearchesAgree, DrawnRows
<1>3. x \notin DOMAIN m.jobs /\ x \notin DOMAIN m.results \cup DOMAIN m.steps
  BY <1>1 DEF JobsAgree, JobRows, DrawnRows
<1>4. x # Nobody => \A j \in DOMAIN m.jobs : m.jobs[j].search # x
  BY <1>1 DEF JobsAgree, JobRows
<1>5. x \notin DOMAIN m.docs /\ \A c \in m.chunks : c.doc # x
  BY <1>1 DEF DocsAgree, DrawnRows, Chunks
<1>6. QED
  BY <1>2, <1>3, <1>4, <1>5

LEMMA IssueTokenKeeps ==
  ASSUME StoreInv, NEW u \in used, NEW t, IssueToken(u, t)
  PROVE  StoreInv'
<1>1. Agreeing(Cleaned, pg, used) /\ t \notin used /\ used' = used \cup {t}
  BY DEF StoreInv, IssueToken, Fresh
<1>2. PICK f : Call(u, MemInsertToken(mem, t, Token(u, f)),
                       PgInsertToken(pg, t, Token(u, f)))
  BY DEF IssueToken
<1> DEFINE r == Token(u, f)
<1>3. r.user = u /\ "user" \in DOMAIN r
  BY DEF Token
<1> HIDE DEF r
<1>4. Agreeing(Cleaned, pg, used') /\ t \in used' /\ u \in used'
  BY <1>1, MoreDrawn
<1>5. t \notin DOMAIN Cleaned.tokens
  BY <1>1, Unseen
<1>6. DrawnRows(Put(Cleaned.tokens, t, r), used')
  BY <1>3, <1>4 DEF Agreeing, TokensAgree, DrawnRows, Put
<1>7. /\ Agreeing(MemInsertToken(Cleaned, t, r).db, PgInsertToken(pg, t, r).db,
                  used')
      /\ u \in DOMAIN Cleaned.users
           => Alike(MemInsertToken(Cleaned, t, r), PgInsertToken(pg, t, r))
  BY <1>3, <1>4, <1>5, <1>6, InsertTokenAgrees
<1>8. Follows(mem, MemInsertToken(mem, t, r), MemInsertToken(Cleaned, t, r),
              strays)
  BY CleanedIs, TokenCallsFollow DEF Cleaned
<1>9. QED
  BY <1>1, <1>2, <1>7, <1>8, CallAnswers DEF r, Follows

LEMMA UseTokenKeeps ==
  ASSUME StoreInv, NEW u, NEW t, UseToken(u, t)
  PROVE  StoreInv'
<1>1. Agreeing(Cleaned, pg, used) /\ used' = used
  BY DEF StoreInv, UseToken, Drawn
<1> DEFINE f == mem.tokens[t].family
<1>2. /\ Follows(mem, MemMarkConsumed(mem, t), MemMarkConsumed(Cleaned, t),
                 strays)
      /\ Follows(mem, MemDeleteToken(mem, t), MemDeleteToken(Cleaned, t), strays)
      /\ Follows(mem, MemDeleteFamily(mem, f), MemDeleteFamily(Cleaned, f),
                 strays)
  BY CleanedIs, TokenCallsFollow DEF Cleaned
<1>3. CASE Call(u, MemMarkConsumed(mem, t), PgMarkConsumed(pg, t))
  BY <1>1, <1>2, <1>3, MarkConsumedAgrees, CallAnswers DEF Follows
<1>4. CASE Call(u, MemDeleteToken(mem, t), PgDeleteToken(pg, t))
  BY <1>1, <1>2, <1>4, DeleteTokenAgrees, CallAnswers DEF Follows
<1>5. CASE Call(u, MemDeleteFamily(mem, f), PgDeleteFamily(pg, f))
  BY <1>1, <1>2, <1>5, DeleteFamilyAgrees, CallAnswers DEF Follows
<1>6. QED
  BY <1>3, <1>4, <1>5 DEF UseToken

LEMMA AddChannelKeeps ==
  ASSUME StoreInv, NEW u \in used, NEW c, AddChannel(u, c)
  PROVE  StoreInv'
<1> DEFINE r == [user |-> u]
<1>1. /\ Agreeing(Cleaned, pg, used) /\ c \notin used /\ used' = used \cup {c}
      /\ Call(u, MemInsertChannel(mem, c, r), PgInsertChannel(pg, c, r))
  BY DEF StoreInv, AddChannel, Fresh
<1>2. r.user = u /\ "user" \in DOMAIN r
  OBVIOUS
<1> HIDE DEF r
<1>3. Agreeing(Cleaned, pg, used') /\ c \in used' /\ u \in used'
  BY <1>1, MoreDrawn
<1>4. c \notin DOMAIN Cleaned.channels
  BY <1>1, Unseen
<1>5. DrawnRows(Put(Cleaned.channels, c, r), used')
  BY <1>2, <1>3 DEF Agreeing, ChannelsAgree, DrawnRows, Put
<1>6. /\ Agreeing(MemInsertChannel(Cleaned, c, r).db,
                  PgInsertChannel(pg, c, r).db, used')
      /\ u \in DOMAIN Cleaned.users
           => Alike(MemInsertChannel(Cleaned, c, r), PgInsertChannel(pg, c, r))
  BY <1>2, <1>3, <1>4, <1>5, InsertChannelAgrees
<1>7. Follows(mem, MemInsertChannel(mem, c, r),
              MemInsertChannel(Cleaned, c, r), strays)
  BY CleanedIs, ChannelCallsFollow DEF Cleaned
<1>8. QED
  BY <1>1, <1>6, <1>7, CallAnswers DEF Follows

LEMMA RemoveChannelKeeps ==
  ASSUME StoreInv, NEW u, NEW c, RemoveChannel(u, c)
  PROVE  StoreInv'
<1>1. /\ Agreeing(Cleaned, pg, used) /\ used' = used
      /\ Call(u, MemDeleteChannel(mem, u, c), PgDeleteChannel(pg, u, c))
  BY DEF StoreInv, RemoveChannel, Drawn
<1>2. /\ Agreeing(MemDeleteChannel(Cleaned, u, c).db,
                  PgDeleteChannel(pg, u, c).db, used')
      /\ u \in DOMAIN Cleaned.users
           => Alike(MemDeleteChannel(Cleaned, u, c), PgDeleteChannel(pg, u, c))
  BY <1>1, DeleteChannelAgrees
<1>3. Follows(mem, MemDeleteChannel(mem, u, c),
              MemDeleteChannel(Cleaned, u, c), strays)
  BY CleanedIs, ChannelCallsFollow DEF Cleaned
<1>4. QED
  BY <1>1, <1>2, <1>3, CallAnswers DEF Follows

LEMMA RecordEventKeeps ==
  ASSUME StoreInv, NEW u, RecordEvent(u)
  PROVE  StoreInv'
<1> DEFINE e == [user |-> u, created |-> now]
<1>1. Agreeing(Cleaned, pg, used) /\ used' = used
  BY DEF StoreInv, RecordEvent, Drawn
<1>2. PICK n : Call(u, MemRecord(mem, n, e), PgRecord(pg, n, e))
  BY DEF RecordEvent
<1>3. e.user = u
  OBVIOUS
<1> HIDE DEF e
<1>4. /\ Agreeing(MemRecord(Cleaned, n, e).db, PgRecord(pg, n, e).db, used')
      /\ u \in DOMAIN Cleaned.users
           => Alike(MemRecord(Cleaned, n, e), PgRecord(pg, n, e))
  BY <1>1, <1>3, RecordAgrees
<1>5. Follows(mem, MemRecord(mem, n, e), MemRecord(Cleaned, n, e), strays)
  BY CleanedIs, EventCallsFollow DEF Cleaned
<1>6. QED
  BY <1>1, <1>2, <1>4, <1>5, CallAnswers DEF Follows

LEMMA HousekeepingKeeps ==
  ASSUME StoreInv, Housekeeping
  PROVE  StoreInv'
<1>1. /\ Agreeing(Cleaned, pg, used) /\ used' = used /\ copies' = copies
      /\ strays' = strays
  BY DEF StoreInv, Housekeeping
<1>2. CASE Both(Nobody, "loop", MemDeleteExpired(mem, now),
                                PgDeleteExpired(pg, now))
  <2>1. Agreeing(MemDeleteExpired(Cleaned, now).db, PgDeleteExpired(pg, now).db,
                 used')
    BY <1>1, DeleteExpiredAgrees
  <2>2. Follows(mem, MemDeleteExpired(mem, now),
                MemDeleteExpired(Cleaned, now), strays)
    BY CleanedIs, TokenCallsFollow DEF Cleaned
  <2>3. QED
    BY <1>1, <1>2, <2>1, <2>2, LoopAnswers DEF Follows
<1>3. CASE Both(Nobody, "loop", MemForgetEvents(mem, now),
                                PgForgetEvents(pg, now))
  <2>1. Agreeing(MemForgetEvents(Cleaned, now).db, PgForgetEvents(pg, now).db,
                 used')
    BY <1>1, ForgetEventsAgrees
  <2>2. Follows(mem, MemForgetEvents(mem, now),
                MemForgetEvents(Cleaned, now), strays)
    BY CleanedIs, EventCallsFollow DEF Cleaned
  <2>3. QED
    BY <1>1, <1>3, <2>1, <2>2, LoopAnswers DEF Follows
<1>4. QED
  BY <1>2, <1>3 DEF Housekeeping

-----------------------------------------------------------------------------
(* Jobs: rows that are there, and rows that are not.                       *)

(* What is written over a job that was inserted is remembered.             *)
LEMMA WriteRemembered ==
  ASSUME Remembered, used' = used, copies' = copies, strays' \subseteq used,
         NEW j \in DOMAIN copies.jobs, Database(mem'),
         mem'.users = mem.users, mem'.searches = mem.searches,
         DrawnRows(mem'.jobs, used),
         DOMAIN mem'.jobs \subseteq DOMAIN mem.jobs \cup {j},
         DOMAIN mem'.results \subseteq DOMAIN mem.results \cup {j},
         DOMAIN mem'.steps \subseteq DOMAIN mem.steps \cup {j}
  PROVE  Remembered'
<1>1. DrawnRows(mem'.jobs, used') /\ DrawnRows(copies'.jobs, used')
      /\ DrawnRows(copies'.searches, used')
  BY DEF Remembered
<1>2. QED
  BY <1>1 DEF Remembered

LEMMA JobsWritten ==
  ASSUME Remembered, used' = used, copies' = copies, strays' \subseteq used,
         NEW j \in DOMAIN copies.jobs, NEW t,
         \/ /\ mem' = WithJobs(mem, Put(mem.jobs, j, t)) /\ j \in used
            /\ "user" \in DOMAIN t /\ t.user \in used
         \/ mem' = WithResults(mem, Put(mem.results, j, t))
         \/ mem' = WithSteps(mem, Put(mem.steps, j, t))
         \/ mem' = WithSteps(mem, Without(mem.steps, {j}))
         \/ mem' = mem
  PROVE  Remembered'
<1>1. Database(mem) /\ DrawnRows(mem.jobs, used)
  BY DEF Remembered
<1>2. CASE /\ mem' = WithJobs(mem, Put(mem.jobs, j, t)) /\ j \in used
           /\ "user" \in DOMAIN t /\ t.user \in used
  <2>1. /\ Database(mem') /\ mem'.users = mem.users
        /\ mem'.searches = mem.searches /\ mem'.results = mem.results
        /\ mem'.steps = mem.steps /\ mem'.jobs = Put(mem.jobs, j, t)
    BY <1>1, <1>2 DEF WithJobs, Database
  <2>2. DrawnRows(Put(mem.jobs, j, t), used)
        /\ DOMAIN Put(mem.jobs, j, t) = DOMAIN mem.jobs \cup {j}
    BY <1>1, <1>2 DEF Put, DrawnRows
  <2>3. QED
    BY <2>1, <2>2, WriteRemembered
<1>3. CASE mem' = WithResults(mem, Put(mem.results, j, t))
  <2>1. /\ Database(mem') /\ mem'.users = mem.users
        /\ mem'.searches = mem.searches /\ mem'.jobs = mem.jobs
        /\ mem'.steps = mem.steps /\ mem'.results = Put(mem.results, j, t)
    BY <1>1, <1>3 DEF WithResults, Database
  <2>2. DOMAIN Put(mem.results, j, t) = DOMAIN mem.results \cup {j}
    BY DEF Put
  <2>3. QED
    BY <1>1, <2>1, <2>2, WriteRemembered
<1>4. CASE \/ mem' = WithSteps(mem, Put(mem.steps, j, t))
           \/ mem' = WithSteps(mem, Without(mem.steps, {j}))
  <2>1. /\ Database(mem') /\ mem'.users = mem.users
        /\ mem'.searches = mem.searches /\ mem'.jobs = mem.jobs
        /\ mem'.results = mem.results
        /\ mem'.steps \in {Put(mem.steps, j, t), Without(mem.steps, {j})}
    BY <1>1, <1>4 DEF WithSteps, Database
  <2>2. /\ DOMAIN Put(mem.steps, j, t) = DOMAIN mem.steps \cup {j}
        /\ DOMAIN Without(mem.steps, {j}) = DOMAIN mem.steps \ {j}
    BY DEF Put, Without
  <2>3. QED
    BY <1>1, <2>1, <2>2, WriteRemembered
<1>5. CASE mem' = mem
  BY <1>1, <1>5, WriteRemembered
<1>6. QED
  BY <1>2, <1>3, <1>4, <1>5

(* A job PostgreSQL does not have may go from memory, too.                 *)
LEMMA StrayJob ==
  ASSUME NEW m, NEW p, NEW drawn, Agreeing(m, p, drawn), NEW j,
         j \notin DOMAIN p.jobs
  PROVE  Agreeing(DropJobs(m, {j}), p, drawn)
<1>1. Agreeing(DropJobs(m, {j}), DropJobs(p, {}), drawn)
  BY JobsWithout
<1>2. DropJobs(p, {}) = p
  <2> DEFINE q == DropJobs(p, {})
  <2>1. /\ Database(p) /\ p.results = OfJobs(m.results, p.jobs)
        /\ p.steps = OfJobs(m.steps, p.jobs)
        /\ p.jobs = [i \in DOMAIN p.jobs |-> p.jobs[i]]
    BY JobsOfPg DEF Agreeing, JobsAgree
  <2>2. /\ Without(p.jobs, {}) = p.jobs /\ Without(p.results, {}) = p.results
        /\ Without(p.steps, {}) = p.steps
    BY <2>1 DEF Without, OfJobs
  <2>3. /\ Database(q) /\ q.users = p.users /\ q.tokens = p.tokens
        /\ q.channels = p.channels /\ q.jobs = p.jobs
        /\ q.results = p.results /\ q.steps = p.steps
        /\ q.searches = p.searches /\ q.events = p.events
        /\ q.docs = p.docs /\ q.chunks = p.chunks
    BY <2>1, <2>2, DroppedJobs
  <2> HIDE DEF q
  <2>4. q = p
    BY <2>1, <2>3, SameTables
  <2>5. QED
    BY <2>4 DEF q
<1>3. QED
  BY <1>1, <1>2

(* A call that makes a stray of j, or writes to one.                       *)
LEMMA StrayAnswers ==
  ASSUME StoreInv, NEW u, NEW j, j \notin DOMAIN mem.users, NEW isStray,
         NEW m, NEW p, CallOn(u, j, isStray, m, p), j \in strays',
         j \notin DOMAIN pg.jobs, used \subseteq used', p.db = pg, Remembered',
         Clean(m.db, strays \cup {j}) = Clean(mem, strays \cup {j})
  PROVE  StoreInv'
<1>1. strays' = strays \cup {j}
  BY DEF CallOn
<1>2. Database(mem) /\ {j} \cap DOMAIN mem.users = {}
      /\ Agreeing(Cleaned, pg, used)
  BY DEF StoreInv, Remembered
<1>3. Clean(mem, strays \cup {j}) = DropJobs(Cleaned, {j})
  BY <1>2, CleanGone DEF Cleaned
<1>4. Agreeing(Clean(m.db, strays'), p.db, used')
  BY <1>1, <1>2, <1>3, StrayJob, MoreDrawn
<1>5. Both(u, "late", m, p)
  BY DEF CallOn
<1>6. QED
  BY <1>4, <1>5, Concluded

(* A call on a job that is no stray, or that memory treats like one.       *)
LEMMA JobAnswers ==
  ASSUME StoreInv, NEW u, NEW j, NEW isStray, ~isStray,
         NEW m, NEW n, NEW p, CallOn(u, j, isStray, m, p), Remembered',
         Database(m.db), m.db.users = mem.users,
         Mirrored(m, n, strays), Agreeing(n.db, p.db, used'),
         j \notin strays /\ u \in DOMAIN Cleaned.users => Alike(n, p)
  PROVE  StoreInv'
<1>1. strays' = strays /\ Both(u, IF j \in strays THEN "late" ELSE "call", m, p)
  BY DEF CallOn
<1>2. p.db.users = Cleaned.users
  BY CleanedIs, CleanIs DEF Mirrored, Agreeing, UsersAgree
<1>3. Alike(n, p) => Alike(m, p)
  BY DEF Alike, Mirrored
<1>4. Agreeing(Clean(m.db, strays'), p.db, used')
  BY <1>1 DEF Mirrored
<1>5. CASE j \in strays
  <2>1. Both(u, "late", m, p)
    BY <1>1, <1>5
  <2>2. QED
    BY <1>4, <2>1, Concluded
<1>6. CASE j \notin strays
  <2>1. Both(u, "call", m, p)
    BY <1>1, <1>6
  <2>2. u \in DOMAIN p.db.users => Alike(m, p)
    BY <1>2, <1>3, <1>6
  <2>3. QED
    BY <1>4, <2>1, <2>2, Concluded
<1>7. QED
  BY <1>5, <1>6

LEMMA JobCallsMirrored ==
  ASSUME NEW db, Database(db), NEW out, NEW j, j \notin out, NEW r, NEW s
  PROVE  /\ Mirrored(MemInsertJob(db, j, r), MemInsertJob(Clean(db, out), j, r),
                     out)
         /\ Mirrored(MemUpdateJob(db, j, r), MemUpdateJob(Clean(db, out), j, r),
                     out)
         /\ Mirrored(MemStoreResults(db, j, r),
                     MemStoreResults(Clean(db, out), j, r), out)
         /\ Mirrored(MemAppendStep(db, j, s),
                     MemAppendStep(Clean(db, out), j, s), out)
         /\ Mirrored(MemAddUsage(db, j), MemAddUsage(Clean(db, out), j), out)
<1> DEFINE c == Clean(db, out)
<1>1. /\ c.jobs = Without(db.jobs, out) /\ c.results = Without(db.results, out)
      /\ c.steps = Without(db.steps, out)
  BY CleanIs
<1>2. /\ j \in DOMAIN c.jobs <=> j \in DOMAIN db.jobs
      /\ j \in DOMAIN db.jobs => c.jobs[j] = db.jobs[j]
      /\ Get(c.steps, j) = Get(db.steps, j)
  BY <1>1 DEF Without, Get
<1>3. \A x :
        /\ Clean(WithJobs(db, Put(db.jobs, j, x)), out)
             = WithJobs(c, Put(c.jobs, j, x))
        /\ Clean(WithResults(db, Put(db.results, j, x)), out)
             = WithResults(c, Put(c.results, j, x))
        /\ Clean(WithSteps(db, Put(db.steps, j, x)), out)
             = WithSteps(c, Put(c.steps, j, x))
  BY ShownPut
<1>4. ASSUME NEW a, NEW b, Clean(a, out) = b
      PROVE  Mirrored(Done(a), Done(b), out)
  BY <1>4 DEF Mirrored, Done, Did
<1>5. Clean(db, out) = c
  OBVIOUS
<1> HIDE DEF c
<1>6. Mirrored(MemInsertJob(db, j, r), MemInsertJob(c, j, r), out)
  BY <1>3, <1>4 DEF MemInsertJob, WithJobs
<1>7. Mirrored(MemUpdateJob(db, j, r), MemUpdateJob(c, j, r), out)
  <2> DEFINE t == IF j \in DOMAIN db.jobs
                  THEN [r EXCEPT !.usage = db.jobs[j].usage] ELSE r
  <2>1. MemUpdateJob(db, j, r) = Done(WithJobs(db, Put(db.jobs, j, t)))
    BY DEF MemUpdateJob, WithJobs
  <2>2. MemUpdateJob(c, j, r) = Done(WithJobs(c, Put(c.jobs, j, t)))
    BY <1>2 DEF MemUpdateJob, WithJobs
  <2> HIDE DEF t
  <2>3. QED
    BY <1>3, <1>4, <2>1, <2>2
<1>8. Mirrored(MemStoreResults(db, j, r), MemStoreResults(c, j, r), out)
  BY <1>3, <1>4 DEF MemStoreResults, WithResults
<1>9. Mirrored(MemAppendStep(db, j, s), MemAppendStep(c, j, s), out)
  <2> DEFINE t == Get(db.steps, j) \cup {s}
  <2>1. MemAppendStep(db, j, s) = Done(WithSteps(db, Put(db.steps, j, t)))
    BY DEF MemAppendStep, WithSteps
  <2>2. MemAppendStep(c, j, s) = Done(WithSteps(c, Put(c.steps, j, t)))
    BY <1>2 DEF MemAppendStep, WithSteps
  <2> HIDE DEF t
  <2>3. QED
    BY <1>3, <1>4, <2>1, <2>2
<1>10. Mirrored(MemAddUsage(db, j), MemAddUsage(c, j), out)
  <2> DEFINE t == [db.jobs[j] EXCEPT !.usage = db.jobs[j].usage + 1]
  <2>1. CASE j \in DOMAIN db.jobs
    <3>1. [db.jobs EXCEPT ![j].usage = db.jobs[j].usage + 1]
            = Put(db.jobs, j, t)
      BY <2>1 DEF Put
    <3>2. [c.jobs EXCEPT ![j].usage = c.jobs[j].usage + 1] = Put(c.jobs, j, t)
      BY <1>2, <2>1 DEF Put
    <3>3. MemAddUsage(db, j) = Done(WithJobs(db, Put(db.jobs, j, t)))
      BY <2>1, <3>1 DEF MemAddUsage, WithJobs
    <3>4. MemAddUsage(c, j) = Done(WithJobs(c, Put(c.jobs, j, t)))
      BY <1>2, <2>1, <3>2 DEF MemAddUsage, WithJobs
    <3> HIDE DEF t
    <3>5. QED
      BY <1>3, <1>4, <3>3, <3>4
  <2>2. CASE j \notin DOMAIN db.jobs
    BY <1>2, <1>4, <1>5, <2>2 DEF MemAddUsage
  <2>3. QED
    BY <2>1, <2>2
<1>11. QED
  BY <1>6, <1>7, <1>8, <1>9, <1>10 DEF c

LEMMA ClearStepsMirrored ==
  ASSUME NEW db, Database(db), NEW out, NEW j
  PROVE  Mirrored(MemClearSteps(db, j), MemClearSteps(Clean(db, out), j), out)
<1> DEFINE c == Clean(db, out)
<1>1. Clean(WithSteps(db, Without(db.steps, {j})), out)
        = WithSteps(c, Without(c.steps, {j}))
  BY CleanWithout
<1> HIDE DEF c
<1>2. /\ MemClearSteps(db, j) = Done(WithSteps(db, Without(db.steps, {j})))
      /\ MemClearSteps(c, j) = Done(WithSteps(c, Without(c.steps, {j})))
  BY DEF MemClearSteps, WithSteps
<1>3. QED
  BY <1>1, <1>2 DEF Mirrored, Done, Did, c

(* A run of a search deleted since it was listed is a stray.               *)
LEMMA InsertJobKeeps ==
  ASSUME StoreInv, NEW u \in used, NEW j, InsertJob(u, j)
  PROVE  StoreInv'
<1>1. /\ Agreeing(Cleaned, pg, used) /\ j \notin used /\ used' = used \cup {j}
      /\ Remembered /\ Database(mem)
  BY DEF StoreInv, InsertJob, Fresh, Remembered
<1>2. PICK s \in Of(copies.searches, u) \cup {Nobody} :
        LET r == [user |-> u, search |-> s, status |-> "pending", usage |-> 0,
                  created |-> now]
        IN  /\ CallOn(u, j, s \notin DOMAIN mem.searches \cup {Nobody},
                      MemInsertJob(mem, j, r), PgInsertJob(pg, j, r))
            /\ copies' = [copies EXCEPT !.jobs = Put(@, j, r)]
  BY DEF InsertJob
<1> DEFINE r == [user |-> u, search |-> s, status |-> "pending", usage |-> 0,
                 created |-> now]
           isStray == s \notin DOMAIN mem.searches \cup {Nobody}
           m == MemInsertJob(mem, j, r)
           n == MemInsertJob(Cleaned, j, r)
           p == PgInsertJob(pg, j, r)
<1>3. r.user = u /\ r.search = s /\ JobShape(r) /\ "user" \in DOMAIN r
  BY DEF JobShape
<1>4. CallOn(u, j, isStray, m, p) /\ copies' = [copies EXCEPT !.jobs = Put(@, j, r)]
  BY <1>2
<1> HIDE DEF r
<1>5. /\ copies'.jobs = Put(copies.jobs, j, r)
      /\ copies'.searches = copies.searches
      /\ copies' = [jobs |-> copies'.jobs, searches |-> copies'.searches]
  BY <1>1, <1>4 DEF Remembered
<1>6. m.db = WithJobs(mem, Put(mem.jobs, j, r))
  BY DEF MemInsertJob, Done, Did, WithJobs
<1>7. /\ Database(m.db) /\ m.db.users = mem.users
      /\ m.db.jobs = Put(mem.jobs, j, r) /\ m.db.results = mem.results
      /\ m.db.steps = mem.steps /\ m.db.searches = mem.searches
  BY <1>1, <1>6 DEF WithJobs, Database
<1>8. mem' = m.db /\ strays' = strays \cup {y \in {j} : isStray}
  BY <1>4 DEF CallOn, Both
<1>9. j \notin DOMAIN mem.users /\ j \notin DOMAIN pg.jobs /\ j \notin strays
  <2>1. DOMAIN pg.jobs \subseteq DOMAIN Cleaned.jobs
    <3>1. JobsAgree(Cleaned, pg, used)
      BY <1>1 DEF Agreeing
    <3>2. DOMAIN pg.jobs
            = {i \in DOMAIN Cleaned.jobs :
                 Cleaned.jobs[i].user \in DOMAIN Cleaned.users}
      BY <3>1, JobsOfPg
    <3>3. QED
      BY <3>2
  <2>2. QED
    BY <1>1, <2>1, Unseen DEF Remembered
<1> HIDE DEF m, n, p, isStray
<1>10. Remembered'
  <2>1. /\ DrawnRows(mem'.jobs, used') /\ DrawnRows(copies'.jobs, used')
        /\ DrawnRows(copies'.searches, used')
    BY <1>1, <1>3, <1>5, <1>7, <1>8 DEF Remembered, DrawnRows, Put
  <2>2. /\ DOMAIN mem'.jobs = DOMAIN mem.jobs \cup {j}
        /\ DOMAIN copies'.jobs = DOMAIN copies.jobs \cup {j}
    BY <1>5, <1>7, <1>8 DEF Put
  <2>3. QED
    BY <1>1, <1>5, <1>7, <1>8, <1>9, <2>1, <2>2 DEF Remembered
<1>11. CASE isStray
  <2>1. j \in strays'
    BY <1>8, <1>11
  <2>2. p.db = pg
    <3>1. DOMAIN pg.searches \subseteq DOMAIN mem.searches
      BY <1>1, CleanedIs DEF Agreeing, SearchesAgree, Live
    <3>2. QED
      BY <1>3, <1>11, <3>1 DEF p, isStray, PgInsertJob, Refused
  <2>3. Clean(m.db, strays \cup {j}) = Clean(mem, strays \cup {j})
    BY <1>1, <1>6, HiddenPut
  <2>4. QED
    BY <1>1, <1>4, <1>9, <1>10, <2>1, <2>2, <2>3, StrayAnswers
<1>12. CASE ~isStray
  <2>1. Mirrored(m, n, strays)
    BY <1>1, <1>9, JobCallsMirrored DEF m, n, Cleaned
  <2>2. r.search \in Of(Cleaned.searches, r.user) \cup {Nobody}
    <3>1. Cleaned.searches = mem.searches
      BY CleanedIs
    <3>2. QED
      BY <1>1, <1>2, <1>3, <1>12, <3>1 DEF isStray, Of, Remembered
  <2>3. Agreeing(Cleaned, pg, used') /\ j \in used' /\ u \in used'
    BY <1>1, MoreDrawn
  <2>4. /\ j \notin DOMAIN Cleaned.jobs
        /\ j \notin DOMAIN Cleaned.results \cup DOMAIN Cleaned.steps
    BY <1>1, Unseen
  <2>5. /\ Agreeing(n.db, p.db, used')
        /\ u \in DOMAIN Cleaned.users => Alike(n, p)
    BY <1>3, <2>2, <2>3, <2>4, InsertJobAgrees DEF n, p
  <2>6. QED
    BY <1>4, <1>7, <1>10, <1>12, <2>1, <2>5, JobAnswers
<1>13. QED
  BY <1>11, <1>12

(* A job written after it was deleted is a stray.                          *)
LEMMA UseJobKeeps ==
  ASSUME StoreInv, NEW u, NEW j, UseJob(u, j)
  PROVE  StoreInv'
<1> DEFINE copy == [Found(j) EXCEPT !.status = "completed", !.usage = 0]
           gone == j \notin DOMAIN mem.jobs
<1>1. /\ Agreeing(Cleaned, pg, used) /\ used' = used /\ j \in used
      /\ j \in DOMAIN copies.jobs /\ Found(j).user = u /\ copies' = copies
      /\ Remembered /\ Database(mem)
  BY DEF StoreInv, UseJob, Drawn, Remembered
<1>2. "user" \in DOMAIN copy /\ copy.user = u /\ u \in used
  BY <1>1 DEF Found, Remembered, DrawnRows
<1>3. /\ JobsAgree(Cleaned, pg, used)
      /\ Cleaned.jobs = Without(mem.jobs, strays)
      /\ DOMAIN pg.jobs
           = {i \in DOMAIN Cleaned.jobs : Cleaned.jobs[i].user \in DOMAIN Cleaned.users}
      /\ \A i \in DOMAIN Cleaned.jobs : JobShape(Cleaned.jobs[i])
      /\ DOMAIN Cleaned.jobs = DOMAIN mem.jobs \ strays
      /\ \A i \in DOMAIN Cleaned.jobs : Cleaned.jobs[i] = mem.jobs[i]
  <2>1. JobsAgree(Cleaned, pg, used) /\ Cleaned.jobs = Without(mem.jobs, strays)
    BY <1>1, CleanedIs DEF Agreeing
  <2>2. /\ DOMAIN pg.jobs
             = {i \in DOMAIN Cleaned.jobs :
                  Cleaned.jobs[i].user \in DOMAIN Cleaned.users}
        /\ \A i \in DOMAIN Cleaned.jobs : JobShape(Cleaned.jobs[i])
    BY <2>1, JobsOfPg
  <2>3. /\ DOMAIN Cleaned.jobs = DOMAIN mem.jobs \ strays
        /\ \A i \in DOMAIN Cleaned.jobs : Cleaned.jobs[i] = mem.jobs[i]
    BY <2>1 DEF Without
  <2>4. QED
    BY <2>1, <2>2, <2>3
<1>4. /\ j \notin strays /\ u \in DOMAIN Cleaned.users /\ ~gone
           => j \in DOMAIN pg.jobs
      /\ j \notin DOMAIN mem.users
      /\ gone \/ j \in strays => j \notin DOMAIN pg.jobs
  BY <1>1, <1>3 DEF Found, Remembered
<1>5. ASSUME NEW isStray, NEW m, NEW p, CallOn(u, j, isStray, m, p)
      PROVE  /\ strays' = strays \cup {y \in {j} : isStray}
             /\ strays' \subseteq used /\ mem' = m.db
  BY <1>1, <1>5 DEF CallOn, Both, Remembered
<1>6. ASSUME NEW m, NEW n, NEW p, CallOn(u, j, gone, m, p),
             Remembered', p.db = pg \/ ~(gone \/ j \in strays),
             Clean(m.db, strays \cup {j}) = Clean(mem, strays \cup {j}),
             Database(m.db), m.db.users = mem.users,
             j \notin strays => Mirrored(m, n, strays),
             ~gone /\ j \notin strays => Agreeing(n.db, p.db, used),
             ~gone /\ j \notin strays /\ u \in DOMAIN Cleaned.users
               => Alike(n, p)
      PROVE  StoreInv'
  <2>1. CASE gone \/ j \in strays
    <3>1. j \in strays'
      BY <1>5, <1>6, <2>1
    <3>2. used \subseteq used' /\ j \notin DOMAIN mem.users
          /\ j \notin DOMAIN pg.jobs /\ p.db = pg
      BY <1>1, <1>4, <1>6, <2>1
    <3> HIDE DEF gone
    <3>3. QED
      BY <1>6, <3>1, <3>2, StrayAnswers
  <2>2. CASE ~gone /\ j \notin strays
    <3>1. Agreeing(n.db, p.db, used') /\ Mirrored(m, n, strays)
      BY <1>1, <1>6, <2>2
    <3> HIDE DEF gone
    <3>2. QED
      BY <1>6, <2>2, <3>1, JobAnswers
  <2>3. QED
    BY <2>1, <2>2
<1>7. ASSUME CallOn(u, j, gone, MemUpdateJob(mem, j, copy),
                    PgUpdateJob(pg, j, copy))
      PROVE  StoreInv'
  <2> DEFINE m == MemUpdateJob(mem, j, copy)
             n == MemUpdateJob(Cleaned, j, copy)
             p == PgUpdateJob(pg, j, copy)
             r == IF j \in DOMAIN mem.jobs
                  THEN [copy EXCEPT !.usage = mem.jobs[j].usage] ELSE copy
  <2>1. r.user = u /\ "user" \in DOMAIN r
    BY <1>2
  <2>2. m.db = WithJobs(mem, Put(mem.jobs, j, r))
    BY DEF MemUpdateJob, Done, Did, WithJobs
  <2> HIDE DEF r
  <2>3. Database(m.db) /\ m.db.users = mem.users
    BY <1>1, <2>2 DEF WithJobs, Database
  <2>4. Clean(m.db, strays \cup {j}) = Clean(mem, strays \cup {j})
    BY <1>1, <2>2, HiddenPut
  <2>5. j \notin strays => Mirrored(m, n, strays)
    BY <1>1, JobCallsMirrored DEF Cleaned
  <2>6. gone \/ j \in strays => p.db = pg
    BY <1>4 DEF PgUpdateJob, Done, Did
  <2>7. ASSUME ~gone, j \notin strays
        PROVE  Agreeing(n.db, p.db, used) /\ Alike(n, p)
    <3> DEFINE row == Cleaned.jobs[j]
    <3>1. /\ j \in DOMAIN Cleaned.jobs /\ JobShape(row) /\ row = Found(j)
      BY <1>3, <2>7 DEF Found
    <3>2. row = [user |-> row.user, search |-> row.search,
                 status |-> row.status, usage |-> row.usage,
                 created |-> row.created]
      BY <3>1 DEF JobShape
    <3>3. copy = [row EXCEPT !.status = "completed", !.usage = 0]
      BY <3>1
    <3> HIDE DEF row, copy
    <3> DEFINE done == [row EXCEPT !.status = "completed"]
    <3>4. done = [user |-> row.user, search |-> row.search,
                  status |-> "completed", usage |-> row.usage,
                  created |-> row.created]
      BY <3>2
    <3>5. copy = [done EXCEPT !.usage = 0]
      BY <3>2, <3>3
    <3> HIDE DEF done
    <3>6. copy = [user |-> row.user, search |-> row.search,
                  status |-> "completed", usage |-> 0, created |-> row.created]
      BY <3>4, <3>5
    <3>7. /\ JobShape(copy) /\ copy.user = row.user
          /\ copy.search = row.search /\ copy.created = row.created
      BY <3>6 DEF JobShape
    <3>8. QED
      BY <1>1, <3>1, <3>7, UpdateJobAgrees DEF row
  <2>8. mem' = m.db /\ strays' \subseteq used
    BY <1>5, <1>7
  <2> HIDE DEF m, n, p, copy, gone
  <2>9. Remembered'
    BY <1>1, <1>2, <2>1, <2>2, <2>8, JobsWritten
  <2>10. QED
    BY <1>6, <1>7, <2>3, <2>4, <2>5, <2>6, <2>7, <2>9 DEF m, p
<1>8. ASSUME CallOn(u, j, gone, MemStoreResults(mem, j, {1}),
                    PgStoreResults(pg, j, {1}))
      PROVE  StoreInv'
  <2> DEFINE m == MemStoreResults(mem, j, {1})
             n == MemStoreResults(Cleaned, j, {1})
             p == PgStoreResults(pg, j, {1})
  <2>1. m.db = WithResults(mem, Put(mem.results, j, {1}))
    BY DEF MemStoreResults, Done, Did, WithResults
  <2>2. Database(m.db) /\ m.db.users = mem.users
    BY <1>1, <2>1 DEF WithResults, Database
  <2>3. Clean(m.db, strays \cup {j}) = Clean(mem, strays \cup {j})
    BY <1>1, <2>1, HiddenPut
  <2>4. j \notin strays => Mirrored(m, n, strays)
    BY <1>1, JobCallsMirrored DEF Cleaned
  <2>5. gone \/ j \in strays => p.db = pg
    BY <1>4 DEF PgStoreResults, Refused
  <2>6. ASSUME ~gone, j \notin strays
        PROVE  /\ Agreeing(n.db, p.db, used)
               /\ u \in DOMAIN Cleaned.users => Alike(n, p)
    BY <1>1, <1>4, <2>6, StoreResultsAgrees
  <2>7. mem' = m.db /\ strays' \subseteq used
    BY <1>5, <1>8
  <2> HIDE DEF m, n, p, copy, gone
  <2>8. Remembered'
    BY <1>1, <2>1, <2>7, JobsWritten
  <2>9. QED
    BY <1>6, <1>8, <2>2, <2>3, <2>4, <2>5, <2>6, <2>8 DEF m, p
<1>9. ASSUME CallOn(u, j, gone, MemAppendStep(mem, j, 1), PgAppendStep(pg, j, 1))
      PROVE  StoreInv'
  <2> DEFINE m == MemAppendStep(mem, j, 1)
             n == MemAppendStep(Cleaned, j, 1)
             p == PgAppendStep(pg, j, 1)
             r == Get(mem.steps, j) \cup {1}
  <2>1. m.db = WithSteps(mem, Put(mem.steps, j, r))
    BY DEF MemAppendStep, Done, Did, WithSteps
  <2> HIDE DEF r
  <2>2. Database(m.db) /\ m.db.users = mem.users
    BY <1>1, <2>1 DEF WithSteps, Database
  <2>3. Clean(m.db, strays \cup {j}) = Clean(mem, strays \cup {j})
    BY <1>1, <2>1, HiddenPut
  <2>4. j \notin strays => Mirrored(m, n, strays)
    BY <1>1, JobCallsMirrored DEF Cleaned
  <2>5. gone \/ j \in strays => p.db = pg
    BY <1>4 DEF PgAppendStep, Refused
  <2>6. ASSUME ~gone, j \notin strays
        PROVE  /\ Agreeing(n.db, p.db, used)
               /\ u \in DOMAIN Cleaned.users => Alike(n, p)
    BY <1>1, <1>4, <2>6, AppendStepAgrees
  <2>7. mem' = m.db /\ strays' \subseteq used
    BY <1>5, <1>9
  <2> HIDE DEF m, n, p, copy, gone
  <2>8. Remembered'
    BY <1>1, <2>1, <2>7, JobsWritten
  <2>9. QED
    BY <1>6, <1>9, <2>2, <2>3, <2>4, <2>5, <2>6, <2>8 DEF m, p
<1>10. ASSUME CallOn(u, j, FALSE, MemClearSteps(mem, j), PgClearSteps(pg, j))
       PROVE  StoreInv'
  <2> DEFINE m == MemClearSteps(mem, j)
             n == MemClearSteps(Cleaned, j)
             p == PgClearSteps(pg, j)
  <2>1. m.db = WithSteps(mem, Without(mem.steps, {j}))
    BY DEF MemClearSteps, Done, Did, WithSteps
  <2>2. Database(m.db) /\ m.db.users = mem.users
    BY <1>1, <2>1 DEF WithSteps, Database
  <2>3. Mirrored(m, n, strays)
    BY <1>1, ClearStepsMirrored DEF Cleaned
  <2>4. Agreeing(n.db, p.db, used') /\ Alike(n, p)
    BY <1>1, ClearStepsAgrees
  <2>5. mem' = m.db /\ strays' \subseteq used
    BY <1>5, <1>10
  <2> HIDE DEF m, n, p
  <2>6. Remembered'
    BY <1>1, <2>1, <2>5, JobsWritten
  <2>7. QED
    BY <1>10, <2>2, <2>3, <2>4, <2>6, JobAnswers DEF m, p
<1>11. ASSUME CallOn(u, j, FALSE, MemAddUsage(mem, j), PgAddUsage(pg, j))
       PROVE  StoreInv'
  <2> DEFINE m == MemAddUsage(mem, j)
             n == MemAddUsage(Cleaned, j)
             p == PgAddUsage(pg, j)
             r == [mem.jobs[j] EXCEPT !.usage = mem.jobs[j].usage + 1]
  <2>1. m.db = IF gone THEN mem ELSE WithJobs(mem, Put(mem.jobs, j, r))
    <3>1. CASE gone
      BY <3>1 DEF MemAddUsage, Done, Did
    <3>2. CASE ~gone
      <4>1. [mem.jobs EXCEPT ![j].usage = mem.jobs[j].usage + 1]
              = Put(mem.jobs, j, r)
        BY <3>2 DEF Put
      <4>2. QED
        BY <3>2, <4>1 DEF MemAddUsage, Done, Did, WithJobs
    <3>3. QED
      BY <3>1, <3>2
  <2>2. Database(m.db) /\ m.db.users = mem.users
    BY <1>1, <2>1 DEF WithJobs, Database
  <2>3. mem' = m.db /\ strays' = strays /\ strays' \subseteq used
    BY <1>5, <1>11
  <2>4. ~gone => r.user = u /\ "user" \in DOMAIN r
    BY <1>1, <1>2 DEF Found, Remembered, DrawnRows
  <2>5. gone \/ j \in strays => p.db = pg
    BY <1>4 DEF PgAddUsage, Done, Did
  <2>6. Alike(m, p) /\ Alike(n, p)
    BY DEF Alike, MemAddUsage, PgAddUsage, Done, Did
  <2> HIDE DEF r
  <2>7. Remembered'
    <3> HIDE DEF m, n, p
    <3>1. CASE gone
      BY <1>1, <2>1, <2>3, <3>1, JobsWritten
    <3>2. CASE ~gone
      BY <1>1, <1>2, <2>1, <2>3, <2>4, <3>2, JobsWritten
    <3>3. QED
      BY <3>1, <3>2
  <2>8. Agreeing(Clean(m.db, strays), p.db, used)
    <3>1. CASE gone
      BY <1>1, <2>1, <2>5, <3>1 DEF Cleaned
    <3>2. CASE j \in strays
      <4>1. Clean(m.db, strays) = Cleaned
        BY <1>1, <2>1, <3>2, HiddenPut DEF Cleaned
      <4>2. QED
        BY <1>1, <2>5, <3>2, <4>1
    <3>3. CASE ~gone /\ j \notin strays
      <4>1. Mirrored(m, n, strays)
        BY <1>1, <3>3, JobCallsMirrored DEF Cleaned
      <4>2. Agreeing(n.db, p.db, used)
        BY <1>1, <1>3, <3>3, AddUsageAgrees
      <4>3. QED
        BY <4>1, <4>2 DEF Mirrored
    <3>4. QED
      BY <3>1, <3>2, <3>3
  <2>9. \E call \in {"late", "call"} : Both(u, call, m, p)
    BY <1>11 DEF CallOn
  <2> HIDE DEF m, n, p
  <2>10. QED
    BY <1>1, <2>3, <2>6, <2>7, <2>8, <2>9, Concluded
<1>12. QED
  BY <1>7, <1>8, <1>9, <1>10, <1>11 DEF UseJob

LEMMA InsertSearchKeeps ==
  ASSUME StoreInv, NEW u \in used, NEW s \in Ids, InsertSearch(u, s)
  PROVE  StoreInv'
<1> DEFINE r == [user |-> u, last |-> Nobody]
           m == MemInsertSearch(mem, s, r)
           n == MemInsertSearch(Cleaned, s, r)
           p == PgInsertSearch(pg, s, r)
<1>1. /\ Agreeing(Cleaned, pg, used) /\ s \notin used /\ used' = used \cup {s}
      /\ Both(u, "call", m, p) /\ strays' = strays
      /\ copies' = [copies EXCEPT !.searches = Put(@, s, r)]
      /\ Remembered /\ Database(mem)
  BY DEF StoreInv, InsertSearch, Fresh, Remembered
<1>2. r.user = u /\ "user" \in DOMAIN r
  OBVIOUS
<1> HIDE DEF r
<1>3. Agreeing(Cleaned, pg, used') /\ s \in used' \cap Ids /\ u \in used'
  BY <1>1, MoreDrawn
<1>4. /\ s \notin DOMAIN Cleaned.searches
      /\ \A j \in DOMAIN Cleaned.jobs : Cleaned.jobs[j].search # s
  BY <1>1, Unseen, NobodyIsNoId
<1>5. /\ Agreeing(n.db, p.db, used')
      /\ u \in DOMAIN Cleaned.users => Alike(n, p)
  BY <1>2, <1>3, <1>4, InsertSearchAgrees
<1>6. Mirrored(m, n, strays)
  BY <1>1, SearchCallsFollow DEF Cleaned
<1>7. m.db = [mem EXCEPT !.searches = Put(mem.searches, s, r)]
  BY DEF MemInsertSearch, Done, Did
<1>8. /\ Database(m.db) /\ m.db.users = mem.users /\ m.db.jobs = mem.jobs
      /\ m.db.results = mem.results /\ m.db.steps = mem.steps
      /\ m.db.searches = Put(mem.searches, s, r)
  BY <1>1, <1>7 DEF Database
<1>9. mem' = m.db
  BY <1>1 DEF Both
<1> HIDE DEF m, n, p
<1>10. Remembered'
  <2>1. /\ copies'.jobs = copies.jobs
        /\ copies'.searches = Put(copies.searches, s, r)
        /\ copies' = [jobs |-> copies'.jobs, searches |-> copies'.searches]
    BY <1>1 DEF Remembered
  <2>2. /\ DrawnRows(mem'.jobs, used') /\ DrawnRows(copies'.jobs, used')
        /\ DrawnRows(copies'.searches, used')
    BY <1>1, <1>2, <1>8, <1>9, <2>1 DEF Remembered, DrawnRows, Put
  <2>3. /\ DOMAIN copies'.searches = DOMAIN copies.searches \cup {s}
        /\ DOMAIN mem'.searches = DOMAIN mem.searches \cup {s}
        /\ \A x \in DOMAIN mem'.searches :
             /\ x \in DOMAIN copies'.searches
             /\ mem'.searches[x].user = copies'.searches[x].user
    BY <1>1, <1>8, <1>9, <2>1 DEF Put, Remembered
  <2>4. QED
    BY <1>1, <1>8, <1>9, <2>1, <2>2, <2>3 DEF Remembered
<1>11. p.db.users = Cleaned.users
  BY <1>1, <1>5, <1>6, <1>8, CleanedIs, CleanIs DEF Mirrored, Agreeing, UsersAgree
<1>12. u \in DOMAIN p.db.users => Alike(m, p)
  BY <1>5, <1>6, <1>11 DEF Alike, Mirrored
<1>13. Agreeing(Clean(m.db, strays'), p.db, used')
  BY <1>1, <1>5, <1>6 DEF Mirrored
<1>14. QED
  BY <1>1, <1>10, <1>12, <1>13, Concluded

LEMMA UseSearchKeeps ==
  ASSUME StoreInv, NEW u, NEW s, UseSearch(u, s)
  PROVE  StoreInv'
<1>1. Agreeing(Cleaned, pg, used) /\ used' = used
  BY DEF StoreInv, UseSearch, Drawn
<1>2. /\ Follows(mem, MemDeleteSearch(mem, u, s),
                 MemDeleteSearch(Cleaned, u, s), strays)
      /\ Follows(mem, MemMarkRan(mem, s, now), MemMarkRan(Cleaned, s, now),
                 strays)
  BY CleanedIs, SearchCallsFollow DEF Cleaned
<1>3. CASE Call(u, MemDeleteSearch(mem, u, s), PgDeleteSearch(pg, u, s))
  <2>1. /\ Agreeing(MemDeleteSearch(Cleaned, u, s).db,
                    PgDeleteSearch(pg, u, s).db, used')
        /\ u \in DOMAIN Cleaned.users
             => Alike(MemDeleteSearch(Cleaned, u, s), PgDeleteSearch(pg, u, s))
    BY <1>1, DeleteSearchAgrees
  <2>2. QED
    BY <1>1, <1>2, <1>3, <2>1, CallAnswers DEF Follows
<1>4. CASE Call(u, MemMarkRan(mem, s, now), PgMarkRan(pg, s, now))
  <2>1. /\ Agreeing(MemMarkRan(Cleaned, s, now).db, PgMarkRan(pg, s, now).db,
                    used')
        /\ Alike(MemMarkRan(Cleaned, s, now), PgMarkRan(pg, s, now))
    BY <1>1, MarkRanAgrees
  <2>2. QED
    BY <1>1, <1>2, <1>4, <2>1, CallAnswers DEF Follows
<1>5. QED
  BY <1>3, <1>4 DEF UseSearch

(* Finished runs of deleted searches become strays.                        *)
LEMMA PurgeJobsKeeps ==
  ASSUME StoreInv, PurgeJobs
  PROVE  StoreInv'
<1> DEFINE left == {j \in DOMAIN mem.jobs :
                      /\ mem.jobs[j].search \notin DOMAIN mem.searches \cup {Nobody}
                      /\ mem.jobs[j].status \in Finished
                      /\ mem.jobs[j].created < now}
           gone == Purgeable(mem, now)
           lost == Purgeable(pg, now)
           m == MemPurgeJobs(mem, now)
           p == PgPurgeJobs(pg, now)
<1>1. /\ Agreeing(Cleaned, pg, used) /\ used' = used /\ copies' = copies
      /\ Remembered /\ Database(mem) /\ strays' = strays \cup left
      /\ Both(Nobody, "loop", m, p)
  BY DEF StoreInv, PurgeJobs, Remembered
<1>2. m.db = DropJobs(mem, gone) /\ p.db = DropJobs(pg, lost)
  BY DEF MemPurgeJobs, PgPurgeJobs, Did
<1>3. mem' = m.db
  BY <1>1 DEF Both
<1>4. left \subseteq DOMAIN mem.jobs
  OBVIOUS
<1>5. left \subseteq used /\ left \cap DOMAIN mem.users = {}
  BY <1>1, <1>4 DEF Remembered, DrawnRows
<1>6. \A j \in DOMAIN pg.jobs : j \in gone \cup left <=> j \in lost
  <2>1. /\ JobsAgree(Cleaned, pg, used) /\ Nobody \notin DOMAIN mem.searches
        /\ Cleaned.searches = mem.searches
        /\ Cleaned.jobs = Without(mem.jobs, strays)
    BY <1>1, CleanedIs, NobodyIsNoId DEF Agreeing, SearchesAgree
  <2>2. DOMAIN pg.jobs
          = {i \in DOMAIN Cleaned.jobs :
               Cleaned.jobs[i].user \in DOMAIN Cleaned.users}
    BY <2>1, JobsOfPg
  <2>3. ASSUME NEW j \in DOMAIN pg.jobs
        PROVE  j \in DOMAIN mem.jobs /\ Cleaned.jobs[j] = mem.jobs[j]
    BY <2>1, <2>2, <2>3 DEF Without
  <2>4. ASSUME NEW j \in DOMAIN pg.jobs
        PROVE  j \in lost <=> /\ mem.jobs[j].search \notin DOMAIN mem.searches
                              /\ mem.jobs[j].status \in Finished
                              /\ mem.jobs[j].created < now
    BY <1>1, <2>1, <2>3, <2>4, PurgedAlike
  <2>5. ASSUME NEW j \in DOMAIN pg.jobs
        PROVE  j \in gone \cup left
                 <=> /\ mem.jobs[j].search \notin DOMAIN mem.searches
                     /\ mem.jobs[j].status \in Finished
                     /\ mem.jobs[j].created < now
    BY <2>1, <2>3, <2>5 DEF Purgeable
  <2> HIDE DEF gone, left, lost
  <2>6. QED
    BY <2>4, <2>5
<1> HIDE DEF left, gone, lost, m, p
<1>7. /\ Database(mem') /\ mem'.users = mem.users
      /\ mem'.jobs = Without(mem.jobs, gone)
      /\ mem'.results = Without(mem.results, gone)
      /\ mem'.steps = Without(mem.steps, gone)
      /\ mem'.searches = mem.searches
  BY <1>1, <1>2, <1>3, DroppedJobs
<1>8. Lesser(mem, mem')
  BY <1>7 DEF Lesser, Without
<1>9. Remembered'
  BY <1>1, <1>5, <1>8, StillRemembered DEF Remembered
<1>10. Clean(m.db, strays') = DropJobs(Cleaned, gone \cup left)
  <2>1. Database(DropJobs(mem, gone)) /\ DropJobs(mem, gone).users = mem.users
    BY <1>1, DroppedJobs
  <2>2. Clean(m.db, strays') = DropJobs(Clean(m.db, strays), left)
    BY <1>1, <1>2, <1>5, <2>1, CleanGone
  <2>3. Clean(m.db, strays) = DropJobs(Cleaned, gone)
    BY <1>1, <1>2, CleanDropped DEF Cleaned
  <2>4. QED
    BY <2>2, <2>3, CleanedIs, DroppedTwice
<1>11. Agreeing(Clean(m.db, strays'), p.db, used')
  BY <1>1, <1>2, <1>6, <1>10, JobsWithout
<1>12. QED
  BY <1>1, <1>9, <1>11, Concluded

LEMMA InsertDocKeeps ==
  ASSUME StoreInv, NEW u \in used, NEW d, InsertDoc(u, d)
  PROVE  StoreInv'
<1> DEFINE r == [user |-> u, status |-> "pending"]
<1>1. /\ Agreeing(Cleaned, pg, used) /\ d \notin used /\ used' = used \cup {d}
      /\ Call(u, MemInsertDoc(mem, d, r), PgInsertDoc(pg, d, r))
  BY DEF StoreInv, InsertDoc, Fresh
<1>2. r.user = u /\ "user" \in DOMAIN r
  OBVIOUS
<1> HIDE DEF r
<1>3. Agreeing(Cleaned, pg, used') /\ d \in used' /\ u \in used'
  BY <1>1, MoreDrawn
<1>4. d \notin DOMAIN Cleaned.docs /\ \A c \in Cleaned.chunks : c.doc # d
  BY <1>1, Unseen
<1>5. /\ Agreeing(MemInsertDoc(Cleaned, d, r).db, PgInsertDoc(pg, d, r).db,
                  used')
      /\ u \in DOMAIN Cleaned.users
           => Alike(MemInsertDoc(Cleaned, d, r), PgInsertDoc(pg, d, r))
  BY <1>2, <1>3, <1>4, InsertDocAgrees
<1>6. Follows(mem, MemInsertDoc(mem, d, r), MemInsertDoc(Cleaned, d, r), strays)
  BY CleanedIs, DocCallsFollow DEF Cleaned
<1>7. QED
  BY <1>1, <1>5, <1>6, CallAnswers DEF Follows

LEMMA UseDocKeeps ==
  ASSUME StoreInv, NEW u, NEW d, UseDoc(u, d)
  PROVE  StoreInv'
<1>1. /\ Agreeing(Cleaned, pg, used) /\ used' = used
      /\ d \in DOMAIN Cleaned.docs /\ Cleaned.docs[d].user = u
  BY CleanedIs DEF StoreInv, UseDoc, Drawn
<1>2. /\ Follows(mem, MemStoreChunks(mem, d, u, {d}),
                 MemStoreChunks(Cleaned, d, u, {d}), strays)
      /\ Follows(mem, MemMarkFailed(mem, d), MemMarkFailed(Cleaned, d), strays)
  BY CleanedIs, DocCallsFollow DEF Cleaned
<1>3. CASE Call(u, MemStoreChunks(mem, d, u, {d}), PgStoreChunks(pg, d, u, {d}))
  <2>1. /\ Agreeing(MemStoreChunks(Cleaned, d, u, {d}).db,
                    PgStoreChunks(pg, d, u, {d}).db, used')
        /\ u \in DOMAIN Cleaned.users
             => Alike(MemStoreChunks(Cleaned, d, u, {d}),
                      PgStoreChunks(pg, d, u, {d}))
    BY <1>1, StoreChunksAgrees
  <2>2. QED
    BY <1>1, <1>2, <1>3, <2>1, CallAnswers DEF Follows
<1>4. CASE Call(u, MemMarkFailed(mem, d), PgMarkFailed(pg, d))
  <2>1. /\ Agreeing(MemMarkFailed(Cleaned, d).db, PgMarkFailed(pg, d).db, used')
        /\ Alike(MemMarkFailed(Cleaned, d), PgMarkFailed(pg, d))
    BY <1>1, MarkFailedAgrees
  <2>2. QED
    BY <1>1, <1>2, <1>4, <2>1, CallAnswers DEF Follows
<1>5. QED
  BY <1>3, <1>4 DEF UseDoc

LEMMA RemoveDocKeeps ==
  ASSUME StoreInv, NEW u, NEW d, RemoveDoc(u, d)
  PROVE  StoreInv'
<1>1. /\ Agreeing(Cleaned, pg, used) /\ used' = used
      /\ Call(u, MemDeleteDoc(mem, u, d), PgDeleteDoc(pg, u, d))
  BY DEF StoreInv, RemoveDoc, Drawn
<1>2. /\ Agreeing(MemDeleteDoc(Cleaned, u, d).db, PgDeleteDoc(pg, u, d).db,
                  used')
      /\ u \in DOMAIN Cleaned.users
           => Alike(MemDeleteDoc(Cleaned, u, d), PgDeleteDoc(pg, u, d))
  BY <1>1, DeleteDocAgrees
<1>3. Follows(mem, MemDeleteDoc(mem, u, d), MemDeleteDoc(Cleaned, u, d), strays)
  BY CleanedIs, DocCallsFollow DEF Cleaned
<1>4. QED
  BY <1>1, <1>2, <1>3, CallAnswers DEF Follows

LEMMA LateChunksKeeps ==
  ASSUME StoreInv, NEW u, NEW d, LateChunks(u, d)
  PROVE  StoreInv'
<1>1. /\ Agreeing(Cleaned, pg, used) /\ used' = used /\ d \in used
      /\ d \notin DOMAIN Cleaned.docs /\ \A c \in Cleaned.chunks : c.doc # d
      /\ Both(u, "late", MemStoreChunks(mem, d, u, {d}),
                         PgStoreChunks(pg, d, u, {d}))
      /\ copies' = copies /\ strays' = strays
  BY CleanedIs DEF StoreInv, LateChunks, Drawn
<1>2. Agreeing(MemStoreChunks(Cleaned, d, u, {d}).db,
               PgStoreChunks(pg, d, u, {d}).db, used')
  BY <1>1, LateChunksAgree
<1>3. Follows(mem, MemStoreChunks(mem, d, u, {d}),
              MemStoreChunks(Cleaned, d, u, {d}), strays)
  BY CleanedIs, DocCallsFollow DEF Cleaned
<1>4. QED
  BY <1>1, <1>2, <1>3, LoopAnswers DEF Follows

(* Nothing is left of an account once its last row went.                   *)
LEMMA OfWithout ==
  ASSUME NEW t, NEW u
  PROVE  Of(Without(t, Of(t, u)), u) = {}
BY DEF Of, Without

LEMMA NamedInMemory ==
  ASSUME NEW m, NEW p, NEW drawn, Agreeing(m, p, drawn), NEW u, ~NamedBy(m, u)
  PROVE  ~NamedBy(p, u)
<1>1. /\ u \notin DOMAIN m.users /\ \A c \in m.chunks : c.user # u
      /\ Of(m.tokens, u) = {} /\ Of(m.channels, u) = {} /\ Of(m.jobs, u) = {}
      /\ Of(m.searches, u) = {} /\ Of(m.docs, u) = {}
  BY DEF NamedBy, Owned
<1>2. /\ p.users = m.users /\ JobsAgree(m, p, drawn)
      /\ p.tokens = Live(m.tokens, DOMAIN m.users)
      /\ p.channels = Live(m.channels, DOMAIN m.users)
      /\ p.searches = Live(m.searches, DOMAIN m.users)
      /\ p.docs = Live(m.docs, DOMAIN m.users)
      /\ p.chunks \subseteq m.chunks
  BY DEF Agreeing, UsersAgree, TokensAgree, ChannelsAgree, SearchesAgree,
         DocsAgree
<1>3. /\ Of(p.tokens, u) = {} /\ Of(p.channels, u) = {}
      /\ Of(p.searches, u) = {} /\ Of(p.docs, u) = {}
  BY <1>1, <1>2, LiveOf
<1>4. /\ DOMAIN p.jobs
           = {i \in DOMAIN m.jobs : m.jobs[i].user \in DOMAIN m.users}
      /\ \A i \in DOMAIN p.jobs : p.jobs[i] = Linked(m.jobs[i], m.searches)
      /\ \A i \in DOMAIN m.jobs : JobShape(m.jobs[i])
  BY <1>2, JobsOfPg
<1>5. \A i \in DOMAIN p.jobs : p.jobs[i].user = m.jobs[i].user
  BY <1>4 DEF Linked, JobShape
<1>6. Of(p.jobs, u) = {}
  BY <1>1, <1>4, <1>5 DEF Of
<1>7. QED
  BY <1>1, <1>2, <1>3, <1>6 DEF NamedBy, Owned

(* The statements of the deletion, with and without strays.                *)
Erases(db, m, n, out) ==
  /\ Clean(m.db, out) = n.db /\ Lesser(db, m.db)

LEMMA EraseMirrored ==
  ASSUME NEW db, Database(db), NEW out, NEW u
  PROVE  /\ Erases(db, MemDeleteSearchesOf(db, u),
                   MemDeleteSearchesOf(Clean(db, out), u), out)
         /\ Erases(db, MemDeleteJobsOf(db, u),
                   MemDeleteJobsOf(Clean(db, out), u), out)
         /\ Erases(db, MemDeleteTokensOf(db, u),
                   MemDeleteTokensOf(Clean(db, out), u), out)
         /\ Erases(db, MemDeleteChannelsOf(db, u),
                   MemDeleteChannelsOf(Clean(db, out), u), out)
         /\ Erases(db, MemDeleteDocsOf(db, u),
                   MemDeleteDocsOf(Clean(db, out), u), out)
         /\ Erases(db, MemDeleteUser(db, u),
                   MemDeleteUser(Clean(db, out), u), out)
<1> DEFINE c == Clean(db, out)
<1>1. /\ Database(c) /\ c.users = Without(db.users, out)
      /\ c.tokens = db.tokens /\ c.channels = db.channels
      /\ c.jobs = Without(db.jobs, out)
      /\ c.results = Without(db.results, out)
      /\ c.steps = Without(db.steps, out) /\ c.searches = db.searches
      /\ c.docs = db.docs /\ c.chunks = db.chunks
  BY CleanIs
<1>5. Erases(db, MemDeleteSearchesOf(db, u), MemDeleteSearchesOf(c, u), out)
  <2> DEFINE t == Without(db.searches, Of(db.searches, u))
  <2>1. /\ DOMAIN t \subseteq DOMAIN db.searches
        /\ \A x \in DOMAIN t : t[x].user = db.searches[x].user
    BY DEF Without
  <2>2. /\ MemDeleteSearchesOf(db, u).db = [db EXCEPT !.searches = t]
        /\ MemDeleteSearchesOf(c, u).db = [c EXCEPT !.searches = t]
    BY <1>1 DEF MemDeleteSearchesOf, Did
  <2> HIDE DEF t
  <2>3. Follows(db, Did([db EXCEPT !.searches = t], 0),
                Did([c EXCEPT !.searches = t], 0), out)
    BY <2>1, AsideFollows
  <2>4. QED
    BY <2>2, <2>3 DEF Follows, Mirrored, Erases, Did
<1>6. Erases(db, MemDeleteJobsOf(db, u), MemDeleteJobsOf(c, u), out)
  <2> DEFINE gone == Of(db.jobs, u)
             lost == Of(c.jobs, u)
             d == DropJobs(db, gone)
             e == DropJobs(c, gone)
             f == DropJobs(c, lost)
  <2>1. MemDeleteJobsOf(db, u).db = d /\ MemDeleteJobsOf(c, u).db = f
    BY DEF MemDeleteJobsOf, Did
  <2>2. Clean(d, out) = e
    BY CleanDropped
  <2>3. lost = gone \ out
    BY <1>1 DEF Of, Without
  <2>4. \A t : Without(Without(t, out), gone) = Without(Without(t, out), gone \ out)
    BY DEF Without
  <2>5. /\ Database(e) /\ e.users = c.users /\ e.tokens = c.tokens
        /\ e.channels = c.channels /\ e.jobs = Without(c.jobs, gone)
        /\ e.results = Without(c.results, gone)
        /\ e.steps = Without(c.steps, gone) /\ e.searches = c.searches
        /\ e.events = c.events /\ e.docs = c.docs /\ e.chunks = c.chunks
    BY <1>1, DroppedJobs
  <2>6. /\ Database(f) /\ f.users = c.users /\ f.tokens = c.tokens
        /\ f.channels = c.channels /\ f.jobs = Without(c.jobs, lost)
        /\ f.results = Without(c.results, lost)
        /\ f.steps = Without(c.steps, lost) /\ f.searches = c.searches
        /\ f.events = c.events /\ f.docs = c.docs /\ f.chunks = c.chunks
    BY <1>1, DroppedJobs
  <2>7. /\ Database(d) /\ d.users = db.users /\ d.searches = db.searches
        /\ d.jobs = Without(db.jobs, gone)
        /\ d.results = Without(db.results, gone)
        /\ d.steps = Without(db.steps, gone)
    BY DroppedJobs
  <2> HIDE DEF c, d, e, f, gone, lost
  <2>8. e.jobs = f.jobs /\ e.results = f.results /\ e.steps = f.steps
    BY <1>1, <2>3, <2>4, <2>5, <2>6
  <2>9. e = f
    BY <2>5, <2>6, <2>8, SameTables
  <2>10. Lesser(db, d)
    BY <2>7 DEF Lesser, Without
  <2>11. QED
    BY <2>1, <2>2, <2>9, <2>10 DEF Erases
<1>7. Erases(db, MemDeleteTokensOf(db, u), MemDeleteTokensOf(c, u), out)
  <2> DEFINE t == Without(db.tokens, Of(db.tokens, u))
             v == Cardinality(Of(db.tokens, u))
  <2>1. /\ MemDeleteTokensOf(db, u) = Did([db EXCEPT !.tokens = t], v)
        /\ MemDeleteTokensOf(c, u) = Did([c EXCEPT !.tokens = t], v)
    BY <1>1 DEF MemDeleteTokensOf
  <2> HIDE DEF t, v
  <2>2. Follows(db, Did([db EXCEPT !.tokens = t], v),
                Did([c EXCEPT !.tokens = t], v), out)
    BY AsideFollows
  <2>3. QED
    BY <2>1, <2>2 DEF Follows, Mirrored, Erases
<1>8. Erases(db, MemDeleteChannelsOf(db, u), MemDeleteChannelsOf(c, u), out)
  <2> DEFINE t == Without(db.channels, Of(db.channels, u))
             v == Cardinality(Of(db.channels, u))
  <2>1. /\ MemDeleteChannelsOf(db, u) = Did([db EXCEPT !.channels = t], v)
        /\ MemDeleteChannelsOf(c, u) = Did([c EXCEPT !.channels = t], v)
    BY <1>1 DEF MemDeleteChannelsOf
  <2> HIDE DEF t, v
  <2>2. Follows(db, Did([db EXCEPT !.channels = t], v),
                Did([c EXCEPT !.channels = t], v), out)
    BY AsideFollows
  <2>3. QED
    BY <2>1, <2>2 DEF Follows, Mirrored, Erases
<1>9. Erases(db, MemDeleteDocsOf(db, u), MemDeleteDocsOf(c, u), out)
  <2> DEFINE t == Without(db.docs, Of(db.docs, u))
             s == {x \in db.chunks : x.user # u}
  <2>1. /\ MemDeleteDocsOf(db, u).db = [db EXCEPT !.docs = t, !.chunks = s]
        /\ MemDeleteDocsOf(c, u).db = [c EXCEPT !.docs = t, !.chunks = s]
    BY <1>1 DEF MemDeleteDocsOf, Did
  <2> HIDE DEF c, t, s
  <2>2. /\ [db EXCEPT !.docs = t, !.chunks = s] = WithDocs(db, t, s)
        /\ [c EXCEPT !.docs = t, !.chunks = s] = WithDocs(c, t, s)
    BY <1>1, DocsThenChunks
  <2>3. Follows(db, Did(WithDocs(db, t, s), 0),
                Did(WithDocs(c, t, s), 0), out)
    BY AsideFollows DEF c
  <2>4. QED
    BY <2>1, <2>2, <2>3 DEF Follows, Mirrored, Erases, Did
<1>10. Erases(db, MemDeleteUser(db, u), MemDeleteUser(c, u), out)
  <2> DEFINE d == WithUsers(db, Without(db.users, {u}))
             e == WithUsers(c, Without(c.users, {u}))
  <2>1. MemDeleteUser(db, u).db = d /\ MemDeleteUser(c, u).db = e
    BY DEF MemDeleteUser, Done, Did, WithUsers
  <2>2. Clean(d, out) = e
    <3>1. Without(c.users, {u}) = Without(Without(db.users, {u}), out)
      BY <1>1 DEF Without
    <3> DEFINE t == Without(db.users, {u})
               s == Without(c.users, {u})
    <3>2. s = Without(t, out)
      BY <3>1
    <3> HIDE DEF t, s
    <3>3. Clean(WithUsers(db, t), out) = WithUsers(c, s)
      BY <3>2, CleanWork DEF c
    <3>4. QED
      BY <3>3 DEF t, s
  <2>3. /\ Database(d) /\ d.users = Without(db.users, {u})
        /\ d.jobs = db.jobs /\ d.results = db.results
        /\ d.steps = db.steps /\ d.searches = db.searches
    BY DEF WithUsers, Database
  <2> HIDE DEF d, e
  <2>4. Lesser(db, d)
    BY <2>3 DEF Lesser, Without
  <2>5. QED
    BY <2>1, <2>2, <2>4 DEF Erases
<1>11. QED
  BY <1>5, <1>6, <1>7, <1>8, <1>9, <1>10

LEMMA LesserStill ==
  ASSUME NEW a, NEW b, NEW c, Lesser(a, b), Lesser(b, c)
  PROVE  Lesser(a, c)
BY DEF Lesser

(* The deletion of an account, stopped anywhere or complete.               *)
LEMMA EraseAgrees ==
  ASSUME NEW m, NEW p, NEW w, NEW out, NEW a, NEW b, NEW base,
         Lesser(base, m), Erases(m, a, b, out), Agreeing(b.db, p, w)
  PROVE  /\ Agreeing(Clean(a.db, out), p, w)
         /\ Database(a.db) /\ Lesser(base, a.db)
BY LesserStill DEF Erases, Lesser

LEMMA DeleteAccountKeeps ==
  ASSUME StoreInv, NEW u, NEW n \in 1..6, DeleteAccount(u, n)
  PROVE  StoreInv'
<1> DEFINE a == MemDeleteSearchesOf(mem, u).db
           b == MemDeleteJobsOf(a, u).db
           c == MemDeleteTokensOf(b, u).db
           d == MemDeleteChannelsOf(c, u).db
           e == MemDeleteDocsOf(d, u).db
           f == MemDeleteUser(e, u).db
           pa == PgDeleteSearchesOf(pg, u).db
           pb == PgDeleteJobsOf(pa, u).db
           pc == PgDeleteTokensOf(pb, u).db
           pd == PgDeleteChannelsOf(pc, u).db
           pe == PgDeleteDocsOf(pd, u).db
           pf == PgDeleteUser(pe, u).db
           Kin(x, p) == /\ Agreeing(Clean(x, strays), p, used)
                        /\ Database(x) /\ Lesser(mem, x)
<1>1. Kin(mem, pg) /\ used' = used
  BY AsideLesser DEF StoreInv, DeleteAccount, Drawn, Cleaned, Remembered
<1>2. MemErase(u, n) = <<a, b, c, d, e, f>>[n]
  BY DEF MemErase
<1>3. PgErase(u, n) = <<pa, pb, pc, pd, pe, pf>>[n]
  BY DEF PgErase
<1>4. Kin(a, pa)
  <2>1. Agreeing(MemDeleteSearchesOf(Clean(mem, strays), u).db,
                 PgDeleteSearchesOf(pg, u).db, used)
    BY <1>1, DeleteSearchesOfAgrees
  <2>2. QED
    BY <1>1, <2>1, EraseMirrored, EraseAgrees
<1>5. a.searches = Without(mem.searches, Of(mem.searches, u))
  BY <1>1 DEF MemDeleteSearchesOf, Did, Database
<1> HIDE DEF a, pa
<1>6. Kin(b, pb)
  <2>1. Agreeing(MemDeleteJobsOf(Clean(a, strays), u).db,
                 PgDeleteJobsOf(pa, u).db, used)
    BY <1>4, DeleteJobsOfAgrees
  <2>2. QED
    BY <1>4, <2>1, EraseMirrored, EraseAgrees
<1>7. b.searches = a.searches /\ b.jobs = Without(a.jobs, Of(a.jobs, u))
  BY <1>4, DroppedJobs DEF MemDeleteJobsOf, Did
<1> HIDE DEF b, pb
<1>8. Kin(c, pc)
  <2>1. Agreeing(MemDeleteTokensOf(Clean(b, strays), u).db,
                 PgDeleteTokensOf(pb, u).db, used)
    BY <1>6, DeleteTokensOfAgrees
  <2>2. QED
    BY <1>6, <2>1, EraseMirrored, EraseAgrees
<1>9. /\ c.searches = b.searches /\ c.jobs = b.jobs
      /\ c.tokens = Without(b.tokens, Of(b.tokens, u))
  BY <1>6 DEF MemDeleteTokensOf, Did, Database
<1> HIDE DEF c, pc
<1>10. Kin(d, pd)
  <2>1. Agreeing(MemDeleteChannelsOf(Clean(c, strays), u).db,
                 PgDeleteChannelsOf(pc, u).db, used)
    BY <1>8, DeleteChannelsOfAgrees
  <2>2. QED
    BY <1>8, <2>1, EraseMirrored, EraseAgrees
<1>11. /\ d.searches = c.searches /\ d.jobs = c.jobs /\ d.tokens = c.tokens
       /\ d.channels = Without(c.channels, Of(c.channels, u))
  BY <1>8 DEF MemDeleteChannelsOf, Did, Database
<1> HIDE DEF d, pd
<1>12. Kin(e, pe)
  <2>1. Agreeing(MemDeleteDocsOf(Clean(d, strays), u).db,
                 PgDeleteDocsOf(pd, u).db, used)
    BY <1>10, DeleteDocsOfAgrees
  <2>2. QED
    BY <1>10, <2>1, EraseMirrored, EraseAgrees
<1>13. /\ e.searches = d.searches /\ e.jobs = d.jobs /\ e.tokens = d.tokens
       /\ e.channels = d.channels
       /\ e.docs = Without(d.docs, Of(d.docs, u))
       /\ \A x \in e.chunks : x.user # u
  BY <1>10 DEF MemDeleteDocsOf, Did, Database
<1> HIDE DEF e, pe
<1>14. Kin(f, pf)
  <2>1. Agreeing(MemDeleteUser(Clean(e, strays), u).db,
                 PgDeleteUser(pe, u).db, used)
    BY <1>12, DeleteUserAgrees
  <2>2. QED
    BY <1>12, <2>1, EraseMirrored, EraseAgrees
<1>15. /\ f.searches = e.searches /\ f.jobs = e.jobs /\ f.tokens = e.tokens
       /\ f.channels = e.channels /\ f.docs = e.docs /\ f.chunks = e.chunks
       /\ f.users = Without(e.users, {u})
  BY <1>12 DEF MemDeleteUser, Done, Did, Database
<1> HIDE DEF f, pf
<1>16. Kin(MemErase(u, n), PgErase(u, n))
  BY <1>2, <1>3, <1>4, <1>6, <1>8, <1>10, <1>12, <1>14
<1>17. ~NamedBy(f, u)
  <2>1. /\ Of(f.searches, u) = {} /\ Of(f.jobs, u) = {}
        /\ Of(f.tokens, u) = {} /\ Of(f.channels, u) = {}
        /\ Of(f.docs, u) = {}
    BY <1>5, <1>7, <1>9, <1>11, <1>13, <1>15, OfWithout
  <2>2. u \notin DOMAIN f.users /\ \A x \in f.chunks : x.user # u
    BY <1>13, <1>15 DEF Without
  <2>3. QED
    BY <2>1, <2>2 DEF NamedBy, Owned
<1>18. ~NamedBy(pf, u)
  <2>1. ~NamedBy(Clean(f, strays), u)
    <3>1. \A t : Of(t, u) = {} => Of(Without(t, strays), u) = {}
      BY DEF Of, Without
    <3>2. \A t : u \notin DOMAIN t => u \notin DOMAIN Without(t, strays)
      BY DEF Without
    <3>3. QED
      BY <1>14, <1>17, <3>1, <3>2, CleanIs DEF NamedBy, Owned
  <2>2. QED
    BY <1>14, <2>1, NamedInMemory
<1>19. Both(u, IF n = 6 THEN "erase" ELSE "call",
            Done(MemErase(u, n)), Done(PgErase(u, n)))
  BY DEF DeleteAccount
<1>20. mem' = MemErase(u, n) /\ pg' = PgErase(u, n)
  BY <1>19 DEF Both, Done, Did
<1>21. Agreeing(Cleaned, pg, used)' /\ Remembered'
  <2>1. copies' = copies /\ strays' = strays
    BY DEF DeleteAccount
  <2>2. Remembered'
    BY <1>1, <1>16, <1>20, <2>1, StillRemembered DEF StoreInv, Remembered
  <2>3. QED
    BY <1>1, <1>16, <1>20, <2>1, <2>2 DEF Cleaned
<1>22. CASE n = 6
  <2>1. mem' = f /\ pg' = pf
    BY <1>2, <1>3, <1>20, <1>22
  <2>2. last'.user = u /\ last'.call = "erase"
    BY <1>19, <1>22 DEF Both
  <2>3. QED
    BY <1>17, <1>18, <1>21, <2>1, <2>2
       DEF StoreInv, AnsweredAlike, DeletionConverges
<1>23. CASE n # 6
  <2>1. last' = NoCall
    BY <1>19, <1>23 DEF Both, Done, Did
  <2>2. QED
    BY <1>21, <2>1 DEF StoreInv, AnsweredAlike, DeletionConverges, NoCall
<1>24. QED
  BY <1>22, <1>23

LEMMA NothingAgrees ==
  Agreeing(Empty, Empty, {})
<1>1. /\ Empty.users = <<>> /\ Empty.tokens = <<>> /\ Empty.channels = <<>>
      /\ Empty.jobs = <<>> /\ Empty.results = <<>> /\ Empty.steps = <<>>
      /\ Empty.searches = <<>> /\ Empty.docs = <<>> /\ Empty.chunks = {}
      /\ Database(Empty)
  BY DEF Empty, Database
<1>2. DOMAIN <<>> = {} /\ <<>> = [x \in {} |-> x]
  OBVIOUS
<1>3. /\ Live(<<>>, {}) = <<>> /\ DrawnRows(<<>>, {})
      /\ OfJobs(<<>>, <<>>) = <<>>
  BY <1>2 DEF Live, DrawnRows, OfJobs
<1>4. Unlink(<<>>, Ids \ {}) = <<>>
  BY <1>2 DEF Unlink
<1>5. UsersAgree(Empty, Empty, {}) /\ TokensAgree(Empty, Empty, {})
      /\ ChannelsAgree(Empty, Empty, {}) /\ SearchesAgree(Empty, Empty, {})
  BY <1>1, <1>2, <1>3
     DEF UsersAgree, TokensAgree, ChannelsAgree, SearchesAgree
<1>6. JobsAgree(Empty, Empty, {})
  BY <1>1, <1>2, <1>3, <1>4 DEF JobsAgree, JobRows
<1>7. DocsAgree(Empty, Empty, {})
  BY <1>1, <1>2, <1>3, FS_EmptySet DEF DocsAgree, Chunks
<1>8. QED
  BY <1>1, <1>5, <1>6, <1>7 DEF Agreeing

LEMMA StoresInitInv == StoresInit => StoreInv
<1> SUFFICES ASSUME StoresInit
             PROVE  StoreInv
  OBVIOUS
<1>1. /\ mem = Empty /\ pg = Empty /\ used = {} /\ strays = {}
      /\ copies = [jobs |-> <<>>, searches |-> <<>>] /\ last = NoCall
  BY DEF StoresInit
<1>2. /\ Empty.users = <<>> /\ Empty.jobs = <<>> /\ Empty.results = <<>>
      /\ Empty.steps = <<>> /\ Empty.searches = <<>> /\ Database(Empty)
  BY DEF Empty, Database
<1>3. DOMAIN <<>> = {} /\ Without(<<>>, {}) = <<>>
  BY DEF Without
<1>4. Cleaned = Empty
  BY <1>1, <1>2, <1>3, CleanIs, SameTables DEF Cleaned
<1>5. Remembered
  BY <1>1, <1>2, <1>3 DEF Remembered, DrawnRows
<1>6. QED
  BY <1>1, <1>4, <1>5, NothingAgrees
     DEF StoreInv, AnsweredAlike, DeletionConverges, NoCall

LEMMA StoresNextInv ==
  StoreInv /\ [StoresNext]_storeVars => StoreInv'
<1> SUFFICES ASSUME StoreInv, [StoresNext]_storeVars
             PROVE  StoreInv'
  OBVIOUS
<1>1. CASE Tick
  BY <1>1, TickKeeps
<1>2. CASE \E u \in Users : \E e : Register(u, e)
  BY <1>2, RegisterKeeps
<1>3. CASE \E u \in Users, n \in Stops : DeleteAccount(u, n)
  BY <1>3, DeleteAccountKeeps DEF Stops
<1>4. CASE Housekeeping
  BY <1>4, HousekeepingKeeps
<1>5. ASSUME NEW u \in Users, NEW i \in Ids, Known(u), People(u, i)
      PROVE  StoreInv'
  <2>1. u \in used
    BY <1>5 DEF Known
  <2>2. QED
    BY <1>5, <2>1, IssueTokenKeeps, UseTokenKeeps, AddChannelKeeps,
       RemoveChannelKeeps, RecordEventKeeps DEF People
<1>6. CASE PurgeJobs
  BY <1>6, PurgeJobsKeeps
<1>7. ASSUME NEW u \in Users, NEW i \in Ids, Known(u), Jobs(u, i)
      PROVE  StoreInv'
  <2>1. u \in used
    BY <1>7 DEF Known
  <2>2. QED
    BY <1>7, <2>1, InsertJobKeeps, UseJobKeeps, InsertSearchKeeps,
       UseSearchKeeps DEF Jobs
<1>8. ASSUME NEW u \in Users, NEW i \in Ids, Known(u), Documents(u, i)
      PROVE  StoreInv'
  <2>1. u \in used
    BY <1>8 DEF Known
  <2>2. QED
    BY <1>8, <2>1, InsertDocKeeps, UseDocKeeps, RemoveDocKeeps,
       LateChunksKeeps DEF Documents
<1>9. CASE UNCHANGED storeVars
  <2>1. Cleaned' = Cleaned /\ Remembered'
    BY <1>9 DEF storeVars, Cleaned, StoreInv, Remembered, DrawnRows
  <2>2. AnsweredAlike' /\ DeletionConverges'
    BY <1>9 DEF storeVars, StoreInv, AnsweredAlike, DeletionConverges, NamedBy,
       Owned
  <2>3. QED
    BY <1>9, <2>1, <2>2 DEF storeVars, StoreInv
<1>10. QED
  BY <1>1, <1>2, <1>3, <1>4, <1>5, <1>6, <1>7, <1>8, <1>9 DEF StoresNext

(* One invariant carries the three properties below: without the strays,   *)
(* memory agrees with PostgreSQL table by table, whatever calls the use    *)
(* cases made so far, late ones and those of deleted accounts included.    *)
THEOREM StoresAgree == StoresSpec => []StoreInv
BY StoresInitInv, StoresNextInv, PTL DEF StoresSpec

(* A call for an account that exists is answered alike by both adapters    *)
(* (the repositories of adapters/persistence), unless it makes a stray or  *)
(* is on one: a second account of an address, a run of a deleted search, a *)
(* job that was deleted or should have been purged.                        *)
THEOREM AnswersAgree == StoresSpec => []RepliesAgree
<1>1. StoreInv => RepliesAgree
  BY DEF StoreInv, AnsweredAlike, RepliesAgree
<1>2. QED
  BY <1>1, StoresAgree, PTL

(* DeleteAccount::execute run to its end leaves nothing of the account in  *)
(* either store, strays included, whatever it had left half done before.   *)
THEOREM ErasedEverywhere == StoresSpec => []DeletionConverges
<1>1. StoreInv => DeletionConverges
  BY DEF StoreInv
<1>2. QED
  BY <1>1, StoresAgree, PTL

(* Memory repaired is PostgreSQL, table by table.                          *)
LEMMA KeptIsLive ==
  ASSUME NEW db, NEW table
  PROVE  Kept(db, table) = Live(table, DOMAIN db.users)
BY DEF Kept, Live, Without

LEMMA RepairOfIs ==
  ASSUME NEW m, Agreeing(m, pg, used)
  PROVE  RepairOf(m)
           = [users |-> m.users, tokens |-> pg.tokens,
              channels |-> pg.channels, jobs |-> pg.jobs,
              results |-> pg.results, steps |-> pg.steps,
              searches |-> pg.searches, events |-> pg.events,
              docs |-> pg.docs, chunks |-> pg.chunks]
<1> DEFINE kept == Kept(m, m.jobs)
<1>1. /\ Database(m) /\ JobsAgree(m, pg, used)
      /\ pg.tokens = Kept(m, m.tokens) /\ pg.channels = Kept(m, m.channels)
      /\ pg.searches = Kept(m, m.searches) /\ pg.docs = Kept(m, m.docs)
      /\ pg.chunks = {c \in m.chunks : c.copy = 0 /\ c.doc \in DOMAIN pg.docs}
  BY KeptIsLive DEF Agreeing, TokensAgree, ChannelsAgree, SearchesAgree,
                    DocsAgree
<1>2. pg.jobs = Unlink(kept, Ids \ DOMAIN m.searches)
  BY <1>1, KeptIsLive DEF JobsAgree
<1>3. DOMAIN kept = DOMAIN pg.jobs
  BY <1>2 DEF Unlink
<1>4. /\ Without(m.results, DOMAIN m.results \ DOMAIN kept) = pg.results
      /\ Without(m.steps, DOMAIN m.steps \ DOMAIN kept) = pg.steps
  BY <1>1, <1>3 DEF JobsAgree, OfJobs, Without
<1>5. RepairOf(m)
        = [m EXCEPT !.tokens = pg.tokens, !.channels = pg.channels,
                    !.searches = pg.searches, !.docs = pg.docs,
                    !.jobs = pg.jobs, !.results = pg.results,
                    !.steps = pg.steps, !.events = pg.events,
                    !.chunks = pg.chunks]
  BY <1>1, <1>2, <1>4 DEF RepairOf
<1> DEFINE a == [m EXCEPT !.tokens = pg.tokens, !.channels = pg.channels]
           b == [a EXCEPT !.searches = pg.searches, !.docs = pg.docs]
           c == [b EXCEPT !.jobs = pg.jobs, !.results = pg.results]
           d == [c EXCEPT !.steps = pg.steps, !.events = pg.events]
<1>6. RepairOf(m) = [d EXCEPT !.chunks = pg.chunks]
  BY <1>1, <1>5 DEF Database
<1>7. QED
  BY <1>1, <1>6 DEF Database

(* But for strays and for what only a key would have done, the in-memory   *)
(* adapter holds the rows of the PostgreSQL one, after any calls of the    *)
(* use cases on any accounts and rows, one call after the other.           *)
THEOREM MemoryStandsIn == StoresSpec => []MemoryIsPostgres
<1>1. StoreInv => MemoryIsPostgres
  <2> SUFFICES ASSUME StoreInv
               PROVE  MemoryIsPostgres
    OBVIOUS
  <2>1. Agreeing(Cleaned, pg, used)
    BY DEF StoreInv
  <2>2. pg.users = Cleaned.users /\ Database(pg)
    BY <2>1 DEF Agreeing, UsersAgree
  <2> DEFINE m == Cleaned
  <2> HIDE DEF m
  <2>3. RepairOf(m) = pg
    BY <2>1, <2>2, RepairOfIs DEF Database, m
  <2>4. QED
    BY <2>3 DEF MemoryIsPostgres, Cleaned, m
<1>2. QED
  BY <1>1, StoresAgree, PTL

-----------------------------------------------------------------------------
(* What both answer when asked.                                            *)

(* A row of a live account is in both tables, and the same.                *)
LEMMA LiveRow ==
  ASSUME NEW t, NEW users
  PROVE  /\ \A x \in DOMAIN t : t[x].user \in users =>
              x \in DOMAIN Live(t, users) /\ Live(t, users)[x] = t[x]
         /\ \A x \in DOMAIN Live(t, users) :
              x \in DOMAIN t /\ t[x].user \in users /\ Live(t, users)[x] = t[x]
<1> DEFINE live == Live(t, users)
<1>1. /\ DOMAIN live = {y \in DOMAIN t : t[y].user \in users}
      /\ \A x \in DOMAIN live : live[x] = t[x]
  BY DEF Live
<1> HIDE DEF live
<1>2. QED
  BY <1>1 DEF live

(* A job of a live account is in both, but perhaps for its search.         *)
LEMMA LiveJob ==
  ASSUME NEW m, Agreeing(m, pg, used)
  PROVE  /\ DOMAIN pg.jobs = {j \in DOMAIN m.jobs : m.jobs[j].user \in DOMAIN m.users}
         /\ \A j \in DOMAIN pg.jobs :
              /\ pg.jobs[j].user = m.jobs[j].user
              /\ pg.jobs[j].status = m.jobs[j].status
              /\ pg.jobs[j].created = m.jobs[j].created
              /\ pg.jobs[j].search
                   = IF m.jobs[j].search \in Ids \ DOMAIN m.searches
                     THEN Nobody ELSE m.jobs[j].search
<1> DEFINE live == Live(m.jobs, DOMAIN m.users)
           gone == Ids \ DOMAIN m.searches
<1>1. pg.jobs = Unlink(live, gone) /\ JobRows(m.jobs, m.searches, used)
  BY DEF Agreeing, JobsAgree
<1>2. /\ DOMAIN live = {j \in DOMAIN m.jobs : m.jobs[j].user \in DOMAIN m.users}
      /\ \A j \in DOMAIN live : live[j] = m.jobs[j]
  BY LiveIs
<1> HIDE DEF live
<1>3. DOMAIN pg.jobs = DOMAIN live
  BY <1>1 DEF Unlink
<1>4. ASSUME NEW j \in DOMAIN pg.jobs
      PROVE  /\ pg.jobs[j].user = m.jobs[j].user
             /\ pg.jobs[j].status = m.jobs[j].status
             /\ pg.jobs[j].created = m.jobs[j].created
             /\ pg.jobs[j].search = IF m.jobs[j].search \in gone
                                    THEN Nobody ELSE m.jobs[j].search
  <2>1. /\ live[j] = m.jobs[j] /\ j \in DOMAIN m.jobs
        /\ pg.jobs[j] = IF live[j].search \in gone
                        THEN [live[j] EXCEPT !.search = Nobody] ELSE live[j]
    BY <1>1, <1>2, <1>3 DEF Unlink
  <2>2. m.jobs[j]
          = [user |-> m.jobs[j].user, search |-> m.jobs[j].search,
             status |-> m.jobs[j].status, usage |-> m.jobs[j].usage,
             created |-> m.jobs[j].created]
    BY <1>1, <2>1 DEF JobRows
  <2>3. QED
    BY <2>1, <2>2
<1>5. QED
  BY <1>2, <1>3, <1>4

(* The runs of a search of a live account.                                 *)
LEMMA RunsAlike ==
  ASSUME NEW m, Agreeing(m, pg, used), NEW s \in Ids, s \in DOMAIN pg.searches
  PROVE  RunsOf(m, s) = RunsOf(pg, s)
<1>1. /\ s \in DOMAIN m.searches
      /\ m.searches[s].user \in DOMAIN m.users
  BY LiveRow DEF Agreeing, SearchesAgree
<1>2. \A j \in DOMAIN m.jobs :
        m.jobs[j].search = s => m.jobs[j].user \in DOMAIN m.users
  BY <1>1 DEF Agreeing, JobsAgree, JobRows
<1>3. s # Nobody
  BY NobodyIsNoId
<1>4. QED
  BY <1>1, <1>2, <1>3, LiveJob DEF RunsOf

(* A job that both have has its results and steps in both.                 *)
LEMMA OfJobsGet ==
  ASSUME NEW t, NEW jobs, NEW j \in DOMAIN jobs
  PROVE  Get(OfJobs(t, jobs), j) = Get(t, j)
BY DEF Get, OfJobs

LEMMA ResultsAlike ==
  ASSUME NEW m, Agreeing(m, pg, used), NEW j \in DOMAIN pg.jobs
  PROVE  /\ Get(m.results, j) = Get(pg.results, j)
         /\ Get(m.steps, j) = Get(pg.steps, j)
BY OfJobsGet DEF Agreeing, JobsAgree

(* When no document was stored twice or left, an account's chunks are the  *)
(* same in both.                                                           *)
LEMMA RetrievedAlike ==
  ASSUME NEW m, Agreeing(m, pg, used), NEW u \in DOMAIN m.users, NEW k,
         \A c \in m.chunks : c.copy = 0 /\ c.doc \in DOMAIN m.docs
  PROVE  MemRetrieve(m, u, k) = PgRetrieve(pg, u, k)
<1>1. \A c \in m.chunks : c.user = m.docs[c.doc].user
  BY DEF Agreeing, DocsAgree, Chunks
<1>2. \A c \in m.chunks : c.user = u => c.doc \in DOMAIN pg.docs
  BY <1>1, LiveRow DEF Agreeing, DocsAgree
<1>3. pg.chunks = {c \in m.chunks : c.copy = 0 /\ c.doc \in DOMAIN pg.docs}
  BY DEF Agreeing, DocsAgree
<1>4. {c \in m.chunks : c.user = u}
        = {c \in pg.chunks : c.user = u /\ c.doc \in DOMAIN pg.docs}
  BY <1>2, <1>3
<1>5. QED
  BY <1>4 DEF MemRetrieve, PgRetrieve

LEMMA PeopleReads ==
  ASSUME StoreInv
  PROVE  /\ \A e : MemFindByEmail(mem, e) \ strays = PgFindByEmail(pg, e)
         /\ \A u \in DOMAIN pg.users :
              /\ MemChannelsOf(mem, u) = PgChannelsOf(pg, u)
              /\ MemSearchesOf(mem, u) = PgSearchesOf(pg, u)
              /\ MemDocsOf(mem, u) = PgDocsOf(pg, u)
         /\ \A i :
              /\ i \in DOMAIN pg.tokens => MemFindToken(mem, i) = PgFindToken(pg, i)
              /\ i \in DOMAIN pg.searches =>
                   MemFindSearch(mem, i) = PgFindSearch(pg, i)
              /\ i \in DOMAIN pg.docs => MemFindDoc(mem, i) = PgFindDoc(pg, i)
<1> DEFINE users == DOMAIN pg.users
<1>1. /\ pg.users = Without(mem.users, strays)
      /\ pg.tokens = Live(mem.tokens, users)
      /\ pg.channels = Live(mem.channels, users)
      /\ pg.searches = Live(mem.searches, users)
      /\ pg.docs = Live(mem.docs, users)
  BY CleanedIs DEF StoreInv, Agreeing, TokensAgree, ChannelsAgree,
                   SearchesAgree, DocsAgree
<1>2. \A e : MemFindByEmail(mem, e) \ strays = PgFindByEmail(pg, e)
  BY <1>1 DEF MemFindByEmail, PgFindByEmail, Without
<1> HIDE DEF users
<1>3. ASSUME NEW u \in users
      PROVE  /\ MemChannelsOf(mem, u) = PgChannelsOf(pg, u)
             /\ MemSearchesOf(mem, u) = PgSearchesOf(pg, u)
             /\ MemDocsOf(mem, u) = PgDocsOf(pg, u)
  <2>1. /\ Of(mem.channels, u) = Of(pg.channels, u)
        /\ Of(mem.searches, u) = Of(pg.searches, u)
        /\ Of(mem.docs, u) = Of(pg.docs, u)
    BY <1>1, LiveOf
  <2>2. QED
    BY <2>1 DEF MemChannelsOf, PgChannelsOf, MemSearchesOf, PgSearchesOf,
                MemDocsOf, PgDocsOf
<1>4. ASSUME NEW i
      PROVE  /\ i \in DOMAIN pg.tokens => MemFindToken(mem, i) = PgFindToken(pg, i)
             /\ i \in DOMAIN pg.searches =>
                  MemFindSearch(mem, i) = PgFindSearch(pg, i)
             /\ i \in DOMAIN pg.docs => MemFindDoc(mem, i) = PgFindDoc(pg, i)
  <2>1. \A t : i \in DOMAIN Live(t, users) =>
          Lookup(t, i) = Lookup(Live(t, users), i)
    BY LiveRow DEF Lookup
  <2>2. QED
    BY <1>1, <2>1
       DEF MemFindToken, PgFindToken, MemFindSearch, PgFindSearch, MemFindDoc,
           PgFindDoc
<1>5. QED
  BY <1>2, <1>3, <1>4 DEF users

(* The jobs of a live account that are no strays are in both.              *)
LEMMA JobsRead ==
  ASSUME StoreInv, NEW u \in DOMAIN pg.users
  PROVE  /\ MemJobsOf(mem, u) \ strays = PgJobsOf(pg, u)
         /\ Of(mem.jobs, u) \cap strays = {} =>
              MemCountSince(mem, u, now) = PgCountSince(pg, u, now)
<1> DEFINE m == Cleaned
<1>1. /\ Agreeing(m, pg, used) /\ m.users = pg.users
      /\ m.jobs = Without(mem.jobs, strays)
  BY CleanedIs DEF StoreInv
<1> HIDE DEF m
<1>2. Of(m.jobs, u) = Of(pg.jobs, u)
  BY <1>1, LiveJob DEF Of
<1>3. /\ Of(mem.jobs, u) \ strays = Of(m.jobs, u)
      /\ \A j \in Of(m.jobs, u) : m.jobs[j] = mem.jobs[j]
  BY <1>1 DEF Of, Without
<1>4. \A j \in Of(pg.jobs, u) : pg.jobs[j].created = m.jobs[j].created
  BY <1>1, LiveJob DEF Of
<1>5. ASSUME Of(mem.jobs, u) \cap strays = {}
      PROVE  {j \in Of(mem.jobs, u) : mem.jobs[j].created >= now}
               = {j \in Of(pg.jobs, u) : pg.jobs[j].created >= now}
  BY <1>2, <1>3, <1>4, <1>5
<1>6. QED
  BY <1>2, <1>3, <1>5 DEF MemJobsOf, PgJobsOf, MemCountSince, PgCountSince

(* What is kept with a job or the runs of a search that are no strays.     *)
LEMMA RunsRead ==
  ASSUME StoreInv, NEW i \in Ids
  PROVE  /\ i \in DOMAIN pg.jobs =>
              /\ MemResultsFor(mem, i) = PgResultsFor(pg, i)
              /\ MemStepsFor(mem, i) = PgStepsFor(pg, i)
         /\ i \in DOMAIN pg.searches /\ RunsOf(mem, i) \cap strays = {} =>
              MemRecentUrls(mem, i) = PgRecentUrls(pg, i)
<1> DEFINE m == Cleaned
<1>1. /\ Agreeing(m, pg, used) /\ m.jobs = Without(mem.jobs, strays)
      /\ m.results = Without(mem.results, strays)
      /\ m.steps = Without(mem.steps, strays)
  BY CleanedIs DEF StoreInv
<1> HIDE DEF m
<1>2. \A j \in DOMAIN pg.jobs : j \in DOMAIN m.jobs /\ j \notin strays
  BY <1>1, LiveJob DEF Without
<1>3. \A t, j : j \notin strays => Get(Without(t, strays), j) = Get(t, j)
  BY DEF Get, Without
<1>4. \A j \in DOMAIN pg.jobs : /\ Get(mem.results, j) = Get(pg.results, j)
                                /\ Get(mem.steps, j) = Get(pg.steps, j)
  BY <1>1, <1>2, <1>3, ResultsAlike
<1>5. ASSUME i \in DOMAIN pg.searches, RunsOf(mem, i) \cap strays = {}
      PROVE  MemRecentUrls(mem, i) = PgRecentUrls(pg, i)
  <2>1. RunsOf(mem, i) = RunsOf(m, i)
    BY <1>1, <1>5 DEF RunsOf, Without
  <2>2. RunsOf(m, i) = RunsOf(pg, i)
    BY <1>1, <1>5, RunsAlike
  <2>3. \A j \in RunsOf(pg, i) : Get(mem.results, j) = Get(pg.results, j)
    BY <1>4 DEF RunsOf
  <2>4. QED
    BY <2>1, <2>2, <2>3 DEF MemRecentUrls, PgRecentUrls
<1>6. QED
  BY <1>4, <1>5 DEF MemResultsFor, PgResultsFor, MemStepsFor, PgStepsFor

LEMMA ReadsAreAlike ==
  ASSUME StoreInv
  PROVE  ReadsAgree
<1>1. ASSUME NEW u \in DOMAIN pg.users, NEW k,
             \A c \in mem.chunks : c.copy = 0 /\ c.doc \in DOMAIN mem.docs
      PROVE  MemRetrieve(mem, u, k) = PgRetrieve(pg, u, k)
  <2> DEFINE m == Cleaned
  <2>1. /\ Agreeing(m, pg, used) /\ m.users = pg.users
        /\ m.chunks = mem.chunks /\ m.docs = mem.docs
    BY CleanedIs DEF StoreInv
  <2> HIDE DEF m
  <2>2. MemRetrieve(m, u, k) = PgRetrieve(pg, u, k)
    BY <1>1, <2>1, RetrievedAlike
  <2>3. QED
    BY <2>1, <2>2 DEF MemRetrieve
<1>2. QED
  BY <1>1, PeopleReads, JobsRead, RunsRead DEF ReadsAgree

LEMMA LoopReadsAreAlike ==
  ASSUME StoreInv
  PROVE  LoopReadsAgree
<1> DEFINE m == Cleaned
<1>1. /\ Agreeing(m, pg, used) /\ m.users = pg.users
      /\ m.jobs = Without(mem.jobs, strays)
      /\ pg.searches = Live(mem.searches, DOMAIN pg.users)
  BY CleanedIs DEF StoreInv, Agreeing, SearchesAgree
<1> HIDE DEF m
<1>2. PgListDue(pg, now)
        = {s \in MemListDue(mem, now) : mem.searches[s].user \in DOMAIN pg.users}
  <2>1. /\ DOMAIN pg.searches = {s \in DOMAIN mem.searches :
                                  mem.searches[s].user \in DOMAIN pg.users}
        /\ \A s \in DOMAIN pg.searches : pg.searches[s] = mem.searches[s]
    BY <1>1 DEF Live
  <2>2. QED
    BY <2>1 DEF MemListDue, PgListDue
<1>3. PgUnfinished(pg, now)
        = {j \in MemUnfinished(mem, now) \ strays :
             mem.jobs[j].user \in DOMAIN pg.users}
  <2>1. /\ DOMAIN m.jobs = DOMAIN mem.jobs \ strays
        /\ \A j \in DOMAIN m.jobs : m.jobs[j] = mem.jobs[j]
    BY <1>1 DEF Without
  <2>2. /\ DOMAIN pg.jobs = {j \in DOMAIN m.jobs :
                              m.jobs[j].user \in DOMAIN pg.users}
        /\ \A j \in DOMAIN pg.jobs : /\ pg.jobs[j].status = m.jobs[j].status
                                     /\ pg.jobs[j].created = m.jobs[j].created
    BY <1>1, LiveJob
  <2>3. QED
    BY <2>1, <2>2 DEF MemUnfinished, PgUnfinished
<1>4. QED
  BY <1>2, <1>3 DEF LoopReadsAgree

-----------------------------------------------------------------------------
(* The audit trail: recorded in the order of time, and kept by both as     *)
(* long as the account exists.                                             *)
LogsAgree(m, p, drawn, at) ==
  /\ at \in Nat
  /\ \A e \in DOMAIN m.events :
       /\ e \in Nat
       /\ m.events[e].created \in Nat /\ m.events[e].created <= at
       /\ m.events[e].user \in drawn \cap Users
       /\ m.events[e].user \in DOMAIN p.users => e \in DOMAIN p.events
  /\ \A d, e \in DOMAIN m.events :
       d < e => m.events[d].created <= m.events[e].created
  /\ \A e \in DOMAIN p.events :
       /\ e \in DOMAIN m.events
       /\ p.events[e] = [user |-> p.events[e].user,
                         created |-> m.events[e].created]

Logged == LogsAgree(mem, pg, used, now)

LEMMA LogsKept ==
  ASSUME NEW m, NEW p, NEW drawn, NEW at, LogsAgree(m, p, drawn, at),
         NEW n, NEW q, NEW more, NEW then \in Nat,
         n.events = m.events, q.events = p.events,
         DOMAIN q.users \cap drawn \subseteq DOMAIN p.users,
         drawn \subseteq more, at <= then
  PROVE  LogsAgree(n, q, more, then)
BY DEF LogsAgree

(* A step that neither records nor forgets.                                *)
Unlogged ==
  /\ mem'.events = mem.events /\ pg'.events = pg.events
  /\ DOMAIN pg'.users \cap used \subseteq DOMAIN pg.users
  /\ used \subseteq used' /\ now' = now

LEMMA QuietLogs ==
  ASSUME Logged, Unlogged
  PROVE  Logged'
<1>1. now \in Nat /\ now <= now'
  BY DEF Logged, LogsAgree, Unlogged
<1>2. QED
  BY <1>1, LogsKept DEF Logged, Unlogged

(* What a call leaves alone in both databases.                             *)
LEMMA QuietCall ==
  ASSUME NEW u, NEW call, NEW m, NEW p, Both(u, call, m, p),
         used \subseteq used', DOMAIN p.db.users \cap used \subseteq DOMAIN pg.users,
         m.db.events = mem.events, p.db.events = pg.events
  PROVE  Unlogged
BY DEF Both, Unlogged

LEMMA QuietPeople ==
  ASSUME StoreInv, NEW u, NEW i,
         People(u, i), ~ RecordEvent(u)
  PROVE  Unlogged
<1>1. Database(mem) /\ Database(pg)
  BY CleanedIs
<1>2. CASE IssueToken(u, i)
  <2>1. /\ \A t, r : /\ MemInsertToken(mem, t, r).db.events = mem.events
                     /\ PgInsertToken(pg, t, r).db.users = pg.users
                     /\ PgInsertToken(pg, t, r).db.events = pg.events
    BY <1>1
       DEF MemInsertToken, PgInsertToken, Done, Did, Refused, Database
  <2>2. QED
    BY <1>2, <2>1, QuietCall DEF IssueToken, Call, Fresh
<1>3. CASE UseToken(u, i)
  <2>1. \A t : /\ MemMarkConsumed(mem, t).db.events = mem.events
               /\ PgMarkConsumed(pg, t).db.users = pg.users
               /\ PgMarkConsumed(pg, t).db.events = pg.events
               /\ MemDeleteToken(mem, t).db.events = mem.events
               /\ PgDeleteToken(pg, t).db.users = pg.users
               /\ PgDeleteToken(pg, t).db.events = pg.events
               /\ MemDeleteFamily(mem, t).db.events = mem.events
               /\ PgDeleteFamily(pg, t).db.users = pg.users
               /\ PgDeleteFamily(pg, t).db.events = pg.events
    BY <1>1
       DEF MemMarkConsumed, PgMarkConsumed, MemDeleteToken, PgDeleteToken,
           MemDeleteFamily, PgDeleteFamily, Done, Did, Database
  <2>2. QED
    BY <1>3, <2>1, QuietCall DEF UseToken, Call, Drawn
<1>4. CASE AddChannel(u, i)
  <2>1. \A r : /\ MemInsertChannel(mem, i, r).db.events = mem.events
               /\ PgInsertChannel(pg, i, r).db.users = pg.users
               /\ PgInsertChannel(pg, i, r).db.events = pg.events
    BY <1>1
       DEF MemInsertChannel, PgInsertChannel, Done, Did, Refused, Database
  <2>2. QED
    BY <1>4, <2>1, QuietCall DEF AddChannel, Call, Fresh
<1>5. CASE RemoveChannel(u, i)
  <2>1. /\ MemDeleteChannel(mem, u, i).db.events = mem.events
        /\ PgDeleteChannel(pg, u, i).db.users = pg.users
        /\ PgDeleteChannel(pg, u, i).db.events = pg.events
    BY <1>1 DEF MemDeleteChannel, PgDeleteChannel, Did, Database
  <2>2. QED
    BY <1>5, <2>1, QuietCall DEF RemoveChannel, Call, Drawn
<1>6. QED
  BY <1>2, <1>3, <1>4, <1>5 DEF People

LEMMA QuietDocuments ==
  ASSUME StoreInv, NEW u, NEW i, Documents(u, i)
  PROVE  Unlogged
<1>1. Database(mem) /\ Database(pg)
  BY CleanedIs
<1>2. CASE InsertDoc(u, i)
  <2>1. \A r : /\ MemInsertDoc(mem, i, r).db.events = mem.events
               /\ PgInsertDoc(pg, i, r).db.users = pg.users
               /\ PgInsertDoc(pg, i, r).db.events = pg.events
    BY <1>1 DEF MemInsertDoc, PgInsertDoc, Done, Did, Refused, Database
  <2>2. QED
    BY <1>2, <2>1, QuietCall DEF InsertDoc, Call, Fresh
<1>3. CASE UseDoc(u, i) \/ LateChunks(u, i)
  <2>1. /\ MemStoreChunks(mem, i, u, {i}).db.events = mem.events
        /\ PgStoreChunks(pg, i, u, {i}).db.users = pg.users
        /\ PgStoreChunks(pg, i, u, {i}).db.events = pg.events
        /\ MemMarkFailed(mem, i).db.events = mem.events
        /\ PgMarkFailed(pg, i).db.users = pg.users
        /\ PgMarkFailed(pg, i).db.events = pg.events
    BY <1>1
       DEF MemStoreChunks, PgStoreChunks, MemMarkFailed, PgMarkFailed, Done,
           Did, Refused, Database
  <2>2. QED
    BY <1>3, <2>1, QuietCall DEF UseDoc, LateChunks, Call, Drawn
<1>4. CASE RemoveDoc(u, i)
  <2>1. /\ MemDeleteDoc(mem, u, i).db.events = mem.events
        /\ PgDeleteDoc(pg, u, i).db.users = pg.users
        /\ PgDeleteDoc(pg, u, i).db.events = pg.events
    BY <1>1 DEF MemDeleteDoc, PgDeleteDoc, DropDocs, Did, Database
  <2>2. QED
    BY <1>4, <2>1, QuietCall DEF RemoveDoc, Call, Drawn
<1>5. QED
  BY <1>2, <1>3, <1>4 DEF Documents

LEMMA QuietJobs ==
  ASSUME StoreInv, NEW u, NEW i, Jobs(u, i)
  PROVE  Unlogged
<1>1. Database(mem) /\ Database(pg)
  BY CleanedIs
<1>2. CASE InsertJob(u, i)
  <2>1. \A r : /\ MemInsertJob(mem, i, r).db.events = mem.events
               /\ PgInsertJob(pg, i, r).db.users = pg.users
               /\ PgInsertJob(pg, i, r).db.events = pg.events
    BY <1>1 DEF MemInsertJob, PgInsertJob, Done, Did, Refused, Database
  <2>2. QED
    BY <1>2, <2>1, QuietCall DEF InsertJob, CallOn, Fresh
<1>3. CASE UseJob(u, i)
  <2>1. \A r : /\ MemUpdateJob(mem, i, r).db.events = mem.events
               /\ PgUpdateJob(pg, i, r).db.users = pg.users
               /\ PgUpdateJob(pg, i, r).db.events = pg.events
    BY <1>1 DEF MemUpdateJob, PgUpdateJob, Done, Did, Database
  <2>2. /\ MemStoreResults(mem, i, {1}).db.events = mem.events
        /\ PgStoreResults(pg, i, {1}).db.users = pg.users
        /\ PgStoreResults(pg, i, {1}).db.events = pg.events
    BY <1>1 DEF MemStoreResults, PgStoreResults, Done, Did, Refused, Database
  <2>3. /\ MemAppendStep(mem, i, 1).db.events = mem.events
        /\ PgAppendStep(pg, i, 1).db.users = pg.users
        /\ PgAppendStep(pg, i, 1).db.events = pg.events
        /\ MemClearSteps(mem, i).db.events = mem.events
        /\ PgClearSteps(pg, i).db.users = pg.users
        /\ PgClearSteps(pg, i).db.events = pg.events
    BY <1>1
       DEF MemAppendStep, PgAppendStep, MemClearSteps, PgClearSteps, Done, Did,
           Refused, Database
  <2>4. /\ MemAddUsage(mem, i).db.events = mem.events
        /\ PgAddUsage(pg, i).db.users = pg.users
        /\ PgAddUsage(pg, i).db.events = pg.events
    BY <1>1 DEF MemAddUsage, PgAddUsage, Done, Did, Database
  <2>5. QED
    BY <1>3, <2>1, <2>2, <2>3, <2>4, QuietCall DEF UseJob, CallOn, Drawn
<1>4. CASE InsertSearch(u, i)
  <2>1. \A r : /\ MemInsertSearch(mem, i, r).db.events = mem.events
               /\ PgInsertSearch(pg, i, r).db.users = pg.users
               /\ PgInsertSearch(pg, i, r).db.events = pg.events
    BY <1>1 DEF MemInsertSearch, PgInsertSearch, Done, Did, Refused, Database
  <2>2. QED
    BY <1>4, <2>1, QuietCall DEF InsertSearch, Fresh
<1>5. CASE UseSearch(u, i)
  <2>1. /\ MemDeleteSearch(mem, u, i).db.events = mem.events
        /\ PgDeleteSearch(pg, u, i).db.users = pg.users
        /\ PgDeleteSearch(pg, u, i).db.events = pg.events
        /\ MemMarkRan(mem, i, now).db.events = mem.events
        /\ PgMarkRan(pg, i, now).db.users = pg.users
        /\ PgMarkRan(pg, i, now).db.events = pg.events
    BY <1>1
       DEF MemDeleteSearch, PgDeleteSearch, MemMarkRan, PgMarkRan, Done, Did,
           Database
  <2>2. QED
    BY <1>5, <2>1, QuietCall DEF UseSearch, Call, Drawn
<1>6. QED
  BY <1>2, <1>3, <1>4, <1>5 DEF Jobs

LEMMA QuietRegister ==
  ASSUME StoreInv, NEW u, NEW e, Register(u, e)
  PROVE  Unlogged
<1>1. Database(mem) /\ Database(pg)
  BY CleanedIs
<1>2. /\ MemInsertUser(mem, u, e).db.events = mem.events
      /\ DOMAIN PgInsertUser(pg, u, e).db.users \subseteq DOMAIN pg.users \cup {u}
      /\ PgInsertUser(pg, u, e).db.events = pg.events
  <2>1. MemInsertUser(mem, u, e).db.events = mem.events
    BY <1>1 DEF MemInsertUser, Done, Did, Database
  <2>2. PgInsertUser(pg, u, e).db \in {pg, [pg EXCEPT !.users = Put(pg.users, u, e)]}
    BY DEF PgInsertUser, Done, Did, Refused
  <2>3. DOMAIN Put(pg.users, u, e) = DOMAIN pg.users \cup {u}
    BY DEF Put
  <2>4. QED
    BY <1>1, <2>1, <2>2, <2>3 DEF Database
<1>3. u \notin used /\ used' = used \cup {u}
  BY DEF Register, Fresh
<1>4. QED
  BY <1>2, <1>3, QuietCall DEF Register, CallOn

(* The retention purge of jobs, the sweep of tokens.                       *)
LEMMA QuietLoop ==
  ASSUME StoreInv, used' = used,
         \/ Both(Nobody, "loop", MemDeleteExpired(mem, now),
                                 PgDeleteExpired(pg, now))
         \/ Both(Nobody, "loop", MemPurgeJobs(mem, now), PgPurgeJobs(pg, now))
  PROVE  Unlogged
<1>1. Database(mem) /\ Database(pg)
  BY CleanedIs
<1>2. /\ MemDeleteExpired(mem, now).db.events = mem.events
      /\ PgDeleteExpired(pg, now).db.users = pg.users
      /\ PgDeleteExpired(pg, now).db.events = pg.events
      /\ MemPurgeJobs(mem, now).db.events = mem.events
      /\ PgPurgeJobs(pg, now).db.users = pg.users
      /\ PgPurgeJobs(pg, now).db.events = pg.events
  BY <1>1
     DEF MemDeleteExpired, PgDeleteExpired, MemPurgeJobs, PgPurgeJobs, DropJobs,
         Did, Database
<1>3. QED
  BY <1>2, QuietCall

LEMMA LogCreated ==
  ASSUME NEW m, NEW p, NEW drawn, NEW at, LogsAgree(m, p, drawn, at),
         NEW e \in DOMAIN p.events
  PROVE  e \in DOMAIN m.events /\ p.events[e].created = m.events[e].created
<1> DEFINE r == p.events[e]
           c == m.events[e].created
<1>1. e \in DOMAIN m.events /\ r = [user |-> r.user, created |-> c]
  BY DEF LogsAgree
<1> HIDE DEF r, c
<1>2. r.created = c
  BY <1>1
<1>3. QED
  BY <1>1, <1>2 DEF r, c

LEMMA RecordLogs ==
  ASSUME StoreInv, Logged, NEW u \in Users, RecordEvent(u)
  PROVE  Logged'
<1> DEFINE r == [user |-> u, created |-> now]
<1>1. PICK n \in {1} \cup {e + 1 : e \in DOMAIN mem.events} :
        /\ \A e \in DOMAIN mem.events : e < n
        /\ Call(u, MemRecord(mem, n, r), PgRecord(pg, n, r))
  BY DEF RecordEvent
<1>2. n \in Nat
  BY <1>1 DEF Logged, LogsAgree
<1>3. u \in used /\ used' = used
  BY DEF RecordEvent, Drawn
<1>4. Database(mem) /\ Database(pg)
  BY CleanedIs
<1>5. /\ mem'.events = Put(mem.events, n, r) /\ pg'.users = pg.users
      /\ now' = now
  BY <1>1, <1>4 DEF Call, Both, MemRecord, PgRecord, Done, Did, Refused, Database
<1>6. \/ pg'.events = Put(pg.events, n, r)
      \/ pg'.events = pg.events /\ u \notin DOMAIN pg.users
  BY <1>1, <1>4 DEF Call, Both, PgRecord, Done, Did, Refused, Database
<1>r. r.user = u /\ r.created = now /\ r = [user |-> r.user, created |-> now]
  OBVIOUS
<1> HIDE DEF r
<1>7. /\ DOMAIN mem'.events = DOMAIN mem.events \cup {n}
      /\ mem'.events[n] = r
      /\ \A e \in DOMAIN mem.events : mem'.events[e] = mem.events[e]
  BY <1>1, <1>2, <1>5 DEF Put, Logged, LogsAgree
<1>8. /\ DOMAIN pg'.events \subseteq DOMAIN pg.events \cup {n}
      /\ DOMAIN pg.events \subseteq DOMAIN pg'.events
      /\ u \in DOMAIN pg.users => n \in DOMAIN pg'.events
      /\ n \in DOMAIN pg'.events => pg'.events[n] = r \/ n \in DOMAIN pg.events
      /\ \A e \in DOMAIN pg.events : e # n => pg'.events[e] = pg.events[e]
  <2>1. CASE pg'.events = Put(pg.events, n, r)
    <3>1. /\ DOMAIN Put(pg.events, n, r) = DOMAIN pg.events \cup {n}
          /\ \A e \in DOMAIN pg.events \cup {n} :
               Put(pg.events, n, r)[e] = IF e = n THEN r ELSE pg.events[e]
      BY DEF Put
    <3>2. QED
      BY <2>1, <3>1
  <2>2. CASE pg'.events = pg.events /\ u \notin DOMAIN pg.users
    BY <2>2
  <2>3. QED
    BY <1>6, <2>1, <2>2
<1>9. n \notin DOMAIN mem.events /\ n \notin DOMAIN pg.events
  <2>1. n \notin DOMAIN mem.events
    <3>1. ~ n < n
      BY <1>2
    <3>2. QED
      BY <1>1, <3>1
  <2>2. QED
    BY <2>1, LogCreated DEF Logged
<1>10. \A e \in DOMAIN pg'.events :
         /\ e \in DOMAIN mem'.events
         /\ pg'.events[e] = [user |-> pg'.events[e].user,
                             created |-> mem'.events[e].created]
  <2>1. ASSUME NEW e \in DOMAIN pg'.events, e = n
        PROVE  /\ e \in DOMAIN mem'.events
               /\ pg'.events[e] = [user |-> pg'.events[e].user,
                                   created |-> mem'.events[e].created]
    BY <1>r, <1>7, <1>8, <1>9, <2>1
  <2>2. ASSUME NEW e \in DOMAIN pg'.events, e # n
        PROVE  /\ e \in DOMAIN mem'.events
               /\ pg'.events[e] = [user |-> pg'.events[e].user,
                                   created |-> mem'.events[e].created]
    <3>1. e \in DOMAIN pg.events /\ pg'.events[e] = pg.events[e]
      BY <1>8, <2>2
    <3>2. /\ e \in DOMAIN mem.events
          /\ pg.events[e] = [user |-> pg.events[e].user,
                             created |-> mem.events[e].created]
      BY <3>1 DEF Logged, LogsAgree
    <3>3. QED
      BY <1>7, <3>1, <3>2
  <2>3. QED
    BY <2>1, <2>2
<1>11. \A e \in DOMAIN mem'.events :
         /\ e \in Nat
         /\ mem'.events[e].created \in Nat /\ mem'.events[e].created <= now'
         /\ mem'.events[e].user \in used' \cap Users
         /\ mem'.events[e].user \in DOMAIN pg'.users => e \in DOMAIN pg'.events
  BY <1>r, <1>2, <1>3, <1>5, <1>7, <1>8 DEF Logged, LogsAgree
<1>12. \A d, e \in DOMAIN mem'.events :
         d < e => mem'.events[d].created <= mem'.events[e].created
  BY <1>r, <1>1, <1>2, <1>7 DEF Logged, LogsAgree
<1>13. now' \in Nat
  BY <1>5 DEF Logged, LogsAgree
<1>14. QED
  BY <1>10, <1>11, <1>12, <1>13 DEF Logged, LogsAgree

LEMMA ForgetLogs ==
  ASSUME StoreInv, Logged, used' = used,
         Both(Nobody, "loop", MemForgetEvents(mem, now),
                              PgForgetEvents(pg, now))
  PROVE  Logged'
<1> DEFINE old == {e \in DOMAIN mem.events : ~ mem.events[e].created >= now}
           out == {e \in DOMAIN pg.events : pg.events[e].created < now}
<1>1. Database(mem) /\ Database(pg)
  BY CleanedIs
<1>2. /\ mem'.events = Without(mem.events, old)
      /\ pg'.events = Without(pg.events, out)
      /\ pg'.users = pg.users /\ now' = now
  <2>1. /\ MemForgetEvents(mem, now).db
             = [mem EXCEPT !.events = Without(mem.events, old)]
        /\ PgForgetEvents(pg, now).db
             = [pg EXCEPT !.events = Without(pg.events, out)]
    BY DEF MemForgetEvents, PgForgetEvents, Done, Did
  <2>2. /\ mem' = MemForgetEvents(mem, now).db
        /\ pg' = PgForgetEvents(pg, now).db /\ now' = now
    BY DEF Both
  <2> HIDE DEF old, out
  <2>3. mem'.events = Without(mem.events, old)
    BY <1>1, <2>1, <2>2 DEF Database
  <2>4. pg'.events = Without(pg.events, out) /\ pg'.users = pg.users
    BY <1>1, <2>1, <2>2 DEF Database
  <2>5. QED
    BY <2>2, <2>3, <2>4
<1>3. \A e \in DOMAIN pg.events :
        pg.events[e].created = mem.events[e].created /\ e \in DOMAIN mem.events
  BY LogCreated DEF Logged
<1>4. \A e \in DOMAIN pg.events : e \in old <=> e \in out
  BY <1>3 DEF Logged, LogsAgree
<1> HIDE DEF old, out
<1>5. /\ DOMAIN mem'.events = DOMAIN mem.events \ old
      /\ \A e \in DOMAIN mem'.events : mem'.events[e] = mem.events[e]
      /\ DOMAIN pg'.events = DOMAIN pg.events \ out
      /\ \A e \in DOMAIN pg'.events : pg'.events[e] = pg.events[e]
  BY <1>2 DEF Without
<1>6. QED
  BY <1>2, <1>4, <1>5 DEF Logged, LogsAgree

(* The account's deletion nulls a column in PostgreSQL.                    *)
LEMMA DeleteUserLogs ==
  ASSUME NEW p, Database(p), NEW u
  PROVE  PgDeleteUser(p, u).db.events
           = [e \in DOMAIN p.events |->
                IF p.events[e].user = u
                THEN [p.events[e] EXCEPT !.user = Nobody] ELSE p.events[e]]
<1> DEFINE rest == DropDocs(DropJobs(p, Of(p.jobs, u)), Of(p.docs, u))
           log == [e \in DOMAIN rest.events |->
                     IF rest.events[e].user = u
                     THEN [rest.events[e] EXCEPT !.user = Nobody]
                     ELSE rest.events[e]]
<1>1. rest.events = p.events /\ "events" \in DOMAIN rest
  BY DEF DropDocs, DropJobs, Database
<1>2. "events" \in DOMAIN rest => PgDeleteUser(p, u).db.events = log
  BY DEF PgDeleteUser, Done, Did
<1>3. QED
  BY <1>1, <1>2

LEMMA DeleteUserUsers ==
  ASSUME NEW p, Database(p), NEW u
  PROVE  DOMAIN PgDeleteUser(p, u).db.users \subseteq DOMAIN p.users
<1> DEFINE rest == DropDocs(DropJobs(p, Of(p.jobs, u)), Of(p.docs, u))
<1>1. rest.users = p.users /\ "users" \in DOMAIN rest
  BY DEF DropDocs, DropJobs, Database
<1>2. "users" \in DOMAIN rest =>
        PgDeleteUser(p, u).db.users = Without(rest.users, {u})
  BY DEF PgDeleteUser, Done, Did
<1>3. QED
  BY <1>1, <1>2 DEF Without

LEMMA LogsNulled ==
  ASSUME NEW m, NEW p, NEW drawn, NEW at, LogsAgree(m, p, drawn, at),
         NEW n, NEW q,
         n.events = m.events, DOMAIN q.users \subseteq DOMAIN p.users,
         DOMAIN q.events = DOMAIN p.events,
         \A e \in DOMAIN p.events :
           \/ q.events[e] = p.events[e]
           \/ q.events[e] = [p.events[e] EXCEPT !.user = Nobody]
  PROVE  LogsAgree(n, q, drawn, at)
<1>1. DOMAIN q.events = DOMAIN p.events
  OBVIOUS
<1>2. ASSUME NEW e \in DOMAIN q.events
      PROVE  q.events[e] = [user |-> q.events[e].user,
                            created |-> m.events[e].created]
  <2> DEFINE r == p.events[e]
             c == m.events[e].created
             s == q.events[e]
  <2>1. r = [user |-> r.user, created |-> c]
    BY <1>1 DEF LogsAgree
  <2>2. s = r \/ s = [r EXCEPT !.user = Nobody]
    BY <1>1
  <2> HIDE DEF r, c, s
  <2>3. s = [user |-> s.user, created |-> c]
    BY <2>1, <2>2
  <2>4. QED
    BY <2>3 DEF s, c
<1>3. QED
  BY <1>1, <1>2 DEF LogsAgree

LEMMA DeleteAccountLogs ==
  ASSUME StoreInv, Logged, NEW u, NEW n \in 1..6,
         DeleteAccount(u, n)
  PROVE  Logged'
<1> DEFINE a == MemDeleteSearchesOf(mem, u).db
           b == MemDeleteJobsOf(a, u).db
           c == MemDeleteTokensOf(b, u).db
           d == MemDeleteChannelsOf(c, u).db
           e == MemDeleteDocsOf(d, u).db
           f == MemDeleteUser(e, u).db
           pa == PgDeleteSearchesOf(pg, u).db
           pb == PgDeleteJobsOf(pa, u).db
           pc == PgDeleteTokensOf(pb, u).db
           pd == PgDeleteChannelsOf(pc, u).db
           pe == PgDeleteDocsOf(pd, u).db
           pf == PgDeleteUser(pe, u).db
<1>1. /\ mem' = <<a, b, c, d, e, f>>[n] /\ pg' = <<pa, pb, pc, pd, pe, pf>>[n]
      /\ used' = used /\ now' = now
  BY DEF DeleteAccount, Drawn, Both, MemErase, PgErase, Done, Did
<1>2. Database(mem) /\ Database(pg)
  BY CleanedIs
<1>3. /\ Database(a) /\ a.events = mem.events
      /\ Database(pa) /\ pa.events = pg.events
      /\ pa.users = pg.users
  BY <1>2 DEF MemDeleteSearchesOf, PgDeleteSearchesOf, Did, Database
<1> HIDE DEF a, pa
<1>4. /\ Database(b) /\ b.events = mem.events
      /\ Database(pb) /\ pb.events = pg.events
      /\ pb.users = pg.users
  BY <1>3 DEF MemDeleteJobsOf, PgDeleteJobsOf, DropJobs, Did, Database
<1> HIDE DEF b, pb
<1>5. /\ Database(c) /\ c.events = mem.events
      /\ Database(pc) /\ pc.events = pg.events
      /\ pc.users = pg.users
  BY <1>4 DEF MemDeleteTokensOf, PgDeleteTokensOf, Did, Database
<1> HIDE DEF c, pc
<1>6. /\ Database(d) /\ d.events = mem.events
      /\ Database(pd) /\ pd.events = pg.events
      /\ pd.users = pg.users
  BY <1>5 DEF MemDeleteChannelsOf, PgDeleteChannelsOf, Did, Database
<1> HIDE DEF d, pd
<1>7. /\ Database(e) /\ e.events = mem.events
      /\ Database(pe) /\ pe.events = pg.events
      /\ pe.users = pg.users
  BY <1>6 DEF MemDeleteDocsOf, PgDeleteDocsOf, DropDocs, Did, Database
<1> HIDE DEF e, pe
<1>8. f.events = mem.events
  BY <1>7 DEF MemDeleteUser, Done, Did, Database
<1>9. pf.events = [x \in DOMAIN pg.events |->
                     IF pg.events[x].user = u
                     THEN [pg.events[x] EXCEPT !.user = Nobody]
                     ELSE pg.events[x]]
  BY <1>7, DeleteUserLogs
<1>10. DOMAIN pf.users \subseteq DOMAIN pg.users
  BY <1>7, DeleteUserUsers
<1> HIDE DEF f, pf
<1>11. CASE n = 6
  <2>1. mem' = f /\ pg' = pf
    BY <1>1, <1>11
  <2>2. /\ DOMAIN pf.events = DOMAIN pg.events
        /\ \A x \in DOMAIN pg.events :
             \/ pf.events[x] = pg.events[x]
             \/ pf.events[x] = [pg.events[x] EXCEPT !.user = Nobody]
    BY <1>9
  <2>3. LogsAgree(f, pf, used, now)
    BY <1>8, <1>10, <2>2, LogsNulled DEF Logged
  <2>4. QED
    BY <1>1, <2>1, <2>3 DEF Logged
<1>12. CASE n # 6
  <2>1. /\ mem' \in {a, b, c, d, e} /\ pg' \in {pa, pb, pc, pd, pe}
    BY <1>1, <1>12
  <2>2. /\ mem'.events = mem.events /\ pg'.users = pg.users
        /\ pg'.events = pg.events
    BY <1>3, <1>4, <1>5, <1>6, <1>7, <2>1
  <2>3. QED
    BY <1>1, <2>2, QuietLogs DEF Unlogged
<1>13. QED
  BY <1>11, <1>12

LEMMA LoggedInv == StoreInv /\ Logged /\ [StoresNext]_storeVars => Logged'
<1> SUFFICES ASSUME StoreInv, Logged, [StoresNext]_storeVars
             PROVE  Logged'
  OBVIOUS
<1>1. CASE Tick
  <2>1. /\ mem' = mem /\ pg' = pg /\ used' = used /\ now' = now + 1
    BY <1>1 DEF Tick
  <2>2. now \in Nat
    BY DEF Logged, LogsAgree
  <2>3. now + 1 \in Nat /\ now <= now + 1
    BY <2>2
  <2>4. LogsAgree(mem, pg, used, now + 1)
    BY <2>3, LogsKept DEF Logged
  <2>5. QED
    BY <2>1, <2>4 DEF Logged
<1>2. CASE \E u, e : Register(u, e)
  BY <1>2, QuietRegister, QuietLogs
<1>3. CASE \E u \in Users, n \in Stops : DeleteAccount(u, n)
  BY <1>3, DeleteAccountLogs DEF Stops
<1>4. CASE Housekeeping
  <2>1. used' = used
    BY <1>4 DEF Housekeeping
  <2>2. QED
    BY <1>4, <2>1, ForgetLogs, QuietLoop, QuietLogs DEF Housekeeping
<1>5. CASE PurgeJobs
  BY <1>5, QuietLoop, QuietLogs DEF PurgeJobs
<1>6. ASSUME NEW u \in Users, NEW i \in Ids, People(u, i)
      PROVE  Logged'
  <2>1. CASE RecordEvent(u)
    BY <2>1, RecordLogs
  <2>2. CASE ~ RecordEvent(u)
    BY <1>6, <2>2, QuietPeople, QuietLogs
  <2>3. QED
    BY <2>1, <2>2
<1>7. ASSUME NEW u \in Users, NEW i \in Ids, Jobs(u, i) \/ Documents(u, i)
      PROVE  Logged'
  BY <1>7, QuietJobs, QuietDocuments, QuietLogs
<1>8. CASE UNCHANGED storeVars
  BY <1>8 DEF storeVars, Logged
<1>9. QED
  BY <1>1, <1>2, <1>3, <1>4, <1>5, <1>6, <1>7, <1>8 DEF StoresNext

(* While all accounts exist, the events recorded last are the latest.      *)
LEMMA EventsAreAlike ==
  ASSUME Logged
  PROVE  EventsAgree
<1> SUFFICES ASSUME DOMAIN pg.users = used \cap Users, NEW n \in 0..2
             PROVE  MemRecentEvents(mem, n) = PgRecentEvents(pg, n)
  BY DEF EventsAgree
<1>1. DOMAIN pg.events = DOMAIN mem.events
  BY DEF Logged, LogsAgree
<1>2. \A e \in DOMAIN mem.events : pg.events[e].created = mem.events[e].created
  BY <1>1, LogCreated DEF Logged
<1>3. ASSUME NEW d \in DOMAIN mem.events, NEW e \in DOMAIN mem.events
      PROVE  d > e <=> \/ pg.events[d].created > pg.events[e].created
                       \/ pg.events[d].created = pg.events[e].created /\ d > e
  BY <1>2 DEF Logged, LogsAgree
<1>4. \A e \in DOMAIN mem.events :
        {d \in DOMAIN mem.events : d > e}
          = {d \in DOMAIN pg.events :
               \/ pg.events[d].created > pg.events[e].created
               \/ pg.events[d].created = pg.events[e].created /\ d > e}
  BY <1>1, <1>3
<1>5. QED
  BY <1>1, <1>4 DEF MemRecentEvents, PgRecentEvents

(* Whatever is read of what exists, and of the audit trail while no        *)
(* account is missing, the two adapters answer alike after any calls of    *)
(* the use cases, but for what they say of strays.                         *)
THEOREM QuestionsAgree == StoresSpec => []QueriesAgree
<1>1. StoresInit => Logged
  BY DEF StoresInit, Logged, LogsAgree, Empty
<1>2. StoresSpec => []Logged
  BY <1>1, LoggedInv, StoresAgree, PTL DEF StoresSpec
<1>3. StoreInv /\ Logged => QueriesAgree
  BY ReadsAreAlike, LoopReadsAreAlike, EventsAreAlike DEF QueriesAgree
<1>4. QED
  BY <1>2, <1>3, StoresAgree, PTL

-----------------------------------------------------------------------------
(* Types.  Tables are keyed by the identifiers of their rows, rows by the  *)
(* accounts they were inserted for; the rest follows from the agreement.   *)
Belong(table) ==
  \A x \in DOMAIN table : x \in Ids /\ table[x].user \in Users

Members(db) ==
  /\ DOMAIN db.users \subseteq Users
  /\ Belong(db.tokens) /\ Belong(db.channels) /\ Belong(db.jobs)
  /\ Belong(db.searches) /\ Belong(db.docs)
  /\ DOMAIN db.results \cup DOMAIN db.steps \subseteq Ids
  /\ \A c \in db.chunks : c.doc \in Ids

(* The names a step can use, and the clock.                                *)
NamesKnown ==
  /\ area \in Areas /\ now \in 0..MaxNow
  /\ used \subseteq Users \cup Ids
  /\ last.user \in Users \cup {Nobody}

LEMMA BelongWithout ==
  ASSUME NEW t, Belong(t), NEW gone
  PROVE  Belong(Without(t, gone))
BY DEF Belong, Without

LEMMA BelongPut ==
  ASSUME NEW t, Belong(t), NEW id \in Ids, NEW r, r.user \in Users
  PROVE  Belong(Put(t, id, r))
BY DEF Belong, Put

(* The same rows, with the same owners.                                    *)
LEMMA BelongSame ==
  ASSUME NEW t, Belong(t), NEW n,
         \A x \in DOMAIN n : x \in DOMAIN t /\ n[x].user = t[x].user
  PROVE  Belong(n)
BY DEF Belong

LEMMA PeopleMembers ==
  ASSUME StoreInv, Members(mem),
         NEW u \in Users, NEW i \in Ids, People(u, i)
  PROVE  Members(mem')
<1>1. Database(mem)
  BY CleanedIs
<1>2. CASE IssueToken(u, i)
  <2>1. PICK r : r.user = u
                 /\ mem' = [mem EXCEPT !.tokens = Put(@, i, r)]
    BY <1>2 DEF IssueToken, Call, Both, MemInsertToken, Done, Did, Token
  <2>2. Belong(Put(mem.tokens, i, r))
    BY <2>1, BelongPut DEF Members
  <2>3. QED
    BY <1>1, <2>1, <2>2 DEF Members, Database
<1>3. CASE UseToken(u, i)
  <2>1. i \in DOMAIN mem.tokens /\ "user" \in DOMAIN mem.tokens[i]
    BY <1>3, CleanedIs DEF UseToken, StoreInv, Agreeing, TokensAgree, DrawnRows
  <2>2. \/ mem' = [mem EXCEPT !.tokens[i].consumed = TRUE]
        \/ \E gone : mem' = [mem EXCEPT !.tokens = Without(@, gone)]
    BY <1>3, <2>1
       DEF UseToken, Call, Both, MemMarkConsumed, MemDeleteToken,
           MemDeleteFamily, Done, Did
  <2>3. CASE mem' = [mem EXCEPT !.tokens[i].consumed = TRUE]
    <3>1. mem' = [mem EXCEPT !.tokens = mem'.tokens]
      BY <1>1, <2>3 DEF Database
    <3>2. \A x \in DOMAIN mem'.tokens :
            x \in DOMAIN mem.tokens /\ mem'.tokens[x].user = mem.tokens[x].user
      BY <1>1, <2>1, <2>3 DEF Database
    <3>3. Belong(mem'.tokens)
      BY <3>2, BelongSame DEF Members
    <3>4. QED
      BY <1>1, <3>1, <3>3 DEF Members, Database
  <2>4. ASSUME NEW gone, mem' = [mem EXCEPT !.tokens = Without(@, gone)]
        PROVE  Members(mem')
    <3>1. Belong(Without(mem.tokens, gone))
      BY BelongWithout DEF Members
    <3>2. QED
      BY <1>1, <2>4, <3>1 DEF Members, Database
  <2>5. QED
    BY <2>2, <2>3, <2>4
<1>4. CASE AddChannel(u, i)
  <2>1. PICK r : r.user = u
                 /\ mem' = [mem EXCEPT !.channels = Put(@, i, r)]
    BY <1>4 DEF AddChannel, Call, Both, MemInsertChannel, Done, Did
  <2>2. Belong(Put(mem.channels, i, r))
    BY <2>1, BelongPut DEF Members
  <2>3. QED
    BY <1>1, <2>1, <2>2 DEF Members, Database
<1>5. CASE RemoveChannel(u, i)
  <2>1. \/ mem' = mem
        \/ mem' = [mem EXCEPT !.channels = Without(@, {i})]
    BY <1>5 DEF RemoveChannel, Call, Both, MemDeleteChannel, Did
  <2>2. Belong(Without(mem.channels, {i}))
    BY BelongWithout DEF Members
  <2>3. QED
    BY <1>1, <2>1, <2>2 DEF Members, Database
<1>6. CASE RecordEvent(u)
  <2>1. PICK e : mem' = [mem EXCEPT !.events = e]
    BY <1>6 DEF RecordEvent, Call, Both, MemRecord, Done, Did
  <2>2. QED
    BY <1>1, <2>1 DEF Members, Database
<1>7. QED
  BY <1>2, <1>3, <1>4, <1>5, <1>6 DEF People

(* Only the rows kept with a job change.                                   *)
LEMMA AsideMembers ==
  ASSUME NEW db, Database(db), Members(db), NEW i \in Ids, NEW x, NEW new,
         \/ new = [db EXCEPT !.results = Put(@, i, x)]
         \/ new = [db EXCEPT !.steps = Put(@, i, x)]
         \/ new = [db EXCEPT !.steps = Without(@, {i})]
  PROVE  Members(new)
<1>1. /\ DOMAIN Put(db.results, i, x) \subseteq Ids
      /\ DOMAIN Put(db.steps, i, x) \subseteq Ids
      /\ DOMAIN Without(db.steps, {i}) \subseteq Ids
  BY DEF Put, Without, Members
<1>2. QED
  BY <1>1 DEF Members, Database

LEMMA JobsMembers ==
  ASSUME StoreInv, Members(mem),
         NEW u \in Users, NEW i \in Ids, Jobs(u, i)
  PROVE  Members(mem')
<1>1. Database(mem)
  BY CleanedIs
<1>2. CASE InsertJob(u, i)
  <2>1. PICK r : r.user = u /\ mem' = [mem EXCEPT !.jobs = Put(@, i, r)]
    BY <1>2 DEF InsertJob, CallOn, Both, MemInsertJob, Done, Did
  <2>2. Belong(Put(mem.jobs, i, r))
    BY <2>1, BelongPut DEF Members
  <2>3. QED
    BY <1>1, <2>1, <2>2 DEF Members, Database
<1>3. CASE UseJob(u, i)
  <2> DEFINE copy == [Found(i) EXCEPT !.status = "completed", !.usage = 0]
             gone == i \notin DOMAIN mem.jobs
  <2>1. /\ Found(i).user = u /\ "user" \in DOMAIN Found(i)
        /\ \A j \in DOMAIN mem.jobs : "user" \in DOMAIN mem.jobs[j]
    BY <1>3 DEF UseJob, Found, StoreInv, Remembered, DrawnRows
  <2>2. CASE CallOn(u, i, gone, MemUpdateJob(mem, i, copy), PgUpdateJob(pg, i, copy))
    <3> DEFINE r == IF i \in DOMAIN mem.jobs
                    THEN [copy EXCEPT !.usage = mem.jobs[i].usage] ELSE copy
    <3>1. mem' = [mem EXCEPT !.jobs = Put(@, i, r)]
      BY <2>2 DEF CallOn, Both, MemUpdateJob, Done, Did
    <3>2. r.user = u
      BY <2>1
    <3> HIDE DEF r
    <3>3. Belong(Put(mem.jobs, i, r))
      BY <3>2, BelongPut DEF Members
    <3>4. QED
      BY <1>1, <3>1, <3>3 DEF Members, Database
  <2>3. CASE CallOn(u, i, FALSE, MemAddUsage(mem, i), PgAddUsage(pg, i))
    <3>1. \/ mem' = mem
          \/ mem' = [mem EXCEPT !.jobs = [mem.jobs EXCEPT ![i].usage = @ + 1]]
      BY <1>1, <2>3 DEF CallOn, Both, MemAddUsage, Done, Did, Database
    <3>2. \A x \in DOMAIN mem'.jobs :
            x \in DOMAIN mem.jobs /\ mem'.jobs[x].user = mem.jobs[x].user
      BY <1>1, <2>1, <3>1 DEF Database
    <3>3. Belong(mem'.jobs)
      BY <3>2, BelongSame DEF Members
    <3>4. QED
      BY <1>1, <3>1, <3>3 DEF Members, Database
  <2>4. CASE \/ CallOn(u, i, gone, MemStoreResults(mem, i, {1}), PgStoreResults(pg, i, {1}))
             \/ CallOn(u, i, gone, MemAppendStep(mem, i, 1), PgAppendStep(pg, i, 1))
             \/ CallOn(u, i, FALSE, MemClearSteps(mem, i), PgClearSteps(pg, i))
    <3> DEFINE x == Get(mem.steps, i) \cup {1}
    <3>1. \/ mem' = [mem EXCEPT !.results = Put(@, i, {1})]
          \/ mem' = [mem EXCEPT !.steps = Put(@, i, x)]
          \/ mem' = [mem EXCEPT !.steps = Without(@, {i})]
      BY <2>4 DEF CallOn, Both, MemStoreResults, MemAppendStep,
         MemClearSteps, Done, Did
    <3> HIDE DEF x
    <3>2. QED
      BY <1>1, <3>1, AsideMembers
  <2>5. QED
    BY <1>3, <2>2, <2>3, <2>4 DEF UseJob
<1>4. CASE InsertSearch(u, i)
  <2>1. PICK r : r.user = u /\ mem' = [mem EXCEPT !.searches = Put(@, i, r)]
    BY <1>4 DEF InsertSearch, Both, MemInsertSearch, Done, Did
  <2>2. Belong(Put(mem.searches, i, r))
    BY <2>1, BelongPut DEF Members
  <2>3. QED
    BY <1>1, <2>1, <2>2 DEF Members, Database
<1>5. CASE UseSearch(u, i)
  <2>1. CASE Call(u, MemDeleteSearch(mem, u, i), PgDeleteSearch(pg, u, i))
    <3>1. \/ mem' = mem
          \/ mem' = [mem EXCEPT !.searches = Without(@, {i})]
      BY <2>1 DEF Call, Both, MemDeleteSearch, Did
    <3>2. Belong(Without(mem.searches, {i}))
      BY BelongWithout DEF Members
    <3>3. QED
      BY <1>1, <3>1, <3>2 DEF Members, Database
  <2>2. CASE Call(u, MemMarkRan(mem, i, now), PgMarkRan(pg, i, now))
    <3>1. \/ mem' = mem
          \/ mem' = [mem EXCEPT !.searches = [mem.searches EXCEPT ![i].last = now]]
      BY <1>1, <2>2 DEF Call, Both, MemMarkRan, Done, Did, Database
    <3>2. \A s \in DOMAIN mem.searches : "user" \in DOMAIN mem.searches[s]
      BY CleanedIs DEF StoreInv, Agreeing, SearchesAgree, DrawnRows
    <3>3. \A x \in DOMAIN mem'.searches :
            /\ x \in DOMAIN mem.searches
            /\ mem'.searches[x].user = mem.searches[x].user
      BY <1>1, <3>1, <3>2 DEF Database
    <3>4. Belong(mem'.searches)
      BY <3>3, BelongSame DEF Members
    <3>5. QED
      BY <1>1, <3>1, <3>4 DEF Members, Database
  <2>3. QED
    BY <1>5, <2>1, <2>2 DEF UseSearch
<1>6. QED
  BY <1>2, <1>3, <1>4, <1>5 DEF Jobs

LEMMA DocumentsMembers ==
  ASSUME StoreInv, Members(mem),
         NEW u \in Users, NEW i \in Ids, Documents(u, i)
  PROVE  Members(mem')
<1>1. Database(mem)
  BY CleanedIs
<1>2. ASSUME Belong(mem'.docs),
             \A c \in mem'.chunks : c \in mem.chunks \/ c.doc = i,
             mem' = [mem EXCEPT !.docs = mem'.docs, !.chunks = mem'.chunks]
      PROVE  Members(mem')
  BY <1>1, <1>2 DEF Members, Database
<1>3. \A d \in DOMAIN mem.docs : "user" \in DOMAIN mem.docs[d]
  BY CleanedIs DEF StoreInv, Agreeing, DocsAgree, DrawnRows
<1>4. CASE InsertDoc(u, i)
  <2>1. PICK r : r.user = u /\ mem' = [mem EXCEPT !.docs = Put(@, i, r)]
    BY <1>4 DEF InsertDoc, Call, Both, MemInsertDoc, Done, Did
  <2>2. Belong(Put(mem.docs, i, r))
    BY <2>1, BelongPut DEF Members
  <2>3. QED
    BY <1>1, <2>1, <2>2 DEF Members, Database
<1>5. ASSUME NEW status,
             \/ mem'.docs = mem.docs
             \/ i \in DOMAIN mem.docs
                  /\ mem'.docs = [mem.docs EXCEPT ![i].status = status]
      PROVE  Belong(mem'.docs)
  <2>1. \A d \in DOMAIN mem'.docs :
          d \in DOMAIN mem.docs /\ mem'.docs[d].user = mem.docs[d].user
    BY <1>3, <1>5
  <2>2. QED
    BY <2>1, BelongSame DEF Members
<1>6. ASSUME NEW scores,
             mem' = MemStoreChunks(mem, i, u, scores).db
      PROVE  Members(mem')
  <2> DEFINE n == Cardinality({c.copy : c \in {x \in mem.chunks : x.doc = i}})
  <2>1. mem' = [mem EXCEPT !.chunks = @ \cup ChunksOf(i, u, n, scores),
                           !.docs = SetReady(@, i)]
    BY <1>6 DEF MemStoreChunks, Done, Did
  <2> HIDE DEF n
  <2>2. /\ mem'.chunks = mem.chunks \cup ChunksOf(i, u, n, scores)
        /\ mem'.docs = SetReady(mem.docs, i)
        /\ mem' = [mem EXCEPT !.docs = mem'.docs, !.chunks = mem'.chunks]
    BY <1>1, <2>1 DEF Database
  <2>3. \A c \in ChunksOf(i, u, n, scores) : c.doc = i
    BY DEF ChunksOf
  <2>4. Belong(mem'.docs)
    BY <2>2, <1>5 DEF SetReady
  <2>5. QED
    BY <1>2, <2>2, <2>3, <2>4
<1>7. CASE UseDoc(u, i)
  <2>1. CASE Call(u, MemStoreChunks(mem, i, u, {i}), PgStoreChunks(pg, i, u, {i}))
    BY <1>6, <2>1 DEF Call, Both
  <2>2. CASE Call(u, MemMarkFailed(mem, i), PgMarkFailed(pg, i))
    <3>1. \/ mem' = mem
          \/ /\ i \in DOMAIN mem.docs
             /\ mem' = [mem EXCEPT !.docs = [mem.docs EXCEPT ![i].status = "failed"]]
      BY <1>1, <2>2 DEF Call, Both, MemMarkFailed, Done, Did, Database
    <3>2. /\ \/ mem'.docs = mem.docs
             \/ i \in DOMAIN mem.docs
                  /\ mem'.docs = [mem.docs EXCEPT ![i].status = "failed"]
          /\ mem'.chunks = mem.chunks
          /\ mem' = [mem EXCEPT !.docs = mem'.docs, !.chunks = mem'.chunks]
      BY <1>1, <3>1 DEF Database
    <3>3. QED
      BY <1>2, <1>5, <3>2
  <2>3. QED
    BY <1>7, <2>1, <2>2 DEF UseDoc
<1>8. CASE RemoveDoc(u, i)
  <2>1. \/ mem' = mem
        \/ mem' = DropDocs(mem, {i})
    BY <1>8 DEF RemoveDoc, Call, Both, MemDeleteDoc, Did
  <2>2. Belong(Without(mem.docs, {i}))
    BY BelongWithout DEF Members
  <2>3. QED
    BY <1>1, <2>1, <2>2 DEF Members, Database, DropDocs
<1>9. CASE LateChunks(u, i)
  BY <1>6, <1>9 DEF LateChunks, Both
<1>10. QED
  BY <1>4, <1>7, <1>8, <1>9 DEF Documents

LEMMA LoopMembers ==
  ASSUME StoreInv, Members(mem), Housekeeping \/ PurgeJobs
  PROVE  Members(mem')
<1>1. Database(mem)
  BY CleanedIs
<1>2. CASE Housekeeping
  <2>1. \/ \E gone : mem' = [mem EXCEPT !.tokens = Without(@, gone)]
        \/ \E rest : mem' = [mem EXCEPT !.events = rest]
    BY <1>2 DEF Housekeeping, Both, MemDeleteExpired, MemForgetEvents, Done, Did
  <2>2. \A gone : Belong(Without(mem.tokens, gone))
    BY BelongWithout DEF Members
  <2>3. QED
    BY <1>1, <2>1, <2>2 DEF Members, Database
<1>3. CASE PurgeJobs
  <2>1. PICK gone : mem' = DropJobs(mem, gone)
    BY <1>3 DEF PurgeJobs, Both, MemPurgeJobs, Did
  <2>2. /\ Belong(Without(mem.jobs, gone))
        /\ DOMAIN Without(mem.results, gone) \subseteq Ids
        /\ DOMAIN Without(mem.steps, gone) \subseteq Ids
    BY BelongWithout DEF Members, Without
  <2>3. QED
    BY <1>1, <2>1, <2>2 DEF Members, Database, DropJobs
<1>4. QED
  BY <1>2, <1>3

LEMMA AccountMembers ==
  ASSUME StoreInv, Members(mem), NEW u \in Users,
         \/ \E e : Register(u, e)
         \/ \E n \in 1..6 : DeleteAccount(u, n)
  PROVE  Members(mem')
<1>1. Database(mem)
  BY CleanedIs
<1>2. CASE \E e : Register(u, e)
  <2>1. PICK e : mem' = [mem EXCEPT !.users = Put(@, u, e)]
    BY <1>2 DEF Register, CallOn, Both, MemInsertUser, Done, Did
  <2>2. DOMAIN Put(mem.users, u, e) \subseteq Users
    BY DEF Members, Put
  <2>3. QED
    BY <1>1, <2>1, <2>2 DEF Members, Database
<1>3. ASSUME NEW n \in 1..6, DeleteAccount(u, n)
      PROVE  Members(mem')
  <2> DEFINE a == MemDeleteSearchesOf(mem, u).db
             b == MemDeleteJobsOf(a, u).db
             c == MemDeleteTokensOf(b, u).db
             d == MemDeleteChannelsOf(c, u).db
             e == MemDeleteDocsOf(d, u).db
             f == MemDeleteUser(e, u).db
  <2>1. mem' = <<a, b, c, d, e, f>>[n]
    <3>1. mem' = MemErase(u, n)
      BY <1>3 DEF DeleteAccount, Both, Done, Did
    <3>2. MemErase(u, n) = <<a, b, c, d, e, f>>[n]
      BY DEF MemErase
    <3>3. QED
      BY <3>1, <3>2
  <2>2. Database(a) /\ Members(a)
    <3>1. a = [mem EXCEPT !.searches = Without(@, Of(@, u))]
      BY DEF MemDeleteSearchesOf, Did
    <3>2. Belong(Without(mem.searches, Of(mem.searches, u)))
      BY BelongWithout DEF Members
    <3> HIDE DEF a
    <3>3. QED
      BY <1>1, <3>1, <3>2 DEF Members, Database
  <2> HIDE DEF a
  <2>3. Database(b) /\ Members(b)
    <3>1. b = DropJobs(a, Of(a.jobs, u))
      BY DEF MemDeleteJobsOf, Did
    <3>2. /\ Belong(Without(a.jobs, Of(a.jobs, u)))
          /\ DOMAIN Without(a.results, Of(a.jobs, u)) \subseteq Ids
          /\ DOMAIN Without(a.steps, Of(a.jobs, u)) \subseteq Ids
      BY <2>2, BelongWithout DEF Members, Without
    <3> HIDE DEF b
    <3>3. QED
      BY <2>2, <3>1, <3>2 DEF Members, Database, DropJobs
  <2> HIDE DEF b
  <2>4. Database(c) /\ Members(c)
    <3>1. c = [b EXCEPT !.tokens = Without(@, Of(@, u))]
      BY DEF MemDeleteTokensOf, Did
    <3>2. Belong(Without(b.tokens, Of(b.tokens, u)))
      BY <2>3, BelongWithout DEF Members
    <3> HIDE DEF c
    <3>3. QED
      BY <2>3, <3>1, <3>2 DEF Members, Database
  <2> HIDE DEF c
  <2>5. Database(d) /\ Members(d)
    <3>1. d = [c EXCEPT !.channels = Without(@, Of(@, u))]
      BY DEF MemDeleteChannelsOf, Did
    <3>2. Belong(Without(c.channels, Of(c.channels, u)))
      BY <2>4, BelongWithout DEF Members
    <3> HIDE DEF d
    <3>3. QED
      BY <2>4, <3>1, <3>2 DEF Members, Database
  <2> HIDE DEF d
  <2>6. Database(e) /\ Members(e)
    <3>1. e = [d EXCEPT !.docs = Without(@, Of(@, u)),
                        !.chunks = {x \in @ : x.user # u}]
      BY DEF MemDeleteDocsOf, Did
    <3>2. Belong(Without(d.docs, Of(d.docs, u)))
      BY <2>5, BelongWithout DEF Members
    <3> HIDE DEF e
    <3>3. QED
      BY <2>5, <3>1, <3>2 DEF Members, Database
  <2> HIDE DEF e
  <2>7. Members(f)
    <3>1. f = [e EXCEPT !.users = Without(@, {u})]
      BY DEF MemDeleteUser, Done, Did
    <3>2. DOMAIN Without(e.users, {u}) \subseteq Users
      BY <2>6 DEF Members, Without
    <3> HIDE DEF f
    <3>3. QED
      BY <2>6, <3>1, <3>2 DEF Members, Database
  <2> HIDE DEF f
  <2>8. mem' \in {a, b, c, d, e, f}
    BY <2>1
  <2>9. QED
    BY <2>2, <2>3, <2>4, <2>5, <2>6, <2>7, <2>8
<1>4. QED
  BY <1>2, <1>3

(* What was inserted is remembered as it was.                              *)
Copied == Belong(copies.jobs) /\ Belong(copies.searches)

LEMMA CopiesStep ==
  StoreInv /\ Copied /\ [StoresNext]_storeVars => Copied'
<1> SUFFICES ASSUME StoreInv, Copied, [StoresNext]_storeVars
             PROVE  Copied'
  OBVIOUS
<1>1. ASSUME copies' = copies PROVE Copied'
  BY <1>1 DEF Copied
<1>2. ASSUME NEW u \in Users, NEW j \in Ids, InsertJob(u, j) PROVE Copied'
  <2>1. PICK r : r.user = u /\ copies' = [copies EXCEPT !.jobs = Put(@, j, r)]
    BY <1>2 DEF InsertJob
  <2>2. /\ copies'.jobs = Put(copies.jobs, j, r)
        /\ copies'.searches = copies.searches
    BY <2>1 DEF StoreInv, Remembered
  <2>3. QED
    BY <2>1, <2>2, BelongPut DEF Copied
<1>3. ASSUME NEW u \in Users, NEW s \in Ids, InsertSearch(u, s) PROVE Copied'
  <2>1. PICK r : /\ r.user = u
                 /\ copies' = [copies EXCEPT !.searches = Put(@, s, r)]
    BY <1>3 DEF InsertSearch
  <2>2. /\ copies'.searches = Put(copies.searches, s, r)
        /\ copies'.jobs = copies.jobs
    BY <2>1 DEF StoreInv, Remembered
  <2>3. QED
    BY <2>1, <2>2, BelongPut DEF Copied
<1>4. ASSUME NEW u \in Users, NEW i \in Ids,
             People(u, i) \/ UseJob(u, i) \/ UseSearch(u, i) \/ Documents(u, i)
      PROVE  copies' = copies
  BY <1>4 DEF People, Documents, IssueToken, UseToken, AddChannel,
     RemoveChannel, RecordEvent, UseJob, UseSearch, InsertDoc, UseDoc,
     RemoveDoc, LateChunks, Call
<1>5. ASSUME \/ Tick \/ Housekeeping \/ PurgeJobs \/ UNCHANGED storeVars
             \/ \E u, e : Register(u, e) \/ \E n : DeleteAccount(u, n)
      PROVE  copies' = copies
  BY <1>5 DEF Tick, Housekeeping, PurgeJobs, storeVars, Register, DeleteAccount
<1>6. QED
  BY <1>1, <1>2, <1>3, <1>4, <1>5 DEF StoresNext, Jobs

(* A call is about an account and an identifier, and says no more.         *)
LEMMA NamesStep ==
  NamesKnown /\ [StoresNext]_storeVars => NamesKnown'
<1> SUFFICES ASSUME NamesKnown, [StoresNext]_storeVars PROVE NamesKnown'
  OBVIOUS
<1>1. ASSUME NEW u \in Users \cup {Nobody}, NEW call, NEW m, NEW p,
             Both(u, call, m, p), NEW x \in Users \cup Ids,
             used' \in {used, used \cup {x}}
      PROVE  NamesKnown'
  <2>1. last'.user \in {u, Nobody}
    BY <1>1 DEF Both, NoCall
  <2>2. UNCHANGED <<area, now>>
    BY <1>1 DEF Both
  <2>3. QED
    BY <1>1, <2>1, <2>2 DEF NamesKnown
<1>2. CASE Tick
  BY <1>2, TimeIsCounted DEF Tick, NamesKnown, NoCall
<1>3. ASSUME NEW u \in Users, NEW e, Register(u, e) PROVE NamesKnown'
  BY <1>1, <1>3 DEF Register, Fresh, CallOn
<1>4. ASSUME NEW u \in Users, NEW n, DeleteAccount(u, n) PROVE NamesKnown'
  BY <1>1, <1>4 DEF DeleteAccount, Drawn
<1>5. ASSUME Housekeeping \/ PurgeJobs PROVE NamesKnown'
  <2>1. CASE Users \cup Ids = {}
    <3>1. UNCHANGED <<area, now, used>> /\ last'.user = Nobody
      BY <1>5 DEF Housekeeping, PurgeJobs, Both, NoCall
    <3>2. QED
      BY <3>1 DEF NamesKnown
  <2>2. CASE Users \cup Ids # {}
    BY <1>1, <1>5, <2>2 DEF Housekeeping, PurgeJobs
  <2>3. QED
    BY <2>1, <2>2
<1>6. ASSUME NEW u \in Users, NEW i \in Ids,
             People(u, i) \/ Jobs(u, i) \/ Documents(u, i)
      PROVE  NamesKnown'
  <2>1. used' \in {used, used \cup {i}, used \cup {u}}
    BY <1>6 DEF People, Jobs, Documents, IssueToken, UseToken, AddChannel,
       RemoveChannel, RecordEvent, InsertJob, UseJob, InsertSearch,
       UseSearch, InsertDoc, UseDoc, RemoveDoc, LateChunks,
       Fresh, Drawn
  <2>2. \E call, m, p : Both(u, call, m, p)
    BY <1>6 DEF People, Jobs, Documents, IssueToken, UseToken, AddChannel,
       RemoveChannel, RecordEvent, InsertJob, UseJob, InsertSearch,
       UseSearch, InsertDoc, UseDoc, RemoveDoc, LateChunks,
       Call, CallOn
  <2>3. QED
    BY <1>1, <2>1, <2>2
<1>7. CASE UNCHANGED storeVars
  BY <1>7 DEF storeVars, NamesKnown
<1>8. QED
  BY <1>2, <1>3, <1>4, <1>5, <1>6, <1>7 DEF StoresNext

LEMMA MembersStep ==
  StoreInv /\ Members(mem) /\ [StoresNext]_storeVars => Members(mem')
<1> SUFFICES ASSUME StoreInv, Members(mem), [StoresNext]_storeVars
             PROVE  Members(mem')
  OBVIOUS
<1>1. CASE Tick \/ UNCHANGED storeVars
  BY <1>1 DEF Tick, storeVars
<1>2. CASE \E u \in Users, n \in Stops : DeleteAccount(u, n)
  BY <1>2, AccountMembers DEF Stops
<1>3. QED
  BY <1>1, <1>2, AccountMembers, LoopMembers, PeopleMembers,
     JobsMembers, DocumentsMembers DEF StoresNext

(* What PostgreSQL holds is among what memory holds, and its keys point to *)
(* rows.                                                                   *)
LEMMA TypesFollow ==
  ASSUME StoreInv, Members(mem), Copied, NamesKnown
  PROVE  StoresTypeOK
<1> DEFINE m == Cleaned
<1>1. /\ Agreeing(m, pg, used) /\ Database(mem) /\ Database(pg)
      /\ pg.users = m.users /\ m.users = Without(mem.users, strays)
      /\ m.tokens = mem.tokens /\ m.channels = mem.channels
      /\ m.jobs = Without(mem.jobs, strays)
      /\ m.results = Without(mem.results, strays)
      /\ m.steps = Without(mem.steps, strays)
      /\ m.searches = mem.searches /\ m.docs = mem.docs
      /\ m.chunks = mem.chunks
  BY CleanedIs DEF StoreInv
<1>0. Remembered
  BY DEF StoreInv
<1> HIDE DEF m
<1>2. ASSUME NEW db, Database(db) PROVE DOMAIN db = DOMAIN Empty
  BY <1>2 DEF Database, Empty
<1>3. /\ DOMAIN mem = DOMAIN Empty /\ DOMAIN pg = DOMAIN Empty
      /\ DOMAIN mem.users \subseteq Users \cap used
      /\ DOMAIN pg.users \subseteq DOMAIN mem.users
  BY <1>1, <1>0, <1>2 DEF Remembered, Members, Without
<1>4. ASSUME NEW t, Belong(t), DrawnRows(t, used)
      PROVE  /\ DOMAIN t \subseteq Ids
             /\ \A x \in DOMAIN t : t[x].user \in Users \cap used
             /\ DOMAIN Live(t, DOMAIN pg.users) \subseteq DOMAIN t
             /\ \A x \in DOMAIN Live(t, DOMAIN pg.users) :
                  /\ Live(t, DOMAIN pg.users)[x].user \in DOMAIN pg.users
                  /\ Live(t, DOMAIN pg.users)[x].user \in Users \cap used
  BY <1>4 DEF Belong, DrawnRows, Live
<1>5. /\ Belong(mem.tokens) /\ DrawnRows(mem.tokens, used)
      /\ Belong(mem.channels) /\ DrawnRows(mem.channels, used)
      /\ Belong(mem.jobs) /\ DrawnRows(mem.jobs, used)
      /\ Belong(mem.searches) /\ DrawnRows(mem.searches, used)
      /\ Belong(mem.docs) /\ DrawnRows(mem.docs, used)
      /\ Belong(m.jobs) /\ DrawnRows(m.jobs, used)
  BY <1>1, <1>0, BelongWithout
  DEF Remembered, Agreeing, TokensAgree, ChannelsAgree, SearchesAgree, JobsAgree,
     JobRows, DocsAgree, Members
<1>6. /\ pg.tokens = Live(mem.tokens, DOMAIN pg.users)
      /\ pg.channels = Live(mem.channels, DOMAIN pg.users)
      /\ pg.searches = Live(mem.searches, DOMAIN pg.users)
      /\ pg.docs = Live(mem.docs, DOMAIN pg.users)
      /\ pg.jobs = Unlink(Live(m.jobs, DOMAIN pg.users),
                          Ids \ DOMAIN mem.searches)
  BY <1>1 DEF Agreeing, TokensAgree, ChannelsAgree, SearchesAgree, JobsAgree,
     DocsAgree
<1> DEFINE Good(t) == /\ DOMAIN t \subseteq Ids
                      /\ \A x \in DOMAIN t : t[x].user \in Users \cap used
           Kin(t) == \A x \in DOMAIN t : t[x].user \in DOMAIN pg.users
<1>7. \A t \in Owned(mem) : Good(t)
  BY <1>4, <1>5 DEF Owned
<1>8. ASSUME NEW t, Belong(t), DrawnRows(t, used)
      PROVE  /\ Good(Live(t, DOMAIN pg.users))
             /\ Kin(Live(t, DOMAIN pg.users))
  BY <1>3, <1>4, <1>8
<1>9. Good(pg.jobs) /\ Kin(pg.jobs)
  <2> DEFINE live == Live(m.jobs, DOMAIN pg.users)
  <2>1. Good(live) /\ Kin(live)
    BY <1>5, <1>8
  <2>2. \A j \in DOMAIN live :
          live[j] = [user |-> live[j].user, search |-> live[j].search,
                     status |-> live[j].status, usage |-> live[j].usage,
                     created |-> live[j].created]
    <3>1. \A j \in DOMAIN live : j \in DOMAIN m.jobs /\ live[j] = m.jobs[j]
      BY DEF Live
    <3>2. \A j \in DOMAIN m.jobs :
            m.jobs[j] = [user |-> m.jobs[j].user,
                           search |-> m.jobs[j].search,
                           status |-> m.jobs[j].status,
                           usage |-> m.jobs[j].usage,
                           created |-> m.jobs[j].created]
      BY <1>1 DEF Agreeing, JobsAgree, JobRows
    <3> HIDE DEF live
    <3>3. QED
      BY <3>1, <3>2
  <2> HIDE DEF live
  <2>3. \A gone : /\ DOMAIN Unlink(live, gone) = DOMAIN live
                  /\ \A j \in DOMAIN live :
                       Unlink(live, gone)[j].user = live[j].user
    BY <2>2 DEF Unlink
  <2>4. QED
    BY <1>6, <2>1, <2>3 DEF live
<1>10. \A t \in Owned(pg) : Good(t) /\ Kin(t)
  <2>1. /\ Good(pg.tokens) /\ Kin(pg.tokens)
        /\ Good(pg.channels) /\ Kin(pg.channels)
        /\ Good(pg.searches) /\ Kin(pg.searches)
        /\ Good(pg.docs) /\ Kin(pg.docs)
    BY <1>5, <1>6, <1>8
  <2> HIDE DEF Good, Kin
  <2>2. QED
    BY <1>9, <2>1 DEF Owned
<1>11. /\ DOMAIN mem.results \cup DOMAIN mem.steps \subseteq Ids
       /\ DOMAIN pg.results \cup DOMAIN pg.steps
            \subseteq DOMAIN pg.jobs \cap Ids
  <2>1. DOMAIN mem.results \cup DOMAIN mem.steps \subseteq Ids
    BY DEF Members
  <2>2. pg.results = OfJobs(m.results, pg.jobs)
          /\ pg.steps = OfJobs(m.steps, pg.jobs)
    BY <1>1 DEF Agreeing, JobsAgree
  <2>3. QED
    BY <1>1, <2>1, <2>2 DEF OfJobs, Without
<1>12. /\ \A c \in mem.chunks : c.doc \in Ids /\ c.copy \in Nat
       /\ pg.chunks \subseteq mem.chunks
  BY <1>1 DEF Agreeing, DocsAgree, Chunks, Members
<1>13. \A db \in {mem, pg} :
         /\ DOMAIN db = DOMAIN Empty
         /\ DOMAIN db.users \subseteq Users \cap used
         /\ \A table \in Owned(db) : Good(table)
         /\ DOMAIN db.results \cup DOMAIN db.steps \subseteq Ids
         /\ \A c \in db.chunks : c.doc \in Ids /\ c.copy \in Nat
  <2> HIDE DEF Good, Kin
  <2>1. QED
    BY <1>3, <1>7, <1>10, <1>11, <1>12
<1>14. \A table \in {copies.jobs, copies.searches} :
         \A x \in DOMAIN table :
           x \in Ids \cap used /\ table[x].user \in Users \cap used
  BY <1>0 DEF Remembered, DrawnRows, Copied, Belong
<1>15. strays \subseteq used
  BY <1>0 DEF Remembered
<1>16. QED
  BY <1>10, <1>11, <1>13, <1>14, <1>15 DEF StoresTypeOK, NamesKnown

(* Whatever calls were made, both stores hold rows of accounts that were   *)
(* registered, and the keys of PostgreSQL's rows lead to rows              *)
(* (migrations, the repositories of adapters/persistence).                 *)
THEOREM StoresTyped == StoresSpec => []StoresTypeOK
<1>1. StoresInit => Members(mem) /\ Copied /\ NamesKnown
  <2>1. /\ Empty.users = <<>> /\ Empty.tokens = <<>> /\ Empty.channels = <<>>
        /\ Empty.jobs = <<>> /\ Empty.results = <<>> /\ Empty.steps = <<>>
        /\ Empty.searches = <<>> /\ Empty.docs = <<>> /\ Empty.chunks = {}
        /\ DOMAIN <<>> = {}
    BY DEF Empty
  <2>2. Members(Empty)
    BY <2>1 DEF Members, Belong
  <2>3. QED
    BY <2>1, <2>2, TimeIsCounted DEF StoresInit, NamesKnown, NoCall, Copied, Belong
<1>2. StoreInv /\ Members(mem) /\ [StoresNext]_storeVars => Members(mem)'
  BY MembersStep
<1>3. StoreInv /\ Members(mem) /\ Copied /\ NamesKnown => StoresTypeOK
  BY TypesFollow
<1>4. QED
  BY <1>1, <1>2, <1>3, NamesStep, CopiesStep, StoresAgree, PTL DEF StoresSpec
=============================================================================
