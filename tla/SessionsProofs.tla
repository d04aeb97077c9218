---------------------------- MODULE SessionsProofs ----------------------------
(***************************************************************************)
(* Sessions for every number of browsers, accounts, tokens and concurrent  *)
(* requests: type correctness, one account per e-mail address, nothing     *)
(* left of a deleted account, no replaced token that is still usable, and, *)
(* at the end, ADR-056.                                                    *)
(***************************************************************************)
EXTENDS Sessions, FiniteSetTheorems, TLAPS
-----------------------------------------------------------------------------
(* The inductive invariant.                                                *)

(* Whatever token a cookie, a request or a successor names was drawn.      *)
Grounded ==
  /\ \A c \in Clients : jar[c] # NoToken => issued[jar[c]] # NoToken
  /\ \A h \in Handlers :
       /\ work[h] # Idle /\ work[h].token # NoToken
            => issued[work[h].token] # NoToken
       /\ work[h] # Idle /\ work[h].next # NoToken
            => issued[work[h].next] # NoToken
  /\ \A t \in Tokens :
       issued[t] # NoToken /\ issued[t].parent # NoToken
         => issued[issued[t].parent] # NoToken

(* An account about to be inserted has an identifier of its own.           *)
Registering ==
  \A h \in Handlers :
    work[h] # Idle /\ work[h].pc = "register" => work[h].user \in known

(* A request that has yet to insert the token it drew.                     *)
Drawing(h) == work[h] # Idle /\ work[h].pc \in {"mark", "insert"}

(* Nobody else knows that token.                                           *)
Fresh ==
  \A h \in Handlers : Drawing(h) =>
    /\ row[work[h].next] = "absent"
    /\ \A c \in Clients : jar[c] # work[h].next
    /\ \A g \in Handlers : work[g] # Idle => work[g].token # work[h].next
    /\ \A g \in Handlers : work[g] # Idle /\ g # h => work[g].next # work[h].next
    /\ \A t \in Tokens : issued[t] # NoToken => issued[t].parent # work[h].next

(* It was issued to the account and from the token of the request, and     *)
(* that token is marked before the insert.                                 *)
Matched ==
  \A h \in Handlers : Drawing(h) =>
    /\ issued[work[h].next].user = work[h].user
    /\ issued[work[h].next].parent = work[h].token
    /\ work[h].pc = "insert" /\ work[h].token # NoToken
         => row[work[h].token] # "live"

AtMostOne == \A u, v \in accounts : u = v

IInv ==
  /\ TypeOK /\ Registering /\ Grounded /\ Fresh /\ Matched /\ AtMostOne
  /\ NothingNamesTheDeleted /\ ReplacedIsConsumed
-----------------------------------------------------------------------------
(* What the handlers do, one step at a time.                               *)

(* The columns of a request, which no step changes.                        *)
SameRequest(g) ==
  /\ work'[g].client = work[g].client /\ work'[g].user = work[g].user
  /\ work'[g].token = work[g].token   /\ work'[g].next = work[g].next

WorkTyped ==
  /\ work' \in [Handlers -> Work \cup {Idle}]
  /\ \A h \in Handlers :
       work'[h] # Idle /\ work'[h].pc \in {"mark", "insert", "grant"}
         => work'[h].user # NoUser /\ work'[h].next # NoToken

(* A step after which every request is gone, or where it was, or past the  *)
(* insertion of its token.                                                 *)
MovesOn ==
  /\ WorkTyped
  /\ \A g \in Handlers : work'[g] # Idle =>
       /\ work[g] # Idle /\ SameRequest(g)
       /\ work'[g].pc \in {"register", "mark", "insert"}
            => work'[g].pc = work[g].pc

LEMMA WorkFields ==
  ASSUME TypeOK, NEW h \in Handlers, work[h] # Idle
  PROVE  /\ work[h] \in Work /\ work[h].pc \in Pcs
         /\ work[h].client \in Clients
         /\ work[h].user \in Users \cup {NoUser}
         /\ work[h].token \in Tokens \cup {NoToken}
         /\ work[h].next \in Tokens \cup {NoToken}
BY DEF TypeOK, Work

LEMMA BeginShape ==
  ASSUME TypeOK, NEW h \in Handlers, NEW pc \in Pcs, NEW c \in Clients,
         NEW u \in Users \cup {NoUser}, NEW t \in Tokens \cup {NoToken},
         NEW n \in Tokens \cup {NoToken},
         pc \in {"mark", "insert", "grant"} => u # NoUser /\ n # NoToken,
         Begin(h, pc, c, u, t, n)
  PROVE  /\ WorkTyped
         /\ work[h] = Idle /\ work'[h] # Idle
         /\ work'[h].pc = pc /\ work'[h].client = c /\ work'[h].user = u
         /\ work'[h].token = t /\ work'[h].next = n
         /\ \A g \in Handlers \ {h} : work'[g] = work[g]
<1> DEFINE new == [pc |-> pc, client |-> c, user |-> u, token |-> t, next |-> n]
<1>1. new \in Work
  BY DEF Work
<1>2. /\ new.pc = pc /\ new.client = c /\ new.user = u
      /\ new.token = t /\ new.next = n
  OBVIOUS
<1>3. work[h] = Idle /\ work' = [work EXCEPT ![h] = new]
  BY DEF Begin
<1> HIDE DEF new
<1>4. QED
  BY <1>1, <1>2, <1>3, IdleIsNoWork DEF TypeOK, WorkTyped

LEMMA GoShape ==
  ASSUME TypeOK, NEW h \in Handlers, work[h] # Idle, NEW pc \in Pcs,
         pc \in {"mark", "insert", "grant"}
           => work[h].pc \in {"mark", "insert", "grant"},
         Go(h, pc)
  PROVE  /\ WorkTyped
         /\ work'[h] # Idle /\ work'[h].pc = pc /\ SameRequest(h)
         /\ \A g \in Handlers \ {h} : work'[g] = work[g]
<1> DEFINE new == [work[h] EXCEPT !.pc = pc]
<1>1. work[h] \in Work
  BY WorkFields
<1>2. new \in Work
  BY <1>1 DEF Work
<1>3. /\ new.pc = pc /\ new.client = work[h].client /\ new.user = work[h].user
      /\ new.token = work[h].token /\ new.next = work[h].next
  BY <1>1 DEF Work
<1>4. work' = [work EXCEPT ![h] = new]
  BY DEF Go
<1> HIDE DEF new
<1>5. QED
  BY <1>2, <1>3, <1>4, IdleIsNoWork DEF TypeOK, WorkTyped, SameRequest

LEMMA GoMovesOn ==
  ASSUME TypeOK, NEW h \in Handlers, work[h] # Idle, NEW pc \in Pcs,
         pc \notin {"register", "mark", "insert", "grant"},
         Go(h, pc)
  PROVE  MovesOn
BY GoShape DEF MovesOn, SameRequest

LEMMA EndMovesOn ==
  ASSUME TypeOK, NEW h \in Handlers, End(h)
  PROVE  MovesOn
BY DEF TypeOK, End, MovesOn, WorkTyped, SameRequest

LEMMA SameMovesOn == TypeOK /\ work' = work => MovesOn
BY DEF TypeOK, MovesOn, WorkTyped, SameRequest
-----------------------------------------------------------------------------
(* The tables.                                                             *)

(* Nothing but deletions in refresh_tokens.                                *)
OnlyDeletes ==
  /\ row' \in [Tokens -> {"absent", "live", "consumed"}]
  /\ \A t \in Tokens : row'[t] \in {row[t], "absent"}

LEMMA DeleteOnlyDeletes ==
  ASSUME TypeOK, NEW gone, DeleteRows(gone)
  PROVE  OnlyDeletes /\ \A t \in gone \cap Tokens : row'[t] = "absent"
BY DEF TypeOK, DeleteRows, OnlyDeletes

LEMMA SameOnlyDeletes == TypeOK /\ row' = row => OnlyDeletes
BY DEF TypeOK, OnlyDeletes

LEMMA DrawTyped ==
  ASSUME TypeOK, NEW n \in Tokens, NEW u \in Users, NEW f \in Tokens,
         NEW p \in Tokens \cup {NoToken}, Draw(n, u, f, p)
  PROVE  /\ issued' \in [Tokens -> Issue \cup {NoToken}]
         /\ issued[n] = NoToken /\ row[n] = "absent"
         /\ issued'[n] # NoToken /\ issued'[n].user = u /\ issued'[n].parent = p
         /\ \A t \in Tokens \ {n} : issued'[t] = issued[t]
<1> DEFINE new == [user |-> u, family |-> f, parent |-> p]
<1>1. new \in Issue /\ new.user = u /\ new.parent = p
  BY DEF Issue
<1>2. issued' = [issued EXCEPT ![n] = new] /\ issued[n] = NoToken
  BY DEF Draw
<1>3. new # NoToken
  BY <1>1, NoTokenIsNoIssue
<1> HIDE DEF new
<1>4. QED
  BY <1>1, <1>2, <1>3 DEF TypeOK
-----------------------------------------------------------------------------
(* Type correctness.                                                       *)

LEMMA TypeInit == Init => TypeOK
BY DEF Init, TypeOK

LEMMA RecordTyped ==
  ASSUME TypeOK, NEW kind \in EventKinds, NEW u \in Users \cup {NoUser},
         Record(kind, u)
  PROVE  events' \subseteq [kind : EventKinds, user : Users \cup {NoUser}]
BY DEF TypeOK, Record

(* A step of a request that reads the cookie finds a token in it.          *)
LEMMA JarTyped ==
  ASSUME TypeOK, Grounded, NEW c \in Clients, jar[c] # NoToken
  PROVE  /\ jar[c] \in Tokens /\ issued[jar[c]] \in Issue
         /\ issued[jar[c]].user \in Users /\ issued[jar[c]].family \in Tokens
BY DEF TypeOK, Grounded, Issue

LEMMA OverlapTyped ==
  ASSUME TypeOK, Grounded, NEW c \in Clients, jar[c] # NoToken, Overlap(jar[c])
  PROVE  disturbed' \subseteq Tokens
BY JarTyped DEF TypeOK, Overlap, Family

LEMMA DisturbTyped ==
  ASSUME TypeOK, Grounded, NEW h \in Handlers, work[h] # Idle, Disturb(h)
  PROVE  disturbed' \subseteq Tokens
<1>1. work[h].token # NoToken => issued[work[h].token] \in Issue
  BY WorkFields DEF TypeOK, Grounded
<1>2. QED
  BY <1>1 DEF TypeOK, Disturb, Family, Issue

LEMMA FamiliesTyped ==
  ASSUME TypeOK, NEW u
  PROVE  {Family(t) : t \in TokensOf(u)} \subseteq Tokens
BY DEF TypeOK, TokensOf, Family, Issue

LEMMA NulledTyped ==
  ASSUME TypeOK, NEW u
  PROVE  {IF e.user = u THEN [e EXCEPT !.user = NoUser] ELSE e : e \in events}
           \subseteq [kind : EventKinds, user : Users \cup {NoUser}]
BY DEF TypeOK

LEMMA TypeStep ==
  TypeOK /\ Registering /\ Grounded /\ [Next]_vars => TypeOK'
<1> SUFFICES ASSUME TypeOK, Registering, Grounded, [Next]_vars PROVE TypeOK'
  OBVIOUS
<1> USE DEF people, table, At, MovesOn, WorkTyped, OnlyDeletes
<1>1. ASSUME NEW h \in Handlers, SessionStep(h) PROVE TypeOK'
  <2>1. CASE RegisterInsert(h)
    <3>1. work[h].user \in known
      BY <2>1 DEF RegisterInsert, Registering
    <3>2. QED
      BY <2>1, <3>1, EndMovesOn DEF RegisterInsert, TypeOK
  <2>2. CASE MarkConsumed(h)
    <3>1. row' \in [Tokens -> {"absent", "live", "consumed"}]
      BY <2>2 DEF MarkConsumed, TypeOK
    <3>2. \A t \in Tokens : row'[t] # "absent" => row[t] # "absent"
      BY <2>2 DEF MarkConsumed, TypeOK
    <3>3. WorkTyped
      BY <2>2, GoShape DEF MarkConsumed, Pcs
    <3>4. QED
      BY <2>2, <3>1, <3>2, <3>3 DEF MarkConsumed, TypeOK
  <2>3. CASE InsertToken(h)
    <3>1. work[h].next \in Tokens /\ issued[work[h].next] # NoToken
      BY <2>3, WorkFields DEF InsertToken, TypeOK, Grounded
    <3>2. row' \in [Tokens -> {"absent", "live", "consumed"}]
      BY <2>3 DEF InsertToken, TypeOK
    <3>3. \A t \in Tokens : row'[t] # "absent" => issued[t] # NoToken
      BY <2>3, <3>1 DEF InsertToken, TypeOK
    <3>4. WorkTyped
      BY <2>3, GoShape DEF InsertToken, Pcs
    <3>5. QED
      BY <2>3, <3>2, <3>3, <3>4 DEF InsertToken, TypeOK
  <2>4. CASE RevokeFamily(h)
    BY <2>4, GoMovesOn, DeleteOnlyDeletes DEF RevokeFamily, TypeOK, Pcs
  <2>5. CASE AuditReuse(h)
    <3>1. events' \subseteq [kind : EventKinds, user : Users \cup {NoUser}]
      BY <2>5, WorkFields, RecordTyped DEF AuditReuse, EventKinds
    <3>2. QED
      BY <2>5, <3>1, GoMovesOn DEF AuditReuse, TypeOK, Pcs
  <2>6. CASE CollectExpired(h)
    BY <2>6, GoMovesOn, DeleteOnlyDeletes DEF CollectExpired, TypeOK, Pcs
  <2>7. CASE LogoutRevoke(h)
    <3>1. OnlyDeletes
      BY <2>7, DeleteOnlyDeletes, SameOnlyDeletes DEF LogoutRevoke
    <3>2. QED
      BY <2>7, <3>1, GoMovesOn DEF LogoutRevoke, TypeOK, Pcs
  <2>8. CASE DeleteTokens(h)
    <3>1. disturbed' \subseteq Tokens
      BY <2>8, FamiliesTyped DEF DeleteTokens, TypeOK
    <3>2. OnlyDeletes /\ MovesOn
      BY <2>8, GoMovesOn, DeleteOnlyDeletes DEF DeleteTokens, Pcs
    <3>3. QED
      BY <2>8, <3>1, <3>2 DEF DeleteTokens, TypeOK
  <2>9. CASE DeleteUser(h)
    <3>1. disturbed' \subseteq Tokens
      BY <2>9, FamiliesTyped DEF DeleteUser, TypeOK
    <3>2. events' \subseteq [kind : EventKinds, user : Users \cup {NoUser}]
      BY <2>9, NulledTyped DEF DeleteUser
    <3>3. OnlyDeletes /\ MovesOn
      BY <2>9, GoMovesOn, DeleteOnlyDeletes DEF DeleteUser, Pcs
    <3>4. QED
      BY <2>9, <3>1, <3>2, <3>3 DEF DeleteUser, TypeOK
  <2>10. CASE ReplyGrant(h)
    <3>1. work[h].client \in Clients /\ work[h].next \in Tokens \cup {NoToken}
      BY <2>10, WorkFields DEF ReplyGrant
    <3>2. QED
      BY <2>10, <3>1, EndMovesOn DEF ReplyGrant, TypeOK
  <2>11. CASE ReplyClear(h)
    BY <2>11, EndMovesOn DEF ReplyClear, TypeOK
  <2>12. CASE Abort(h)
    <3>1. disturbed' \subseteq Tokens
      BY <2>12, DisturbTyped DEF Abort
    <3>2. QED
      BY <2>12, <3>1, EndMovesOn DEF Abort, TypeOK
  <2>13. QED
    BY <1>1, <2>1, <2>2, <2>3, <2>4, <2>5, <2>6, <2>7, <2>8, <2>9, <2>10,
       <2>11, <2>12 DEF SessionStep
<1>2. ASSUME NEW h \in Handlers, NEW c \in Clients, SessionRequest(h, c)
      PROVE  TypeOK'
  <2>1. CASE \E u \in Users : RegisterFind(h, c, u)
    <3>1. PICK u \in Users : RegisterFind(h, c, u)
      BY <2>1
    <3>2. Begin(h, "register", c, u, NoToken, NoToken)
      BY <3>1 DEF RegisterFind
    <3>3. WorkTyped
      BY <3>2, BeginShape DEF Pcs
    <3>4. QED
      BY <3>1, <3>3 DEF RegisterFind, WorkTyped, TypeOK
  <2>2. CASE \E u \in Users : DeleteBegin(h, c, u)
    <3>1. PICK u \in Users : DeleteBegin(h, c, u)
      BY <2>2
    <3>2. Begin(h, "erase", c, u, NoToken, NoToken)
      BY <3>1 DEF DeleteBegin
    <3>3. WorkTyped
      BY <3>2, BeginShape DEF Pcs
    <3>4. QED
      BY <3>1, <3>3 DEF DeleteBegin, WorkTyped, TypeOK
  <2>3. ASSUME NEW u \in Users, NEW n \in Tokens, LoginFind(h, c, u, n)
        PROVE  TypeOK'
    <3>1. issued' \in [Tokens -> Issue \cup {NoToken}]
      BY <2>3, DrawTyped DEF LoginFind
    <3>2. \A t \in Tokens : row[t] # "absent" => issued'[t] # NoToken
      BY <2>3, DrawTyped DEF LoginFind, TypeOK
    <3>3. WorkTyped
      BY <2>3, BeginShape, NoneAreNot DEF LoginFind, Pcs
    <3>4. QED
      BY <2>3, <3>1, <3>2, <3>3 DEF LoginFind, TypeOK
  <2>4. ASSUME NEW n \in Tokens, RotateFind(h, c, n)
        PROVE  TypeOK'
    <3>1. /\ jar[c] \in Tokens /\ issued[jar[c]].user \in Users
          /\ Family(jar[c]) \in Tokens
      BY <2>4, JarTyped DEF RotateFind, Family
    <3>2. issued' \in [Tokens -> Issue \cup {NoToken}]
      BY <2>4, <3>1, DrawTyped DEF RotateFind
    <3>3. \A t \in Tokens : row[t] # "absent" => issued'[t] # NoToken
      BY <2>4, <3>1, DrawTyped DEF RotateFind, TypeOK
    <3>4. WorkTyped
      BY <2>4, <3>1, BeginShape, NoneAreNot DEF RotateFind, Pcs
    <3>5. disturbed' \subseteq Tokens
      BY <2>4, OverlapTyped DEF RotateFind
    <3>6. QED
      BY <2>4, <3>2, <3>3, <3>4, <3>5 DEF RotateFind, TypeOK
  <2>5. CASE RotateRefused(h, c)
    <3>1. jar[c] \in Tokens /\ issued[jar[c]].user \in Users
      BY <2>5, JarTyped DEF RotateRefused
    <3>2. WorkTyped
      BY <2>5, <3>1, BeginShape DEF RotateRefused, Pcs
    <3>3. disturbed' \subseteq Tokens
      BY <2>5, OverlapTyped DEF RotateRefused
    <3>4. QED
      BY <2>5, <3>2, <3>3 DEF RotateRefused, TypeOK
  <2>6. CASE LogoutFind(h, c)
    <3> DEFINE pc == IF row[jar[c]] = "absent" THEN "clear" ELSE "logout"
    <3>1. jar[c] \in Tokens /\ pc \in {"clear", "logout"}
      BY <2>6, JarTyped DEF LogoutFind
    <3>2. Begin(h, pc, c, NoUser, jar[c], NoToken)
      BY <2>6 DEF LogoutFind
    <3> HIDE DEF pc
    <3>3. WorkTyped
      BY <3>1, <3>2, BeginShape DEF Pcs
    <3>4. disturbed' \subseteq Tokens
      BY <2>6, OverlapTyped DEF LogoutFind
    <3>5. QED
      BY <2>6, <3>3, <3>4 DEF LogoutFind, TypeOK
  <2>7. QED
    BY <1>2, <2>1, <2>2, <2>3, <2>4, <2>5, <2>6 DEF SessionRequest
<1>3. CASE LoginRefused
  <2>1. events' \subseteq [kind : EventKinds, user : Users \cup {NoUser}]
    BY <1>3, RecordTyped DEF LoginRefused, EventKinds
  <2>2. QED
    BY <1>3, <2>1 DEF LoginRefused, TypeOK
<1>4. CASE PurgeTokens
  BY <1>4, DeleteOnlyDeletes DEF PurgeTokens, TypeOK
<1>5. CASE \E t \in Tokens : Expire(t)
  BY <1>5 DEF Expire, TypeOK
<1>6. CASE \E c \in Clients : CookieExpires(c)
  BY <1>6 DEF CookieExpires, TypeOK
<1>7. CASE UNCHANGED vars
  BY <1>7 DEF vars, TypeOK
<1>8. QED
  BY <1>1, <1>2, <1>3, <1>4, <1>5, <1>6, <1>7 DEF Next
-----------------------------------------------------------------------------
(* The conjuncts about tokens, under the three shapes a step can have.     *)

Linked == Grounded /\ Fresh /\ Matched /\ ReplacedIsConsumed

(* Requests move on, rows go, cookies go.                                  *)
LEMMA SettlingKeepsLinks ==
  ASSUME TypeOK, Linked, MovesOn, issued' = issued, OnlyDeletes,
         \A c \in Clients : jar'[c] \in {jar[c], NoToken}
  PROVE  Linked'
<1> USE DEF Linked, MovesOn, SameRequest, OnlyDeletes
<1>1. \A h \in Handlers : Drawing(h)' =>
        /\ Drawing(h) /\ work[h] # Idle /\ SameRequest(h)
        /\ work'[h].pc = work[h].pc /\ work[h].next \in Tokens
  BY WorkFields DEF Drawing, TypeOK
<1>2. Grounded'
  BY DEF Grounded
<1>3. Fresh'
  <2> SUFFICES ASSUME NEW h \in Handlers, Drawing(h)'
               PROVE  /\ row'[work'[h].next] = "absent"
                      /\ \A c \in Clients : jar'[c] # work'[h].next
                      /\ \A g \in Handlers :
                           work'[g] # Idle => work'[g].token # work'[h].next
                      /\ \A g \in Handlers : work'[g] # Idle /\ g # h
                           => work'[g].next # work'[h].next
                      /\ \A t \in Tokens : issued'[t] # NoToken
                           => issued'[t].parent # work'[h].next
    BY DEF Fresh
  <2>1. work'[h].next = work[h].next /\ work[h].next \in Tokens /\ Drawing(h)
    BY <1>1
  <2>2. work[h].next # NoToken
    BY <2>1, NoneAreNot
  <2>3. QED
    BY <2>1, <2>2 DEF Fresh
<1>4. Matched'
  <2> SUFFICES ASSUME NEW h \in Handlers, Drawing(h)'
               PROVE  /\ issued'[work'[h].next].user = work'[h].user
                      /\ issued'[work'[h].next].parent = work'[h].token
                      /\ work'[h].pc = "insert" /\ work'[h].token # NoToken
                           => row'[work'[h].token] # "live"
    BY DEF Matched
  <2>1. work[h].token \in Tokens \cup {NoToken}
    BY <1>1, WorkFields
  <2>2. QED
    BY <1>1, <2>1 DEF Matched
<1>5. ReplacedIsConsumed'
  <2> SUFFICES ASSUME NEW t \in Tokens, row'[t] # "absent",
                      issued'[t].parent # NoToken
               PROVE  row'[issued'[t].parent] # "live"
    BY DEF ReplacedIsConsumed
  <2>1. row[t] # "absent" /\ issued[t] \in Issue
    BY DEF TypeOK
  <2>2. issued[t].parent \in Tokens
    BY <2>1 DEF Issue
  <2>3. QED
    BY <2>1, <2>2 DEF ReplacedIsConsumed
<1>6. QED
  BY <1>2, <1>3, <1>4, <1>5

(* A request begins that draws no token.                                   *)
LEMMA BeginningKeepsLinks ==
  ASSUME TypeOK, Linked, NEW h \in Handlers, NEW c \in Clients,
         NEW pc \in Pcs \ {"mark", "insert", "grant"},
         NEW u \in Users \cup {NoUser}, NEW t \in {NoToken, jar[c]},
         Begin(h, pc, c, u, t, NoToken),
         issued' = issued, row' = row, jar' = jar
  PROVE  Linked'
<1> USE DEF Linked
<1>1. t \in Tokens \cup {NoToken}
  BY DEF TypeOK
<1>2. /\ work'[h] # Idle /\ work'[h].pc = pc
      /\ work'[h].token = t /\ work'[h].next = NoToken
      /\ \A g \in Handlers \ {h} : work'[g] = work[g]
  BY <1>1, BeginShape
<1>3. \A g \in Handlers : Drawing(g)' =>
        /\ g # h /\ Drawing(g) /\ work'[g] = work[g]
        /\ work[g].next \in Tokens /\ work[g].next # NoToken
  BY <1>2, WorkFields DEF Drawing, TypeOK
<1>4. Grounded'
  BY <1>2 DEF Grounded
<1>5. Fresh'
  <2> SUFFICES ASSUME NEW g \in Handlers, Drawing(g)'
               PROVE  /\ row'[work'[g].next] = "absent"
                      /\ \A d \in Clients : jar'[d] # work'[g].next
                      /\ \A k \in Handlers :
                           work'[k] # Idle => work'[k].token # work'[g].next
                      /\ \A k \in Handlers : work'[k] # Idle /\ k # g
                           => work'[k].next # work'[g].next
                      /\ \A s \in Tokens : issued'[s] # NoToken
                           => issued'[s].parent # work'[g].next
    BY DEF Fresh
  <2>1. QED
    BY <1>2, <1>3 DEF Fresh
<1>6. Matched'
  BY <1>3 DEF Matched, Drawing
<1>7. ReplacedIsConsumed'
  BY DEF ReplacedIsConsumed
<1>8. QED
  BY <1>4, <1>5, <1>6, <1>7

(* A request begins that draws a token, from the cookie or from nothing.   *)
LEMMA DrawingKeepsLinks ==
  ASSUME TypeOK, Linked, NEW h \in Handlers, NEW c \in Clients,
         NEW n \in Tokens, NEW u \in Users, NEW f \in Tokens,
         NEW p \in {NoToken, jar[c]}, NEW pc \in {"mark", "insert"},
         pc = "insert" => p = NoToken,
         Draw(n, u, f, p), Begin(h, pc, c, u, p, n), row' = row, jar' = jar
  PROVE  Linked'
<1> USE DEF Linked
<1>1. p \in Tokens \cup {NoToken} /\ u # NoUser /\ n # NoToken
  BY NoneAreNot DEF TypeOK
<1>2. /\ work[h] = Idle /\ work'[h] # Idle
      /\ work'[h].pc = pc /\ work'[h].user = u
      /\ work'[h].token = p /\ work'[h].next = n
      /\ \A g \in Handlers \ {h} : work'[g] = work[g]
  BY <1>1, BeginShape DEF Pcs
<1>3. /\ issued[n] = NoToken /\ row[n] = "absent"
      /\ issued'[n] # NoToken /\ issued'[n].user = u /\ issued'[n].parent = p
      /\ \A t \in Tokens \ {n} : issued'[t] = issued[t]
  BY <1>1, DrawTyped
<1>4. p # n
  BY <1>1, <1>3 DEF Grounded
<1>5. \A d \in Clients : jar[d] # n
  BY <1>1, <1>3 DEF Grounded
<1>6. \A g \in Handlers : work[g] # Idle => work[g].token # n /\ work[g].next # n
  BY <1>1, <1>3 DEF Grounded
<1>7. \A t \in Tokens : issued[t] # NoToken => issued[t].parent # n
  BY <1>1, <1>3 DEF Grounded
<1>8. \A g \in Handlers : Drawing(g) => g # h /\ work[g].next \in Tokens
  BY <1>2, WorkFields DEF Drawing, TypeOK
<1>9. \A g \in Handlers \ {h} : Drawing(g)' <=> Drawing(g)
  BY <1>2 DEF Drawing
<1>10. Grounded'
  <2>1. \A t \in Tokens : issued[t] # NoToken => issued'[t] # NoToken
    BY <1>3
  <2>2. \A d \in Clients : jar'[d] # NoToken => issued'[jar'[d]] # NoToken
    BY <2>1 DEF Grounded, TypeOK
  <2>3. ASSUME NEW g \in Handlers, work'[g] # Idle
        PROVE  /\ work'[g].token # NoToken => issued'[work'[g].token] # NoToken
               /\ work'[g].next # NoToken => issued'[work'[g].next] # NoToken
    <3>1. CASE g = h
      BY <3>1, <1>1, <1>2, <1>3, <2>2
    <3>2. CASE g # h
      <4>1. work'[g] = work[g] /\ work[g] # Idle
        BY <3>2, <2>3, <1>2
      <4>2. QED
        BY <4>1, <2>1, WorkFields DEF Grounded
    <3>3. QED
      BY <3>1, <3>2
  <2>4. ASSUME NEW t \in Tokens, issued'[t] # NoToken, issued'[t].parent # NoToken
        PROVE  issued'[issued'[t].parent] # NoToken
    <3>1. CASE t = n
      BY <3>1, <2>4, <1>3, <2>2
    <3>2. CASE t # n
      <4>1. issued'[t] = issued[t] /\ issued[t] \in Issue
        BY <3>2, <2>4, <1>3 DEF TypeOK
      <4>2. issued[t].parent \in Tokens
        BY <4>1, <2>4 DEF Issue
      <4>3. QED
        BY <4>1, <4>2, <2>1, <2>4 DEF Grounded
    <3>3. QED
      BY <3>1, <3>2
  <2>5. QED
    BY <2>2, <2>3, <2>4 DEF Grounded
<1>11. Fresh'
  <2> SUFFICES ASSUME NEW g \in Handlers, Drawing(g)'
               PROVE  /\ row'[work'[g].next] = "absent"
                      /\ \A d \in Clients : jar'[d] # work'[g].next
                      /\ \A k \in Handlers :
                           work'[k] # Idle => work'[k].token # work'[g].next
                      /\ \A k \in Handlers : work'[k] # Idle /\ k # g
                           => work'[k].next # work'[g].next
                      /\ \A s \in Tokens : issued'[s] # NoToken
                           => issued'[s].parent # work'[g].next
    BY DEF Fresh
  <2>1. CASE g = h
    BY <2>1, <1>2, <1>3, <1>4, <1>5, <1>6, <1>7
  <2>2. CASE g # h
    <3>1. Drawing(g) /\ work'[g] = work[g] /\ work[g].next \in Tokens
      BY <2>2, <1>2, <1>8, <1>9
    <3>2. n # work[g].next
      BY <3>1, <1>6 DEF Drawing
    <3>3. p # work[g].next
      BY <3>1, NoneAreNot DEF Fresh
    <3>4. QED
      BY <3>1, <3>2, <3>3, <1>2, <1>3 DEF Fresh
  <2>3. QED
    BY <2>1, <2>2
<1>12. Matched'
  <2> SUFFICES ASSUME NEW g \in Handlers, Drawing(g)'
               PROVE  /\ issued'[work'[g].next].user = work'[g].user
                      /\ issued'[work'[g].next].parent = work'[g].token
                      /\ work'[g].pc = "insert" /\ work'[g].token # NoToken
                           => row'[work'[g].token] # "live"
    BY DEF Matched
  <2>1. CASE g = h
    BY <2>1, <1>2, <1>3
  <2>2. CASE g # h
    <3>1. Drawing(g) /\ work'[g] = work[g] /\ work[g].next \in Tokens
      BY <2>2, <1>2, <1>8, <1>9
    <3>2. issued'[work[g].next] = issued[work[g].next]
      BY <3>1, <1>3, <1>6 DEF Drawing
    <3>3. QED
      BY <3>1, <3>2 DEF Matched
  <2>3. QED
    BY <2>1, <2>2
<1>13. ReplacedIsConsumed'
  BY <1>3 DEF ReplacedIsConsumed
<1>14. QED
  BY <1>10, <1>11, <1>12, <1>13

(* The three steps a token goes through once drawn.                        *)
LEMMA MarkKeepsLinks ==
  ASSUME TypeOK, Linked, NEW h \in Handlers, MarkConsumed(h)
  PROVE  Linked'
<1> USE DEF Linked, At, people, SameRequest
<1>1. /\ work[h] # Idle /\ work[h].pc = "mark"
      /\ work'[h] # Idle /\ work'[h].pc = "insert" /\ SameRequest(h)
      /\ \A g \in Handlers \ {h} : work'[g] = work[g]
  BY GoShape DEF MarkConsumed, Pcs
<1>2. /\ issued' = issued /\ jar' = jar
      /\ \A t \in Tokens : row'[t] # row[t] => t = work[h].token
      /\ \A t \in Tokens : row'[t] = "absent" <=> row[t] = "absent"
      /\ \A t \in Tokens : row'[t] = "live" => row[t] = "live"
      /\ work[h].token \in Tokens => row'[work[h].token] # "live"
  BY DEF MarkConsumed, TypeOK
<1>3. \A g \in Handlers : Drawing(g)' =>
        /\ Drawing(g) /\ SameRequest(g) /\ work[g].next \in Tokens
        /\ work[g].token \in Tokens \cup {NoToken}
        /\ g # h => work'[g].pc = work[g].pc
  BY <1>1, WorkFields DEF Drawing, TypeOK
<1>4. \A g \in Handlers : work'[g] # Idle => work[g] # Idle /\ SameRequest(g)
  BY <1>1
<1>5. Grounded'
  BY <1>2, <1>4 DEF Grounded
<1>6. Fresh'
  BY <1>2, <1>3, <1>4 DEF Fresh
<1>7. Matched'
  <2> SUFFICES ASSUME NEW g \in Handlers, Drawing(g)'
               PROVE  /\ issued'[work'[g].next].user = work'[g].user
                      /\ issued'[work'[g].next].parent = work'[g].token
                      /\ work'[g].pc = "insert" /\ work'[g].token # NoToken
                           => row'[work'[g].token] # "live"
    BY DEF Matched
  <2>1. QED
    BY <1>2, <1>3 DEF Matched
<1>8. ReplacedIsConsumed'
  <2> SUFFICES ASSUME NEW t \in Tokens, row'[t] # "absent",
                      issued'[t].parent # NoToken
               PROVE  row'[issued'[t].parent] # "live"
    BY DEF ReplacedIsConsumed
  <2>1. row[t] # "absent" /\ issued[t] \in Issue
    BY <1>2 DEF TypeOK
  <2>2. issued[t].parent \in Tokens
    BY <2>1, <1>2 DEF Issue
  <2>3. QED
    BY <1>2, <2>1, <2>2 DEF ReplacedIsConsumed
<1>9. QED
  BY <1>5, <1>6, <1>7, <1>8

LEMMA InsertKeepsLinks ==
  ASSUME TypeOK, Linked, NEW h \in Handlers, InsertToken(h)
  PROVE  Linked'
<1> USE DEF Linked, At, people, SameRequest
<1> DEFINE n == work[h].next
<1>1. /\ work[h] # Idle /\ work[h].pc = "insert" /\ n \in Tokens
      /\ work[h].token \in Tokens \cup {NoToken}
      /\ work'[h] # Idle /\ work'[h].pc = "grant" /\ SameRequest(h)
      /\ \A g \in Handlers \ {h} : work'[g] = work[g]
  BY GoShape, WorkFields DEF InsertToken, Pcs, TypeOK
<1>2. /\ issued' = issued /\ jar' = jar
      /\ \A t \in Tokens \ {n} : row'[t] = row[t]
  BY DEF InsertToken, TypeOK
<1>3. Drawing(h)
  BY <1>1 DEF Drawing
<1>4. \A g \in Handlers : Drawing(g)' =>
        /\ g # h /\ Drawing(g) /\ work'[g] = work[g] /\ work[g] # Idle
        /\ work[g].next \in Tokens /\ work[g].token \in Tokens \cup {NoToken}
  BY <1>1, WorkFields DEF Drawing, TypeOK
<1>5. \A g \in Handlers : work'[g] # Idle => work[g] # Idle /\ SameRequest(g)
  BY <1>1
<1>6. Grounded'
  BY <1>2, <1>5 DEF Grounded
<1>7. Fresh'
  <2> SUFFICES ASSUME NEW g \in Handlers, Drawing(g)'
               PROVE  /\ row'[work'[g].next] = "absent"
                      /\ \A d \in Clients : jar'[d] # work'[g].next
                      /\ \A k \in Handlers :
                           work'[k] # Idle => work'[k].token # work'[g].next
                      /\ \A k \in Handlers : work'[k] # Idle /\ k # g
                           => work'[k].next # work'[g].next
                      /\ \A s \in Tokens : issued'[s] # NoToken
                           => issued'[s].parent # work'[g].next
    BY DEF Fresh
  <2>1. work[g].next # n
    BY <1>3, <1>4 DEF Fresh
  <2>2. QED
    BY <2>1, <1>2, <1>4, <1>5 DEF Fresh
<1>8. Matched'
  <2> SUFFICES ASSUME NEW g \in Handlers, Drawing(g)'
               PROVE  /\ issued'[work'[g].next].user = work'[g].user
                      /\ issued'[work'[g].next].parent = work'[g].token
                      /\ work'[g].pc = "insert" /\ work'[g].token # NoToken
                           => row'[work'[g].token] # "live"
    BY DEF Matched
  <2>1. work[g].token # n
    BY <1>3, <1>4 DEF Fresh
  <2>2. QED
    BY <2>1, <1>2, <1>4 DEF Matched
<1>9. ReplacedIsConsumed'
  <2> SUFFICES ASSUME NEW t \in Tokens, row'[t] # "absent",
                      issued'[t].parent # NoToken
               PROVE  row'[issued'[t].parent] # "live"
    BY DEF ReplacedIsConsumed
  <2>1. issued[t] # NoToken /\ issued[t] \in Issue
    BY <1>1, <1>2 DEF TypeOK, Grounded
  <2>2. issued[t].parent \in Tokens /\ issued[t].parent # n
    BY <2>1, <1>2, <1>3 DEF Issue, Fresh
  <2>3. CASE t = n
    BY <2>2, <2>3, <1>1, <1>2, <1>3 DEF Matched
  <2>4. CASE t # n
    BY <2>2, <2>4, <1>2 DEF ReplacedIsConsumed
  <2>5. QED
    BY <2>3, <2>4
<1>10. QED
  BY <1>6, <1>7, <1>8, <1>9

LEMMA GrantKeepsLinks ==
  ASSUME TypeOK, Linked, NEW h \in Handlers, ReplyGrant(h)
  PROVE  Linked'
<1> USE DEF Linked, At, people, table, SameRequest
<1> DEFINE n == work[h].next
<1>1. /\ work[h] # Idle /\ work[h].pc = "grant" /\ n \in Tokens
      /\ issued[n] # NoToken
  BY WorkFields DEF ReplyGrant, TypeOK, Grounded
<1>2. /\ work'[h] = Idle
      /\ \A g \in Handlers \ {h} : work'[g] = work[g]
  BY DEF ReplyGrant, End, TypeOK
<1>3. /\ issued' = issued /\ row' = row
      /\ \A c \in Clients : jar'[c] \in {jar[c], n}
  BY DEF ReplyGrant, TypeOK
<1>4. \A g \in Handlers : work'[g] # Idle => g # h /\ work'[g] = work[g]
  BY <1>2
<1>5. \A g \in Handlers : Drawing(g)' =>
        g # h /\ Drawing(g) /\ work'[g] = work[g] /\ work[g].next # n
  BY <1>1, <1>4 DEF Drawing, Fresh
<1>6. Grounded'
  BY <1>1, <1>3, <1>4 DEF Grounded
<1>7. Fresh'
  <2> SUFFICES ASSUME NEW g \in Handlers, Drawing(g)'
               PROVE  /\ row'[work'[g].next] = "absent"
                      /\ \A d \in Clients : jar'[d] # work'[g].next
                      /\ \A k \in Handlers :
                           work'[k] # Idle => work'[k].token # work'[g].next
                      /\ \A k \in Handlers : work'[k] # Idle /\ k # g
                           => work'[k].next # work'[g].next
                      /\ \A s \in Tokens : issued'[s] # NoToken
                           => issued'[s].parent # work'[g].next
    BY DEF Fresh
  <2>1. QED
    BY <1>3, <1>4, <1>5 DEF Fresh
<1>8. Matched'
  BY <1>3, <1>5 DEF Matched, Drawing
<1>9. ReplacedIsConsumed'
  BY <1>3 DEF ReplacedIsConsumed
<1>10. QED
  BY <1>6, <1>7, <1>8, <1>9
-----------------------------------------------------------------------------
(* Each step has one of those shapes.                                      *)

LEMMA LinkedStep == TypeOK /\ Linked /\ [Next]_vars => Linked'
<1> SUFFICES ASSUME TypeOK, Linked, [Next]_vars PROVE Linked'
  OBVIOUS
<1> USE DEF people, table, At
<1>1. jar' = jar => \A c \in Clients : jar'[c] \in {jar[c], NoToken}
  OBVIOUS
<1>2. ASSUME NEW h \in Handlers, SessionStep(h) PROVE Linked'
  <2>1. CASE RegisterInsert(h)
    BY <2>1, <1>1, EndMovesOn, SameOnlyDeletes, SettlingKeepsLinks
       DEF RegisterInsert
  <2>2. CASE RevokeFamily(h)
    BY <2>2, <1>1, GoMovesOn, DeleteOnlyDeletes, SettlingKeepsLinks
       DEF RevokeFamily, Pcs
  <2>3. CASE AuditReuse(h)
    BY <2>3, <1>1, GoMovesOn, SameOnlyDeletes, SettlingKeepsLinks
       DEF AuditReuse, Pcs
  <2>4. CASE CollectExpired(h)
    BY <2>4, <1>1, GoMovesOn, DeleteOnlyDeletes, SettlingKeepsLinks
       DEF CollectExpired, Pcs
  <2>5. CASE LogoutRevoke(h)
    BY <2>5, <1>1, GoMovesOn, DeleteOnlyDeletes, SameOnlyDeletes,
       SettlingKeepsLinks DEF LogoutRevoke, Pcs
  <2>6. CASE DeleteTokens(h)
    BY <2>6, <1>1, GoMovesOn, DeleteOnlyDeletes, SettlingKeepsLinks
       DEF DeleteTokens, Pcs
  <2>7. CASE DeleteUser(h)
    BY <2>7, <1>1, GoMovesOn, DeleteOnlyDeletes, SettlingKeepsLinks
       DEF DeleteUser, Pcs
  <2>8. CASE ReplyClear(h)
    <3>1. \A c \in Clients : jar'[c] \in {jar[c], NoToken}
      BY <2>8 DEF ReplyClear, TypeOK
    <3>2. QED
      BY <2>8, <3>1, EndMovesOn, SameOnlyDeletes, SettlingKeepsLinks
         DEF ReplyClear
  <2>9. CASE Abort(h)
    BY <2>9, <1>1, EndMovesOn, SameOnlyDeletes, SettlingKeepsLinks DEF Abort
  <2>10. QED
    BY <1>2, <2>1, <2>2, <2>3, <2>4, <2>5, <2>6, <2>7, <2>8, <2>9,
       MarkKeepsLinks, InsertKeepsLinks, GrantKeepsLinks DEF SessionStep
<1>3. ASSUME NEW h \in Handlers, NEW c \in Clients, SessionRequest(h, c)
      PROVE  Linked'
  <2>1. CASE \E u \in Users : RegisterFind(h, c, u)
    BY <2>1, BeginningKeepsLinks DEF RegisterFind, Pcs
  <2>2. CASE \E u \in Users : DeleteBegin(h, c, u)
    BY <2>2, BeginningKeepsLinks DEF DeleteBegin, Pcs
  <2>3. ASSUME NEW u \in Users, NEW n \in Tokens, LoginFind(h, c, u, n)
        PROVE  Linked'
    BY <2>3, DrawingKeepsLinks DEF LoginFind
  <2>4. ASSUME NEW n \in Tokens, RotateFind(h, c, n)
        PROVE  Linked'
    <3>1. issued[jar[c]].user \in Users /\ Family(jar[c]) \in Tokens
      BY <2>4, JarTyped DEF RotateFind, Family, Linked
    <3>2. QED
      BY <2>4, <3>1, DrawingKeepsLinks DEF RotateFind
  <2>5. CASE RotateRefused(h, c)
    <3>1. issued[jar[c]].user \in Users
      BY <2>5, JarTyped DEF RotateRefused, Linked
    <3>2. QED
      BY <2>5, <3>1, BeginningKeepsLinks DEF RotateRefused, Pcs
  <2>6. CASE LogoutFind(h, c)
    <3> DEFINE pc == IF row[jar[c]] = "absent" THEN "clear" ELSE "logout"
    <3>1. pc \in {"clear", "logout"} /\ Begin(h, pc, c, NoUser, jar[c], NoToken)
      BY <2>6 DEF LogoutFind
    <3> HIDE DEF pc
    <3>2. QED
      BY <2>6, <3>1, BeginningKeepsLinks DEF LogoutFind, Pcs
  <2>7. QED
    BY <1>3, <2>1, <2>2, <2>3, <2>4, <2>5, <2>6 DEF SessionRequest
<1>4. CASE LoginRefused
  BY <1>4, <1>1, SameMovesOn, SameOnlyDeletes, SettlingKeepsLinks
     DEF LoginRefused
<1>5. CASE PurgeTokens
  BY <1>5, <1>1, SameMovesOn, DeleteOnlyDeletes, SettlingKeepsLinks
     DEF PurgeTokens
<1>6. CASE \E t \in Tokens : Expire(t)
  BY <1>6, <1>1, SameMovesOn, SameOnlyDeletes, SettlingKeepsLinks DEF Expire
<1>7. CASE \E c \in Clients : CookieExpires(c)
  <2>1. \A c \in Clients : jar'[c] \in {jar[c], NoToken}
    BY <1>7 DEF CookieExpires, TypeOK
  <2>2. QED
    BY <1>7, <2>1, SameMovesOn, SameOnlyDeletes, SettlingKeepsLinks
       DEF CookieExpires
<1>8. CASE UNCHANGED vars
  BY <1>8, <1>1, SameMovesOn, SameOnlyDeletes, SettlingKeepsLinks DEF vars
<1>9. QED
  BY <1>2, <1>3, <1>4, <1>5, <1>6, <1>7, <1>8 DEF Next
-----------------------------------------------------------------------------
(* The accounts.                                                           *)

LEMMA RegisteringStep ==
  TypeOK /\ Registering /\ [Next]_vars => Registering'
<1> SUFFICES ASSUME TypeOK, Registering, [Next]_vars PROVE Registering'
  OBVIOUS
<1> USE DEF people, table, At
<1>1. ASSUME MovesOn, known' = known PROVE Registering'
  BY <1>1 DEF MovesOn, SameRequest, Registering
<1>2. ASSUME NEW h \in Handlers, SessionStep(h) PROVE Registering'
  <2>1. CASE MarkConsumed(h) \/ InsertToken(h)
    <3>1. /\ work'[h].pc # "register"
          /\ \A g \in Handlers \ {h} : work'[g] = work[g]
      BY <2>1, GoShape DEF MarkConsumed, InsertToken, Pcs
    <3>2. known' = known
      BY <2>1 DEF MarkConsumed, InsertToken
    <3>3. QED
      BY <3>1, <3>2 DEF Registering
  <2>2. CASE RegisterInsert(h) \/ ReplyGrant(h) \/ ReplyClear(h) \/ Abort(h)
    BY <2>2, <1>1, EndMovesOn DEF RegisterInsert, ReplyGrant, ReplyClear, Abort
  <2>3. CASE RevokeFamily(h) \/ AuditReuse(h) \/ CollectExpired(h)
    BY <2>3, <1>1, GoMovesOn DEF RevokeFamily, AuditReuse, CollectExpired, Pcs
  <2>4. CASE LogoutRevoke(h) \/ DeleteTokens(h) \/ DeleteUser(h)
    BY <2>4, <1>1, GoMovesOn DEF LogoutRevoke, DeleteTokens, DeleteUser, Pcs
  <2>5. QED
    BY <1>2, <2>1, <2>2, <2>3, <2>4 DEF SessionStep
<1>3. ASSUME NEW h \in Handlers, NEW c \in Clients, SessionRequest(h, c)
      PROVE  Registering'
  <2>1. ASSUME NEW u \in Users, RegisterFind(h, c, u) PROVE Registering'
    <3>1. /\ work'[h].user = u
          /\ \A g \in Handlers \ {h} : work'[g] = work[g]
      BY <2>1, BeginShape DEF RegisterFind, Pcs
    <3>2. QED
      BY <2>1, <3>1 DEF RegisterFind, Registering
  <2>2. CASE ~ \E u \in Users : RegisterFind(h, c, u)
    <3>1. \E new : new.pc # "register" /\ work' = [work EXCEPT ![h] = new]
      BY <1>3, <2>2 DEF SessionRequest, DeleteBegin, LoginFind, RotateFind,
         RotateRefused, LogoutFind, Begin
    <3>2. known' = known
      BY <1>3, <2>2 DEF SessionRequest, DeleteBegin, LoginFind, RotateFind,
         RotateRefused, LogoutFind
    <3>3. /\ work'[h].pc # "register"
          /\ \A g \in Handlers \ {h} : work'[g] = work[g]
      BY <3>1 DEF TypeOK
    <3>4. QED
      BY <3>2, <3>3 DEF Registering
  <2>3. QED
    BY <2>1, <2>2
<1>4. CASE LoginRefused \/ PurgeTokens
  BY <1>4, <1>1, SameMovesOn DEF LoginRefused, PurgeTokens
<1>5. CASE \E t \in Tokens : Expire(t)
  BY <1>5, <1>1, SameMovesOn DEF Expire
<1>6. CASE \E c \in Clients : CookieExpires(c)
  BY <1>6, <1>1, SameMovesOn DEF CookieExpires
<1>7. CASE UNCHANGED vars
  BY <1>7, <1>1, SameMovesOn DEF vars
<1>8. QED
  BY <1>2, <1>3, <1>4, <1>5, <1>6, <1>7 DEF Next

(* The account, its tokens and its events, while nothing is inserted.      *)
LEMMA DeletedFrame ==
  ASSUME TypeOK, NothingNamesTheDeleted, accounts \subseteq accounts',
         issued' = issued, OnlyDeletes, events' \subseteq events
  PROVE  NothingNamesTheDeleted'
BY DEF NothingNamesTheDeleted, OnlyDeletes

LEMMA RecordKeepsDeleted ==
  ASSUME NothingNamesTheDeleted, NEW kind, NEW u, Record(kind, u),
         accounts' = accounts
  PROVE  \A e \in events' : e.user \in accounts' \cup {NoUser}
BY DEF NothingNamesTheDeleted, Record

LEMMA DeletedStep ==
  TypeOK /\ Linked /\ NothingNamesTheDeleted /\ [Next]_vars
    => NothingNamesTheDeleted'
<1> SUFFICES ASSUME TypeOK, Linked, NothingNamesTheDeleted, [Next]_vars
             PROVE  NothingNamesTheDeleted'
  OBVIOUS
<1> USE DEF people, table, At
<1>1. ASSUME NEW h \in Handlers, SessionStep(h) PROVE NothingNamesTheDeleted'
  <2>1. CASE RegisterInsert(h) \/ ReplyGrant(h) \/ ReplyClear(h) \/ Abort(h)
    BY <2>1, DeletedFrame, SameOnlyDeletes
       DEF RegisterInsert, ReplyGrant, ReplyClear, Abort
  <2>2. CASE RevokeFamily(h) \/ CollectExpired(h) \/ LogoutRevoke(h)
                \/ DeleteTokens(h)
    <3>1. OnlyDeletes
      BY <2>2, DeleteOnlyDeletes, SameOnlyDeletes
         DEF RevokeFamily, CollectExpired, LogoutRevoke, DeleteTokens
    <3>2. QED
      BY <2>2, <3>1, DeletedFrame
         DEF RevokeFamily, CollectExpired, LogoutRevoke, DeleteTokens
  <2>3. CASE MarkConsumed(h)
    <3>1. \A t \in Tokens : row'[t] # "absent" => row[t] # "absent"
      BY <2>3 DEF MarkConsumed, TypeOK
    <3>2. QED
      BY <2>3, <3>1 DEF MarkConsumed, NothingNamesTheDeleted
  <2>4. CASE InsertToken(h)
    <3>1. issued[work[h].next].user \in accounts
      BY <2>4 DEF InsertToken, Linked, Matched, Drawing
    <3>2. \A t \in Tokens : row'[t] # row[t] => t = work[h].next
      BY <2>4 DEF InsertToken, TypeOK
    <3>3. QED
      BY <2>4, <3>1, <3>2 DEF InsertToken, NothingNamesTheDeleted
  <2>5. CASE AuditReuse(h)
    <3>1. \A e \in events' : e.user \in accounts' \cup {NoUser}
      BY <2>5, RecordKeepsDeleted DEF AuditReuse
    <3>2. QED
      BY <2>5, <3>1 DEF AuditReuse, NothingNamesTheDeleted
  <2>6. CASE DeleteUser(h)
    <3> DEFINE u == work[h].user
    <3>1. \A t \in TokensOf(u) \cap Tokens : row'[t] = "absent"
      BY <2>6, DeleteOnlyDeletes DEF DeleteUser
    <3>2. ASSUME NEW t \in Tokens, row'[t] # "absent"
          PROVE  issued'[t].user \in accounts'
      <4>1. row[t] # "absent" /\ issued[t] # NoToken /\ t \notin TokensOf(u)
        BY <2>6, <3>1, <3>2, DeleteOnlyDeletes DEF DeleteUser, OnlyDeletes, TypeOK
      <4>2. issued[t].user # u /\ issued[t].user \in accounts
        BY <4>1 DEF TokensOf, NothingNamesTheDeleted
      <4>3. QED
        BY <2>6, <4>2 DEF DeleteUser
    <3>3. ASSUME NEW e \in events'
          PROVE  e.user \in accounts' \cup {NoUser}
      <4>1. PICK d \in events :
              e = IF d.user = u THEN [d EXCEPT !.user = NoUser] ELSE d
        BY <2>6, <3>3 DEF DeleteUser
      <4>2. d \in [kind : EventKinds, user : Users \cup {NoUser}]
        BY DEF TypeOK
      <4>3. d.user \in accounts \cup {NoUser}
        BY DEF NothingNamesTheDeleted
      <4>4. QED
        BY <2>6, <4>1, <4>2, <4>3 DEF DeleteUser
    <3>4. QED
      BY <3>2, <3>3 DEF NothingNamesTheDeleted
  <2>7. QED
    BY <1>1, <2>1, <2>2, <2>3, <2>4, <2>5, <2>6 DEF SessionStep
<1>2. ASSUME NEW h \in Handlers, NEW c \in Clients, SessionRequest(h, c)
      PROVE  NothingNamesTheDeleted'
  <2>1. \A t \in Tokens : row[t] # "absent" => issued'[t] = issued[t]
    BY <1>2 DEF SessionRequest, RegisterFind, DeleteBegin, LoginFind, RotateFind,
       RotateRefused, LogoutFind, Draw, TypeOK
  <2>2. accounts' = accounts /\ row' = row /\ events' = events
    BY <1>2 DEF SessionRequest, RegisterFind, DeleteBegin, LoginFind, RotateFind,
       RotateRefused, LogoutFind
  <2>3. QED
    BY <2>1, <2>2 DEF NothingNamesTheDeleted
<1>3. CASE LoginRefused
  <2>1. \A e \in events' : e.user \in accounts' \cup {NoUser}
    BY <1>3, RecordKeepsDeleted DEF LoginRefused
  <2>2. QED
    BY <1>3, <2>1 DEF LoginRefused, NothingNamesTheDeleted
<1>4. CASE PurgeTokens
  BY <1>4, DeletedFrame, DeleteOnlyDeletes DEF PurgeTokens
<1>5. CASE \E t \in Tokens : Expire(t)
  BY <1>5, DeletedFrame, SameOnlyDeletes DEF Expire
<1>6. CASE \E c \in Clients : CookieExpires(c)
  BY <1>6, DeletedFrame, SameOnlyDeletes DEF CookieExpires
<1>7. CASE UNCHANGED vars
  BY <1>7, DeletedFrame, SameOnlyDeletes DEF vars
<1>8. QED
  BY <1>1, <1>2, <1>3, <1>4, <1>5, <1>6, <1>7 DEF Next

LEMMA AtMostOneStep == AtMostOne /\ [Next]_vars => AtMostOne'
<1> SUFFICES ASSUME AtMostOne, [Next]_vars PROVE AtMostOne'
  OBVIOUS
<1> USE DEF people, table
<1>1. ASSUME NEW h \in Handlers, SessionStep(h) PROVE AtMostOne'
  <2>1. CASE RegisterInsert(h) \/ DeleteUser(h)
    BY <2>1 DEF RegisterInsert, DeleteUser, AtMostOne
  <2>2. CASE ~(RegisterInsert(h) \/ DeleteUser(h))
    <3>1. accounts' = accounts
      BY <1>1, <2>2 DEF SessionStep, MarkConsumed, InsertToken, RevokeFamily,
         AuditReuse, CollectExpired, LogoutRevoke, DeleteTokens, ReplyGrant,
         ReplyClear, Abort
    <3>2. QED
      BY <3>1 DEF AtMostOne
  <2>3. QED
    BY <2>1, <2>2
<1>2. CASE ~ \E h \in Handlers : SessionStep(h)
  <2>1. accounts' = accounts
    BY <1>2 DEF Next, SessionRequest, RegisterFind, DeleteBegin, LoginFind,
       RotateFind, RotateRefused, LogoutFind, LoginRefused, PurgeTokens, Expire,
       CookieExpires, vars
  <2>2. QED
    BY <2>1 DEF AtMostOne
<1>3. QED
  BY <1>1, <1>2
-----------------------------------------------------------------------------
(* The invariant and what it implies.                                      *)

LEMMA InvInit == Init => IInv
BY TypeInit DEF Init, IInv, Registering, Grounded, Fresh, Matched, Drawing,
   AtMostOne, NothingNamesTheDeleted, ReplacedIsConsumed

LEMMA InvStep == IInv /\ [Next]_vars => IInv'
BY TypeStep, RegisteringStep, LinkedStep, AtMostOneStep, DeletedStep
   DEF IInv, Linked

LEMMA Invariance == Spec => []IInv
BY InvInit, InvStep, PTL DEF Spec

(* However the handlers of registration, login, rotation, logout and       *)
(* deletion interleave, whatever statement fails, every variable keeps its *)
(* type; a token that is in the table was drawn.                           *)
THEOREM TypeCorrect == Spec => []TypeOK
<1>1. IInv => TypeOK
  BY DEF IInv
<1>2. QED
  BY <1>1, Invariance, PTL

(* RegisterUser looks the address up and inserts the account in two        *)
(* statements; the unique key leaves one account for any number of         *)
(* registrations between the two.                                          *)
THEOREM OneAccount == Spec => []OneAccountPerEmail
<1>1. IInv => OneAccountPerEmail
  <2> SUFFICES ASSUME IInv PROVE Cardinality(accounts) <= 1
    BY DEF OneAccountPerEmail
  <2>1. CASE accounts = {}
    BY <2>1, FS_EmptySet
  <2>2. CASE accounts # {}
    <3>1. PICK u \in accounts : TRUE
      BY <2>2
    <3>2. accounts = {u}
      BY <3>1 DEF IInv, AtMostOne
    <3>3. Cardinality({u}) = 1
      BY FS_Singleton
    <3>4. QED
      BY <3>2, <3>3
  <2>3. QED
    BY <2>1, <2>2
<1>2. QED
  BY <1>1, Invariance, PTL

(* DeleteAccount runs in several statements, between which logins and      *)
(* rotations insert tokens and reuses are audited: none of them is left in *)
(* the name of an account that is gone.                                    *)
THEOREM NothingOfTheDeleted == Spec => []NothingNamesTheDeleted
<1>1. IInv => NothingNamesTheDeleted
  BY DEF IInv
<1>2. QED
  BY <1>1, Invariance, PTL

(* RefreshSession::rotate marks before it inserts: wherever a rotation     *)
(* stops and whatever runs between its statements, a token and the one     *)
(* that replaces it are never usable together.                             *)
THEOREM ReplacedConsumed == Spec => []ReplacedIsConsumed
<1>1. IInv => ReplacedIsConsumed
  BY DEF IInv
<1>2. QED
  BY <1>1, Invariance, PTL
-----------------------------------------------------------------------------
(***************************************************************************)
(* ADR-056: a session whose requests came one after the other is not       *)
(* logged out by what happens to other sessions.                           *)
(***************************************************************************)
(* Who knows a token of a family: a cookie, a request in flight.           *)

HoldsIn(c, f) == jar[c] # NoToken /\ Family(jar[c]) = f

GrantsIn(h, f) ==
  work[h] # Idle /\ work[h].next # NoToken /\ Family(work[h].next) = f

WorksIn(h, f) == Serving(h, f) \/ GrantsIn(h, f)

(* A family is named by a token that was drawn.                            *)
Founded == \A t \in Tokens : issued[t] # NoToken => issued[Family(t)] # NoToken

(* A family never leaves the browser that logged in.                       *)
OneBrowser ==
  \A f \in Tokens :
    /\ \A c, d \in Clients : HoldsIn(c, f) /\ HoldsIn(d, f) => c = d
    /\ \A c \in Clients, h \in Handlers :
         HoldsIn(c, f) /\ WorksIn(h, f) => work[h].client = c
    /\ \A g, h \in Handlers :
         WorksIn(g, f) /\ WorksIn(h, f) => work[g].client = work[h].client

(* A rotation stays in the family.                                         *)
RotatesWithin ==
  \A h \in Handlers :
    work[h] # Idle /\ work[h].token # NoToken /\ work[h].next # NoToken
      => Family(work[h].next) = Family(work[h].token)

(* Until the reply of a login, nobody else knows its family.               *)
LoginSecret ==
  \A h \in Handlers :
    work[h] # Idle /\ work[h].token = NoToken /\ work[h].next # NoToken =>
      /\ \A g \in Handlers \ {h} : ~ WorksIn(g, Family(work[h].next))
      /\ \A c \in Clients : ~ HoldsIn(c, Family(work[h].next))

(* The statements that touch a token run for a request that presented it.  *)
OnAToken == {"mark", "revoke", "collect", "logout"}

Presents ==
  \A h \in Handlers : work[h] # Idle =>
    /\ work[h].pc \in OnAToken => work[h].token # NoToken
    /\ work[h].pc = "register" => work[h].token = NoToken

(* An undisturbed family answers one request at a time...                  *)
OneRequest ==
  \A f \in Tokens \ disturbed, g, h \in Handlers :
    Serving(g, f) /\ Serving(h, f) => g = h

(* ... and what it holds or is about to be granted is usable.              *)
Alive ==
  \A f \in Tokens \ disturbed :
    /\ \A c \in Clients :
         HoldsIn(c, f) /\ jar[c] \notin expired /\ (\A h \in Handlers : ~Serving(h, f))
           => row[jar[c]] = "live"
    /\ \A h \in Handlers :
         GrantsIn(h, f) /\ work[h].pc = "grant"
           => work[h].next \in expired \/ row[work[h].next] = "live"

Known == Founded /\ OneBrowser /\ RotatesWithin /\ LoginSecret /\ Presents

SInv == IInv /\ Known /\ OneRequest /\ Alive
-----------------------------------------------------------------------------
(* Families of the tokens that cookies and requests name.                  *)

LEMMA FamiliesAreTokens ==
  ASSUME IInv, Founded
  PROVE  /\ \A t \in Tokens : issued[t] # NoToken
              => Family(t) \in Tokens /\ issued[Family(t)] # NoToken
         /\ \A f : \A c \in Clients : HoldsIn(c, f)
              => /\ f \in Tokens /\ issued[f] # NoToken
                 /\ jar[c] \in Tokens /\ issued[jar[c]] # NoToken
         /\ \A f : \A h \in Handlers : Serving(h, f)
              => /\ f \in Tokens /\ issued[f] # NoToken
                 /\ work[h].token \in Tokens /\ issued[work[h].token] # NoToken
         /\ \A f : \A h \in Handlers : GrantsIn(h, f)
              => /\ f \in Tokens /\ issued[f] # NoToken
                 /\ work[h].next \in Tokens /\ issued[work[h].next] # NoToken
<1>1. \A t \in Tokens : issued[t] # NoToken
        => Family(t) \in Tokens /\ issued[Family(t)] # NoToken
  BY DEF IInv, TypeOK, Founded, Family, Issue
<1>2. \A c \in Clients : jar[c] # NoToken
        => jar[c] \in Tokens /\ issued[jar[c]] # NoToken
  BY DEF IInv, TypeOK, Grounded
<1>3. \A h \in Handlers : work[h] # Idle =>
        /\ work[h].token # NoToken
             => work[h].token \in Tokens /\ issued[work[h].token] # NoToken
        /\ work[h].next # NoToken
             => work[h].next \in Tokens /\ issued[work[h].next] # NoToken
  BY WorkFields DEF IInv, Grounded
<1>4. QED
  BY <1>1, <1>2, <1>3 DEF HoldsIn, Serving, GrantsIn
-----------------------------------------------------------------------------
(* Steps after which nobody knows more than before.                        *)

Proceeds ==
  \A g \in Handlers : work'[g] # Idle =>
    /\ work[g] # Idle /\ SameRequest(g)
    /\ work'[g].pc \in OnAToken \cup {"register"} => work'[g].pc = work[g].pc

KnowsNoMore ==
  /\ Proceeds
  /\ issued' = issued
  /\ \A c \in Clients : jar'[c] \in {jar[c], NoToken}

LEMMA KnowingNoMore ==
  ASSUME KnowsNoMore, NEW f
  PROVE  /\ \A c \in Clients : HoldsIn(c, f)' => HoldsIn(c, f) /\ jar'[c] = jar[c]
         /\ \A h \in Handlers : Serving(h, f)' => Serving(h, f)
         /\ \A h \in Handlers : GrantsIn(h, f)' => GrantsIn(h, f)
         /\ \A h \in Handlers : WorksIn(h, f)'
              => WorksIn(h, f) /\ work'[h] # Idle /\ work[h] # Idle
BY DEF KnowsNoMore, Proceeds, SameRequest, HoldsIn, Serving, GrantsIn, WorksIn,
   Family

LEMMA ProceedingKeepsKnown ==
  ASSUME Known, KnowsNoMore
  PROVE  Known'
<1> USE DEF Known
<1>1. Founded'
  BY DEF Founded, KnowsNoMore, Family
<1>2. OneBrowser'
  <2> SUFFICES ASSUME NEW f \in Tokens
               PROVE  /\ \A c, d \in Clients : HoldsIn(c, f)' /\ HoldsIn(d, f)' => c = d
                      /\ \A c \in Clients, h \in Handlers :
                           HoldsIn(c, f)' /\ WorksIn(h, f)' => work'[h].client = c
                      /\ \A g, h \in Handlers : WorksIn(g, f)' /\ WorksIn(h, f)'
                           => work'[g].client = work'[h].client
    BY DEF OneBrowser
  <2>1. \A h \in Handlers : WorksIn(h, f)' => work'[h].client = work[h].client
    BY KnowingNoMore DEF KnowsNoMore, Proceeds, SameRequest
  <2>2. /\ \A c \in Clients : HoldsIn(c, f)' => HoldsIn(c, f)
        /\ \A h \in Handlers : WorksIn(h, f)' => WorksIn(h, f)
    BY KnowingNoMore
  <2>3. /\ \A c, d \in Clients : HoldsIn(c, f) /\ HoldsIn(d, f) => c = d
        /\ \A c \in Clients, h \in Handlers :
             HoldsIn(c, f) /\ WorksIn(h, f) => work[h].client = c
        /\ \A g, h \in Handlers :
             WorksIn(g, f) /\ WorksIn(h, f) => work[g].client = work[h].client
    BY DEF OneBrowser
  <2>4. \A c, d \in Clients : HoldsIn(c, f)' /\ HoldsIn(d, f)' => c = d
    BY <2>2, <2>3
  <2>5. \A c \in Clients, h \in Handlers :
          HoldsIn(c, f)' /\ WorksIn(h, f)' => work'[h].client = c
    BY <2>1, <2>2, <2>3
  <2>6. \A g, h \in Handlers : WorksIn(g, f)' /\ WorksIn(h, f)'
          => work'[g].client = work'[h].client
    BY <2>1, <2>2, <2>3
  <2>7. QED
    BY <2>4, <2>5, <2>6
<1>3. RotatesWithin'
  BY DEF RotatesWithin, KnowsNoMore, Proceeds, SameRequest, Family
<1>4. LoginSecret'
  <2> SUFFICES ASSUME NEW h \in Handlers, work'[h] # Idle,
                      work'[h].token = NoToken, work'[h].next # NoToken
               PROVE  /\ \A g \in Handlers \ {h} :
                           ~ WorksIn(g, Family(work[h].next))'
                      /\ \A c \in Clients : ~ HoldsIn(c, Family(work[h].next))'
    BY DEF LoginSecret
  <2>1. PICK f : f = Family(work[h].next)
    OBVIOUS
  <2>2. /\ work[h] # Idle /\ work[h].token = NoToken /\ work[h].next # NoToken
        /\ Family(work[h].next)' = f
    BY <2>1 DEF KnowsNoMore, Proceeds, SameRequest, Family
  <2>3. /\ \A g \in Handlers \ {h} : ~ WorksIn(g, f)'
        /\ \A c \in Clients : ~ HoldsIn(c, f)'
    <3>1. /\ \A c \in Clients : HoldsIn(c, f)' => HoldsIn(c, f)
          /\ \A g \in Handlers : WorksIn(g, f)' => WorksIn(g, f)
      BY KnowingNoMore
    <3>2. /\ \A g \in Handlers \ {h} : ~ WorksIn(g, f)
          /\ \A c \in Clients : ~ HoldsIn(c, f)
      BY <2>1, <2>2 DEF LoginSecret
    <3>3. QED
      BY <3>1, <3>2
  <2>4. QED
    BY <2>2, <2>3 DEF WorksIn, Serving, GrantsIn, HoldsIn
<1>5. Presents'
  BY DEF Presents, KnowsNoMore, Proceeds, SameRequest
<1>6. QED
  BY <1>1, <1>2, <1>3, <1>4, <1>5
-----------------------------------------------------------------------------
(* A request of c begins in h: what is known of family f.                  *)

Opens(h, c, f) ==
  /\ work[h] = Idle /\ work'[h] # Idle
  /\ work'[h].client = c /\ work'[h].pc # "grant"
  /\ jar' = jar
  /\ \A d \in Clients : HoldsIn(d, f)' <=> HoldsIn(d, f)
  /\ \A g \in Handlers \ {h} :
       /\ work'[g] = work[g]
       /\ Serving(g, f)' <=> Serving(g, f)
       /\ GrantsIn(g, f)' <=> GrantsIn(g, f)
  /\ Serving(h, f)' => HoldsIn(c, f)

LEMMA OpeningKeepsOneBrowser ==
  ASSUME OneBrowser, NEW h \in Handlers, NEW c \in Clients,
         \A f \in Tokens : /\ Opens(h, c, f)
                           /\ GrantsIn(h, f)' => \/ HoldsIn(c, f)
                                                 \/ /\ \A d \in Clients : ~ HoldsIn(d, f)
                                                    /\ \A g \in Handlers : ~ WorksIn(g, f)
  PROVE  OneBrowser'
<1> SUFFICES ASSUME NEW f \in Tokens
             PROVE  /\ \A d, e \in Clients : HoldsIn(d, f)' /\ HoldsIn(e, f)' => d = e
                    /\ \A d \in Clients, g \in Handlers :
                         HoldsIn(d, f)' /\ WorksIn(g, f)' => work'[g].client = d
                    /\ \A g, k \in Handlers : WorksIn(g, f)' /\ WorksIn(k, f)'
                         => work'[g].client = work'[k].client
  BY DEF OneBrowser
<1>1. /\ \A d, e \in Clients : HoldsIn(d, f) /\ HoldsIn(e, f) => d = e
      /\ \A d \in Clients, g \in Handlers :
           HoldsIn(d, f) /\ WorksIn(g, f) => work[g].client = d
      /\ \A g, k \in Handlers : WorksIn(g, f) /\ WorksIn(k, f)
           => work[g].client = work[k].client
  BY DEF OneBrowser
<1>2. \A g \in Handlers \ {h} : WorksIn(g, f)' <=> WorksIn(g, f)
  BY DEF Opens, WorksIn
<1>3. WorksIn(h, f)' => \/ HoldsIn(c, f)
                        \/ /\ \A d \in Clients : ~ HoldsIn(d, f)
                           /\ \A g \in Handlers : ~ WorksIn(g, f)
  BY DEF Opens, WorksIn
<1>4. QED
  BY <1>1, <1>2, <1>3 DEF Opens

LEMMA BeginningKeepsKnown ==
  ASSUME IInv, Known, NEW h \in Handlers, NEW c \in Clients,
         NEW pc \in Pcs \ {"mark", "insert", "grant"},
         NEW u \in Users \cup {NoUser}, NEW t \in {NoToken, jar[c]},
         pc \in OnAToken => t # NoToken, pc = "register" => t = NoToken,
         Begin(h, pc, c, u, t, NoToken), issued' = issued, jar' = jar
  PROVE  Known' /\ \A f \in Tokens : Opens(h, c, f)
<1> USE DEF Known
<1>1. t \in Tokens \cup {NoToken} /\ TypeOK
  BY DEF IInv, TypeOK
<1>2. /\ work[h] = Idle /\ work'[h] # Idle
      /\ work'[h].pc = pc /\ work'[h].client = c
      /\ work'[h].token = t /\ work'[h].next = NoToken
      /\ \A g \in Handlers \ {h} : work'[g] = work[g]
  BY <1>1, BeginShape
<1>3. ASSUME NEW f PROVE Opens(h, c, f) /\ ~ GrantsIn(h, f)'
  BY <1>2 DEF Opens, HoldsIn, Serving, GrantsIn, Family
<1>4. Founded'
  BY DEF Founded, Family
<1>5. OneBrowser'
  BY <1>3, OpeningKeepsOneBrowser
<1>6. RotatesWithin'
  BY <1>2 DEF RotatesWithin, Family
<1>7. LoginSecret'
  <2> SUFFICES ASSUME NEW k \in Handlers, work'[k] # Idle,
                      work'[k].token = NoToken, work'[k].next # NoToken
               PROVE  /\ \A g \in Handlers \ {k} :
                           ~ WorksIn(g, Family(work[k].next))'
                      /\ \A d \in Clients : ~ HoldsIn(d, Family(work[k].next))'
    BY DEF LoginSecret
  <2>1. PICK f : f = Family(work[k].next)
    OBVIOUS
  <2>2. /\ k # h /\ work'[k] = work[k] /\ Family(work[k].next)' = f
    BY <1>2, <2>1 DEF Family
  <2>3. /\ \A g \in Handlers \ {k} : ~ WorksIn(g, f)
        /\ \A d \in Clients : ~ HoldsIn(d, f)
    BY <2>1, <2>2 DEF LoginSecret
  <2>4. /\ \A g \in Handlers \ {k} : ~ WorksIn(g, f)'
        /\ \A d \in Clients : ~ HoldsIn(d, f)'
    BY <2>3, <1>3 DEF Opens, WorksIn
  <2>5. QED
    BY <2>2, <2>4 DEF WorksIn, Serving, GrantsIn, HoldsIn
<1>8. Presents'
  BY <1>2 DEF Presents
<1>9. QED
  BY <1>3, <1>4, <1>5, <1>6, <1>7, <1>8

(* p is the token rotated, or none at login; f the family of the new one.  *)
LEMMA DrawingKeepsKnown ==
  ASSUME IInv, Known, NEW h \in Handlers, NEW c \in Clients,
         NEW n \in Tokens, NEW u \in Users, NEW f \in Tokens,
         NEW p \in {NoToken, jar[c]}, NEW pc \in {"mark", "insert"},
         pc = "mark" => p # NoToken,
         f = IF p = NoToken THEN n ELSE Family(p),
         Draw(n, u, f, p), Begin(h, pc, c, u, p, n), jar' = jar
  PROVE  Known' /\ \A e \in Tokens : Opens(h, c, e)
<1> USE DEF Known
<1>1. /\ p \in Tokens \cup {NoToken} /\ u # NoUser /\ n # NoToken
      /\ TypeOK /\ Grounded
  BY NoneAreNot DEF IInv, TypeOK
<1>2. /\ work[h] = Idle /\ work'[h] # Idle
      /\ work'[h].pc = pc /\ work'[h].client = c
      /\ work'[h].token = p /\ work'[h].next = n
      /\ \A g \in Handlers \ {h} : work'[g] = work[g]
  BY <1>1, BeginShape DEF Pcs
<1>3. /\ issued[n] = NoToken /\ issued'[n] # NoToken
      /\ \A t \in Tokens \ {n} : issued'[t] = issued[t]
  BY <1>1, DrawTyped
<1>4. Family(n)' = f
  BY <1>1 DEF Draw, Family, TypeOK
<1>5. \A t \in Tokens : issued[t] # NoToken
        => t # n /\ issued'[t] # NoToken /\ Family(t)' = Family(t)
  BY <1>3 DEF Family
<1>6. p # NoToken => /\ p \in Tokens /\ issued[p] # NoToken
                     /\ HoldsIn(c, f) /\ f = Family(p)
  BY <1>1 DEF Grounded, HoldsIn
<1>7. p = NoToken => /\ f = n
                     /\ \A d \in Clients : ~ HoldsIn(d, f)
                     /\ \A g \in Handlers : ~ WorksIn(g, f)
  BY <1>3, FamiliesAreTokens DEF WorksIn
<1>8. ASSUME NEW e
      PROVE  Opens(h, c, e) /\ (GrantsIn(h, e)' <=> e = f)
  <2>1. \A d \in Clients : HoldsIn(d, e)' <=> HoldsIn(d, e)
    BY <1>1, <1>5 DEF HoldsIn, Grounded, TypeOK
  <2>2. \A g \in Handlers \ {h} : /\ Serving(g, e)' <=> Serving(g, e)
                                  /\ GrantsIn(g, e)' <=> GrantsIn(g, e)
    <3> SUFFICES ASSUME NEW g \in Handlers \ {h}
                 PROVE  /\ Serving(g, e)' <=> Serving(g, e)
                        /\ GrantsIn(g, e)' <=> GrantsIn(g, e)
      OBVIOUS
    <3>1. work[g] # Idle =>
            /\ work[g].token # NoToken => Family(work[g].token)' = Family(work[g].token)
            /\ work[g].next # NoToken => Family(work[g].next)' = Family(work[g].next)
      BY <1>1, <1>2, <1>5, WorkFields DEF Grounded, Family
    <3>2. QED
      BY <3>1, <1>2 DEF Serving, GrantsIn
  <2>3. Serving(h, e)' => HoldsIn(c, e)
    BY <1>2, <1>5, <1>6 DEF Serving, HoldsIn, Family
  <2>4. GrantsIn(h, e)' <=> e = f
    BY <1>1, <1>2, <1>4 DEF GrantsIn, Family
  <2>5. QED
    BY <1>2, <2>1, <2>2, <2>3, <2>4 DEF Opens
<1>9. Founded'
  <2> SUFFICES ASSUME NEW t \in Tokens, issued'[t] # NoToken
               PROVE  \E e \in Tokens : e = Family(t)' /\ issued'[e] # NoToken
    BY DEF Founded, Family
  <2>1. CASE t # n
    BY <2>1, <1>3, <1>5, FamiliesAreTokens
  <2>2. CASE t = n
    <3>1. p = NoToken => issued'[f] # NoToken
      BY <1>3, <1>7
    <3>2. p # NoToken => issued'[f] # NoToken
      BY <1>5, <1>6, FamiliesAreTokens
    <3>3. QED
      BY <2>2, <3>1, <3>2, <1>4
  <2>3. QED
    BY <2>1, <2>2
<1>10. OneBrowser'
  BY <1>6, <1>7, <1>8, OpeningKeepsOneBrowser
<1>11. RotatesWithin'
  <2> SUFFICES ASSUME NEW g \in Handlers, work'[g] # Idle,
                      work'[g].token # NoToken, work'[g].next # NoToken
               PROVE  Family(work[g].next)' = Family(work[g].token)'
    BY DEF RotatesWithin
  <2>1. CASE g = h
    BY <2>1, <1>2, <1>4, <1>5, <1>6 DEF Family
  <2>2. CASE g # h
    <3>1. work'[g] = work[g] /\ work[g] # Idle
      BY <2>2, <1>2
    <3>2. /\ Family(work[g].token)' = Family(work[g].token)
          /\ Family(work[g].next)' = Family(work[g].next)
      BY <3>1, <1>1, <1>5, WorkFields DEF Grounded, Family
    <3>3. QED
      BY <3>1, <3>2 DEF RotatesWithin
  <2>3. QED
    BY <2>1, <2>2
<1>12. LoginSecret'
  <2> SUFFICES ASSUME NEW k \in Handlers, work'[k] # Idle,
                      work'[k].token = NoToken, work'[k].next # NoToken
               PROVE  /\ \A g \in Handlers \ {k} :
                           ~ WorksIn(g, Family(work[k].next))'
                      /\ \A d \in Clients : ~ HoldsIn(d, Family(work[k].next))'
    BY DEF LoginSecret
  <2>1. PICK e : e = Family(work[k].next)'
    OBVIOUS
  <2>2. /\ \A g \in Handlers \ {k} : ~ WorksIn(g, e)'
        /\ \A d \in Clients : ~ HoldsIn(d, e)'
    <3>1. CASE k = h
      <4>1. p = NoToken /\ e = f
        BY <3>1, <2>1, <1>2, <1>4 DEF Family
      <4>2. QED
        BY <3>1, <4>1, <1>7, <1>8 DEF Opens, WorksIn
    <3>2. CASE k # h
      <4>1. work'[k] = work[k] /\ work[k] # Idle
        BY <3>2, <1>2
      <4>2. e = Family(work[k].next) /\ GrantsIn(k, e)
        BY <4>1, <2>1, <1>1, <1>5, WorkFields DEF Grounded, Family, GrantsIn
      <4>3. /\ \A g \in Handlers \ {k} : ~ WorksIn(g, e)
            /\ \A d \in Clients : ~ HoldsIn(d, e)
        BY <4>1, <4>2 DEF LoginSecret
      <4>4. e # f
        BY <3>2, <4>2, <4>3, <1>6, <1>7 DEF WorksIn
      <4>5. QED
        BY <3>2, <4>3, <4>4, <1>8 DEF Opens, WorksIn
    <3>3. QED
      BY <3>1, <3>2
  <2>3. QED
    BY <2>1, <2>2 DEF WorksIn, Serving, GrantsIn, HoldsIn
<1>13. Presents'
  BY <1>2 DEF Presents, OnAToken
<1>14. QED
  BY <1>8, <1>9, <1>10, <1>11, <1>12, <1>13
-----------------------------------------------------------------------------
(* The reply of a login or a rotation hands the new token to its browser.  *)

LEMMA GrantShape ==
  ASSUME IInv, NEW h \in Handlers, ReplyGrant(h)
  PROVE  /\ work[h] # Idle /\ work[h].pc = "grant" /\ work[h].next # NoToken
         /\ work[h].client \in Clients
         /\ work'[h] = Idle
         /\ \A g \in Handlers \ {h} : work'[g] = work[g]
         /\ jar'[work[h].client] = work[h].next
         /\ \A c \in Clients \ {work[h].client} : jar'[c] = jar[c]
BY WorkFields DEF ReplyGrant, At, End, IInv, TypeOK

LEMMA GrantingTells ==
  ASSUME IInv, NEW h \in Handlers, ReplyGrant(h), NEW f
  PROVE  /\ \A g \in Handlers \ {h} : /\ Serving(g, f)' <=> Serving(g, f)
                                      /\ GrantsIn(g, f)' <=> GrantsIn(g, f)
         /\ ~ WorksIn(h, f)'
         /\ \A c \in Clients : HoldsIn(c, f)' =>
              IF c = work[h].client THEN GrantsIn(h, f) ELSE HoldsIn(c, f)
<1> USE GrantShape
<1>1. issued' = issued
  BY DEF ReplyGrant, table
<1>2. QED
  BY <1>1 DEF Serving, GrantsIn, WorksIn, HoldsIn, Family

LEMMA GrantingKeepsKnown ==
  ASSUME IInv, Known, NEW h \in Handlers, ReplyGrant(h)
  PROVE  Known'
<1> USE GrantShape DEF Known
<1>1. issued' = issued
  BY DEF ReplyGrant, table
<1>2. Founded'
  BY <1>1 DEF Founded, Family
<1>3. OneBrowser'
  <2> SUFFICES ASSUME NEW f \in Tokens
               PROVE  /\ \A c, d \in Clients : HoldsIn(c, f)' /\ HoldsIn(d, f)' => c = d
                      /\ \A c \in Clients, g \in Handlers :
                           HoldsIn(c, f)' /\ WorksIn(g, f)' => work'[g].client = c
                      /\ \A g, k \in Handlers : WorksIn(g, f)' /\ WorksIn(k, f)'
                           => work'[g].client = work'[k].client
    BY DEF OneBrowser
  <2>1. /\ \A c, d \in Clients : HoldsIn(c, f) /\ HoldsIn(d, f) => c = d
        /\ \A c \in Clients, g \in Handlers :
             HoldsIn(c, f) /\ WorksIn(g, f) => work[g].client = c
        /\ \A g, k \in Handlers : WorksIn(g, f) /\ WorksIn(k, f)
             => work[g].client = work[k].client
    BY DEF OneBrowser
  <2>2. \A g \in Handlers : WorksIn(g, f)'
          => g # h /\ WorksIn(g, f) /\ work'[g] = work[g]
    BY GrantingTells DEF WorksIn
  <2>3. \A c \in Clients : HoldsIn(c, f)'
          => HoldsIn(c, f) \/ (c = work[h].client /\ WorksIn(h, f))
    BY GrantingTells DEF WorksIn
  <2>4. QED
    BY <2>1, <2>2, <2>3
<1>4. RotatesWithin'
  BY <1>1 DEF RotatesWithin, Family
<1>5. LoginSecret'
  <2> SUFFICES ASSUME NEW k \in Handlers, work'[k] # Idle,
                      work'[k].token = NoToken, work'[k].next # NoToken
               PROVE  /\ \A g \in Handlers \ {k} :
                           ~ WorksIn(g, Family(work[k].next))'
                      /\ \A d \in Clients : ~ HoldsIn(d, Family(work[k].next))'
    BY DEF LoginSecret
  <2>1. PICK f : f = Family(work[k].next)
    OBVIOUS
  <2>2. /\ k # h /\ work'[k] = work[k] /\ Family(work[k].next)' = f
    BY <1>1, <2>1 DEF Family
  <2>3. /\ \A g \in Handlers \ {k} : ~ WorksIn(g, f)
        /\ \A d \in Clients : ~ HoldsIn(d, f)
    BY <2>1, <2>2 DEF LoginSecret
  <2>4. /\ \A g \in Handlers \ {k} : ~ WorksIn(g, f)'
        /\ \A d \in Clients : ~ HoldsIn(d, f)'
    BY <2>2, <2>3, GrantingTells DEF WorksIn
  <2>5. QED
    BY <2>2, <2>4 DEF WorksIn, Serving, GrantsIn, HoldsIn
<1>6. Presents'
  BY DEF Presents
<1>7. QED
  BY <1>2, <1>3, <1>4, <1>5, <1>6
-----------------------------------------------------------------------------
(* Undisturbed families.                                                   *)

Undisturbed == OneRequest /\ Alive

(* A live row is lost only if its token has expired, its family is         *)
(* disturbed, or a request of the family that is not yet answered did it.  *)
LosesItsOwn ==
  \A t \in Tokens : row[t] = "live" /\ row'[t] # "live" =>
    \/ t \in expired \/ Family(t) \in disturbed'
    \/ \E h \in Handlers : /\ Serving(h, Family(t))
                           /\ work'[h] # Idle /\ work'[h].pc # "grant"

(* A request that ends without a grant leaves no cookie of its family, or  *)
(* disturbs it.                                                            *)
LeavesNothing ==
  \A h \in Handlers, f \in Tokens \ disturbed' :
    Serving(h, f) /\ work'[h] = Idle => \A c \in Clients : ~ HoldsIn(c, f)'

LEMMA ProceedingKeepsUndisturbed ==
  ASSUME IInv, Known, Undisturbed, KnowsNoMore, LosesItsOwn, LeavesNothing,
         disturbed \subseteq disturbed', expired \subseteq expired',
         \A h \in Handlers : work'[h] # Idle /\ work'[h].pc = "grant"
           => work[h].pc = "grant" \/ row'[work[h].next] = "live"
  PROVE  Undisturbed'
<1> USE DEF Undisturbed, Known
<1>1. OneRequest'
  BY KnowingNoMore DEF OneRequest
<1>2. \A g \in Handlers : work'[g] # Idle => work[g] # Idle /\ SameRequest(g)
  BY DEF KnowsNoMore, Proceeds
<1>3. ASSUME NEW f \in Tokens \ disturbed', NEW c \in Clients,
             HoldsIn(c, f)', jar'[c] \notin expired',
             \A h \in Handlers : ~ Serving(h, f)'
      PROVE  row'[jar'[c]] = "live"
  <2>1. HoldsIn(c, f) /\ jar'[c] = jar[c] /\ jar[c] \in Tokens
    BY <1>3, KnowingNoMore, FamiliesAreTokens
  <2>2. \A h \in Handlers : ~ Serving(h, f)
    <3> SUFFICES ASSUME NEW h \in Handlers, Serving(h, f) PROVE FALSE
      OBVIOUS
    <3>1. CASE work'[h] = Idle
      BY <3>1, <1>3 DEF LeavesNothing
    <3>2. CASE work'[h] # Idle
      BY <3>2, <1>2, <1>3 DEF Serving, SameRequest, KnowsNoMore, Family
    <3>3. QED
      BY <3>1, <3>2
  <2>3. row[jar[c]] = "live"
    BY <1>3, <2>1, <2>2 DEF Alive
  <2>4. QED
    BY <1>3, <2>1, <2>2, <2>3 DEF LosesItsOwn, HoldsIn
<1>4. ASSUME NEW f \in Tokens \ disturbed', NEW h \in Handlers,
             GrantsIn(h, f)', work'[h].pc = "grant",
             work'[h].next \notin expired'
      PROVE  row'[work'[h].next] = "live"
  <2> DEFINE n == work[h].next
  <2>1. /\ GrantsIn(h, f) /\ work'[h].next = n /\ n \in Tokens
        /\ work[h] # Idle /\ work'[h] # Idle /\ n # NoToken /\ Family(n) = f
    BY <1>2, <1>4, KnowingNoMore, FamiliesAreTokens DEF GrantsIn, SameRequest
  <2>2. CASE row'[n] = "live"
    BY <2>1, <2>2
  <2>3. CASE row'[n] # "live"
    <3>1. work[h].pc = "grant"
      BY <2>1, <2>3, <1>4
    <3>2. row[n] = "live" /\ n \notin expired
      BY <1>4, <2>1, <3>1 DEF Alive
    <3>3. PICK k \in Handlers :
            Serving(k, f) /\ work'[k] # Idle /\ work'[k].pc # "grant"
      BY <1>4, <2>1, <2>3, <3>2 DEF LosesItsOwn
    <3>4. k # h
      BY <1>4, <3>3
    <3>5. CASE work[h].token = NoToken
      BY <2>1, <3>3, <3>4, <3>5 DEF LoginSecret, WorksIn
    <3>6. CASE work[h].token # NoToken
      <4>1. Serving(h, f)
        BY <2>1, <3>6 DEF RotatesWithin, Serving
      <4>2. QED
        BY <1>4, <3>3, <3>4, <4>1 DEF OneRequest
    <3>7. QED
      BY <3>5, <3>6
  <2>4. QED
    BY <2>2, <2>3
<1>5. Alive'
  BY <1>3, <1>4 DEF Alive
<1>6. QED
  BY <1>1, <1>5

LEMMA OpeningKeepsUndisturbed ==
  ASSUME IInv, Known, Undisturbed, NEW h \in Handlers, NEW c \in Clients,
         \A f \in Tokens : Opens(h, c, f),
         disturbed \subseteq disturbed', expired' = expired, row' = row,
         \A f \in Tokens : Serving(h, f)' /\ (\E g \in Handlers : Serving(g, f))
                          => f \in disturbed'
  PROVE  Undisturbed'
<1> USE DEF Undisturbed
<1>1. OneRequest'
  <2> SUFFICES ASSUME NEW f \in Tokens \ disturbed', NEW g \in Handlers,
                      NEW k \in Handlers, Serving(g, f)', Serving(k, f)'
               PROVE  g = k
    BY DEF OneRequest
  <2>1. CASE g # h /\ k # h
    BY <2>1 DEF Opens, OneRequest
  <2>2. CASE g = h /\ k # h
    BY <2>2 DEF Opens
  <2>3. CASE g # h /\ k = h
    BY <2>3 DEF Opens
  <2>4. QED
    BY <2>1, <2>2, <2>3
<1>2. Alive'
  <2> SUFFICES ASSUME NEW f \in Tokens \ disturbed'
               PROVE  /\ \A d \in Clients :
                           /\ HoldsIn(d, f)' /\ jar'[d] \notin expired'
                           /\ \A g \in Handlers : ~ Serving(g, f)'
                           => row'[jar'[d]] = "live"
                      /\ \A g \in Handlers : GrantsIn(g, f)' /\ work'[g].pc = "grant"
                           => \/ work'[g].next \in expired'
                              \/ row'[work'[g].next] = "live"
    BY DEF Alive
  <2>1. \A g \in Handlers : Serving(g, f) => Serving(g, f)'
    BY DEF Opens, Serving
  <2>2. \A g \in Handlers : GrantsIn(g, f)' /\ work'[g].pc = "grant"
          => GrantsIn(g, f) /\ work'[g] = work[g]
    BY DEF Opens
  <2>3. QED
    BY <2>1, <2>2 DEF Alive, Opens
<1>3. QED
  BY <1>1, <1>2

LEMMA GrantingKeepsUndisturbed ==
  ASSUME IInv, Known, Undisturbed, NEW h \in Handlers, ReplyGrant(h)
  PROVE  Undisturbed'
<1> USE GrantShape DEF Undisturbed, Known
<1>1. disturbed' = disturbed /\ row' = row /\ expired' = expired
  BY DEF ReplyGrant, table
<1>2. OneRequest'
  BY <1>1, GrantingTells DEF OneRequest, WorksIn
<1>3. ASSUME NEW f \in Tokens \ disturbed, NEW c \in Clients,
             HoldsIn(c, f)', jar'[c] \notin expired,
             \A g \in Handlers : ~ Serving(g, f)'
      PROVE  row[jar'[c]] = "live"
  <2>1. CASE c = work[h].client
    <3>1. GrantsIn(h, f) /\ jar'[c] = work[h].next
      BY <2>1, <1>3, GrantingTells
    <3>2. QED
      BY <1>3, <3>1 DEF Alive
  <2>2. CASE c # work[h].client
    <3>1. HoldsIn(c, f) /\ jar'[c] = jar[c]
      BY <2>2, <1>3, GrantingTells
    <3>2. ~ Serving(h, f)
      BY <2>2, <3>1 DEF OneBrowser, WorksIn
    <3>3. \A g \in Handlers : ~ Serving(g, f)
      BY <3>2, <1>3, GrantingTells
    <3>4. QED
      BY <1>3, <3>1, <3>3 DEF Alive
  <2>3. QED
    BY <2>1, <2>2
<1>4. \A f \in Tokens \ disturbed, g \in Handlers :
        GrantsIn(g, f)' /\ work'[g].pc = "grant"
          => work'[g].next \in expired \/ row[work'[g].next] = "live"
  BY GrantingTells DEF Alive, WorksIn
<1>5. Alive'
  BY <1>1, <1>3, <1>4 DEF Alive
<1>6. QED
  BY <1>2, <1>5
-----------------------------------------------------------------------------
(* Every step keeps both.                                                  *)

LEMMA EndProceeds ==
  ASSUME TypeOK, NEW h \in Handlers, End(h)
  PROVE  /\ Proceeds /\ work'[h] = Idle
         /\ \A g \in Handlers \ {h} : work'[g] = work[g]
BY DEF TypeOK, End, Proceeds, SameRequest

LEMMA GoProceeds ==
  ASSUME TypeOK, NEW h \in Handlers, work[h] # Idle,
         NEW pc \in {"insert", "grant", "audit", "delete", "clear"},
         pc \in {"insert", "grant"} => work[h].pc \in {"mark", "insert"},
         Go(h, pc)
  PROVE  /\ Proceeds /\ work'[h] # Idle /\ work'[h].pc = pc
         /\ \A g \in Handlers \ {h} : work'[g] = work[g]
<1>1. pc \in Pcs
  BY DEF Pcs
<1>2. QED
  BY <1>1, GoShape DEF Proceeds, SameRequest, OnAToken

LEMMA SameProceeds == work' = work => Proceeds
BY DEF Proceeds, SameRequest

(* The request of h goes on; the rows that lose "live" are in its family.  *)
LEMMA GoingKeepsSurvival ==
  ASSUME IInv, Known, Undisturbed, NEW h \in Handlers, work[h] # Idle,
         NEW pc \in {"insert", "grant", "audit", "delete", "clear"},
         pc \in {"insert", "grant"} => work[h].pc \in {"mark", "insert"},
         Go(h, pc), issued' = issued, jar' = jar, expired' = expired,
         disturbed \subseteq disturbed',
         pc = "grant" => row'[work[h].next] = "live",
         \A t \in Tokens : row[t] = "live" /\ row'[t] # "live" =>
           \/ Family(t) \in disturbed'
           \/ Serving(h, Family(t)) /\ pc # "grant"
  PROVE  Known' /\ Undisturbed'
<1>1. /\ Proceeds /\ work'[h] # Idle /\ work'[h].pc = pc
      /\ \A g \in Handlers \ {h} : work'[g] = work[g]
  BY GoProceeds DEF IInv
<1>2. KnowsNoMore
  BY <1>1 DEF KnowsNoMore
<1>3. LosesItsOwn
  BY <1>1 DEF LosesItsOwn
<1>4. LeavesNothing
  BY <1>1 DEF LeavesNothing, Serving
<1>5. \A g \in Handlers : work'[g] # Idle /\ work'[g].pc = "grant"
        => work[g].pc = "grant" \/ row'[work[g].next] = "live"
  BY <1>1
<1>6. QED
  BY <1>2, <1>3, <1>4, <1>5, ProceedingKeepsKnown, ProceedingKeepsUndisturbed

(* No row but those of expired tokens is lost, no request goes on.         *)
LEMMA QuietKeepsSurvival ==
  ASSUME IInv, Known, Undisturbed, Proceeds, LeavesNothing,
         \A h \in Handlers : work'[h] # Idle => work'[h] = work[h],
         issued' = issued, \A c \in Clients : jar'[c] \in {jar[c], NoToken},
         expired \subseteq expired', disturbed \subseteq disturbed',
         \A t \in Tokens : row[t] = "live" /\ row'[t] # "live" => t \in expired
  PROVE  Known' /\ Undisturbed'
<1>1. KnowsNoMore
  BY DEF KnowsNoMore
<1>2. LosesItsOwn
  BY DEF LosesItsOwn
<1>3. \A h \in Handlers : work'[h] # Idle /\ work'[h].pc = "grant"
        => work[h].pc = "grant" \/ row'[work[h].next] = "live"
  OBVIOUS
<1>4. QED
  BY <1>1, <1>2, <1>3, ProceedingKeepsKnown, ProceedingKeepsUndisturbed

LEMMA SameLeavesNothing == work' = work => LeavesNothing
BY DEF LeavesNothing, Serving

(* Rows deleted by a request of the family, or of an account whose         *)
(* families it disturbs.                                                   *)
LEMMA FamilyRows ==
  ASSUME TypeOK, NEW h \in Handlers, work[h] # Idle, work[h].token # NoToken,
         NEW t \in Tokens,
         \/ DeleteRows(FamilyOf(work[h].token))
         \/ DeleteRows({work[h].token}) \/ row' = row,
         row'[t] # row[t]
  PROVE  Serving(h, Family(t))
BY DEF DeleteRows, FamilyOf, Serving

LEMMA UserRows ==
  ASSUME TypeOK, NEW u, DeleteRows(TokensOf(u)),
         disturbed' = disturbed \cup {Family(t) : t \in TokensOf(u)},
         NEW t \in Tokens, row'[t] # row[t]
  PROVE  Family(t) \in disturbed'
BY DEF DeleteRows

LEMMA SurvivalStep ==
  IInv /\ Known /\ Undisturbed /\ [Next]_vars => Known' /\ Undisturbed'
<1> SUFFICES ASSUME IInv, Known, Undisturbed, [Next]_vars
             PROVE  Known' /\ Undisturbed'
  OBVIOUS
<1> USE DEF people, table, At
<1>1. TypeOK /\ Presents
  BY DEF IInv, Known
<1>2. ASSUME NEW h \in Handlers, SessionStep(h) PROVE Known' /\ Undisturbed'
  <2>1. CASE RegisterInsert(h)
    <3>1. LeavesNothing
      BY <2>1, <1>1, EndProceeds
         DEF RegisterInsert, LeavesNothing, Serving, Presents
    <3>2. QED
      BY <2>1, <3>1, <1>1, EndProceeds, QuietKeepsSurvival DEF RegisterInsert
  <2>2. CASE MarkConsumed(h)
    <3>1. \A t \in Tokens : row'[t] # row[t] => t = work[h].token
      BY <2>2, <1>1 DEF MarkConsumed, TypeOK
    <3>2. \A t \in Tokens : row'[t] # row[t] => Serving(h, Family(t))
      BY <2>2, <3>1, <1>1 DEF MarkConsumed, Serving, Presents, OnAToken
    <3>3. QED
      BY <2>2, <3>2, GoingKeepsSurvival DEF MarkConsumed
  <2>3. CASE InsertToken(h)
    <3>1. work[h].next \in Tokens
      BY <2>3, <1>1, WorkFields DEF InsertToken, TypeOK
    <3>2. row'[work[h].next] = "live"
      BY <2>3, <3>1, <1>1 DEF InsertToken, TypeOK
    <3>3. \A t \in Tokens : row[t] = "live" => row'[t] = "live"
      BY <2>3, <1>1 DEF InsertToken, TypeOK
    <3>4. QED
      BY <2>3, <3>2, <3>3, GoingKeepsSurvival DEF InsertToken
  <2>4. CASE RevokeFamily(h)
    <3>1. \A t \in Tokens : row'[t] # row[t] => Serving(h, Family(t))
      BY <2>4, <1>1, FamilyRows DEF RevokeFamily, Presents, OnAToken
    <3>2. QED
      BY <2>4, <3>1, GoingKeepsSurvival DEF RevokeFamily
  <2>5. CASE AuditReuse(h)
    BY <2>5, GoingKeepsSurvival DEF AuditReuse
  <2>6. CASE CollectExpired(h)
    <3>1. \A t \in Tokens : row'[t] # row[t] => Serving(h, Family(t))
      BY <2>6, <1>1, FamilyRows DEF CollectExpired, Presents, OnAToken
    <3>2. QED
      BY <2>6, <3>1, GoingKeepsSurvival DEF CollectExpired
  <2>7. CASE LogoutRevoke(h)
    <3>1. \A t \in Tokens : row'[t] # row[t] => Serving(h, Family(t))
      BY <2>7, <1>1, FamilyRows DEF LogoutRevoke, Presents, OnAToken
    <3>2. QED
      BY <2>7, <3>1, GoingKeepsSurvival DEF LogoutRevoke
  <2>8. CASE DeleteTokens(h)
    <3>1. \A t \in Tokens : row'[t] # row[t] => Family(t) \in disturbed'
      BY <2>8, <1>1, UserRows DEF DeleteTokens
    <3>2. disturbed \subseteq disturbed'
      BY <2>8 DEF DeleteTokens
    <3>3. QED
      BY <2>8, <3>1, <3>2, GoingKeepsSurvival DEF DeleteTokens
  <2>9. CASE DeleteUser(h)
    <3>1. \A t \in Tokens : row'[t] # row[t] => Family(t) \in disturbed'
      BY <2>9, <1>1, UserRows DEF DeleteUser
    <3>2. disturbed \subseteq disturbed'
      BY <2>9 DEF DeleteUser
    <3>3. QED
      BY <2>9, <3>1, <3>2, GoingKeepsSurvival DEF DeleteUser
  <2>10. CASE ReplyGrant(h)
    BY <2>10, GrantingKeepsKnown, GrantingKeepsUndisturbed
  <2>11. CASE ReplyClear(h)
    <3>1. work[h] # Idle /\ work[h].client \in Clients
      BY <2>11, <1>1, WorkFields DEF ReplyClear
    <3>2. /\ jar'[work[h].client] = NoToken
          /\ \A c \in Clients \ {work[h].client} : jar'[c] = jar[c]
          /\ \A c \in Clients : jar'[c] \in {jar[c], NoToken}
          /\ issued' = issued
      BY <2>11, <3>1, <1>1 DEF ReplyClear, TypeOK
    <3>3. ASSUME NEW g \in Handlers, NEW f \in Tokens, Serving(g, f),
                 work'[g] = Idle, NEW c \in Clients, HoldsIn(c, f)'
          PROVE  FALSE
      <4>1. g = h
        BY <2>11, <3>3, <1>1, EndProceeds DEF ReplyClear, Serving
      <4>2. HoldsIn(c, f) /\ c # work[h].client
        BY <3>2, <3>3 DEF HoldsIn, Family
      <4>3. QED
        BY <4>1, <4>2, <3>3 DEF Known, OneBrowser, WorksIn
    <3>4. LeavesNothing
      BY <3>3 DEF LeavesNothing
    <3>5. QED
      BY <2>11, <3>2, <3>4, <1>1, EndProceeds, QuietKeepsSurvival DEF ReplyClear
  <2>12. CASE Abort(h)
    <3>1. /\ Proceeds /\ work'[h] = Idle
          /\ \A g \in Handlers \ {h} : work'[g] = work[g]
      BY <2>12, <1>1, EndProceeds DEF Abort
    <3>2. \A f \in Tokens : Serving(h, f) => f \in disturbed'
      BY <2>12 DEF Abort, Disturb, Serving
    <3>3. LeavesNothing
      BY <3>1, <3>2 DEF LeavesNothing, Serving
    <3>4. disturbed \subseteq disturbed'
      BY <2>12 DEF Abort, Disturb
    <3>5. QED
      BY <2>12, <3>1, <3>3, <3>4, QuietKeepsSurvival DEF Abort
  <2>13. QED
    BY <1>2, <2>1, <2>2, <2>3, <2>4, <2>5, <2>6, <2>7, <2>8, <2>9, <2>10,
       <2>11, <2>12 DEF SessionStep
<1>3. ASSUME NEW h \in Handlers, NEW c \in Clients, SessionRequest(h, c)
      PROVE  Known' /\ Undisturbed'
  <2>1. ASSUME NEW t \in {NoToken, jar[c]}, NEW u, NEW pc, NEW n,
               Begin(h, pc, c, u, t, n), Known',
               \A f \in Tokens : Opens(h, c, f),
               row' = row, expired' = expired,
               IF t = NoToken THEN disturbed' = disturbed ELSE Overlap(t)
        PROVE  Undisturbed'
    <3>1. work'[h].token = t
      BY <2>1, <1>1 DEF Begin, TypeOK
    <3>2. disturbed \subseteq disturbed'
      BY <2>1 DEF Overlap
    <3>3. \A f \in Tokens : Serving(h, f)' /\ (\E g \in Handlers : Serving(g, f))
            => f \in disturbed'
      <4> SUFFICES ASSUME NEW f \in Tokens, Serving(h, f)',
                          NEW g \in Handlers, Serving(g, f)
                   PROVE  f \in disturbed'
        OBVIOUS
      <4>1. t # NoToken /\ t = jar[c]
        BY <3>1 DEF Serving
      <4>2. HoldsIn(c, f)
        BY <2>1 DEF Opens
      <4>3. QED
        BY <2>1, <4>1, <4>2 DEF HoldsIn, Overlap
    <3>4. QED
      BY <2>1, <3>2, <3>3, OpeningKeepsUndisturbed
  <2>2. ASSUME NEW pc \in {"revoke", "collect", "logout", "clear"},
               NEW u \in Users \cup {NoUser}, jar[c] # NoToken,
               Begin(h, pc, c, u, jar[c], NoToken), Overlap(jar[c]),
               issued' = issued, jar' = jar, row' = row, expired' = expired
        PROVE  Known' /\ Undisturbed'
    <3>1. pc \in Pcs \ {"mark", "insert", "grant"} /\ pc # "register"
      BY DEF Pcs
    <3>2. Known' /\ \A f \in Tokens : Opens(h, c, f)
      BY <2>2, <3>1, BeginningKeepsKnown
    <3>3. QED
      BY <2>1, <2>2, <3>2
  <2>3. ASSUME NEW u \in Users, RegisterFind(h, c, u) \/ DeleteBegin(h, c, u)
        PROVE  Known' /\ Undisturbed'
    <3>1. PICK pc \in {"register", "erase"} :
            /\ Begin(h, pc, c, u, NoToken, NoToken)
            /\ issued' = issued /\ jar' = jar /\ row' = row
            /\ expired' = expired /\ disturbed' = disturbed
      BY <2>3 DEF RegisterFind, DeleteBegin
    <3>2. /\ pc \in Pcs \ {"mark", "insert", "grant"} /\ pc \notin OnAToken
          /\ pc \in Pcs
      BY DEF Pcs, OnAToken
    <3>3. Known' /\ \A f \in Tokens : Opens(h, c, f)
      BY <3>1, <3>2, BeginningKeepsKnown
    <3>4. QED
      BY <2>1, <3>1, <3>3
  <2>4. ASSUME NEW u \in Users, NEW n \in Tokens, LoginFind(h, c, u, n)
        PROVE  Known' /\ Undisturbed'
    <3>1. Known' /\ \A f \in Tokens : Opens(h, c, f)
      BY <2>4, DrawingKeepsKnown DEF LoginFind
    <3>2. QED
      BY <2>1, <2>4, <3>1 DEF LoginFind
  <2>5. ASSUME NEW n \in Tokens, RotateFind(h, c, n)
        PROVE  Known' /\ Undisturbed'
    <3>1. /\ issued[jar[c]].user \in Users /\ Family(jar[c]) \in Tokens
          /\ jar[c] # NoToken
      BY <2>5, <1>1, JarTyped DEF RotateFind, Family, IInv
    <3>2. Known' /\ \A f \in Tokens : Opens(h, c, f)
      BY <2>5, <3>1, DrawingKeepsKnown DEF RotateFind
    <3>3. QED
      BY <2>1, <2>5, <3>1, <3>2 DEF RotateFind
  <2>6. CASE RotateRefused(h, c)
    <3>1. issued[jar[c]].user \in Users /\ jar[c] # NoToken
      BY <2>6, <1>1, JarTyped DEF RotateRefused, IInv
    <3>2. QED
      BY <2>2, <2>6, <3>1 DEF RotateRefused
  <2>7. CASE LogoutFind(h, c)
    <3> DEFINE pc == IF row[jar[c]] = "absent" THEN "clear" ELSE "logout"
    <3>1. /\ pc \in {"clear", "logout"}
          /\ Begin(h, pc, c, NoUser, jar[c], NoToken)
      BY <2>7 DEF LogoutFind
    <3> HIDE DEF pc
    <3>2. QED
      BY <2>2, <2>7, <3>1 DEF LogoutFind
  <2>8. QED
    BY <1>3, <2>3, <2>4, <2>5, <2>6, <2>7 DEF SessionRequest
<1>4. CASE LoginRefused
  BY <1>4, SameProceeds, SameLeavesNothing, QuietKeepsSurvival DEF LoginRefused
<1>5. CASE PurgeTokens
  BY <1>5, SameProceeds, SameLeavesNothing, QuietKeepsSurvival
     DEF PurgeTokens, DeleteRows
<1>6. CASE \E t \in Tokens : Expire(t)
  BY <1>6, SameProceeds, SameLeavesNothing, QuietKeepsSurvival DEF Expire
<1>7. CASE \E c \in Clients : CookieExpires(c)
  <2>1. \A c \in Clients : jar'[c] \in {jar[c], NoToken}
    BY <1>1, <1>7 DEF CookieExpires, TypeOK
  <2>2. QED
    BY <1>7, <2>1, SameProceeds, SameLeavesNothing, QuietKeepsSurvival
       DEF CookieExpires
<1>8. CASE UNCHANGED vars
  BY <1>8, SameProceeds, SameLeavesNothing, QuietKeepsSurvival DEF vars
<1>9. QED
  BY <1>2, <1>3, <1>4, <1>5, <1>6, <1>7, <1>8 DEF Next
-----------------------------------------------------------------------------
LEMMA SurvivalInvariance == Spec => []SInv
<1>1. Init => SInv
  BY InvInit DEF Init, SInv, Known, Founded, OneBrowser, HoldsIn, WorksIn,
     Serving, GrantsIn, RotatesWithin, LoginSecret, Presents, OneRequest, Alive
<1>2. SInv /\ [Next]_vars => SInv'
  BY InvStep, SurvivalStep DEF SInv, Undisturbed
<1>3. QED
  BY <1>1, <1>2, PTL DEF Spec

(* ADR-056, "other logins (their own families) survive": whatever else is  *)
(* logged in, rotated, replayed, revoked, logged out or purged meanwhile, a *)
(* session that RefreshSession served one answered request at a time keeps *)
(* the row of its token until that token expires or the account goes.      *)
THEOREM UndisturbedIsKept == Spec => []UndisturbedSurvives
<1>1. SInv => UndisturbedSurvives
  <2> SUFFICES ASSUME SInv, NEW c \in Clients,
                      jar[c] # NoToken, jar[c] \notin expired,
                      Family(jar[c]) \notin disturbed,
                      \A h \in Handlers : ~ Serving(h, Family(jar[c]))
               PROVE  row[jar[c]] = "live"
    BY DEF UndisturbedSurvives
  <2>1. PICK f : f = Family(jar[c])
    OBVIOUS
  <2>2. HoldsIn(c, f)
    BY <2>1 DEF HoldsIn
  <2>3. f \in Tokens \ disturbed
    BY <2>1, <2>2, FamiliesAreTokens DEF SInv, Known
  <2>4. QED
    BY <2>1, <2>2, <2>3 DEF SInv, Alive
<1>2. QED
  BY <1>1, SurvivalInvariance, PTL
=============================================================================
