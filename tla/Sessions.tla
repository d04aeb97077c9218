------------------------------ MODULE Sessions -------------------------------
(***************************************************************************)
(* Registration, login, refresh-token rotation with reuse detection        *)
(* (ADR-008, ADR-056), logout, account deletion (ADR-058) and the purge of *)
(* expired tokens, as they run in the server: each handler is a sequence   *)
(* of awaited statements of PostgreSQL, and any number of them interleave. *)
(*                                                                         *)
(* A client is a browser: one cookie jar shared by its tabs, from which    *)
(* any number of requests may start before the replies of earlier ones     *)
(* arrive.  All the accounts here have the same e-mail address.            *)
(***************************************************************************)
EXTENDS Naturals, FiniteSets

CONSTANTS
  Clients,   (* browsers                                                   *)
  Users,     (* account identifiers, each drawn once                       *)
  Tokens,    (* refresh tokens with their hashes, each drawn once          *)
  Handlers,  (* requests the server executes at the same time              *)
  NoUser, NoToken, Idle

ASSUME NoneAreNot == NoUser \notin Users /\ NoToken \notin Tokens

VARIABLES
  accounts,   (* table users                                               *)
  known,      (* user identifiers already drawn                            *)
  issued,     (* what each token drawn so far was issued as                *)
  row,        (* table refresh_tokens: is the row there, is it consumed    *)
  expired,    (* tokens past their expires_at                              *)
  events,     (* table security_events, as a set                           *)
  jar,        (* the refresh cookie of each client                         *)
  work,       (* what each handler is executing                            *)
  disturbed   (* history: families met by something other than a sequence  *)
              (* of answered requests                                      *)

vars == <<accounts, known, issued, row, expired, events, jar, work, disturbed>>

(* The columns of a token that never change; `parent` is history: the      *)
(* token it was rotated from.  A family is named by its first token.       *)
Issue == [user : Users, family : Tokens, parent : Tokens \cup {NoToken}]

ASSUME NoTokenIsNoIssue == NoToken \notin Issue

(* login_refused stands for login_failed and login_throttled.              *)
EventKinds == {"login_refused", "refresh_reuse_detected"}

(* What a handler does next.                                               *)
(*   register  RegisterUser: users.insert                                  *)
(*   insert    refresh_tokens.insert of `next`, at login or rotation       *)
(*   mark      rotate: mark_consumed        revoke  rotate: delete_family  *)
(*   audit     rotate: audit.record         collect rotate: delete         *)
(*   logout    revoke: delete_family                                       *)
(*   erase     DeleteAccount: refresh_tokens.delete_all_for_user           *)
(*   delete    DeleteAccount: users.delete                                 *)
(*   grant     the reply sets the cookie    clear   the reply clears it    *)
Pcs == {"register", "insert", "mark", "revoke", "audit", "collect", "logout",
        "erase", "delete", "grant", "clear"}

Work == [pc : Pcs, client : Clients, user : Users \cup {NoUser},
         token : Tokens \cup {NoToken}, next : Tokens \cup {NoToken}]

ASSUME IdleIsNoWork == Idle \notin Work

TypeOK ==
  /\ accounts \subseteq known /\ known \subseteq Users
  /\ issued \in [Tokens -> Issue \cup {NoToken}]
  /\ row \in [Tokens -> {"absent", "live", "consumed"}]
  /\ \A t \in Tokens : row[t] # "absent" => issued[t] # NoToken
  /\ expired \subseteq Tokens
  /\ events \subseteq [kind : EventKinds, user : Users \cup {NoUser}]
  /\ jar \in [Clients -> Tokens \cup {NoToken}]
  /\ work \in [Handlers -> Work \cup {Idle}]
  /\ \A h \in Handlers :
       work[h] # Idle /\ work[h].pc \in {"mark", "insert", "grant"}
         => work[h].user # NoUser /\ work[h].next # NoToken
  /\ disturbed \subseteq Tokens

Init ==
  /\ accounts = {}
  /\ known = {}
  /\ issued = [t \in Tokens |-> NoToken]
  /\ row = [t \in Tokens |-> "absent"]
  /\ expired = {}
  /\ events = {}
  /\ jar = [c \in Clients |-> NoToken]
  /\ work = [h \in Handlers |-> Idle]
  /\ disturbed = {}
-----------------------------------------------------------------------------
At(h, pc) == work[h] # Idle /\ work[h].pc = pc

Begin(h, pc, c, u, t, n) ==
  /\ work[h] = Idle
  /\ work' = [work EXCEPT
       ![h] = [pc |-> pc, client |-> c, user |-> u, token |-> t, next |-> n]]

Go(h, pc) == work' = [work EXCEPT ![h].pc = pc]
End(h) == work' = [work EXCEPT ![h] = Idle]

Family(t) == issued[t].family

(* A request in flight that presented a token of family f.                 *)
Serving(h, f) ==
  /\ work[h] # Idle
  /\ work[h].token # NoToken
  /\ Family(work[h].token) = f

DeleteRows(gone) ==
  row' = [t \in Tokens |-> IF t \in gone THEN "absent" ELSE row[t]]

FamilyOf(t) == {s \in Tokens : issued[s] # NoToken /\ Family(s) = Family(t)}

TokensOf(u) == {t \in Tokens : issued[t] # NoToken /\ issued[t].user = u}

(* RefreshToken::issue_in_family                                           *)
Draw(n, u, f, p) ==
  /\ issued[n] = NoToken
  /\ issued' = [issued EXCEPT ![n] = [user |-> u, family |-> f, parent |-> p]]

(* History: a second request presents a token of the family before the     *)
(* first is answered.                                                      *)
Overlap(t) ==
  disturbed' = IF \E h \in Handlers : Serving(h, Family(t))
               THEN disturbed \cup {Family(t)}
               ELSE disturbed

Disturb(h) ==
  disturbed' = IF work[h].token # NoToken
               THEN disturbed \cup {Family(work[h].token)}
               ELSE disturbed

(* record_security_event: best effort, it may be lost.  The foreign key on *)
(* user_id refuses an event of an account that is gone.                    *)
Record(kind, u) ==
  \/ events' = events
  \/ /\ u \in accounts \cup {NoUser}
     /\ events' = events \cup {[kind |-> kind, user |-> u]}

people == <<accounts, known>>
table == <<issued, row>>
-----------------------------------------------------------------------------
(* RegisterUser::execute: find_by_email and the construction of the user.  *)
RegisterFind(h, c, u) ==
  /\ accounts = {}
  /\ u \notin known
  /\ known' = known \cup {u}
  /\ Begin(h, "register", c, u, NoToken, NoToken)
  /\ UNCHANGED <<accounts, table, expired, events, jar, disturbed>>

(* Mutant: users.email is not unique.                                      *)
RegisterInsertAny(h) ==
  /\ At(h, "register")
  /\ accounts' = accounts \cup {work[h].user}
  /\ End(h)
  /\ UNCHANGED <<known, table, expired, events, jar, disturbed>>

(* users.insert: the unique e-mail refuses a second account.               *)
RegisterInsert(h) ==
  /\ At(h, "register")
  /\ accounts' = IF accounts = {} THEN {work[h].user} ELSE accounts
  /\ End(h)
  /\ UNCHANGED <<known, table, expired, events, jar, disturbed>>

(* The throttle lets the login through, the account is found, its password *)
(* verified, and the first token of a new family drawn.                    *)
LoginFind(h, c, u, n) ==
  /\ u \in accounts
  /\ Draw(n, u, n, NoToken)
  /\ Begin(h, "insert", c, u, NoToken, n)
  /\ UNCHANGED <<people, row, expired, events, jar, disturbed>>

(* Throttled before the password is verified, or no such credentials.      *)
LoginRefused ==
  /\ Record("login_refused", NoUser)
  /\ UNCHANGED <<people, table, expired, jar, work, disturbed>>
-----------------------------------------------------------------------------
(* RefreshSession::rotate                                                  *)

(* Mutant: rotation inserts the next token and never marks the old one.    *)
RotateFindUnmarked(h, c, n) ==
  /\ jar[c] # NoToken
  /\ row[jar[c]] = "live" /\ jar[c] \notin expired
  /\ Draw(n, issued[jar[c]].user, Family(jar[c]), jar[c])
  /\ Begin(h, "insert", c, issued[jar[c]].user, jar[c], n)
  /\ Overlap(jar[c])
  /\ UNCHANGED <<people, row, expired, events, jar>>

(* find_by_hash of a token that is neither consumed nor expired.  The next *)
(* token is built after the mark; nobody sees it before its insertion.     *)
RotateFind(h, c, n) ==
  /\ jar[c] # NoToken
  /\ row[jar[c]] = "live" /\ jar[c] \notin expired
  /\ Draw(n, issued[jar[c]].user, Family(jar[c]), jar[c])
  /\ Begin(h, "mark", c, issued[jar[c]].user, jar[c], n)
  /\ Overlap(jar[c])
  /\ UNCHANGED <<people, row, expired, events, jar>>

(* The other outcomes of the find: unknown, consumed, expired.             *)
RotateRefused(h, c) ==
  /\ jar[c] # NoToken
  /\ \/ row[jar[c]] = "absent"
        /\ Begin(h, "clear", c, NoUser, jar[c], NoToken)
     \/ row[jar[c]] = "consumed"
        /\ Begin(h, "revoke", c, issued[jar[c]].user, jar[c], NoToken)
     \/ row[jar[c]] = "live" /\ jar[c] \in expired
        /\ Begin(h, "collect", c, issued[jar[c]].user, jar[c], NoToken)
  /\ Overlap(jar[c])
  /\ UNCHANGED <<people, table, expired, events, jar>>

(* UPDATE ... SET consumed_at: whatever it was, and of no row if gone.     *)
MarkConsumed(h) ==
  /\ At(h, "mark")
  /\ row' = [row EXCEPT ![work[h].token] =
               IF @ = "absent" THEN "absent" ELSE "consumed"]
  /\ Go(h, "insert")
  /\ UNCHANGED <<people, issued, expired, events, jar, disturbed>>

(* Mutant: no foreign key on user_id.                                      *)
InsertTokenUnchecked(h) ==
  /\ At(h, "insert")
  /\ row' = [row EXCEPT ![work[h].next] = "live"]
  /\ Go(h, "grant")
  /\ UNCHANGED <<people, issued, expired, events, jar, disturbed>>

(* Login and rotation; the foreign key refuses the token of an account     *)
(* deleted meanwhile (an Abort).                                           *)
InsertToken(h) ==
  /\ At(h, "insert")
  /\ work[h].user \in accounts
  /\ row' = [row EXCEPT ![work[h].next] = "live"]
  /\ Go(h, "grant")
  /\ UNCHANGED <<people, issued, expired, events, jar, disturbed>>

(* Mutant: a detected reuse revokes every session of the account.          *)
RevokeEverySession(h) ==
  /\ At(h, "revoke")
  /\ DeleteRows(TokensOf(work[h].user))
  /\ Go(h, "audit")
  /\ UNCHANGED <<people, issued, expired, events, jar, disturbed>>

(* A consumed token was presented: delete_family, then the audit.          *)
RevokeFamily(h) ==
  /\ At(h, "revoke")
  /\ DeleteRows(FamilyOf(work[h].token))
  /\ Go(h, "audit")
  /\ UNCHANGED <<people, issued, expired, events, jar, disturbed>>

AuditReuse(h) ==
  /\ At(h, "audit")
  /\ Record("refresh_reuse_detected", work[h].user)
  /\ Go(h, "clear")
  /\ UNCHANGED <<people, table, expired, jar, disturbed>>

(* Mutant: the expired token is deleted and the rotation goes on.          *)
CollectFallsThrough(h) ==
  /\ At(h, "collect")
  /\ DeleteRows({work[h].token})
  /\ Go(h, "grant")
  /\ UNCHANGED <<people, issued, expired, events, jar, disturbed>>

CollectExpired(h) ==
  /\ At(h, "collect")
  /\ DeleteRows({work[h].token})
  /\ Go(h, "clear")
  /\ UNCHANGED <<people, issued, expired, events, jar, disturbed>>
-----------------------------------------------------------------------------
(* RefreshSession::revoke: an unknown token is already logged out.         *)
LogoutFind(h, c) ==
  /\ jar[c] # NoToken
  /\ Begin(h, IF row[jar[c]] = "absent" THEN "clear" ELSE "logout",
           c, NoUser, jar[c], NoToken)
  /\ Overlap(jar[c])
  /\ UNCHANGED <<people, table, expired, events, jar>>

(* delete_family; an error is logged and the cookie cleared all the same.  *)
LogoutRevoke(h) ==
  /\ At(h, "logout")
  /\ DeleteRows(FamilyOf(work[h].token)) \/ row' = row
  /\ Go(h, "clear")
  /\ UNCHANGED <<people, issued, expired, events, jar, disturbed>>

(* DeleteAccount::execute for whoever holds an access token of the user,   *)
(* which stays valid after the account is gone: the tokens go first, the   *)
(* account last (its other tables lie before and between).                 *)
DeleteBegin(h, c, u) ==
  /\ u \in known
  /\ Begin(h, "erase", c, u, NoToken, NoToken)
  /\ UNCHANGED <<people, table, expired, events, jar, disturbed>>

DeleteTokens(h) ==
  /\ At(h, "erase")
  /\ DeleteRows(TokensOf(work[h].user))
  /\ disturbed' = disturbed \cup {Family(t) : t \in TokensOf(work[h].user)}
  /\ Go(h, "delete")
  /\ UNCHANGED <<people, issued, expired, events, jar>>

(* The tokens inserted meanwhile cascade; its events lose their user.      *)
DeleteUser(h) ==
  /\ At(h, "delete")
  /\ accounts' = accounts \ {work[h].user}
  /\ DeleteRows(TokensOf(work[h].user))
  /\ disturbed' = disturbed \cup {Family(t) : t \in TokensOf(work[h].user)}
  /\ events' = {IF e.user = work[h].user THEN [e EXCEPT !.user = NoUser] ELSE e
                  : e \in events}
  /\ Go(h, "clear")
  /\ UNCHANGED <<known, issued, expired, jar>>
-----------------------------------------------------------------------------
(* Replies, errors and time.                                               *)

ReplyGrant(h) ==
  /\ At(h, "grant")
  /\ jar' = [jar EXCEPT ![work[h].client] = work[h].next]
  /\ End(h)
  /\ UNCHANGED <<people, table, expired, events, disturbed>>

ReplyClear(h) ==
  /\ At(h, "clear")
  /\ jar' = [jar EXCEPT ![work[h].client] = NoToken]
  /\ End(h)
  /\ UNCHANGED <<people, table, expired, events, disturbed>>

(* A statement fails (500, the cookie stays), the server or the connection *)
(* dies before the reply arrives.                                          *)
Abort(h) ==
  /\ work[h] # Idle
  /\ End(h)
  /\ Disturb(h)
  /\ UNCHANGED <<people, table, expired, events, jar>>

(* Every token lives equally long, so none expires before its parent.      *)
Expire(t) ==
  /\ row[t] # "absent" /\ t \notin expired
  /\ issued[t].parent \in expired \cup {NoToken}
  /\ expired' = expired \cup {t}
  /\ UNCHANGED <<people, table, events, jar, work, disturbed>>

(* The cookie's Max-Age is the life of its token.                          *)
CookieExpires(c) ==
  /\ jar[c] \in expired
  /\ jar' = [jar EXCEPT ![c] = NoToken]
  /\ UNCHANGED <<people, table, expired, events, work, disturbed>>

(* delete_expired, in the background loop.                                 *)
PurgeTokens ==
  /\ \E t \in expired : row[t] # "absent"
  /\ DeleteRows(expired)
  /\ UNCHANGED <<people, issued, expired, events, jar, work, disturbed>>
-----------------------------------------------------------------------------
SessionStep(h) ==
  \/ RegisterInsert(h) \/ MarkConsumed(h) \/ InsertToken(h) \/ RevokeFamily(h)
  \/ AuditReuse(h) \/ CollectExpired(h) \/ LogoutRevoke(h) \/ DeleteTokens(h)
  \/ DeleteUser(h) \/ ReplyGrant(h) \/ ReplyClear(h) \/ Abort(h)

SessionRequest(h, c) ==
  \/ \E u \in Users : RegisterFind(h, c, u) \/ DeleteBegin(h, c, u)
  \/ \E u \in Users, n \in Tokens : LoginFind(h, c, u, n)
  \/ \E n \in Tokens : RotateFind(h, c, n)
  \/ RotateRefused(h, c) \/ LogoutFind(h, c)

Next ==
  \/ \E h \in Handlers : SessionStep(h)
  \/ \E h \in Handlers, c \in Clients : SessionRequest(h, c)
  \/ LoginRefused \/ PurgeTokens
  \/ \E t \in Tokens : Expire(t)
  \/ \E c \in Clients : CookieExpires(c)

Spec == Init /\ [][Next]_vars
-----------------------------------------------------------------------------
(* Two registrations that both found the address free leave one account.   *)
OneAccountPerEmail == Cardinality(accounts) <= 1

(* ADR-058: whatever login or rotation was in flight, no session outlives  *)
(* the account it belongs to, and no security event names it.              *)
NothingNamesTheDeleted ==
  /\ \A t \in Tokens : row[t] # "absent" => issued[t].user \in accounts
  /\ \A e \in events : e.user \in accounts \cup {NoUser}

(* A token is consumed before its successor exists: a rotation that stops  *)
(* anywhere never leaves both usable.                                      *)
ReplacedIsConsumed ==
  \A t \in Tokens :
    row[t] # "absent" /\ issued[t].parent # NoToken
      => row[issued[t].parent] # "live"

(* ADR-056, "other logins (their own families) survive": a session whose   *)
(* requests came one after the other and were all answered is never logged *)
(* out before it expires, whatever befalls the other sessions.             *)
UndisturbedSurvives ==
  \A c \in Clients :
    (/\ jar[c] # NoToken /\ jar[c] \notin expired
     /\ Family(jar[c]) \notin disturbed
     /\ \A h \in Handlers : ~Serving(h, Family(jar[c])))
      => row[jar[c]] = "live"
=============================================================================
