----------------------------- MODULE RateLimiter ------------------------------
(***************************************************************************)
(* One rate limiter of the server (ADR-017/037): the auth routes, the api  *)
(* routes and the login throttle have one each, with counters of its own.  *)
(* Its windows are in the memory of each replica, and begin with a         *)
(* client's first request, or in Redis, shared by the replicas and aligned *)
(* to the clock; without Redis every request is let through.               *)
(***************************************************************************)
EXTENDS Integers, FiniteSetsExt

CONSTANTS
  Addresses,  (* client addresses                                          *)
  Replicas,
  Limit,      (* max_per_window                                            *)
  Window,     (* the window in ticks                                       *)
  MaxClock,   (* bound: the last instant                                   *)
  MaxBurst    (* bound: requests of a client at one instant                *)

ASSUME WindowHasTime == Window \in Nat \ {0} /\ Limit \in Nat
ASSUME BoundsAreNats == MaxClock \in Nat /\ MaxBurst \in Nat
ASSUME RedisIsNoReplica == "redis" \notin Replicas

VARIABLES
  clock,
  backend,   (* "memory" or "redis", the Limiter built at start            *)
  hits,      (* FixedWindowLimiter.hits of each replica, by client         *)
  counters,  (* Redis: the counter of each client's latest bucket          *)
  recent,    (* history, of every replica's memory and of Redis: what each *)
             (* client was answered in the last a instants, the present    *)
             (* one included, for each a of a window                       *)
  verdict    (* history: the present instant's last answer                 *)

rlVars == <<clock, backend, hits, counters, recent, verdict>>

NoAddress == "none"
Clients == Addresses \cup {"unknown"}
Limiters == Replicas \cup {"redis"}

Ages == 1..Window
NoVerdict == [by |-> "redis", client |-> "unknown", allowed |-> TRUE]
NoRequest == [asked |-> 0, passed |-> 0]

RlTypeOK ==
  /\ clock \in 0..MaxClock
  /\ backend \in {"memory", "redis"}
  /\ \A r \in Replicas : /\ DOMAIN hits[r] \subseteq Clients
                         /\ \A c \in DOMAIN hits[r] : hits[r][c].start <= clock
  /\ \A c \in Clients : counters[c].bucket <= clock \div Window
  /\ \A l \in Limiters, c \in Clients, a \in Ages :
       recent[l][c][a].passed <= recent[l][c][a].asked

RlInit ==
  /\ clock = 0
  /\ backend \in {"memory", "redis"}
  /\ hits = [r \in Replicas |-> [c \in {} |-> 0]]
  /\ counters = [c \in Clients |-> [bucket |-> -1, count |-> 0]]
  /\ recent = [l \in Limiters |-> [c \in Clients |-> [a \in Ages |-> NoRequest]]]
  /\ verdict = NoVerdict
-----------------------------------------------------------------------------
(* client_key: X-Forwarded-For, else the peer, else one shared bucket.     *)
ClientKey(forwarded, peer) ==
  IF forwarded # NoAddress THEN forwarded
  ELSE IF peer # NoAddress THEN peer ELSE "unknown"

(* The history of an answer, which `passed' tells was given by the count.  *)
Answered(l, c, allowed, passed) ==
  /\ recent' = [recent EXCEPT ![l][c] = [a \in Ages |->
       [asked |-> @[a].asked + 1,
        passed |-> @[a].passed + (IF passed THEN 1 ELSE 0)]]]
  /\ verdict' = [by |-> l, client |-> c, allowed |-> allowed]

(* The hit is counted in the client's window, allowed or not.              *)
Hit(r, c, kept) ==
  LET entry == IF c \in kept THEN hits[r][c] ELSE [start |-> clock, count |-> 0]
      allowed == entry.count + 1 <= Limit
  IN  /\ hits' = [hits EXCEPT ![r] = [d \in kept \cup {c} |->
           IF d = c THEN [start |-> entry.start, count |-> entry.count + 1]
           ELSE hits[r][d]]]
      /\ Answered(r, c, allowed, allowed)
      /\ UNCHANGED counters

(* The windows of a replica that have not expired.                         *)
Unexpired(r) == {c \in DOMAIN hits[r] : clock - hits[r][c].start < Window}

(* Mutant: a window never ends.                                            *)
AllowAtForever(r, c) == Hit(r, c, DOMAIN hits[r])

(* FixedWindowLimiter::allow_at: expired windows are dropped, the client's *)
(* own among them.                                                         *)
AllowAt(r, c) == Hit(r, c, Unexpired(r))

(* The counter of the present bucket.                                      *)
Bucket == clock \div Window
Count(c) == IF counters[c].bucket = Bucket THEN counters[c].count ELSE 0
Incremented(c) ==
  [counters EXCEPT ![c] = [bucket |-> Bucket, count |-> Count(c) + 1]]

(* Mutant: compared before it is incremented.                              *)
TryAllowBefore(c) ==
  /\ counters' = Incremented(c)
  /\ Answered("redis", c, Count(c) <= Limit, Count(c) <= Limit)
  /\ UNCHANGED hits

(* RedisWindowLimiter::try_allow: INCR of the window's counter, which      *)
(* expires after the window.                                               *)
TryAllow(c) ==
  /\ counters' = Incremented(c)
  /\ Answered("redis", c, Count(c) + 1 <= Limit, Count(c) + 1 <= Limit)
  /\ UNCHANGED hits

(* Redis out of reach: fail open.  The increment may have been made.       *)
FailOpen(c) ==
  /\ Answered("redis", c, TRUE, FALSE)
  /\ counters' \in {counters, Incremented(c)}
  /\ UNCHANGED hits

Asked(c) == MapThenSumSet(LAMBDA l : recent[l][c][1].asked, Limiters)

(* The middleware, and the login throttle, whose client is the account.    *)
RateLimit(r, forwarded, peer) ==
  LET c == ClientKey(forwarded, peer)
  IN  /\ Asked(c) < MaxBurst
      /\ \/ backend = "memory" /\ AllowAt(r, c)
         \/ backend = "redis" /\ (TryAllow(c) \/ FailOpen(c))
      /\ UNCHANGED <<clock, backend>>

ClockTicks ==
  /\ clock < MaxClock
  /\ clock' = clock + 1
  /\ recent' = [l \in Limiters |-> [c \in Clients |->
       [a \in Ages |-> IF a = 1 THEN NoRequest ELSE recent[l][c][a - 1]]]]
  /\ verdict' = NoVerdict
  /\ UNCHANGED <<backend, hits, counters>>

RlNext ==
  \/ ClockTicks
  \/ \E r \in Replicas, forwarded, peer \in Addresses \cup {NoAddress} :
       RateLimit(r, forwarded, peer)

RlSpec == RlInit /\ [][RlNext]_rlVars
-----------------------------------------------------------------------------
(* A client is refused only if it asked that replica, or the replicas that *)
(* share Redis, more than the limit within the last window's time,         *)
(* whatever the others asked and whenever its window began.                *)
RefusedOnlyWhenOver ==
  ~verdict.allowed => recent[verdict.by][verdict.client][Window].asked > Limit

(* Fixed windows let at most twice the limit through in a window's time:   *)
(* each replica for itself when they do not share Redis, and besides what  *)
(* passed while Redis was out of reach.                                    *)
AtMostTwice ==
  \A l \in Limiters, c \in Clients : recent[l][c][Window].passed <= 2 * Limit
=============================================================================
