------------------------- MODULE RecurringRunsProofs -------------------------
(***************************************************************************)
(* Recurring searches, for every number of replicas, searches and faults:  *)
(* the tables and loops keep their types, the advisory lock bounds the     *)
(* replicas that lead, and with it how far a schedule overspends and how   *)
(* often a search runs; and what a delivery answered has been announced.   *)
(***************************************************************************)
EXTENDS RecurringRuns, FiniteSetTheorems, SequenceTheorems, TLAPS
-----------------------------------------------------------------------------
(* Type correctness.                                                       *)

(* A loop that serves a search holds it; one that dispatches a run or      *)
(* fails it has inserted it; its `now` is past.                            *)
Placed ==
  \A r \in Replicas :
    /\ tick[r].pc \in {"count", "recall", "insert", "dispatch", "fail", "mark"}
         => tick[r].search \in Searches
    /\ tick[r].pc \in {"dispatch", "fail"} => tick[r].run \in DOMAIN runs
    /\ tick[r].now <= clock

Typed == TypeOK /\ Placed

(* The sequences of the tables, with what a statement does to them.        *)
LEMMA RunsDomain ==
  ASSUME TypeOK
  PROVE  /\ DOMAIN runs = 1..Len(runs) /\ Len(runs) \in Nat
         /\ DOMAIN delivery = 1..Len(runs)
         /\ DOMAIN announced = 1..Len(runs)
         /\ \A i \in DOMAIN runs : runs[i] \in Run
BY LenProperties, ElementOfSeq DEF TypeOK

LEMMA KnownTyped ==
  ASSUME TypeOK, NEW s
  PROVE  Known(s) \subseteq Urls /\ Remembered(s) \subseteq Urls
<1>1. \A i \in DOMAIN runs : runs[i].found \subseteq Urls
  BY RunsDomain DEF Run
<1>2. Known(s) \subseteq Urls
  BY <1>1 DEF Known, RunsOf
<1>3. QED
  BY <1>2 DEF Remembered

LEMMA NewsTyped ==
  ASSUME TypeOK, NEW i \in DOMAIN runs
  PROVE  News(i) \subseteq Urls
BY RunsDomain DEF News, Run

LEMMA TypeInit == Init => Typed
<1> SUFFICES ASSUME Init PROVE Typed
  OBVIOUS
<1>1. \A S : <<>> \in Seq(S)
  BY EmptySeq
<1>2. DOMAIN runs = {}
  BY DEF Init
<1>3. Asleep \in Tick
  BY TimesAreNat DEF Asleep, Tick, Times
<1>4. TypeOK
  BY <1>1, <1>2, <1>3, TimesAreNat, FaultsAreNat
  DEF Init, TypeOK, Times, Search
<1>5. Placed
  BY DEF Init, Placed, Asleep
<1>6. QED
  BY <1>4, <1>5 DEF Typed

(* A step of replica r's loop that leaves the tables alone.                *)
LEMMA LoopTyped ==
  ASSUME Typed, NEW r \in Replicas, NEW new \in Tick,
         tick' = [tick EXCEPT ![r] = new],
         new.pc \in {"count", "recall", "insert", "dispatch", "fail", "mark"}
           => new.search \in Searches,
         new.pc \in {"dispatch", "fail"} => new.run \in DOMAIN runs,
         new.now <= clock,
         clock' = clock, runs' = runs
  PROVE  tick' \in [Replicas -> Tick] /\ Placed'
<1>1. tick' \in [Replicas -> Tick]
  BY DEF Typed, TypeOK
<1>2. ASSUME NEW q \in Replicas PROVE tick'[q] = IF q = r THEN new ELSE tick[q]
  BY DEF Typed, TypeOK
<1>3. QED
  BY <1>1, <1>2 DEF Typed, Placed

(* The loop goes on to another place with what it holds.                   *)
LEMMA GoTyped ==
  ASSUME Typed, NEW r \in Replicas, NEW pc, Go(r, pc),
         pc \in {"next", "recall", "fail", "mark", "release", "list"},
         pc \in {"recall", "fail", "mark"} => tick[r].search \in Searches,
         pc = "fail" => tick[r].run \in DOMAIN runs,
         clock' = clock, runs' = runs
  PROVE  tick' \in [Replicas -> Tick] /\ Placed'
<1> DEFINE new == [tick[r] EXCEPT !.pc = pc]
<1>1. tick[r] \in Tick
  BY DEF Typed, TypeOK
<1>2. /\ new \in Tick /\ new.pc = pc /\ new.search = tick[r].search
      /\ new.run = tick[r].run /\ new.now = tick[r].now
  BY <1>1 DEF Tick
<1>3. tick' = [tick EXCEPT ![r] = new]
  BY DEF Go
<1>4. new.now <= clock
  BY <1>2 DEF Typed, Placed
<1> HIDE DEF new
<1>5. QED
  BY <1>2, <1>3, <1>4, LoopTyped

LEMMA AsleepTyped ==
  ASSUME Typed, NEW r \in Replicas, tick' = [tick EXCEPT ![r] = Asleep],
         clock' = clock, runs' = runs
  PROVE  tick' \in [Replicas -> Tick] /\ Placed'
<1>1. Asleep \in Tick /\ Asleep.pc = "idle" /\ Asleep.now = 0
  BY TimesAreNat DEF Asleep, Tick, Times
<1>2. 0 <= clock
  BY DEF Typed, TypeOK, Times
<1>3. QED
  BY <1>1, <1>2, LoopTyped
-----------------------------------------------------------------------------
(* What a statement does to the runs.                                      *)

LEMMA SameLength ==
  ASSUME NEW S, NEW n \in Nat, NEW f \in [1..n -> S]
  PROVE  f \in Seq(S) /\ Len(f) = n
<1>1. f \in Seq(S)
  BY SeqDef
<1>2. Len(f) \in Nat /\ 1..Len(f) = 1..n
  BY <1>1, LenProperties
<1>3. QED
  BY <1>1, <1>2

LEMMA RunChanged ==
  ASSUME Typed, NEW i \in DOMAIN runs, NEW new \in Run,
         runs' = [runs EXCEPT ![i] = new],
         UNCHANGED <<clock, tasks, delivery, announced, acked>>
  PROVE  /\ runs' \in Seq(Run) /\ Len(runs') = Len(runs)
         /\ DOMAIN runs' = DOMAIN runs
BY RunsDomain, ExceptSeq, LenProperties DEF Typed, TypeOK

LEMMA UserTyped ==
  ASSUME Typed, NEW s \in Searches,
         CreateCheck(s) \/ CreateInsert(s) \/ Delete(s)
  PROVE  Typed'
<1>1. CASE CreateCheck(s) \/ CreateInsert(s)
  <2>1. searches' \in [Searches -> Search]
    BY <1>1 DEF CreateCheck, CreateInsert, Typed, TypeOK, Search
  <2>2. UNCHANGED <<clock, runs, tasks, locks, tick, callbacks, faults>>
    BY <1>1 DEF CreateCheck, CreateInsert
  <2>3. QED
    BY <2>1, <2>2 DEF Typed, TypeOK, Placed, callbacks
<1>2. CASE Delete(s)
  <2>1. \A i \in DOMAIN runs : [runs[i] EXCEPT !.search = NoSearch] \in Run
    BY RunsDomain DEF Typed, Run
  <2>2. runs' \in [1..Len(runs) -> Run]
    BY <1>2, <2>1, RunsDomain DEF Typed, Delete
  <2>3. runs' \in Seq(Run) /\ Len(runs') = Len(runs) /\ DOMAIN runs' = DOMAIN runs
    BY <2>2, SameLength, RunsDomain DEF Typed
  <2>4. searches' \in [Searches -> Search]
    BY <1>2 DEF Delete, Typed, TypeOK, Search
  <2>5. QED
    BY <1>2, <2>3, <2>4 DEF Delete, Typed, TypeOK, Placed, callbacks
<1>3. QED
  BY <1>1, <1>2
-----------------------------------------------------------------------------
(* The leader lock.                                                        *)

LEMMA LockTyped ==
  ASSUME Typed, NEW r \in Replicas,
         \/ Acquire(r) \/ Release(r) \/ Recycle(r)
         \/ Failure(r)
  PROVE  Typed'
<1>1. /\ locks \in [Replicas -> 0..(MaxFaults + 1)] /\ faults \in 0..MaxFaults
      /\ MaxFaults \in Nat
  BY FaultsAreNat DEF Typed, TypeOK
<1>2. locks' \in [Replicas -> 0..(MaxFaults + 1)] /\ faults' \in 0..MaxFaults
  <2>1. CASE Acquire(r)
    BY <1>1, <2>1 DEF Acquire
  <2>2. CASE Release(r)
    BY <1>1, <2>2 DEF Release
  <2>3. CASE Recycle(r)
    BY <1>1, <2>3 DEF Recycle
  <2>4. CASE UnlockFails(r) \/ TickFails(r)
    BY <1>1, <2>4 DEF UnlockFails, TickFails, Fault
  <2>5. CASE SessionLost(r) \/ Crash(r)
    BY <1>1, <2>5 DEF SessionLost, Crash, Fault
  <2>6. QED
    BY <2>1, <2>2, <2>3, <2>4, <2>5 DEF Failure
<1>3. UNCHANGED <<clock, tables, callbacks>>
  BY DEF Acquire, Release, Recycle, Failure, UnlockFails, TickFails,
         SessionLost, Crash, tables, callbacks
<1>4. tick' \in [Replicas -> Tick] /\ Placed'
  <2>1. CASE Acquire(r)
    BY <1>3, <2>1, GoTyped DEF Acquire, tables
  <2>2. CASE Release(r) \/ UnlockFails(r) \/ Crash(r)
    BY <1>3, <2>2, AsleepTyped DEF Release, UnlockFails, Crash, tables
  <2>3. CASE Recycle(r) \/ SessionLost(r)
    BY <1>3, <2>3 DEF Recycle, SessionLost, tables, Typed, TypeOK, Placed
  <2>4. CASE TickFails(r)
    BY <1>3, <2>4, GoTyped DEF TickFails, tables
  <2>5. QED
    BY <2>1, <2>2, <2>3, <2>4 DEF Failure
<1>5. QED
  BY <1>2, <1>3, <1>4 DEF Typed, TypeOK, tables, callbacks
-----------------------------------------------------------------------------
(* The tick.                                                               *)

LEMMA ReadTyped ==
  ASSUME Typed, NEW r \in Replicas,
         \/ ListDue(r) \/ NoneLeft(r) \/ (\E s \in Searches : NextSearch(r, s))
         \/ Count(r) \/ Recall(r) \/ InsertRefused(r)
  PROVE  Typed'
<1>1. UNCHANGED <<clock, tables, locks, callbacks, faults>>
  BY DEF ListDue, NoneLeft, NextSearch, Count, Recall, InsertRefused
<1>2. tick[r] \in Tick /\ clock \in Times /\ tick[r].now <= clock
  BY DEF Typed, TypeOK, Placed
<1>3. tick' \in [Replicas -> Tick] /\ Placed'
  <2>1. CASE ListDue(r)
    <3> DEFINE due == {s \in Searches : Saved(s) /\ IsDue(s, clock)}
               new == [Asleep EXCEPT !.pc = "next", !.now = clock, !.left = due]
    <3>1. new \in Tick /\ new.pc = "next" /\ new.now = clock
      <4>1. 0 \in Times /\ due \subseteq Searches
        BY TimesAreNat DEF Times
      <4> HIDE DEF due
      <4>2. QED
        BY <1>2, <4>1 DEF Asleep, Tick
    <3>2. tick' = [tick EXCEPT ![r] = new]
      BY <2>1 DEF ListDue
    <3>3. clock <= clock
      BY <1>2, TimesAreNat DEF Times
    <3> HIDE DEF new
    <3>4. QED
      BY <1>1, <3>1, <3>2, <3>3, LoopTyped DEF tables
  <2>2. CASE NoneLeft(r) \/ InsertRefused(r)
    BY <1>1, <2>2, GoTyped DEF NoneLeft, InsertRefused, tables
  <2>3. ASSUME NEW s \in Searches, NextSearch(r, s) PROVE tick' \in [Replicas -> Tick] /\ Placed'
    <3> DEFINE new == [tick[r] EXCEPT !.pc = "count", !.search = s,
                                      !.left = @ \ {s}]
    <3>1. /\ new \in Tick /\ new.pc = "count" /\ new.search = s
          /\ new.now = tick[r].now
      BY <1>2 DEF Tick
    <3>2. tick' = [tick EXCEPT ![r] = new]
      BY <2>3 DEF NextSearch, Typed, TypeOK
    <3> HIDE DEF new
    <3>3. QED
      BY <1>1, <1>2, <3>1, <3>2, LoopTyped DEF tables
  <2>4. CASE Count(r)
    <3>1. tick[r].search \in Searches
      BY <2>4 DEF Count, At, Typed, Placed
    <3>2. QED
      BY <1>1, <2>4, <3>1, GoTyped DEF Count, tables
  <2>5. CASE Recall(r)
    <3> DEFINE new == [tick[r] EXCEPT !.pc = "insert", !.created = clock,
                                      !.memory = Remembered(tick[r].search)]
    <3>1. tick[r].search \in Searches
      BY <2>5 DEF Recall, At, Typed, Placed
    <3>2. Remembered(tick[r].search) \subseteq Urls
      BY KnownTyped DEF Typed
    <3>3. /\ new \in Tick /\ new.pc = "insert" /\ new.search = tick[r].search
          /\ new.now = tick[r].now
      BY <1>2, <3>2 DEF Tick
    <3>4. tick' = [tick EXCEPT ![r] = new]
      BY <2>5 DEF Recall, Typed, TypeOK
    <3> HIDE DEF new
    <3>5. QED
      BY <1>1, <1>2, <3>1, <3>3, <3>4, LoopTyped DEF tables
  <2>6. QED
    BY <2>1, <2>2, <2>3, <2>4, <2>5
<1>4. QED
  BY <1>1, <1>3 DEF Typed, TypeOK, tables, callbacks

LEMMA InsertTyped ==
  ASSUME Typed, NEW r \in Replicas, Insert(r)
  PROVE  Typed'
<1> DEFINE job == [search |-> tick[r].search, of |-> tick[r].search,
                   due |-> tick[r].now, created |-> tick[r].created,
                   status |-> "pending", memory |-> tick[r].memory,
                   found |-> {}]
           new == [tick[r] EXCEPT !.pc = "dispatch", !.run = Len(runs) + 1]
<1>1. tick[r] \in Tick /\ tick[r].search \in Searches /\ tick[r].now <= clock
  BY DEF Insert, At, Typed, TypeOK, Placed
<1>2. job \in Run
  BY <1>1 DEF Run, Tick
<1>3. runs' = Append(runs, job)
  BY DEF Insert
<1>4. /\ runs' \in Seq(Run) /\ Len(runs') = Len(runs) + 1
      /\ DOMAIN runs' = 1..(Len(runs) + 1)
  <2> HIDE DEF job
  <2>1. QED
    BY <1>2, <1>3, AppendProperties, LenProperties DEF Typed, TypeOK
<1>5. /\ delivery' \in Seq({"none", "store", "update", "digest"})
      /\ Len(delivery') = Len(runs) + 1
  BY AppendProperties DEF Insert, Typed, TypeOK
<1>6. announced' \in Seq(SUBSET Urls) /\ Len(announced') = Len(runs) + 1
  <2>1. announced' = Append(announced, {}) /\ {} \in SUBSET Urls
    BY DEF Insert
  <2>2. QED
    BY <2>1, AppendProperties DEF Typed, TypeOK
<1>7. /\ new \in Tick /\ new.pc = "dispatch" /\ new.search = tick[r].search
      /\ new.run = Len(runs) + 1 /\ new.now = tick[r].now
  <2>1. Len(runs) + 1 \in Nat
    BY RunsDomain DEF Typed
  <2>2. QED
    BY <1>1, <2>1 DEF Tick
<1>8. tick' = [tick EXCEPT ![r] = new]
  BY DEF Insert, Typed, TypeOK
<1>9. DOMAIN runs \subseteq DOMAIN runs' /\ Len(runs) + 1 \in DOMAIN runs'
  BY <1>4, RunsDomain DEF Typed
<1> HIDE DEF new, job
<1>10. tick' \in [Replicas -> Tick]
  BY <1>7, <1>8 DEF Typed, TypeOK
<1>11. Placed'
  <2>1. ASSUME NEW q \in Replicas
        PROVE  tick'[q] = IF q = r THEN new ELSE tick[q]
    BY <1>8 DEF Typed, TypeOK
  <2>2. clock' = clock
    BY DEF Insert
  <2>3. QED
    BY <1>1, <1>7, <1>9, <2>1, <2>2 DEF Typed, Placed
<1>12. QED
  BY <1>4, <1>5, <1>6, <1>9, <1>10, <1>11 DEF Insert, Typed, TypeOK

LEMMA DispatchTyped ==
  ASSUME Typed, NEW r \in Replicas, Dispatch(r)
  PROVE  Typed'
<1>1. tick[r].run \in DOMAIN runs /\ tick[r].search \in Searches
  BY DEF Dispatch, At, Typed, Placed
<1>2. tasks' \subseteq DOMAIN runs
  BY <1>1 DEF Dispatch, Typed, TypeOK
<1>3. UNCHANGED <<clock, searches, runs, locks, callbacks, faults>>
  BY DEF Dispatch
<1>4. Go(r, "mark") \/ Go(r, "fail")
  BY DEF Dispatch
<1>5. tick' \in [Replicas -> Tick] /\ Placed'
  BY <1>1, <1>3, <1>4, GoTyped
<1>6. QED
  BY <1>2, <1>3, <1>5 DEF Typed, TypeOK, callbacks

LEMMA FailRunTyped ==
  ASSUME Typed, NEW r \in Replicas, FailRun(r)
  PROVE  Typed'
<1> DEFINE i == tick[r].run
           new == [runs[i] EXCEPT !.status = "failed"]
<1>1. i \in DOMAIN runs /\ tick[r].search \in Searches
  BY DEF FailRun, At, Typed, Placed
<1>2. new \in Run
  BY <1>1, RunsDomain DEF Run, Typed
<1>3. runs' = [runs EXCEPT ![i] = new]
  BY DEF FailRun
<1> HIDE DEF new
<1>4. runs' \in Seq(Run) /\ Len(runs') = Len(runs) /\ DOMAIN runs' = DOMAIN runs
  BY <1>1, <1>2, <1>3, RunChanged DEF FailRun, callbacks
<1> DEFINE moved == [tick[r] EXCEPT !.pc = "mark"]
<1>5. tick[r] \in Tick /\ tick[r].now <= clock
  BY DEF Typed, TypeOK, Placed
<1>6. /\ moved \in Tick /\ moved.pc = "mark" /\ moved.search = tick[r].search
      /\ moved.now = tick[r].now
  BY <1>5 DEF Tick
<1>7. tick' = [tick EXCEPT ![r] = moved] /\ clock' = clock
  BY DEF FailRun, Go
<1> HIDE DEF moved
<1>8. tick' \in [Replicas -> Tick]
  BY <1>6, <1>7 DEF Typed, TypeOK
<1>9. Placed'
  <2>1. ASSUME NEW q \in Replicas
        PROVE  tick'[q] = IF q = r THEN moved ELSE tick[q]
    BY <1>7 DEF Typed, TypeOK
  <2>2. QED
    BY <1>1, <1>4, <1>5, <1>6, <1>7, <2>1 DEF Typed, Placed
<1>10. QED
  BY <1>4, <1>8, <1>9 DEF FailRun, Typed, TypeOK, callbacks

LEMMA MarkTyped ==
  ASSUME Typed, NEW r \in Replicas, MarkRan(r)
  PROVE  Typed'
<1> DEFINE new == [tick[r] EXCEPT !.pc = "next", !.search = NoSearch,
                                  !.created = 0, !.memory = {}, !.run = 0]
<1>1. tick[r] \in Tick /\ tick[r].now <= clock /\ tick[r].search \in Searches
  BY DEF MarkRan, At, Typed, TypeOK, Placed
<1>2. new \in Tick /\ new.pc = "next" /\ new.now = tick[r].now
  <2>1. 0 \in Times
    BY TimesAreNat DEF Times
  <2>2. QED
    BY <1>1, <2>1 DEF Tick
<1>3. tick' = [tick EXCEPT ![r] = new]
  BY DEF MarkRan, Typed, TypeOK
<1> HIDE DEF new
<1>4. tick' \in [Replicas -> Tick] /\ Placed'
  BY <1>1, <1>2, <1>3, LoopTyped DEF MarkRan
<1>5. searches' \in [Searches -> Search]
  <2>1. searches \in [Searches -> Search] /\ tick[r].now \in Times
    BY <1>1 DEF Typed, TypeOK, Tick
  <2>2. [searches[tick[r].search] EXCEPT !.last = tick[r].now] \in Search
    BY <1>1, <2>1 DEF Search
  <2>3. \/ searches' = searches
        \/ searches' = [searches EXCEPT ![tick[r].search] =
                          [searches[tick[r].search] EXCEPT !.last = tick[r].now]]
    BY <1>1, <2>1 DEF MarkRan
  <2>4. QED
    BY <1>1, <2>1, <2>2, <2>3
<1>6. QED
  BY <1>4, <1>5 DEF MarkRan, Typed, TypeOK, callbacks
-----------------------------------------------------------------------------
(* The deliveries, and the whole.                                          *)

LEMMA PlaceChanged ==
  ASSUME Typed, NEW i \in DOMAIN runs,
         NEW place \in {"none", "store", "update", "digest"},
         delivery' = [delivery EXCEPT ![i] = place]
  PROVE  /\ delivery' \in Seq({"none", "store", "update", "digest"})
         /\ Len(delivery') = Len(delivery)
BY RunsDomain, ExceptSeq DEF Typed, TypeOK

LEMMA DeliverTyped ==
  ASSUME Typed, NEW i \in DOMAIN runs, Deliver(i)
  PROVE  Typed'
<1> USE DEF Typed
<1>1. ASSUME NEW found \in SUBSET Urls, DeliverStore(i, found) PROVE Typed'
  <2> DEFINE new == [runs[i] EXCEPT !.found = found]
  <2>1. new \in Run
    BY RunsDomain DEF Run
  <2>2. runs' = [runs EXCEPT ![i] = new]
    BY <1>1 DEF DeliverStore
  <2> HIDE DEF new
  <2>3. runs' \in Seq(Run) /\ Len(runs') = Len(runs) /\ DOMAIN runs' = DOMAIN runs
    BY <2>1, <2>2, RunsDomain, ExceptSeq, LenProperties DEF TypeOK
  <2>4. QED
    BY <1>1, <2>3, PlaceChanged DEF DeliverStore, TypeOK, Placed
<1>2. CASE DeliverUpdate(i)
  <2> DEFINE new == [runs[i] EXCEPT !.status = "completed"]
  <2>1. new \in Run
    BY RunsDomain DEF Run
  <2>2. runs' = [runs EXCEPT ![i] = new]
    BY <1>2 DEF DeliverUpdate
  <2> HIDE DEF new
  <2>3. runs' \in Seq(Run) /\ Len(runs') = Len(runs) /\ DOMAIN runs' = DOMAIN runs
    BY <2>1, <2>2, RunsDomain, ExceptSeq, LenProperties DEF TypeOK
  <2>4. QED
    BY <1>2, <2>3, PlaceChanged DEF DeliverUpdate, TypeOK, Placed
<1>3. CASE DeliverFind(i)
  BY <1>3, PlaceChanged DEF DeliverFind, TypeOK, Placed, tables
<1>4. CASE DeliverDigest(i)
  <2>1. announced' \in Seq(SUBSET Urls) /\ Len(announced') = Len(announced)
    <3>1. CASE runs[i].search # NoSearch
      <4> DEFINE new == announced[i] \cup News(i)
      <4>1. announced[i] \in SUBSET Urls
        BY RunsDomain, ElementOfSeq DEF TypeOK
      <4>2. new \in SUBSET Urls
        BY <4>1, NewsTyped
      <4>3. announced' = [announced EXCEPT ![i] = new]
        BY <1>4, <3>1 DEF DeliverDigest
      <4> HIDE DEF new
      <4>4. QED
        BY <4>2, <4>3, RunsDomain, ExceptSeq DEF TypeOK
    <3>2. CASE runs[i].search = NoSearch
      BY <1>4, <3>2 DEF DeliverDigest, TypeOK
    <3>3. QED
      BY <3>1, <3>2
  <2>2. QED
    BY <1>4, <2>1, PlaceChanged DEF DeliverDigest, TypeOK, Placed, tables
<1>5. CASE DigestLookupFails(i)
  <2>1. faults' \in 0..MaxFaults
    BY <1>5, FaultsAreNat DEF DigestLookupFails, Fault, TypeOK
  <2>2. QED
    BY <1>5, <2>1, PlaceChanged DEF DigestLookupFails, TypeOK, Placed, tables
<1>6. CASE DeliverAborts(i)
  BY <1>6, PlaceChanged DEF DeliverAborts, TypeOK, Placed, tables
<1>7. QED
  BY <1>1, <1>2, <1>3, <1>4, <1>5, <1>6 DEF Deliver

LEMMA PassTyped ==
  ASSUME Typed, Pass
  PROVE  Typed'
<1>1. clock' \in Times /\ clock' = clock + 1 /\ clock \in Nat
  BY TimesAreNat DEF Pass, Typed, TypeOK, Times
<1>2. \A r \in Replicas : tick[r].now \in Nat
  BY TimesAreNat DEF Typed, TypeOK, Tick, Times
<1>3. UNCHANGED <<tables, locks, tick, callbacks, faults>>
  BY DEF Pass
<1>4. TypeOK'
  BY <1>1, <1>3 DEF Typed, TypeOK, tables, callbacks
<1>5. Placed'
  BY <1>1, <1>2, <1>3 DEF Typed, Placed, tables
<1>6. QED
  BY <1>4, <1>5 DEF Typed

LEMMA TypeStep == Typed /\ [Next]_vars => Typed'
<1> SUFFICES ASSUME Typed, [Next]_vars PROVE Typed'
  OBVIOUS
<1>1. CASE Pass
  BY <1>1, PassTyped
<1>2. CASE User
  BY <1>2, UserTyped DEF User
<1>3. ASSUME NEW r \in Replicas, Acquire(r) \/ Recycle(r) \/ Failure(r)
      PROVE  Typed'
  BY <1>3, LockTyped
<1>4. ASSUME NEW r \in Replicas, Work(r) PROVE Typed'
  BY <1>4, ReadTyped, InsertTyped, DispatchTyped, FailRunTyped, MarkTyped,
     LockTyped DEF Work
<1>5. ASSUME NEW i \in DOMAIN runs, Deliver(i) PROVE Typed'
  BY <1>5, DeliverTyped
<1>6. CASE UNCHANGED vars
  BY <1>6 DEF vars, Typed, TypeOK, Placed
<1>7. QED
  BY <1>1, <1>2, <1>3, <1>4, <1>5, <1>6 DEF Next

LEMMA AlwaysTyped == Spec => []Typed
BY TypeInit, TypeStep, PTL DEF Spec

(* The tables, the loops of all replicas and the callbacks keep their      *)
(* types.                                                                  *)
THEOREM TypeCorrect == Spec => []TypeOK
<1>1. Typed => TypeOK
  BY DEF Typed
<1>2. QED
  BY <1>1, AlwaysTyped, PTL
-----------------------------------------------------------------------------
(* Leadership.  LeadersBounded is not inductive: a replica may lead        *)
(* without the lock.  At most one replica holds it, and every one that     *)
(* leads without it has lost a session.                                    *)

Orphans == {r \in Replicas : Leading(r) /\ locks[r] = 0}

OneHolder ==
  \A r, q \in Replicas : locks[r] > 0 /\ locks[q] > 0 => r = q

LockSafe == OneHolder /\ Cardinality(Orphans) <= faults

LEMMA LockInit == Init => LockSafe
<1> SUFFICES ASSUME Init PROVE LockSafe
  OBVIOUS
<1>1. Orphans = {}
  BY DEF Init, Orphans, Leading, Asleep
<1>2. QED
  BY <1>1, FS_EmptySet DEF Init, LockSafe, OneHolder

(* Fewer replicas lead without the lock, and no new one holds it.          *)
LEMMA FewerOrphans ==
  ASSUME Typed, Typed', LockSafe, faults' >= faults,
         Orphans' \subseteq Orphans, OneHolder'
  PROVE  LockSafe'
<1>1. IsFiniteSet(Orphans)
  BY ReplicasFinite, FS_Subset DEF Orphans
<1>2. Cardinality(Orphans') <= Cardinality(Orphans)
  BY <1>1, FS_Subset
<1>3. Cardinality(Orphans) \in Nat /\ Cardinality(Orphans') \in Nat
  BY <1>1, FS_Subset, FS_CardinalityType
<1>4. faults \in Nat /\ faults' \in Nat
  BY FaultsAreNat DEF Typed, TypeOK
<1>5. QED
  BY <1>2, <1>3, <1>4 DEF LockSafe

(* A step that leaves the locks alone and wakes no loop.                   *)
LEMMA QuietStep ==
  ASSUME Typed, Typed', LockSafe, locks' = locks, faults' >= faults,
         \A q \in Replicas : tick'[q].pc # "idle" => tick[q].pc # "idle"
  PROVE  LockSafe'
<1>1. Orphans' \subseteq Orphans
  BY DEF Orphans, Leading
<1>2. OneHolder'
  BY DEF LockSafe, OneHolder
<1>3. QED
  BY <1>1, <1>2, FewerOrphans

LEMMA WorkWakesNone ==
  ASSUME Typed, NEW r \in Replicas, Work(r), ~Release(r)
  PROVE  /\ locks' = locks /\ faults' = faults
         /\ \A q \in Replicas : tick'[q].pc # "idle" => tick[q].pc # "idle"
<1>1. locks' = locks /\ faults' = faults
  BY DEF Work, ListDue, NoneLeft, NextSearch, Count, Recall, Insert,
         InsertRefused, Dispatch, FailRun, MarkRan
<1>2. tick[r].pc # "idle"
  BY DEF Work, ListDue, NoneLeft, NextSearch, Count, Recall, Insert,
         InsertRefused, Dispatch, FailRun, MarkRan, At
<1>3. ASSUME NEW q \in Replicas, q # r PROVE tick'[q] = tick[q]
  BY <1>3 DEF Work, ListDue, NoneLeft, NextSearch, Count, Recall, Insert,
     InsertRefused, Dispatch, FailRun, MarkRan, Go, Typed, TypeOK
<1>4. QED
  BY <1>1, <1>2, <1>3

LEMMA LockStep == Typed /\ Typed' /\ LockSafe /\ [Next]_vars => LockSafe'
<1> SUFFICES ASSUME Typed, Typed', LockSafe, [Next]_vars PROVE LockSafe'
  OBVIOUS
<1>0. /\ locks \in [Replicas -> Nat] /\ locks' \in [Replicas -> Nat]
      /\ faults \in Nat /\ faults' \in Nat
      /\ \A q \in Replicas : tick[q] \in Tick
  BY FaultsAreNat DEF Typed, TypeOK
<1>1. CASE Pass \/ User \/ UNCHANGED vars
  <2>1. UNCHANGED <<locks, tick, faults>>
    BY <1>1 DEF Pass, User, CreateCheck, CreateInsert, Delete, vars
  <2>2. QED
    BY <1>0, <2>1, QuietStep
<1>2. ASSUME NEW i \in DOMAIN runs, Deliver(i) PROVE LockSafe'
  <2>1. UNCHANGED <<locks, tick>> /\ faults' >= faults
    BY <1>0, <1>2 DEF Deliver, DeliverFind, DeliverStore, DeliverUpdate,
       DeliverDigest, DigestLookupFails, DeliverAborts, Fault
  <2>2. QED
    BY <2>1, QuietStep
<1>3. ASSUME NEW r \in Replicas, Acquire(r) PROVE LockSafe'
  <2>1. locks' = [locks EXCEPT ![r] = @ + 1] /\ faults' = faults
    BY <1>3 DEF Acquire
  <2>2. ASSUME NEW q \in Replicas, q # r
        PROVE  tick'[q] = tick[q] /\ locks'[q] = locks[q] /\ locks[q] = 0
    BY <1>0, <1>3, <2>2 DEF Acquire, Go, Typed, TypeOK
  <2>3. locks'[r] > 0
    BY <1>0, <2>1
  <2>4. Orphans' \subseteq Orphans
    BY <2>2, <2>3 DEF Orphans, Leading
  <2>5. OneHolder'
    BY <1>0, <2>2 DEF OneHolder
  <2>6. QED
    BY <1>0, <2>1, <2>4, <2>5, FewerOrphans
<1>4. ASSUME NEW r \in Replicas, Release(r) \/ UnlockFails(r) \/ Crash(r)
      PROVE  LockSafe'
  <2>1. ASSUME NEW q \in Replicas
        PROVE  locks'[q] > 0 => locks[q] > 0
    BY <1>0, <1>4 DEF Release, UnlockFails, Crash
  <2>2. tick'[r].pc = "idle"
    BY <1>4 DEF Release, UnlockFails, Crash, Asleep, Typed, TypeOK
  <2>3. ASSUME NEW q \in Replicas, q # r
        PROVE  tick'[q] = tick[q] /\ locks'[q] = locks[q]
    BY <1>4, <2>3 DEF Release, UnlockFails, Crash, Typed, TypeOK
  <2>4. faults' >= faults
    BY <1>0, <1>4 DEF Release, UnlockFails, Crash, Fault
  <2>5. Orphans' \subseteq Orphans
    BY <2>2, <2>3 DEF Orphans, Leading
  <2>6. OneHolder'
    BY <2>1 DEF LockSafe, OneHolder
  <2>7. QED
    BY <2>4, <2>5, <2>6, FewerOrphans
<1>5. ASSUME NEW r \in Replicas, Recycle(r) PROVE LockSafe'
  <2>1. tick' = tick /\ tick[r].pc = "idle" /\ faults' = faults
    BY <1>5 DEF Recycle, At
  <2>2. ASSUME NEW q \in Replicas
        PROVE  /\ locks'[q] > 0 => locks[q] > 0
               /\ q # r => locks'[q] = locks[q]
    BY <1>0, <1>5 DEF Recycle
  <2>3. Orphans' \subseteq Orphans
    BY <2>1, <2>2 DEF Orphans, Leading
  <2>4. OneHolder'
    BY <2>2 DEF LockSafe, OneHolder
  <2>5. QED
    BY <1>0, <2>1, <2>3, <2>4, FewerOrphans
<1>6. ASSUME NEW r \in Replicas, SessionLost(r) PROVE LockSafe'
  <2>1. tick' = tick /\ faults' = faults + 1
    BY <1>6 DEF SessionLost, Fault
  <2>2. ASSUME NEW q \in Replicas
        PROVE  /\ locks'[q] > 0 => locks[q] > 0
               /\ q # r => locks'[q] = locks[q]
    BY <1>0, <1>6 DEF SessionLost
  <2>3. Orphans' \subseteq Orphans \cup {r}
    BY <2>1, <2>2 DEF Orphans, Leading
  <2>4. IsFiniteSet(Orphans)
    BY ReplicasFinite, FS_Subset DEF Orphans
  <2>5. /\ IsFiniteSet(Orphans \cup {r})
        /\ Cardinality(Orphans \cup {r}) <= Cardinality(Orphans) + 1
    BY <2>4, FS_AddElement, FS_CardinalityType
  <2>6. Cardinality(Orphans') <= Cardinality(Orphans \cup {r})
    BY <2>3, <2>5, FS_Subset
  <2>7. /\ Cardinality(Orphans) \in Nat /\ Cardinality(Orphans \cup {r}) \in Nat
        /\ Cardinality(Orphans') \in Nat
    BY <2>3, <2>4, <2>5, FS_CardinalityType, FS_Subset
  <2>8. Cardinality(Orphans') <= faults'
    BY <1>0, <2>1, <2>5, <2>6, <2>7 DEF LockSafe
  <2>9. OneHolder'
    BY <2>2 DEF LockSafe, OneHolder
  <2>10. QED
    BY <2>8, <2>9 DEF LockSafe
<1>7. ASSUME NEW r \in Replicas, TickFails(r) PROVE LockSafe'
  <2>1. locks' = locks /\ faults' >= faults
    BY <1>0, <1>7 DEF TickFails, Fault
  <2>2. \A q \in Replicas : tick'[q].pc # "idle" => tick[q].pc # "idle"
    BY <1>0, <1>7 DEF TickFails, Go, Typed, TypeOK
  <2>3. QED
    BY <2>1, <2>2, QuietStep
<1>8. ASSUME NEW r \in Replicas, Work(r), ~Release(r) PROVE LockSafe'
  BY <1>0, <1>8, WorkWakesNone, QuietStep
<1>9. QED
  BY <1>1, <1>2, <1>3, <1>4, <1>5, <1>6, <1>7, <1>8 DEF Next, Failure, Work

LEMMA LeadersCounted ==
  ASSUME Typed, LockSafe
  PROVE  /\ IsFiniteSet({r \in Replicas : Leading(r)})
         /\ LeadersBounded
<1> DEFINE leaders == {r \in Replicas : Leading(r)}
           holders == {r \in Replicas : locks[r] > 0}
<1>1. IsFiniteSet(leaders) /\ IsFiniteSet(Orphans)
  BY ReplicasFinite, FS_Subset DEF Orphans
<1>2. Cardinality(Orphans) \in Nat /\ Cardinality(leaders) \in Nat
  BY <1>1, FS_CardinalityType
<1>3. locks \in [Replicas -> Nat] /\ faults \in Nat
  BY FaultsAreNat DEF Typed, TypeOK
<1>4. CASE holders = {}
  <2>1. leaders \subseteq Orphans
    BY <1>3, <1>4 DEF Orphans
  <2>2. Cardinality(leaders) <= Cardinality(Orphans)
    BY <1>1, <2>1, FS_Subset
  <2>3. QED
    BY <1>1, <1>2, <1>3, <2>2 DEF LockSafe, LeadersBounded
<1>5. ASSUME NEW h \in holders PROVE Cardinality(leaders) <= 1 + faults
  <2>1. leaders \subseteq Orphans \cup {h}
    BY <1>3, <1>5 DEF Orphans, LockSafe, OneHolder
  <2>2. /\ IsFiniteSet(Orphans \cup {h})
        /\ Cardinality(Orphans \cup {h}) <= Cardinality(Orphans) + 1
    <3>1. /\ IsFiniteSet(Orphans \cup {h})
          /\ \/ Cardinality(Orphans \cup {h}) = Cardinality(Orphans)
             \/ Cardinality(Orphans \cup {h}) = Cardinality(Orphans) + 1
      BY <1>1, FS_AddElement
    <3>2. QED
      BY <1>2, <3>1
  <2>3. Cardinality(leaders) <= Cardinality(Orphans \cup {h})
    BY <2>1, <2>2, FS_Subset
  <2>4. Cardinality(Orphans \cup {h}) \in Nat
    BY <2>2, FS_CardinalityType
  <2>5. QED
    BY <1>2, <1>3, <2>2, <2>3, <2>4 DEF LockSafe
<1>6. QED
  BY <1>1, <1>4, <1>5 DEF LeadersBounded

LEMMA AlwaysLocked == Spec => [](Typed /\ LockSafe)
BY TypeInit, TypeStep, LockInit, LockStep, PTL DEF Spec

(* ADR-053, "so exactly one instance runs it": more replicas than one lead *)
(* only after as many lost sessions.                                       *)
THEOREM Leadership == Spec => []LeadersBounded
<1>1. Typed /\ LockSafe => LeadersBounded
  BY LeadersCounted
<1>2. QED
  BY <1>1, AlwaysLocked, PTL
-----------------------------------------------------------------------------
(* The quota.  A replica that passes the quota's test makes room for its   *)
(* run among Quota; all others that are about to insert lead as well, and  *)
(* Leadership bounds them by the faults.                                   *)

LEMMA OneMore ==
  ASSUME NEW S, IsFiniteSet(S), NEW x
  PROVE  /\ IsFiniteSet(S \cup {x})
         /\ Cardinality(S \cup {x}) \in Nat
         /\ Cardinality(S \cup {x}) <= Cardinality(S) + 1
<1>1. Cardinality(S) \in Nat
  BY FS_CardinalityType
<1>2. /\ IsFiniteSet(S \cup {x})
      /\ Cardinality(S \cup {x}) =
           IF x \in S THEN Cardinality(S) ELSE Cardinality(S) + 1
  BY FS_AddElement, Zenon
<1>3. QED
  BY <1>1, <1>2

LEMMA SpentTyped ==
  ASSUME Typed
  PROVE  /\ IsFiniteSet(Inserting) /\ Cardinality(Inserting) \in Nat
         /\ \A now : /\ IsFiniteSet(Recent(now))
                     /\ Cardinality(Recent(now)) \in Nat
<1>1. IsFiniteSet(Inserting)
  BY ReplicasFinite, FS_Subset DEF Inserting
<1>2. IsFiniteSet(DOMAIN runs)
  BY RunsDomain, FS_Interval DEF Typed
<1>3. ASSUME NEW now PROVE IsFiniteSet(Recent(now))
  BY <1>2, FS_Subset DEF Recent
<1>4. QED
  BY <1>1, <1>3, FS_CardinalityType

LEMMA SpendsNoMore ==
  ASSUME Typed, Typed', ScheduleWithinQuota, faults' >= faults,
         Inserting' \subseteq Inserting, Recent(clock)' \subseteq Recent(clock)
  PROVE  ScheduleWithinQuota'
<1>1. /\ Cardinality(Inserting') <= Cardinality(Inserting)
      /\ Cardinality(Recent(clock)') <= Cardinality(Recent(clock))
  BY SpentTyped, FS_Subset
<1>2. /\ Cardinality(Inserting') \in Nat /\ Cardinality(Recent(clock)') \in Nat
      /\ IsFiniteSet(Inserting') /\ IsFiniteSet(Recent(clock)')
  BY SpentTyped, FS_Subset, FS_CardinalityType
<1>3. faults \in Nat /\ faults' \in Nat /\ Quota \in Nat
  BY FaultsAreNat, LimitsAreNat DEF Typed, TypeOK
<1>4. QED
  BY <1>1, <1>2, <1>3, SpentTyped DEF ScheduleWithinQuota

(* A statement that keeps the creation times and the clock.                *)
LEMMA SameRecent ==
  ASSUME clock' = clock, DOMAIN runs' = DOMAIN runs,
         \A i \in DOMAIN runs : runs'[i].created = runs[i].created
  PROVE  Recent(clock)' = Recent(clock)
BY DEF Recent

LEMMA CountWithin ==
  ASSUME Typed, Typed', LockSafe, ScheduleWithinQuota,
         NEW r \in Replicas, Count(r)
  PROVE  ScheduleWithinQuota'
<1>1. UNCHANGED <<clock, runs, faults>>
  BY DEF Count, tables
<1>2. Recent(clock)' = Recent(clock)
  BY <1>1, SameRecent
<1>3. ASSUME NEW q \in Replicas, q # r PROVE tick'[q] = tick[q]
  BY <1>3 DEF Count, Go, Typed, TypeOK
<1>4. CASE Cardinality(Recent(tick[r].now)) >= Quota
  <2>1. tick'[r].pc = "mark"
    BY <1>4 DEF Count, Go, Typed, TypeOK, Tick
  <2>2. Inserting' \subseteq Inserting
    BY <1>3, <2>1 DEF Inserting
  <2>3. QED
    BY <1>1, <1>2, <2>2, SpendsNoMore, FaultsAreNat DEF Typed, TypeOK
<1>5. CASE ~ Cardinality(Recent(tick[r].now)) >= Quota
  <2> DEFINE leaders == {q \in Replicas : Leading(q)}
  <2>1. Inserting' \subseteq Inserting \cup {r}
    BY <1>3 DEF Inserting
  <2>2. Inserting \subseteq leaders \ {r} /\ r \in leaders
    BY DEF Inserting, Leading, Count, At
  <2>3. /\ IsFiniteSet(leaders) /\ Cardinality(leaders) <= 1 + faults
        /\ Cardinality(leaders) \in Nat
    BY LeadersCounted, FS_CardinalityType DEF LeadersBounded
  <2>4. /\ IsFiniteSet(leaders \ {r})
        /\ Cardinality(leaders \ {r}) = Cardinality(leaders) - 1
    BY <2>2, <2>3, FS_RemoveElement
  <2>5. Cardinality(Inserting) <= Cardinality(leaders \ {r})
    BY <2>2, <2>4, FS_Subset
  <2>6. faults \in Nat /\ Quota \in Nat
    BY FaultsAreNat, LimitsAreNat DEF Typed, TypeOK
  <2>7. Cardinality(Inserting) <= faults
    BY <2>3, <2>4, <2>5, <2>6, SpentTyped
  <2>8. Cardinality(Inserting') <= faults + 1
    <3>1. /\ IsFiniteSet(Inserting \cup {r})
          /\ Cardinality(Inserting \cup {r}) <= Cardinality(Inserting) + 1
      BY SpentTyped, OneMore
    <3>2. /\ IsFiniteSet(Inserting')
          /\ Cardinality(Inserting') <= Cardinality(Inserting \cup {r})
      BY <2>1, <3>1, FS_Subset
    <3>3. Cardinality(Inserting') \in Nat /\ Cardinality(Inserting \cup {r}) \in Nat
      BY <3>1, <3>2, FS_CardinalityType
    <3>4. QED
      BY <2>6, <2>7, <3>1, <3>2, <3>3, SpentTyped
  <2>9. Recent(clock) \subseteq Recent(tick[r].now)
    <3>1. tick[r].now <= clock /\ clock \in Nat /\ tick[r].now \in Nat /\ Day \in Nat
      BY TimesAreNat DEF Typed, TypeOK, Placed, Tick, Times
    <3>2. \A i \in DOMAIN runs : runs[i].created \in Nat
      BY RunsDomain, TimesAreNat DEF Typed, Run, Times
    <3>3. QED
      BY <3>1, <3>2 DEF Recent
  <2>10. Cardinality(Recent(clock)) <= Cardinality(Recent(tick[r].now))
    BY <2>9, SpentTyped, FS_Subset
  <2>11. /\ Cardinality(Recent(clock)) \in Nat
         /\ Cardinality(Recent(tick[r].now)) \in Nat
         /\ Cardinality(Inserting') \in Nat
    <3>1. IsFiniteSet(Inserting')
      BY <2>1, SpentTyped, FS_AddElement, FS_Subset
    <3>2. QED
      BY <3>1, SpentTyped, FS_CardinalityType
  <2>12. Cardinality(Recent(clock)) + Cardinality(Inserting') <= Quota + faults
    BY <1>5, <2>6, <2>8, <2>10, <2>11
  <2>13. QED
    BY <1>1, <1>2, <2>12 DEF ScheduleWithinQuota
<1>6. QED
  BY <1>4, <1>5

LEMMA InsertWithin ==
  ASSUME Typed, Typed', ScheduleWithinQuota, NEW r \in Replicas, Insert(r)
  PROVE  ScheduleWithinQuota'
<1> DEFINE n == Len(runs) + 1
<1>1. clock' = clock /\ faults' = faults
  BY DEF Insert
<1>2. /\ DOMAIN runs = 1..Len(runs) /\ DOMAIN runs' = 1..n
      /\ \A i \in DOMAIN runs : runs'[i] = runs[i]
  <2> DEFINE job == [search |-> tick[r].search, of |-> tick[r].search,
                     due |-> tick[r].now, created |-> tick[r].created,
                     status |-> "pending", memory |-> tick[r].memory,
                     found |-> {}]
  <2>1. tick[r] \in Tick /\ tick[r].search \in Searches
    BY DEF Insert, At, Typed, TypeOK, Placed
  <2>2. job \in Run
    BY <2>1 DEF Run, Tick
  <2>3. runs' = Append(runs, job)
    BY DEF Insert
  <2> HIDE DEF job
  <2>4. QED
    BY <2>2, <2>3, RunsDomain, AppendProperties, LenProperties DEF Typed, TypeOK
<1>3. Recent(clock)' \subseteq Recent(clock) \cup {n}
  BY <1>1, <1>2, RunsDomain DEF Recent, Typed
<1>4. r \in Inserting /\ Inserting' \subseteq Inserting \ {r}
  <2>1. tick[r].pc = "insert" /\ tick'[r].pc = "dispatch"
    BY DEF Insert, At, Typed, TypeOK, Tick
  <2>2. ASSUME NEW q \in Replicas, q # r PROVE tick'[q] = tick[q]
    BY <2>2 DEF Insert, Typed, TypeOK
  <2>3. QED
    BY <2>1, <2>2 DEF Inserting
<1>5. /\ IsFiniteSet(Recent(clock) \cup {n})
      /\ Cardinality(Recent(clock) \cup {n}) <= Cardinality(Recent(clock)) + 1
  BY SpentTyped, OneMore
<1>6. /\ IsFiniteSet(Inserting \ {r})
      /\ Cardinality(Inserting \ {r}) = Cardinality(Inserting) - 1
  BY <1>4, SpentTyped, FS_RemoveElement
<1>7. /\ IsFiniteSet(Recent(clock)')
      /\ Cardinality(Recent(clock)') <= Cardinality(Recent(clock) \cup {n})
      /\ IsFiniteSet(Inserting')
      /\ Cardinality(Inserting') <= Cardinality(Inserting \ {r})
  BY <1>3, <1>4, <1>5, <1>6, FS_Subset
<1>8. /\ Cardinality(Recent(clock)') \in Nat /\ Cardinality(Inserting') \in Nat
      /\ Cardinality(Recent(clock) \cup {n}) \in Nat
  BY <1>5, <1>7, FS_CardinalityType
<1>9. faults \in Nat /\ Quota \in Nat
  BY FaultsAreNat, LimitsAreNat DEF Typed, TypeOK
<1>10. QED
  BY <1>1, <1>5, <1>6, <1>7, <1>8, <1>9, SpentTyped DEF ScheduleWithinQuota

(* The other steps: none begins an insert or makes a run more recent.      *)
LEMMA QuotaStep ==
  Typed /\ Typed' /\ LockSafe /\ ScheduleWithinQuota /\ [Next]_vars
    => ScheduleWithinQuota'
<1> SUFFICES ASSUME Typed, Typed', LockSafe, ScheduleWithinQuota, [Next]_vars
             PROVE  ScheduleWithinQuota'
  OBVIOUS
<1>0. /\ faults \in Nat /\ tick \in [Replicas -> Tick]
      /\ \A i \in DOMAIN runs : runs[i] \in Run
  BY FaultsAreNat, RunsDomain DEF Typed, TypeOK
<1>1. CASE Pass
  <2>1. clock' = clock + 1 /\ clock \in Nat /\ Day \in Nat
    BY <1>1, TimesAreNat DEF Pass, Typed, TypeOK, Times
  <2>2. \A i \in DOMAIN runs : runs[i].created \in Nat
    BY <1>0, TimesAreNat DEF Run, Times
  <2>3. UNCHANGED <<runs, tick, faults>>
    BY <1>1 DEF Pass, tables
  <2>4. Recent(clock)' \subseteq Recent(clock) /\ Inserting' = Inserting
    BY <2>1, <2>2, <2>3 DEF Recent, Inserting
  <2>5. QED
    BY <1>0, <2>3, <2>4, SpendsNoMore
<1>2. CASE User \/ UNCHANGED vars
  <2>1. UNCHANGED <<clock, tick, faults>>
    BY <1>2 DEF User, CreateCheck, CreateInsert, Delete, vars
  <2>2. /\ DOMAIN runs' = DOMAIN runs
        /\ \A i \in DOMAIN runs : runs'[i].created = runs[i].created
    BY <1>0, <1>2 DEF User, CreateCheck, CreateInsert, Delete, vars, Run
  <2>3. QED
    BY <1>0, <2>1, <2>2, SameRecent, SpendsNoMore DEF Inserting
<1>3. ASSUME NEW i \in DOMAIN runs, Deliver(i) PROVE ScheduleWithinQuota'
  <2>1. UNCHANGED <<clock, tick>> /\ faults' >= faults
    BY <1>0, <1>3 DEF Deliver, DeliverFind, DeliverStore, DeliverUpdate,
       DeliverDigest, DigestLookupFails, DeliverAborts, Fault
  <2>2. \/ runs' = runs
        \/ \E found \in SUBSET Urls : runs' = [runs EXCEPT ![i].found = found]
        \/ runs' = [runs EXCEPT ![i].status = "completed"]
    BY <1>3 DEF Deliver, DeliverFind, DeliverStore, DeliverUpdate,
       DeliverDigest, DigestLookupFails, DeliverAborts, tables
  <2>3. /\ DOMAIN runs' = DOMAIN runs
        /\ \A k \in DOMAIN runs : runs'[k].created = runs[k].created
    BY <1>0, <2>2 DEF Run
  <2>4. QED
    BY <2>1, <2>3, SameRecent, SpendsNoMore DEF Inserting
<1>4. ASSUME NEW r \in Replicas, Acquire(r) \/ Recycle(r) \/ Failure(r) \/ Release(r)
      PROVE  ScheduleWithinQuota'
  <2>1. UNCHANGED <<clock, runs>> /\ faults' >= faults
    <3>1. CASE Acquire(r) \/ Recycle(r) \/ Release(r)
      BY <1>0, <3>1 DEF Acquire, Recycle, Release, tables
    <3>2. CASE Failure(r)
      BY <1>0, <3>2 DEF Failure, UnlockFails, SessionLost, Crash, TickFails,
         Fault, tables
    <3>3. QED
      BY <1>4, <3>1, <3>2
  <2>2. Inserting' \subseteq Inserting
    <3>1. ASSUME NEW q \in Replicas, q # r PROVE tick'[q] = tick[q]
      BY <1>0, <1>4, <3>1 DEF Acquire, Recycle, Failure, UnlockFails,
         SessionLost, Crash, TickFails, Release, Go
    <3>2. tick' = tick \/ tick'[r].pc \in {"idle", "list", "release"}
      <4>1. CASE Acquire(r) \/ TickFails(r)
        BY <1>0, <4>1 DEF Acquire, TickFails, Go, Tick
      <4>2. CASE Release(r) \/ UnlockFails(r) \/ Crash(r)
        BY <1>0, <4>2 DEF Release, UnlockFails, Crash, Asleep
      <4>3. CASE Recycle(r) \/ SessionLost(r)
        BY <4>3 DEF Recycle, SessionLost
      <4>4. QED
        BY <1>4, <4>1, <4>2, <4>3 DEF Failure
    <3>3. QED
      BY <3>1, <3>2 DEF Inserting
  <2>3. QED
    BY <2>1, <2>2, SameRecent, SpendsNoMore
<1>5. ASSUME NEW r \in Replicas, Work(r), ~Release(r), ~Count(r), ~Insert(r)
      PROVE  ScheduleWithinQuota'
  <2>1. clock' = clock /\ faults' = faults
    BY <1>5 DEF Work, ListDue, NoneLeft, NextSearch, Recall, InsertRefused,
       Dispatch, FailRun, MarkRan
  <2>2. /\ DOMAIN runs' = DOMAIN runs
        /\ \A i \in DOMAIN runs : runs'[i].created = runs[i].created
    <3>1. runs' = runs \/ runs' = [runs EXCEPT ![tick[r].run].status = "failed"]
      BY <1>5 DEF Work, ListDue, NoneLeft, NextSearch, Recall, InsertRefused,
         Dispatch, FailRun, MarkRan, tables
    <3>2. QED
      BY <1>0, <3>1 DEF Run
  <2>3. ASSUME NEW q \in Replicas, q # r PROVE tick'[q] = tick[q]
    BY <1>0, <1>5, <2>3 DEF Work, ListDue, NoneLeft, NextSearch, Recall,
       InsertRefused, Dispatch, FailRun, MarkRan, Go
  <2>4. tick'[r].pc \in {"recall", "insert"} => tick[r].pc \in {"recall", "insert"}
    <3>1. CASE Recall(r)
      BY <3>1 DEF Recall, At
    <3>2. CASE ListDue(r)
      BY <1>0, <3>2 DEF ListDue, Asleep
    <3>3. CASE MarkRan(r)
      <4> DEFINE new == [tick[r] EXCEPT !.pc = "next", !.search = NoSearch,
                                        !.created = 0, !.memory = {}, !.run = 0]
      <4>1. tick' = [tick EXCEPT ![r] = new]
        BY <1>0, <3>3 DEF MarkRan
      <4>2. new.pc = "next"
        BY <1>0 DEF Tick
      <4> HIDE DEF new
      <4>3. QED
        BY <1>0, <4>1, <4>2
    <3>4. CASE NoneLeft(r) \/ InsertRefused(r) \/ Dispatch(r) \/ FailRun(r)
      BY <1>0, <3>4 DEF NoneLeft, InsertRefused, Dispatch, FailRun, Go, Tick
    <3>5. ASSUME NEW s \in Searches, NextSearch(r, s)
          PROVE  tick'[r].pc \notin {"recall", "insert"}
      BY <1>0, <3>5 DEF NextSearch, Tick
    <3>6. QED
      BY <1>5, <3>1, <3>2, <3>3, <3>4, <3>5 DEF Work
  <2>5. Inserting' \subseteq Inserting
    BY <2>3, <2>4 DEF Inserting
  <2>6. QED
    BY <1>0, <2>1, <2>2, <2>5, SameRecent, SpendsNoMore
<1>6. QED
  BY <1>1, <1>2, <1>3, <1>4, <1>5, CountWithin, InsertWithin DEF Next, Work

LEMMA QuotaInit == Init => ScheduleWithinQuota
<1> SUFFICES ASSUME Init PROVE ScheduleWithinQuota
  OBVIOUS
<1>1. Recent(clock) = {} /\ Inserting = {}
  BY DEF Init, Recent, Inserting, Asleep
<1>2. faults = 0 /\ Quota \in Nat /\ Cardinality({}) = 0
  BY FS_EmptySet, LimitsAreNat DEF Init
<1>3. QED
  BY <1>1, <1>2 DEF ScheduleWithinQuota

(* "a schedule cannot outspend a user" (run_due_searches.rs), but for one  *)
(* run per fault: counting and inserting are two statements.               *)
THEOREM ScheduleQuota == Spec => []ScheduleWithinQuota
BY QuotaInit, QuotaStep, AlwaysLocked, PTL DEF Spec
-----------------------------------------------------------------------------
(* The digest.  A delivery that is being served takes back the answer of   *)
(* the one before it, so that the results it replaces are those of no      *)
(* answered run; it answers after the digest, or after a fault.            *)

Missed == {i \in acked : /\ runs[i].search # NoSearch
                         /\ ~ News(i) \subseteq announced[i]}

Unanswered == \A i \in DOMAIN runs : delivery[i] # "none" => i \notin acked

LEMMA MissedTyped ==
  ASSUME Typed
  PROVE  IsFiniteSet(Missed) /\ Cardinality(Missed) \in Nat
<1>1. IsFiniteSet(DOMAIN runs)
  BY RunsDomain, FS_Interval DEF Typed
<1>2. Missed \subseteq DOMAIN runs
  BY DEF Missed, Typed, TypeOK
<1>3. QED
  BY <1>1, <1>2, FS_Subset, FS_CardinalityType

LEMMA MissesNoMore ==
  ASSUME Typed, Typed', AnsweredIsAnnounced, faults' >= faults,
         Missed' \subseteq Missed
  PROVE  AnsweredIsAnnounced'
<1>1. Cardinality(Missed') <= Cardinality(Missed)
  BY MissedTyped, FS_Subset
<1>2. IsFiniteSet(Missed') /\ Cardinality(Missed') \in Nat
  BY MissedTyped, FS_Subset, FS_CardinalityType
<1>3. faults \in Nat /\ faults' \in Nat
  BY FaultsAreNat DEF Typed, TypeOK
<1>4. QED
  BY <1>1, <1>2, <1>3, MissedTyped DEF AnsweredIsAnnounced, Missed

(* A step that leaves the deliveries alone, and what the answered runs     *)
(* found and carried.                                                      *)
LEMMA SameNews ==
  ASSUME Typed, Typed', AnsweredIsAnnounced, faults' >= faults,
         acked' = acked,
         \A i \in DOMAIN runs : announced'[i] = announced[i],
         \A i \in acked : /\ runs'[i].found = runs[i].found
                          /\ runs'[i].memory = runs[i].memory
                          /\ runs'[i].search \in {runs[i].search, NoSearch}
  PROVE  AnsweredIsAnnounced'
<1>1. acked \subseteq DOMAIN runs
  BY DEF Typed, TypeOK
<1>2. Missed' \subseteq Missed
  BY <1>1 DEF Missed, News
<1>3. QED
  BY <1>2, MissesNoMore

LEMMA DeliverAnnounced ==
  ASSUME Typed, Typed', Unanswered, AnsweredIsAnnounced,
         NEW i \in DOMAIN runs, Deliver(i)
  PROVE  Unanswered' /\ AnsweredIsAnnounced'
<1>1. /\ faults \in Nat /\ acked \subseteq DOMAIN runs
      /\ DOMAIN delivery = DOMAIN runs /\ DOMAIN announced = DOMAIN runs
      /\ \A k \in DOMAIN runs : runs[k] \in Run
  BY FaultsAreNat, RunsDomain DEF Typed, TypeOK
<1>2. CASE DeliverFind(i)
  <2>1. /\ acked' = acked \ {i}
        /\ UNCHANGED <<runs, announced, faults>>
        /\ \A k \in DOMAIN runs : k # i => delivery'[k] = delivery[k]
    BY <1>1, <1>2 DEF DeliverFind, tables
  <2>2. Missed' \subseteq Missed
    BY <2>1 DEF Missed, News
  <2>3. QED
    BY <1>1, <2>1, <2>2, MissesNoMore DEF Unanswered
<1>3. ASSUME NEW found \in SUBSET Urls, DeliverStore(i, found)
      PROVE  Unanswered' /\ AnsweredIsAnnounced'
  <2>1. i \notin acked
    BY <1>3 DEF DeliverStore, Unanswered
  <2>2. /\ UNCHANGED <<announced, acked, faults>> /\ DOMAIN runs' = DOMAIN runs
        /\ \A k \in DOMAIN runs : k # i => /\ runs'[k] = runs[k]
                                           /\ delivery'[k] = delivery[k]
    BY <1>1, <1>3 DEF DeliverStore
  <2>3. QED
    BY <1>1, <2>1, <2>2, SameNews DEF Unanswered
<1>4. CASE DeliverUpdate(i)
  <2>1. i \notin acked
    BY <1>4 DEF DeliverUpdate, Unanswered
  <2>2. /\ UNCHANGED <<announced, acked, faults>> /\ DOMAIN runs' = DOMAIN runs
        /\ \A k \in DOMAIN runs : k # i => /\ runs'[k] = runs[k]
                                           /\ delivery'[k] = delivery[k]
    BY <1>1, <1>4 DEF DeliverUpdate
  <2>3. QED
    BY <1>1, <2>1, <2>2, SameNews DEF Unanswered
<1>5. CASE DeliverDigest(i)
  <2>1. /\ UNCHANGED <<runs, faults>> /\ acked' = acked \cup {i}
        /\ delivery'[i] = "none"
        /\ \A k \in DOMAIN runs : k # i => /\ announced'[k] = announced[k]
                                           /\ delivery'[k] = delivery[k]
    BY <1>1, <1>5 DEF DeliverDigest, tables
  <2>2. runs[i].search # NoSearch => News(i) \subseteq announced'[i]
    BY <1>1, <1>5 DEF DeliverDigest
  <2>3. Missed' \subseteq Missed
    BY <1>1, <2>1, <2>2 DEF Missed, News
  <2>4. QED
    BY <1>1, <2>1, <2>3, MissesNoMore DEF Unanswered
<1>6. CASE DigestLookupFails(i)
  <2>1. /\ UNCHANGED <<runs, announced>> /\ acked' = acked \cup {i}
        /\ faults' = faults + 1 /\ delivery'[i] = "none"
        /\ \A k \in DOMAIN runs : k # i => delivery'[k] = delivery[k]
    BY <1>1, <1>6 DEF DigestLookupFails, Fault, tables
  <2>2. Missed' \subseteq Missed \cup {i}
    BY <2>1 DEF Missed, News
  <2>3. /\ IsFiniteSet(Missed \cup {i}) /\ Cardinality(Missed \cup {i}) \in Nat
        /\ Cardinality(Missed \cup {i}) <= Cardinality(Missed) + 1
    BY MissedTyped, OneMore
  <2>4. /\ IsFiniteSet(Missed')
        /\ Cardinality(Missed') <= Cardinality(Missed \cup {i})
    BY <2>2, <2>3, FS_Subset
  <2>5. Cardinality(Missed') \in Nat
    BY <2>4, FS_CardinalityType
  <2>6. AnsweredIsAnnounced'
    BY <1>1, <2>1, <2>3, <2>4, <2>5, MissedTyped
    DEF AnsweredIsAnnounced, Missed
  <2>7. QED
    BY <2>1, <2>6 DEF Unanswered
<1>7. CASE DeliverAborts(i)
  <2>1. /\ UNCHANGED <<runs, announced, acked, faults>>
        /\ \A k \in DOMAIN runs : k # i => delivery'[k] = delivery[k]
        /\ delivery'[i] = "none"
    BY <1>1, <1>7 DEF DeliverAborts, tables
  <2>2. QED
    BY <1>1, <2>1, SameNews DEF Unanswered
<1>8. QED
  BY <1>2, <1>3, <1>4, <1>5, <1>6, <1>7 DEF Deliver

LEMMA InsertAnnounced ==
  ASSUME Typed, Typed', Unanswered, AnsweredIsAnnounced,
         NEW r \in Replicas, Insert(r)
  PROVE  Unanswered' /\ AnsweredIsAnnounced'
<1> DEFINE n == Len(runs) + 1
           job == [search |-> tick[r].search, of |-> tick[r].search,
                   due |-> tick[r].now, created |-> tick[r].created,
                   status |-> "pending", memory |-> tick[r].memory,
                   found |-> {}]
<1>1. job \in Run
  BY DEF Insert, At, Typed, TypeOK, Placed, Run, Tick
<1>2. /\ runs' = Append(runs, job) /\ acked' = acked /\ faults' = faults
      /\ delivery' = Append(delivery, "none")
      /\ announced' = Append(announced, {})
  BY DEF Insert
<1> HIDE DEF job
<1>3. /\ DOMAIN runs = 1..Len(runs) /\ DOMAIN runs' = 1..n /\ Len(runs) \in Nat
      /\ \A i \in DOMAIN runs : runs'[i] = runs[i]
  BY <1>1, <1>2, RunsDomain, AppendProperties, LenProperties DEF Typed, TypeOK
<1>4. /\ delivery'[n] = "none"
      /\ \A i \in DOMAIN runs : delivery'[i] = delivery[i]
  BY <1>2, <1>3, AppendProperties, LenProperties DEF Typed, TypeOK
<1>5. \A i \in DOMAIN runs : announced'[i] = announced[i]
  BY <1>2, <1>3, AppendProperties, LenProperties DEF Typed, TypeOK
<1>6. acked \subseteq DOMAIN runs /\ faults \in Nat
  BY FaultsAreNat DEF Typed, TypeOK
<1>7. n \notin acked /\ \A i \in 1..n : i \in DOMAIN runs \/ i = n
  BY <1>3, <1>6
<1>8. Unanswered'
  BY <1>2, <1>3, <1>4, <1>7 DEF Unanswered
<1>9. \A i \in acked : /\ runs'[i].found = runs[i].found
                       /\ runs'[i].memory = runs[i].memory
                       /\ runs'[i].search \in {runs[i].search, NoSearch}
  BY <1>3, <1>6
<1>10. AnsweredIsAnnounced'
  <2>1. faults' >= faults
    BY <1>2, <1>6
  <2>2. QED
    BY <1>2, <1>5, <1>9, <2>1, SameNews
<1>11. QED
  BY <1>8, <1>10

(* The other steps change no delivery; a deletion unlinks runs, a failed   *)
(* dispatch changes a status.                                              *)
LEMMA AnnouncedStep ==
  Typed /\ Typed' /\ Unanswered /\ AnsweredIsAnnounced /\ [Next]_vars
    => Unanswered' /\ AnsweredIsAnnounced'
<1> SUFFICES ASSUME Typed, Typed', Unanswered, AnsweredIsAnnounced, [Next]_vars
             PROVE  Unanswered' /\ AnsweredIsAnnounced'
  OBVIOUS
<1>0. /\ faults \in Nat /\ acked \subseteq DOMAIN runs
      /\ \A i \in DOMAIN runs : runs[i] \in Run
  BY FaultsAreNat, RunsDomain DEF Typed, TypeOK
<1>1. ASSUME UNCHANGED callbacks, faults' >= faults,
             DOMAIN runs' = DOMAIN runs,
             \A i \in DOMAIN runs :
               /\ runs'[i].found = runs[i].found
               /\ runs'[i].memory = runs[i].memory
               /\ runs'[i].search \in {runs[i].search, NoSearch}
      PROVE  Unanswered' /\ AnsweredIsAnnounced'
  <2>1. /\ acked' = acked /\ delivery' = delivery /\ announced' = announced
    BY <1>1 DEF callbacks
  <2>2. QED
    BY <1>0, <1>1, <2>1, SameNews DEF Unanswered
<1>2. CASE Pass \/ User \/ UNCHANGED vars
  <2>1. UNCHANGED callbacks /\ faults' >= faults
    <3>1. UNCHANGED callbacks /\ faults' = faults
      BY <1>2 DEF Pass, User, CreateCheck, CreateInsert, Delete, vars, callbacks
    <3>2. QED
      BY <1>0, <3>1
  <2>2. /\ DOMAIN runs' = DOMAIN runs
        /\ \A i \in DOMAIN runs :
             /\ runs'[i].found = runs[i].found
             /\ runs'[i].memory = runs[i].memory
             /\ runs'[i].search \in {runs[i].search, NoSearch}
    <3>1. CASE Pass \/ UNCHANGED vars
      <4>1. runs' = runs
        BY <3>1 DEF Pass, vars, tables
      <4>2. QED
        BY <4>1
    <3>2. CASE \E s \in Searches : CreateCheck(s) \/ CreateInsert(s)
      <4>1. runs' = runs
        BY <3>2 DEF CreateCheck, CreateInsert
      <4>2. QED
        BY <4>1
    <3>3. ASSUME NEW s \in Searches, Delete(s)
          PROVE  /\ DOMAIN runs' = DOMAIN runs
                 /\ \A i \in DOMAIN runs :
                      /\ runs'[i].found = runs[i].found
                      /\ runs'[i].memory = runs[i].memory
                      /\ runs'[i].search \in {runs[i].search, NoSearch}
      <4>1. runs' = [i \in DOMAIN runs |->
                       IF runs[i].search = s
                       THEN [runs[i] EXCEPT !.search = NoSearch] ELSE runs[i]]
        BY <3>3 DEF Delete
      <4>2. DOMAIN runs' = DOMAIN runs
        BY <4>1
      <4>3. ASSUME NEW i \in DOMAIN runs
            PROVE  /\ runs'[i].found = runs[i].found
                   /\ runs'[i].memory = runs[i].memory
                   /\ runs'[i].search \in {runs[i].search, NoSearch}
        <5>1. runs[i] \in Run
          BY <1>0
        <5>2. \/ runs'[i] = runs[i]
              \/ runs'[i] = [runs[i] EXCEPT !.search = NoSearch]
          BY <4>1
        <5>3. QED
          BY <5>1, <5>2 DEF Run
      <4>4. QED
        BY <4>2, <4>3
    <3>4. QED
      BY <1>2, <3>1, <3>2, <3>3 DEF User
  <2>3. QED
    BY <1>1, <2>1, <2>2
<1>3. ASSUME NEW r \in Replicas, Acquire(r) \/ Recycle(r) \/ Failure(r)
      PROVE  Unanswered' /\ AnsweredIsAnnounced'
  <2>1. UNCHANGED callbacks /\ runs' = runs
    BY <1>3 DEF Acquire, Recycle, Failure, UnlockFails, SessionLost, Crash,
       TickFails, tables
  <2>2. faults' >= faults
    BY <1>0, <1>3 DEF Acquire, Recycle, Failure, UnlockFails, SessionLost,
       Crash, TickFails, Fault
  <2>3. QED
    BY <1>1, <2>1, <2>2
<1>4. ASSUME NEW r \in Replicas, Work(r), ~Insert(r)
      PROVE  Unanswered' /\ AnsweredIsAnnounced'
  <2>1. UNCHANGED callbacks /\ faults' = faults
    BY <1>4 DEF Work, ListDue, NoneLeft, NextSearch, Count, Recall,
       InsertRefused, Dispatch, FailRun, MarkRan, Release
  <2>2. runs' = runs \/ runs' = [runs EXCEPT ![tick[r].run].status = "failed"]
    BY <1>4 DEF Work, ListDue, NoneLeft, NextSearch, Count, Recall,
       InsertRefused, Dispatch, FailRun, MarkRan, Release, tables
  <2>3. /\ DOMAIN runs' = DOMAIN runs
        /\ \A i \in DOMAIN runs :
             /\ runs'[i].found = runs[i].found
             /\ runs'[i].memory = runs[i].memory
             /\ runs'[i].search \in {runs[i].search, NoSearch}
    BY <1>0, <2>2 DEF Run
  <2>4. QED
    BY <1>0, <1>1, <2>1, <2>3
<1>5. QED
  BY <1>2, <1>3, <1>4, InsertAnnounced, DeliverAnnounced DEF Next

LEMMA AnnouncedInit == Init => Unanswered /\ AnsweredIsAnnounced
<1> SUFFICES ASSUME Init PROVE Unanswered /\ AnsweredIsAnnounced
  OBVIOUS
<1>1. Missed = {} /\ acked = {} /\ faults = 0 /\ Cardinality({}) = 0
  BY FS_EmptySet DEF Init, Missed
<1>2. QED
  BY <1>1 DEF Unanswered, AnsweredIsAnnounced, Missed

(* digest.rs, "Digests are **at-least-once**": once a complete callback is  *)
(* answered, its news have been announced, but for one run per failed      *)
(* look-up of the search.                                                  *)
THEOREM Announced == Spec => []AnsweredIsAnnounced
BY AnnouncedInit, AnnouncedStep, AlwaysLocked, PTL DEF Spec
-----------------------------------------------------------------------------
(* The spacing.  Every scheduled run of search s whose `now` is in a window *)
(* of one interval has been launched, or is one of the stray replicas'     *)
(* (each has lost a session), or is the one that the lock lets through.    *)

Window(t) == t..(t + Interval - 1)

Launched(s, t) ==
  {i \in DOMAIN runs : runs[i].of = s /\ runs[i].due \in Window(t)}

Serving == {"count", "recall", "insert", "dispatch", "fail", "mark"}

(* Replica r has yet to insert its run of s, or only to mark s.            *)
ToRun(r, s) ==
  \/ tick[r].pc \in {"next"} \cup Serving /\ s \in tick[r].left
  \/ tick[r].pc \in {"count", "recall", "insert"} /\ tick[r].search = s

Marking(r, s) == tick[r].pc \in {"dispatch", "fail", "mark"} /\ tick[r].search = s

(* It may insert a run in the window, or set last_run_at back before it... *)
Threat(r, s, t) ==
  \/ ToRun(r, s) /\ tick[r].now \in Window(t)
  \/ (ToRun(r, s) \/ Marking(r, s)) /\ tick[r].now < t

(* ... or is about to set it in the window or later.                       *)
Closing(r, s, t) == Marking(r, s) /\ tick[r].now >= t

Loose(s, t) ==
  /\ searches[s].state # "deleted"
  /\ searches[s].last = Never \/ searches[s].last < t

(* A replica with the lock inserts a run in the window, now or later.      *)
Open(s, t) ==
  \/ \E r \in Replicas : locks[r] > 0 /\ Threat(r, s, t)
  \/ Loose(s, t) /\ ~ \E r \in Replicas : locks[r] > 0 /\ Closing(r, s, t)

(* Replicas without the lock that may still do so.                         *)
Stray(s, t) ==
  {r \in Replicas : locks[r] = 0 /\ (At(r, "list") \/ Threat(r, s, t))}

One(p) == IF p THEN 1 ELSE 0

Spaced(s, t) ==
  Cardinality(Launched(s, t)) + Cardinality(Stray(s, t)) + One(Open(s, t))
    <= 1 + faults

(* A search is taken once in a tick, and has been stored.                  *)
Stored(s) == searches[s].state \in {"saved", "deleted"}

TakenBy(r) ==
  /\ tick[r].pc \in {"next"} \cup Serving => \A s \in tick[r].left : Stored(s)
  /\ tick[r].pc \in Serving
       => tick[r].search \notin tick[r].left /\ Stored(tick[r].search)

Taken == \A r \in Replicas : TakenBy(r)

LEMMA SpacedTyped ==
  ASSUME Typed, NEW s, NEW t
  PROVE  /\ IsFiniteSet(Launched(s, t)) /\ Cardinality(Launched(s, t)) \in Nat
         /\ IsFiniteSet(Stray(s, t)) /\ Cardinality(Stray(s, t)) \in Nat
<1>1. IsFiniteSet(DOMAIN runs)
  BY RunsDomain, FS_Interval DEF Typed
<1>2. IsFiniteSet(Launched(s, t)) /\ IsFiniteSet(Stray(s, t))
  BY <1>1, ReplicasFinite, FS_Subset DEF Launched, Stray
<1>3. QED
  BY <1>2, FS_CardinalityType

(* The step of one replica: what it launches is paid by its own share, by  *)
(* that of the lock, or by a fault.                                        *)
LEMMA Balance ==
  ASSUME Typed, Typed', NEW s, NEW t, Spaced(s, t), NEW r \in Replicas,
         \A q \in Replicas \ {r} : q \in Stray(s, t)' => q \in Stray(s, t),
         NEW m \in Nat, IsFiniteSet(Launched(s, t)'),
         Cardinality(Launched(s, t)') <= Cardinality(Launched(s, t)) + m,
         m + One(r \in Stray(s, t)') + One(Open(s, t)') + faults
           <= One(r \in Stray(s, t)) + One(Open(s, t)) + faults'
  PROVE  Spaced(s, t)'
<1> DEFINE S == Stray(s, t)
           others == S \ {r}
<1>1. IsFiniteSet(S) /\ IsFiniteSet(others) /\ IsFiniteSet(S')
  BY ReplicasFinite, FS_Subset DEF Stray
<1>2. Cardinality(S) = Cardinality(others) + One(r \in S)
  BY <1>1, FS_RemoveElement, FS_CardinalityType DEF One
<1>3. Cardinality(S') <= Cardinality(others) + One(r \in S')
  <2>1. S' \subseteq others \cup {r}
    BY DEF Stray
  <2>2. CASE r \in S'
    <3>1. /\ IsFiniteSet(others \cup {r})
          /\ Cardinality(others \cup {r}) <= Cardinality(others) + 1
          /\ Cardinality(others \cup {r}) \in Nat
      BY <1>1, OneMore
    <3>2. Cardinality(S') <= Cardinality(others \cup {r})
      BY <2>1, <3>1, FS_Subset
    <3>3. QED
      BY <1>1, <2>2, <3>1, <3>2, FS_CardinalityType DEF One
  <2>3. CASE r \notin S'
    <3>1. S' \subseteq others
      BY <2>1, <2>3
    <3>2. Cardinality(S') <= Cardinality(others)
      BY <1>1, <3>1, FS_Subset
    <3>3. QED
      BY <1>1, <2>3, <3>2, FS_CardinalityType DEF One
  <2>4. QED
    BY <2>2, <2>3
<1>4. /\ Cardinality(S) \in Nat /\ Cardinality(others) \in Nat
      /\ Cardinality(S') \in Nat
  BY <1>1, FS_CardinalityType
<1>5. /\ faults \in Nat /\ faults' \in Nat
      /\ Cardinality(Launched(s, t)) \in Nat
      /\ Cardinality(Launched(s, t)') \in Nat
  BY SpacedTyped, FS_CardinalityType, FaultsAreNat DEF Typed, TypeOK
<1>6. /\ Cardinality(Launched(s, t)) + Cardinality(S) + One(Open(s, t))
           <= 1 + faults
      /\ One(Open(s, t)) \in Nat /\ One(Open(s, t)') \in Nat
      /\ One(r \in S) \in Nat /\ One(r \in S') \in Nat
  BY DEF Spaced, One
<1>7. Cardinality(Launched(s, t)') + Cardinality(S') + One(Open(s, t)')
        <= 1 + faults'
  <2> HIDE DEF S, others
  <2>1. m + One(r \in S') + One(Open(s, t)') + faults
          <= One(r \in S) + One(Open(s, t)) + faults'
    BY DEF S
  <2>2. QED
    BY <1>2, <1>3, <1>4, <1>5, <1>6, <2>1
<1>8. QED
  BY <1>7 DEF Spaced

(* A step after which no replica threatens more than before.               *)
LEMMA Calm ==
  ASSUME Typed, Typed', NEW s, NEW t, Spaced(s, t), faults' >= faults,
         Launched(s, t)' \subseteq Launched(s, t), locks' = locks,
         \A q \in Replicas : /\ At(q, "list")' => At(q, "list")
                             /\ Threat(q, s, t)' => Threat(q, s, t)
                             /\ Closing(q, s, t) => Closing(q, s, t)',
         Loose(s, t)' => Loose(s, t)
  PROVE  Spaced(s, t)'
<1>1. Stray(s, t)' \subseteq Stray(s, t)
  BY DEF Stray
<1>2. Open(s, t)' => Open(s, t)
  BY DEF Open
<1>3. /\ Cardinality(Launched(s, t)') <= Cardinality(Launched(s, t))
      /\ Cardinality(Stray(s, t)') <= Cardinality(Stray(s, t))
      /\ IsFiniteSet(Launched(s, t)') /\ IsFiniteSet(Stray(s, t)')
  BY <1>1, SpacedTyped, FS_Subset
<1>4. /\ Cardinality(Launched(s, t)') \in Nat
      /\ Cardinality(Stray(s, t)') \in Nat
  BY <1>3, FS_CardinalityType
<1>5. faults \in Nat /\ faults' \in Nat
  BY FaultsAreNat DEF Typed, TypeOK
<1>6. One(Open(s, t)') <= One(Open(s, t))
  BY <1>2 DEF One
<1>7. One(Open(s, t)') \in Nat /\ One(Open(s, t)) \in Nat
  BY DEF One
<1>8. QED
  BY <1>3, <1>4, <1>5, <1>6, <1>7, SpacedTyped DEF Spaced

(* The step of a replica's loop or session that launches nothing.          *)
LEMMA Settled ==
  ASSUME Typed, Typed', NEW s, NEW t, Spaced(s, t), NEW r \in Replicas,
         \A q \in Replicas \ {r} : tick'[q] = tick[q] /\ locks'[q] = locks[q],
         Launched(s, t)' = Launched(s, t),
         One(r \in Stray(s, t)') + One(Open(s, t)') + faults
           <= One(r \in Stray(s, t)) + One(Open(s, t)) + faults'
  PROVE  Spaced(s, t)'
<1>1. \A q \in Replicas \ {r} : q \in Stray(s, t)' => q \in Stray(s, t)
  BY DEF Stray, Threat, ToRun, Marking, At
<1>2. /\ IsFiniteSet(Launched(s, t)')
      /\ Cardinality(Launched(s, t)') <= Cardinality(Launched(s, t)) + 0
  BY SpacedTyped
<1>3. 0 + One(r \in Stray(s, t)') + One(Open(s, t)') + faults
        <= One(r \in Stray(s, t)) + One(Open(s, t)) + faults'
  <2>1. One(r \in Stray(s, t)') \in Nat
    BY DEF One
  <2>2. QED
    BY <2>1
<1>4. QED
  BY <1>1, <1>2, <1>3, Balance

(* What the other replicas mean for the window does not change.            *)
LEMMA OpenWithout ==
  ASSUME NEW s, NEW t, NEW r \in Replicas,
         \A q \in Replicas \ {r} : tick'[q] = tick[q] /\ locks'[q] = locks[q],
         locks[r] > 0 => ~ Threat(r, s, t) /\ ~ Closing(r, s, t),
         locks'[r] > 0 => ~ Threat(r, s, t)' /\ ~ Closing(r, s, t)',
         Loose(s, t)' => Loose(s, t),
         Open(s, t)'
  PROVE  Open(s, t)
<1>1. \A q \in Replicas \ {r} :
        /\ Threat(q, s, t)' <=> Threat(q, s, t)
        /\ Closing(q, s, t)' <=> Closing(q, s, t)
  BY DEF Threat, Closing, ToRun, Marking
<1>2. QED
  BY <1>1 DEF Open

(* What the replica that holds the lock means for the window, before and   *)
(* after its step.                                                         *)
LEMMA HolderMoves ==
  ASSUME NEW s, NEW t, NEW r \in Replicas, OneHolder, locks[r] > 0,
         locks' = locks
  PROVE  /\ Open(s, t) <=> \/ Threat(r, s, t)
                           \/ Loose(s, t) /\ ~ Closing(r, s, t)
         /\ Open(s, t)' <=> \/ Threat(r, s, t)'
                            \/ Loose(s, t)' /\ ~ Closing(r, s, t)'
BY DEF Open, OneHolder

LEMMA SameLaunched ==
  ASSUME NEW s, NEW t, DOMAIN runs' = DOMAIN runs,
         \A i \in DOMAIN runs : /\ runs'[i].of = runs[i].of
                                /\ runs'[i].due = runs[i].due
  PROVE  Launched(s, t)' = Launched(s, t)
BY DEF Launched

LEMMA CalmWork ==
  ASSUME Typed, Typed', NEW s \in Searches, NEW t \in Times, Spaced(s, t),
         NEW r \in Replicas,
         \/ NoneLeft(r) \/ (\E q \in Searches : NextSearch(r, q)) \/ Count(r)
         \/ Recall(r) \/ InsertRefused(r) \/ Dispatch(r) \/ FailRun(r)
  PROVE  Spaced(s, t)'
<1>0. tick \in [Replicas -> Tick] /\ tick[r] \in Tick /\ faults \in Nat
      /\ \A i \in DOMAIN runs : runs[i] \in Run
  BY FaultsAreNat, RunsDomain DEF Typed, TypeOK
<1>1. locks' = locks /\ faults' = faults /\ searches' = searches
  BY DEF NoneLeft, NextSearch, Count, Recall, InsertRefused, Dispatch,
     FailRun, tables
<1>2. Launched(s, t)' = Launched(s, t)
  <2>1. runs' = runs \/ runs' = [runs EXCEPT ![tick[r].run].status = "failed"]
    BY DEF NoneLeft, NextSearch, Count, Recall, InsertRefused, Dispatch,
       FailRun, tables
  <2>2. QED
    BY <1>0, <2>1, SameLaunched DEF Run
<1>3. \A q \in Replicas \ {r} : tick'[q] = tick[q]
  BY <1>0 DEF NoneLeft, NextSearch, Count, Recall, InsertRefused, Dispatch,
     FailRun, Go
<1>4. /\ tick'[r].now = tick[r].now /\ tick'[r].pc # "list"
      /\ ToRun(r, s)' => ToRun(r, s)
      /\ Marking(r, s) => Marking(r, s)'
      /\ Marking(r, s)' => Marking(r, s) \/ ToRun(r, s)
  <2>1. CASE NoneLeft(r)
    BY <1>0, <2>1 DEF NoneLeft, Go, At, Tick, ToRun, Marking, Serving
  <2>2. ASSUME NEW q \in Searches, NextSearch(r, q)
        PROVE  /\ tick[r].pc = "next" /\ q \in tick[r].left
               /\ tick'[r].pc = "count" /\ tick'[r].search = q
               /\ tick'[r].left = tick[r].left \ {q}
               /\ tick'[r].now = tick[r].now
    BY <1>0, <2>2 DEF NextSearch, At, Tick
  <2>3. CASE \E q \in Searches : NextSearch(r, q)
    BY <2>2, <2>3 DEF ToRun, Marking, Serving
  <2>4. CASE Count(r) \/ InsertRefused(r) \/ Dispatch(r) \/ FailRun(r)
    BY <1>0, <2>4 DEF Count, InsertRefused, Dispatch, FailRun, Go, At, Tick,
       ToRun, Marking, Serving
  <2>5. CASE Recall(r)
    <3>1. /\ tick[r].pc = "recall" /\ tick'[r].pc = "insert"
          /\ tick'[r].search = tick[r].search /\ tick'[r].left = tick[r].left
          /\ tick'[r].now = tick[r].now
      BY <1>0, <2>5 DEF Recall, At, Tick
    <3>2. QED
      BY <3>1 DEF ToRun, Marking, Serving
  <2>6. QED
    BY <2>1, <2>3, <2>4, <2>5
<1>5. \A q \in Replicas :
        /\ At(q, "list")' => At(q, "list")
        /\ Threat(q, s, t)' => Threat(q, s, t)
        /\ Closing(q, s, t) => Closing(q, s, t)'
  BY <1>3, <1>4 DEF At, Threat, ToRun, Marking, Closing
<1>6. Loose(s, t)' => Loose(s, t)
  BY <1>1 DEF Loose
<1>7. QED
  BY <1>0, <1>1, <1>2, <1>5, <1>6, Calm

(* A tick begins or ends, or a connection is closed.                       *)
LEMMA LockSpaced ==
  ASSUME Typed, Typed', NEW s \in Searches, NEW t \in Times, Spaced(s, t),
         NEW r \in Replicas, Acquire(r) \/ Recycle(r) \/ Release(r)
  PROVE  Spaced(s, t)'
<1>0. tick \in [Replicas -> Tick] /\ locks \in [Replicas -> Nat]
      /\ faults \in Nat
  BY FaultsAreNat DEF Typed, TypeOK
<1>1. UNCHANGED <<searches, runs, faults>>
  BY DEF Acquire, Recycle, Release, tables
<1>2. \A q \in Replicas \ {r} : tick'[q] = tick[q] /\ locks'[q] = locks[q]
  BY <1>0 DEF Acquire, Recycle, Release, Go
<1>3. tick[r].pc \in {"idle", "release"}
      /\ tick'[r].pc \in {"idle", "list"}
      /\ (tick'[r].pc = "list" => locks'[r] > 0)
  <2>1. CASE Acquire(r)
    BY <1>0, <2>1 DEF Acquire, Go, At, Tick
  <2>2. CASE Recycle(r) \/ Release(r)
    BY <1>0, <2>2 DEF Recycle, Release, At, Asleep
  <2>3. QED
    BY <2>1, <2>2
<1>4. /\ ~ Threat(r, s, t) /\ ~ Closing(r, s, t)
      /\ ~ Threat(r, s, t)' /\ ~ Closing(r, s, t)'
  BY <1>3 DEF Threat, Closing, ToRun, Marking, Serving
<1>5. r \notin Stray(s, t)'
  BY <1>0, <1>3, <1>4 DEF Stray, At
<1>6. Open(s, t)' => Open(s, t)
  BY <1>1, <1>2, <1>4, OpenWithout DEF Loose
<1>7. Launched(s, t)' = Launched(s, t)
  BY <1>1 DEF Launched
<1>8. One(r \in Stray(s, t)') + One(Open(s, t)') + faults
        <= One(r \in Stray(s, t)) + One(Open(s, t)) + faults'
  BY <1>0, <1>1, <1>5, <1>6 DEF One
<1>9. QED
  BY <1>2, <1>7, <1>8, Settled

(* A fault pays for what it lets through.                                  *)
LEMMA FaultSpaced ==
  ASSUME Typed, Typed', NEW s \in Searches, NEW t \in Times, Spaced(s, t),
         NEW r \in Replicas, Failure(r)
  PROVE  Spaced(s, t)'
<1>0. tick \in [Replicas -> Tick] /\ locks \in [Replicas -> Nat]
      /\ faults \in Nat
  BY FaultsAreNat DEF Typed, TypeOK
<1>1. UNCHANGED <<searches, runs>> /\ faults' = faults + 1
  BY DEF Failure, UnlockFails, SessionLost, Crash, TickFails, Fault, tables
<1>2. \A q \in Replicas \ {r} : tick'[q] = tick[q] /\ locks'[q] = locks[q]
  BY <1>0 DEF Failure, UnlockFails, SessionLost, Crash, TickFails, Go
<1>3. Launched(s, t)' = Launched(s, t)
  BY <1>1 DEF Launched
<1>4. r \in Stray(s, t)' /\ Open(s, t)' => Open(s, t)
  <2>1. CASE SessionLost(r)
    <3>1. tick' = tick /\ locks[r] > 0 /\ locks'[r] = 0
      BY <1>0, <2>1 DEF SessionLost
    <3>2. SUFFICES ASSUME At(r, "list"), Open(s, t)' PROVE Open(s, t)
      BY <3>1 DEF Stray, Open, Threat, ToRun, Marking, At
    <3>3. ~ Threat(r, s, t) /\ ~ Closing(r, s, t)
      BY <3>2 DEF At, Threat, Closing, ToRun, Marking, Serving
    <3>4. QED
      BY <1>1, <1>2, <3>1, <3>2, <3>3, OpenWithout DEF Loose
  <2>2. CASE ~ SessionLost(r)
    <3>1. tick'[r].pc \in {"idle", "release"}
      <4>1. CASE TickFails(r)
        BY <1>0, <4>1 DEF TickFails, Go, Tick
      <4>2. CASE UnlockFails(r) \/ Crash(r)
        BY <1>0, <4>2 DEF UnlockFails, Crash, Asleep
      <4>3. QED
        BY <2>2, <4>1, <4>2 DEF Failure
    <3>2. QED
      BY <3>1 DEF Stray, At, Threat, ToRun, Marking, Serving
  <2>3. QED
    BY <2>1, <2>2
<1>5. One(r \in Stray(s, t)') + One(Open(s, t)') + faults
        <= One(r \in Stray(s, t)) + One(Open(s, t)) + faults'
  BY <1>0, <1>1, <1>4 DEF One
<1>6. QED
  BY <1>2, <1>3, <1>5, Settled

(* The list has the searches that are due; a search marked in the window   *)
(* or later is not due in the window.                                      *)
LEMMA ListSpaced ==
  ASSUME Typed, Typed', OneHolder, NEW s \in Searches, NEW t \in Times,
         Spaced(s, t), NEW r \in Replicas, ListDue(r)
  PROVE  Spaced(s, t)'
<1>0. tick \in [Replicas -> Tick] /\ locks \in [Replicas -> Nat]
      /\ faults \in Nat /\ clock \in Nat /\ t \in Nat /\ Interval \in Nat \ {0}
      /\ searches[s].last \in Nat \cup {Never}
  BY FaultsAreNat, TimesAreNat DEF Typed, TypeOK, Times, Search
<1>1. UNCHANGED <<searches, runs, locks, faults>> /\ At(r, "list")
  BY DEF ListDue, tables
<1>2. \A q \in Replicas \ {r} : tick'[q] = tick[q] /\ locks'[q] = locks[q]
  BY <1>0, <1>1 DEF ListDue
<1>3. /\ tick'[r].pc = "next" /\ tick'[r].now = clock
      /\ tick'[r].left = {q \in Searches : Saved(q) /\ IsDue(q, clock)}
  BY <1>0 DEF ListDue, Asleep
<1>4. Threat(r, s, t)' => Loose(s, t)
  BY <1>0, <1>3, NeverIsNoTime
  DEF Threat, ToRun, Marking, Saved, IsDue, Loose, Window
<1>5. ~ Closing(r, s, t) /\ ~ Closing(r, s, t)' /\ ~ Threat(r, s, t)
  BY <1>1, <1>3 DEF Closing, Threat, ToRun, Marking, At, Serving
<1>6. Loose(s, t)' <=> Loose(s, t)
  BY <1>1 DEF Loose
<1>7. One(r \in Stray(s, t)') + One(Open(s, t)') + faults
        <= One(r \in Stray(s, t)) + One(Open(s, t)) + faults'
  <2>1. CASE locks[r] > 0
    <3>1. Open(s, t)' => Open(s, t)
      BY <1>1, <1>4, <1>5, <1>6, <2>1, HolderMoves
    <3>2. r \notin Stray(s, t)'
      BY <1>0, <1>1, <2>1 DEF Stray
    <3>3. QED
      BY <1>0, <1>1, <3>1, <3>2 DEF One
  <2>2. CASE ~ locks[r] > 0
    <3>1. Open(s, t)' => Open(s, t)
      BY <1>1, <1>2, <1>6, <2>2, OpenWithout
    <3>2. r \in Stray(s, t)
      BY <1>0, <1>1, <2>2 DEF Stray
    <3>3. QED
      BY <1>0, <1>1, <3>1, <3>2 DEF One
  <2>3. QED
    BY <2>1, <2>2
<1>8. QED
  BY <1>1, <1>2, <1>7, Settled DEF Launched

(* An insert in the window is the one that was expected of the replica.    *)
LEMMA InsertSpaced ==
  ASSUME Typed, Typed', OneHolder, Taken, NEW s \in Searches, NEW t \in Times,
         Spaced(s, t), NEW r \in Replicas, Insert(r)
  PROVE  Spaced(s, t)'
<1> DEFINE n == Len(runs) + 1
           counted == tick[r].search = s /\ tick[r].now \in Window(t)
<1>0. tick \in [Replicas -> Tick] /\ locks \in [Replicas -> Nat]
      /\ faults \in Nat /\ tick[r] \in Tick /\ t \in Nat /\ tick[r].now \in Nat
  <2>1. tick \in [Replicas -> Tick] /\ locks \in [Replicas -> Nat]
        /\ faults \in Nat
    BY FaultsAreNat DEF Typed, TypeOK
  <2>2. \A i \in Times : i \in Nat
    BY TimesAreNat DEF Times
  <2>3. QED
    BY <2>1, <2>2 DEF Tick
<1>1. UNCHANGED <<searches, locks, faults>> /\ At(r, "insert")
  BY DEF Insert
<1>2. \A q \in Replicas \ {r} : tick'[q] = tick[q] /\ locks'[q] = locks[q]
  BY <1>0, <1>1 DEF Insert
<1>3. /\ tick'[r].pc = "dispatch" /\ tick'[r].now = tick[r].now
      /\ tick'[r].search = tick[r].search /\ tick'[r].left = tick[r].left
  BY <1>0 DEF Insert, Tick
<1>4. /\ DOMAIN runs = 1..Len(runs) /\ DOMAIN runs' = 1..n
      /\ \A i \in DOMAIN runs : runs'[i] = runs[i]
      /\ runs'[n].of = tick[r].search /\ runs'[n].due = tick[r].now
  <2> DEFINE job == [search |-> tick[r].search, of |-> tick[r].search,
                     due |-> tick[r].now, created |-> tick[r].created,
                     status |-> "pending", memory |-> tick[r].memory,
                     found |-> {}]
  <2>1. tick[r].search \in Searches
    BY <1>1 DEF At, Typed, Placed
  <2>2. job \in Run /\ job.of = tick[r].search /\ job.due = tick[r].now
    BY <1>0, <2>1 DEF Run, Tick
  <2>3. runs' = Append(runs, job)
    BY DEF Insert
  <2> HIDE DEF job
  <2>4. QED
    BY <2>2, <2>3, RunsDomain, AppendProperties, LenProperties DEF Typed, TypeOK
<1>5. Loose(s, t)' <=> Loose(s, t)
  BY <1>1 DEF Loose
<1>6. CASE counted
  <2>1. s \notin tick[r].left /\ tick[r].now >= t
    BY <1>0, <1>1, <1>6, TimesAreNat DEF Taken, TakenBy, At, Serving, Window
  <2>2. /\ Threat(r, s, t) /\ ~ Threat(r, s, t)' /\ Closing(r, s, t)'
        /\ ~ Closing(r, s, t)
    BY <1>0, <1>1, <1>3, <1>6, <2>1
    DEF Threat, Closing, ToRun, Marking, At, Serving
  <2>3. r \notin Stray(s, t)'
    BY <1>3, <2>2 DEF Stray, At
  <2>4. Launched(s, t)' \subseteq Launched(s, t) \cup {n}
    BY <1>4, RunsDomain DEF Launched, Typed
  <2>5. /\ IsFiniteSet(Launched(s, t)')
        /\ Cardinality(Launched(s, t)') <= Cardinality(Launched(s, t)) + 1
    <3>1. /\ IsFiniteSet(Launched(s, t) \cup {n})
          /\ Cardinality(Launched(s, t) \cup {n}) \in Nat
          /\ Cardinality(Launched(s, t) \cup {n})
               <= Cardinality(Launched(s, t)) + 1
      BY SpacedTyped, OneMore
    <3>2. /\ IsFiniteSet(Launched(s, t)')
          /\ Cardinality(Launched(s, t)')
               <= Cardinality(Launched(s, t) \cup {n})
      BY <2>4, <3>1, FS_Subset
    <3>3. Cardinality(Launched(s, t)') \in Nat
      BY <3>2, FS_CardinalityType
    <3>4. QED
      BY <3>1, <3>2, <3>3, SpacedTyped
  <2>6. 1 + One(r \in Stray(s, t)') + One(Open(s, t)') + faults
          <= One(r \in Stray(s, t)) + One(Open(s, t)) + faults'
    <3>1. CASE locks[r] > 0
      <4>1. Open(s, t) /\ ~ Open(s, t)'
        BY <1>1, <2>2, <3>1, HolderMoves
      <4>2. QED
        BY <1>0, <1>1, <2>3, <4>1 DEF One
    <3>2. CASE ~ locks[r] > 0
      <4>1. Open(s, t)' => Open(s, t)
        BY <1>1, <1>2, <1>5, <3>2, OpenWithout
      <4>2. r \in Stray(s, t)
        BY <1>0, <2>2, <3>2 DEF Stray
      <4>3. QED
        BY <1>0, <1>1, <2>3, <4>1, <4>2 DEF One
    <3>3. QED
      BY <3>1, <3>2
  <2>7. \A q \in Replicas \ {r} : q \in Stray(s, t)' => q \in Stray(s, t)
    BY <1>2 DEF Stray, Threat, ToRun, Marking, At
  <2>8. QED
    BY <2>5, <2>6, <2>7, Balance
<1>7. CASE ~ counted
  <2>1. Launched(s, t)' \subseteq Launched(s, t)
    BY <1>4, <1>7, RunsDomain DEF Launched, Typed
  <2>2. /\ Threat(r, s, t)' => Threat(r, s, t)
        /\ ~ Closing(r, s, t) /\ ~ At(r, "list")'
    BY <1>1, <1>3, <1>7 DEF Threat, Closing, ToRun, Marking, At, Serving
  <2>3. \A q \in Replicas :
          /\ At(q, "list")' => At(q, "list")
          /\ Threat(q, s, t)' => Threat(q, s, t)
          /\ Closing(q, s, t) => Closing(q, s, t)'
    BY <1>2, <2>2 DEF At, Threat, ToRun, Marking, Closing
  <2>4. QED
    BY <1>0, <1>1, <1>5, <2>1, <2>3, Calm
<1>8. QED
  BY <1>6, <1>7

(* A mark in the window or later closes it; one from before may open it    *)
(* again, and the replica that writes it has been counted so far.          *)
LEMMA MarkSpaced ==
  ASSUME Typed, Typed', OneHolder, Taken, NEW s \in Searches, NEW t \in Times,
         Spaced(s, t), NEW r \in Replicas, MarkRan(r)
  PROVE  Spaced(s, t)'
<1> DEFINE new == [tick[r] EXCEPT !.pc = "next", !.search = NoSearch,
                                  !.created = 0, !.memory = {}, !.run = 0]
<1>0. tick \in [Replicas -> Tick] /\ locks \in [Replicas -> Nat]
      /\ faults \in Nat /\ tick[r] \in Tick /\ t \in Nat /\ tick[r].now \in Nat
      /\ searches \in [Searches -> Search] /\ tick[r].search \in Searches
  <2>1. tick \in [Replicas -> Tick] /\ locks \in [Replicas -> Nat]
        /\ faults \in Nat /\ searches \in [Searches -> Search]
    BY FaultsAreNat DEF Typed, TypeOK
  <2>2. tick[r].search \in Searches
    BY DEF Typed, Placed, MarkRan, At
  <2>3. \A i \in Times : i \in Nat
    BY TimesAreNat DEF Times
  <2>4. QED
    BY <2>1, <2>2, <2>3 DEF Tick
<1>1. UNCHANGED <<runs, locks, faults>> /\ tick[r].pc = "mark"
  BY DEF MarkRan, At
<1>2. /\ tick'[r].pc = "next" /\ tick'[r].now = tick[r].now
      /\ tick'[r].left = tick[r].left
      /\ \A q \in Replicas \ {r} : tick'[q] = tick[q] /\ locks'[q] = locks[q]
  <2>1. /\ new.pc = "next" /\ new.now = tick[r].now
        /\ new.left = tick[r].left
    BY <1>0 DEF Tick
  <2>2. tick' = [tick EXCEPT ![r] = new]
    BY <1>0 DEF MarkRan
  <2> HIDE DEF new
  <2>3. QED
    BY <1>0, <1>1, <2>1, <2>2
<1>3. Launched(s, t)' = Launched(s, t)
  BY <1>1 DEF Launched
<1>4. CASE tick[r].search # s
  <2>1. searches'[s] = searches[s]
    BY <1>0, <1>4 DEF MarkRan
  <2>2. Loose(s, t)' => Loose(s, t)
    BY <2>1 DEF Loose
  <2>3. /\ Threat(r, s, t)' => Threat(r, s, t)
        /\ ~ Closing(r, s, t) /\ ~ At(r, "list")'
    BY <1>1, <1>2, <1>4 DEF Threat, Closing, ToRun, Marking, At, Serving
  <2>4. \A q \in Replicas :
          /\ At(q, "list")' => At(q, "list")
          /\ Threat(q, s, t)' => Threat(q, s, t)
          /\ Closing(q, s, t) => Closing(q, s, t)'
    BY <1>2, <2>3 DEF At, Threat, ToRun, Marking, Closing
  <2>5. QED
    BY <1>0, <1>1, <1>3, <2>2, <2>4, Calm
<1>5. CASE tick[r].search = s
  <2>1. s \notin tick[r].left /\ Stored(s)
    BY <1>1, <1>5 DEF Taken, TakenBy, Serving
  <2>2. ~ Threat(r, s, t)' /\ ~ Closing(r, s, t)' /\ r \notin Stray(s, t)'
    BY <1>2, <2>1 DEF Threat, Closing, ToRun, Marking, Stray, At
  <2>3. CASE tick[r].now < t
    <3>1. Threat(r, s, t)
      BY <1>1, <1>5, <2>3 DEF Threat, Marking
    <3>3. One(r \in Stray(s, t)') + One(Open(s, t)') + faults
            <= One(r \in Stray(s, t)) + One(Open(s, t)) + faults'
      <4>1. CASE locks[r] > 0
        <5>1. Open(s, t)
          BY <3>1, <4>1 DEF Open
        <5>2. QED
          BY <1>0, <1>1, <2>2, <5>1 DEF One
      <4>2. CASE ~ locks[r] > 0
        <5>1. r \in Stray(s, t)
          BY <1>0, <3>1, <4>2 DEF Stray
        <5>2. QED
          BY <1>0, <1>1, <2>2, <5>1 DEF One
      <4>3. QED
        BY <4>1, <4>2
    <3>4. QED
      BY <1>2, <1>3, <3>3, Settled
  <2>4. CASE ~ tick[r].now < t
    <3>1. ~ Loose(s, t)' \/ (Loose(s, t) /\ Loose(s, t)' /\ ~ Saved(s))
      <4>1. CASE Saved(s)
        BY <1>0, <1>5, <2>4, <4>1, NeverIsNoTime DEF MarkRan, Loose, Search
      <4>2. CASE ~ Saved(s)
        BY <1>5, <4>2 DEF MarkRan, Loose
      <4>3. QED
        BY <4>1, <4>2
    <3>2. ~ Loose(s, t)'
      BY <2>1, <3>1 DEF Loose, Stored, Saved
    <3>3. Open(s, t)' => Open(s, t)
      <4>1. CASE locks[r] > 0
        BY <1>1, <2>2, <3>2, <4>1, HolderMoves
      <4>2. CASE ~ locks[r] > 0
        BY <1>1, <1>2, <3>2, <4>2, OpenWithout
      <4>3. QED
        BY <4>1, <4>2
    <3>4. One(r \in Stray(s, t)') + One(Open(s, t)') + faults
            <= One(r \in Stray(s, t)) + One(Open(s, t)) + faults'
      BY <1>0, <1>1, <2>2, <3>3 DEF One
    <3>5. QED
      BY <1>2, <1>3, <3>4, Settled
  <2>5. QED
    BY <2>3, <2>4
<1>6. QED
  BY <1>4, <1>5

LEMMA StoredStays ==
  ASSUME Typed, [Next]_vars, NEW s \in Searches, Stored(s)
  PROVE  Stored(s)'
<1>0. searches \in [Searches -> Search]
  BY DEF Typed, TypeOK
<1>1. CASE User
  BY <1>0, <1>1 DEF User, CreateCheck, CreateInsert, Delete, Stored, Saved,
     Search
<1>2. ASSUME NEW r \in Replicas, MarkRan(r) PROVE Stored(s)'
  BY <1>0, <1>2 DEF MarkRan, Stored, Search
<1>3. CASE searches' = searches
  BY <1>3 DEF Stored
<1>4. CASE Pass
  BY <1>3, <1>4 DEF Pass, tables
<1>5. ASSUME NEW i \in DOMAIN runs, Deliver(i) PROVE searches' = searches
  BY <1>5 DEF Deliver, DeliverFind, DeliverStore, DeliverUpdate,
     DeliverDigest, DigestLookupFails, DeliverAborts, tables
<1>6. ASSUME NEW r \in Replicas,
             Acquire(r) \/ Recycle(r) \/ Failure(r) \/ Work(r), ~ MarkRan(r)
      PROVE  searches' = searches
  BY <1>6 DEF Acquire, Recycle, Failure, UnlockFails, SessionLost, Crash,
     TickFails, Work, ListDue, NoneLeft, NextSearch, Count, Recall, Insert,
     InsertRefused, Dispatch, FailRun, Release, tables
<1>7. QED
  BY <1>1, <1>2, <1>3, <1>4, <1>5, <1>6 DEF Next, vars

(* Where the loop of a replica goes, and what it has left.                 *)
LEMMA LoopGoes ==
  ASSUME Typed, NEW r \in Replicas,
         Acquire(r) \/ Recycle(r) \/ Failure(r) \/ Work(r)
  PROVE  \/ tick'[r] = tick[r]
         \/ tick'[r].pc \in {"idle", "list", "release"}
         \/ /\ ListDue(r) /\ tick'[r].pc = "next"
            /\ \A s \in tick'[r].left : Saved(s)
         \/ /\ tick[r].pc \in {"next"} \cup Serving
            /\ tick'[r].pc \in {"next"} \cup Serving
            /\ tick'[r].left \subseteq tick[r].left
            /\ tick'[r].pc \in Serving =>
                 \/ tick[r].pc \in Serving /\ tick'[r].search = tick[r].search
                 \/ /\ tick'[r].search \in tick[r].left
                    /\ tick'[r].search \notin tick'[r].left
<1>0. tick \in [Replicas -> Tick] /\ tick[r] \in Tick
  BY DEF Typed, TypeOK
<1>1. CASE Acquire(r) \/ TickFails(r) \/ InsertRefused(r) \/ NoneLeft(r)
  BY <1>0, <1>1 DEF Acquire, TickFails, InsertRefused, NoneLeft, Go, Tick
<1>2. CASE Recycle(r) \/ SessionLost(r)
  BY <1>2 DEF Recycle, SessionLost
<1>3. CASE Release(r) \/ UnlockFails(r) \/ Crash(r)
  BY <1>0, <1>3 DEF Release, UnlockFails, Crash, Asleep
<1>4. CASE ListDue(r)
  BY <1>0, <1>4 DEF ListDue, Asleep
<1>5. CASE \E s \in Searches : NextSearch(r, s)
  BY <1>0, <1>5 DEF NextSearch, At, Tick, Serving
<1>6. CASE Count(r) \/ Dispatch(r) \/ FailRun(r)
  BY <1>0, <1>6 DEF Count, Dispatch, FailRun, Go, At, Tick, Serving
<1>7. CASE Recall(r) \/ Insert(r)
  <2>1. CASE Recall(r)
    BY <1>0, <2>1 DEF Recall, At, Tick, Serving
  <2>2. CASE Insert(r)
    BY <1>0, <2>2 DEF Insert, At, Tick, Serving
  <2>3. QED
    BY <1>7, <2>1, <2>2
<1>8. CASE MarkRan(r)
  <2> DEFINE new == [tick[r] EXCEPT !.pc = "next", !.search = NoSearch,
                                    !.created = 0, !.memory = {}, !.run = 0]
  <2>1. tick' = [tick EXCEPT ![r] = new] /\ tick[r].pc = "mark"
    BY <1>0, <1>8 DEF MarkRan, At
  <2>2. new.pc = "next" /\ new.left = tick[r].left
    BY <1>0 DEF Tick
  <2> HIDE DEF new
  <2>3. QED
    BY <1>0, <2>1, <2>2 DEF Serving
<1>9. QED
  BY <1>1, <1>2, <1>3, <1>4, <1>5, <1>6, <1>7, <1>8 DEF Failure, Work

LEMMA TakenStep == Typed /\ Typed' /\ Taken /\ [Next]_vars => Taken'
<1> SUFFICES ASSUME Typed, Typed', Taken, [Next]_vars PROVE Taken'
  OBVIOUS
<1>0. \A q \in Replicas : /\ tick[q].left \subseteq Searches
                          /\ tick'[q].left \subseteq Searches
                          /\ tick[q].pc \in Serving => tick[q].search \in Searches
  BY DEF Typed, TypeOK, Tick, Placed, Serving
<1>1. ASSUME NEW q \in Replicas, tick'[q] = tick[q] PROVE TakenBy(q)'
  <2>1. TakenBy(q)
    BY DEF Taken
  <2>2. \A s \in Searches : Stored(s) => Stored(s)'
    BY StoredStays
  <2>3. QED
    BY <1>0, <1>1, <2>1, <2>2 DEF TakenBy, Stored
<1>2. CASE tick' = tick
  BY <1>1, <1>2 DEF Taken
<1>3. ASSUME NEW r \in Replicas,
             Acquire(r) \/ Recycle(r) \/ Failure(r) \/ Work(r)
      PROVE  Taken'
  <2>1. \A q \in Replicas \ {r} : tick'[q] = tick[q]
    BY <1>3 DEF Typed, TypeOK, Acquire, Recycle, Failure, UnlockFails,
       SessionLost, Crash, TickFails, Work, ListDue, NoneLeft, NextSearch,
       Count, Recall, Insert, InsertRefused, Dispatch, FailRun, MarkRan,
       Release, Go
  <2>2. TakenBy(r)'
    <3>0. TakenBy(r) /\ \A s \in Searches : Stored(s) => Stored(s)'
      BY StoredStays DEF Taken
    <3>1. CASE tick'[r] = tick[r]
      BY <1>1, <3>1
    <3>2. CASE tick'[r].pc \in {"idle", "list", "release"}
      BY <3>2 DEF TakenBy, Serving
    <3>3. CASE tick'[r].pc = "next" /\ \A s \in tick'[r].left : Saved(s)
      BY <1>0, <3>0, <3>3 DEF TakenBy, Serving, Saved, Stored
    <3>4. CASE /\ tick[r].pc \in {"next"} \cup Serving
               /\ tick'[r].left \subseteq tick[r].left
               /\ tick'[r].pc \in Serving =>
                    \/ /\ tick[r].pc \in Serving
                       /\ tick'[r].search = tick[r].search
                    \/ /\ tick'[r].search \in tick[r].left
                       /\ tick'[r].search \notin tick'[r].left
      BY <1>0, <3>0, <3>4 DEF TakenBy, Stored
    <3>5. QED
      BY <1>3, <3>1, <3>2, <3>3, <3>4, LoopGoes
  <2>3. QED
    BY <1>1, <2>1, <2>2 DEF Taken
<1>4. CASE Pass \/ User \/ (\E i \in DOMAIN runs : Deliver(i)) \/ UNCHANGED vars
  BY <1>2, <1>4 DEF Pass, User, CreateCheck, CreateInsert, Delete, Deliver,
     DeliverFind, DeliverStore, DeliverUpdate, DeliverDigest,
     DigestLookupFails, DeliverAborts, vars
<1>5. QED
  BY <1>3, <1>4 DEF Next

LEMMA SpacedStep ==
  ASSUME Typed, Typed', LockSafe, Taken, [Next]_vars,
         NEW s \in Searches, NEW t \in Times, Spaced(s, t)
  PROVE  Spaced(s, t)'
<1>0. OneHolder /\ faults \in Nat /\ \A i \in DOMAIN runs : runs[i] \in Run
  BY FaultsAreNat, RunsDomain DEF LockSafe, Typed, TypeOK
<1>1. ASSUME UNCHANGED <<locks, tick>>, faults' >= faults,
             Launched(s, t)' = Launched(s, t), Loose(s, t)' => Loose(s, t)
      PROVE  Spaced(s, t)'
  BY <1>1, Calm DEF At, Threat, ToRun, Marking, Closing
<1>2. CASE Pass \/ UNCHANGED vars
  BY <1>0, <1>1, <1>2 DEF Pass, vars, tables, Launched, Loose
<1>3. CASE User
  <2>1. UNCHANGED <<locks, tick, faults>>
    BY <1>3 DEF User, CreateCheck, CreateInsert, Delete
  <2>2. Launched(s, t)' = Launched(s, t)
    BY <1>0, <1>3, SameLaunched
    DEF User, CreateCheck, CreateInsert, Delete, Run
  <2>3. Loose(s, t)' => Loose(s, t)
    BY <1>3 DEF User, CreateCheck, CreateInsert, Delete, Loose, Saved, Typed,
       TypeOK, Search
  <2>4. QED
    BY <1>0, <1>1, <2>1, <2>2, <2>3
<1>4. ASSUME NEW i \in DOMAIN runs, Deliver(i) PROVE Spaced(s, t)'
  <2>1. UNCHANGED <<locks, tick, searches>> /\ faults' >= faults
    BY <1>0, <1>4 DEF Deliver, DeliverFind, DeliverStore, DeliverUpdate,
       DeliverDigest, DigestLookupFails, DeliverAborts, Fault, tables
  <2>2. \/ runs' = runs
        \/ \E found \in SUBSET Urls : runs' = [runs EXCEPT ![i].found = found]
        \/ runs' = [runs EXCEPT ![i].status = "completed"]
    BY <1>4 DEF Deliver, DeliverFind, DeliverStore, DeliverUpdate,
       DeliverDigest, DigestLookupFails, DeliverAborts, tables
  <2>3. Launched(s, t)' = Launched(s, t)
    BY <1>0, <2>2, SameLaunched DEF Run
  <2>4. QED
    BY <1>1, <2>1, <2>3 DEF Loose
<1>5. ASSUME NEW r \in Replicas,
             Acquire(r) \/ Recycle(r) \/ Failure(r) \/ Work(r)
      PROVE  Spaced(s, t)'
  BY <1>0, <1>5, LockSpaced, FaultSpaced, ListSpaced, InsertSpaced,
     MarkSpaced, CalmWork DEF Work
<1>6. QED
  BY <1>2, <1>3, <1>4, <1>5 DEF Next

EverySpaced == \A s \in Searches, t \in Times : Spaced(s, t)

LEMMA SpacedInit == Init => Taken /\ EverySpaced
<1> SUFFICES ASSUME Init PROVE Taken /\ EverySpaced
  OBVIOUS
<1>1. Taken
  BY DEF Init, Taken, TakenBy, Asleep, Serving
<1>2. ASSUME NEW s \in Searches, NEW t \in Times PROVE Spaced(s, t)
  <2>1. Launched(s, t) = {} /\ Stray(s, t) = {}
    BY DEF Init, Launched, Stray, At, Threat, ToRun, Marking, Serving, Asleep
  <2>2. QED
    BY <2>1, FS_EmptySet DEF Init, Spaced, One
<1>3. QED
  BY <1>1, <1>2 DEF EverySpaced

(* ADR-033 with ADR-053, "exactly one instance runs it": whatever replicas *)
(* run the scheduler and wherever a tick stops, a search is launched once  *)
(* per interval of scheduled times, and once more for each fault at most.  *)
THEOREM Spacing == Spec => []RunsSpaced
<1>1. Typed /\ EverySpaced => RunsSpaced
  <2> SUFFICES ASSUME Typed, EverySpaced, NEW s \in Searches, NEW t \in Times
               PROVE  Cardinality(Launched(s, t)) <= 1 + faults
    BY DEF RunsSpaced, Launched, Window
  <2>1. Spaced(s, t)
    BY DEF EverySpaced
  <2>2. One(Open(s, t)) \in Nat /\ faults \in Nat
    BY FaultsAreNat DEF One, Typed, TypeOK
  <2>3. QED
    BY <2>1, <2>2, SpacedTyped DEF Spaced
<1>2. Typed /\ Typed' /\ LockSafe /\ Taken /\ EverySpaced /\ [Next]_vars
        => EverySpaced'
  BY SpacedStep DEF EverySpaced
<1>3. QED
  BY <1>1, <1>2, SpacedInit, TakenStep, AlwaysLocked, PTL DEF Spec
=============================================================================
