------------------------------ MODULE AgentLoop -------------------------------
(***************************************************************************)
(* The decision loop of the agent mode (ADR-030), over the attempts of one *)
(* job: the policy searches, asks or finishes within a step budget and a   *)
(* spend cap, the critic reviews what was found, and the results are       *)
(* delivered.  Every attempt begins from scratch.                          *)
(***************************************************************************)
EXTENDS Integers, Sequences, FiniteSets, SequencesExt

CONSTANTS
  Canonical,  (* normalize_url: the canonical link of each link            *)
  Responses,  (* what a search may return: sequences of links              *)
  MaxSteps    (* AGENT_MAX_STEPS                                           *)

VARIABLES
  phase,      (* what the loop does next, or how the attempt ended         *)
  turn,       (* seq of the loop: the decision that comes next             *)
  hits,       (* the links found                                           *)
  collected,  (* the canonical links already seen                          *)
  steps,      (* the journal                                               *)
  informed,   (* the attempt knows the user's answer                       *)
  over,       (* the spend cap is crossed                                  *)
  recurring,  (* the job is a run of a recurring search                    *)
  memory      (* seen_urls: the links its earlier runs delivered           *)

loopVars == <<phase, turn, hits, collected, steps, informed, over,
              recurring, memory>>

Working ==
  {"deciding", "searching", "asking", "finishing", "reviewing", "delivering"}

Keys(links) == {Canonical[links[i]] : i \in DOMAIN links}

(* The links that are not among `dropped', in their order.                 *)
Omit(links, dropped) ==
  LET kept[n \in 0..Len(links)] ==
        IF n = 0 THEN <<>>
        ELSE IF links[n] \in dropped THEN kept[n - 1]
        ELSE Append(kept[n - 1], links[n])
  IN  kept[Len(links)]

Unseen(links, keys) ==
  Omit(links, {u \in DOMAIN Canonical : Canonical[u] \in keys})

JournalStep(seq, kind, new) == [seq |-> seq, kind |-> kind, new |-> new]
Searches(journal) ==
  Cardinality({i \in DOMAIN journal : journal[i].kind = "search"})

(* report: the delta against the memory of a recurring run, if it is one.  *)
DeltaStep(seq, links) ==
  IF ~recurring THEN <<>>
  ELSE <<JournalStep(seq, "report",
           Len(Unseen(links, {Canonical[u] : u \in memory})))>>

(* Every paid call may cross the cap of the SpendGuard.                    *)
Pay == over' \in {over, TRUE}

LoopInit ==
  /\ phase = "idle" /\ turn = 1
  /\ hits = <<>> /\ collected = {} /\ steps = <<>>
  /\ informed = FALSE /\ over = FALSE
-----------------------------------------------------------------------------
(* A task begins: the first one, the one of the user's answer, or a retry  *)
(* or redelivery.                                                          *)
Start ==
  /\ phase \notin Working
  /\ phase' = "deciding" /\ turn' = 1
  /\ hits' = <<>> /\ collected' = {} /\ steps' = <<>>
  /\ informed' \in {informed, informed \/ phase = "paused"}
  /\ over' = FALSE

(* _ask_guard: one question per job.                                       *)
AskGuard(action) ==
  IF action = "asking" /\ informed THEN "finishing" ELSE action

Decide ==
  /\ phase = "deciding"
  /\ IF turn > MaxSteps \/ over
       THEN phase' = "finishing" /\ UNCHANGED over
       ELSE /\ Pay
            /\ \E action \in {"searching", "asking", "finishing"} :
                 phase' = AskGuard(action)
  /\ UNCHANGED <<turn, hits, collected, steps, informed>>

Search ==
  /\ phase = "searching" /\ Pay
  /\ \E found \in Responses :
       LET new == Unseen(found, collected)
       IN  /\ hits' = hits \o new
           /\ collected' = collected \cup Keys(new)
           /\ steps' = Append(steps, JournalStep(turn, "search", Len(new)))
  /\ turn' = turn + 1
  /\ phase' = "deciding"
  /\ UNCHANGED informed

Ask ==
  /\ phase = "asking"
  /\ phase' = "paused"
  /\ UNCHANGED <<turn, hits, collected, steps, informed, over>>

Finish ==
  /\ phase = "finishing"
  /\ steps' = Append(steps, JournalStep(turn, "finish", 0))
  /\ phase' = "reviewing"
  /\ UNCHANGED <<turn, hits, collected, informed, over>>

(* _self_critique: off-topic hits are dropped and one gap is searched.     *)
Review ==
  \E irrelevant \in SUBSET Range(hits), gap, crossed \in BOOLEAN :
    LET kept == Omit(hits, irrelevant)
        seq == Last(steps).seq + 1
        reviewed == Append(steps, JournalStep(seq, "critique", 0))
    IN  IF gap /\ Searches(steps) < MaxSteps /\ ~crossed
          THEN \E found \in Responses :
                 LET new == Unseen(found, Keys(kept))
                 IN  /\ hits' = kept \o new
                     /\ steps' = Append(reviewed,
                                   JournalStep(seq + 1, "search", Len(new)))
                     /\ Pay
          ELSE hits' = kept /\ steps' = reviewed /\ over' = crossed

SelfCritique ==
  /\ phase = "reviewing"
  /\ IF over THEN UNCHANGED <<hits, steps, over>> ELSE Review
  /\ phase' = "delivering"
  /\ UNCHANGED <<turn, collected, informed>>

Deliver ==
  /\ phase = "delivering"
  /\ steps' = steps \o DeltaStep(Last(steps).seq + 1, hits)
  /\ phase' = "delivered"
  /\ UNCHANGED <<turn, hits, collected, informed, over>>

(* A call raises, or the worker is lost.                                   *)
Raise ==
  /\ phase \in Working
  /\ phase' = "failed"
  /\ UNCHANGED <<turn, hits, collected, steps, informed, over>>

LoopNext ==
  /\ \/ Start \/ Decide \/ Search \/ Ask \/ Finish
     \/ SelfCritique \/ Deliver \/ Raise
  /\ UNCHANGED <<recurring, memory>>

LoopSpec == LoopInit /\ [][LoopNext]_loopVars
=============================================================================
