------------------------------ MODULE AgentGraph ------------------------------
(***************************************************************************)
(* The LangGraph orchestrator (ADR-046), over the attempts of one job: the *)
(* nodes of its StateGraph, the state checkpointed after each, the pause   *)
(* for a question and the resumption from the checkpoint.  A node whose    *)
(* task fails or is lost is executed again.                                *)
(***************************************************************************)
EXTENDS Integers, Sequences, FiniteSets, SequencesExt

CONSTANTS
  Canonical,   (* normalize_url: the canonical link of each link           *)
  Responses,   (* what a search may return: sequences of links             *)
  MaxSteps,    (* AGENT_MAX_STEPS                                          *)
  Memories,    (* what recurring runs may have seen: sets of links         *)
  MaxAttempts  (* bound: the tasks of the job                              *)

ASSUME StepsAndAttemptsAreCounted == MaxSteps \in Nat /\ MaxAttempts \in Nat
ASSUME SearchesReturnLinks == Responses \subseteq Seq(DOMAIN Canonical)

VARIABLES
  run,       (* the job's task: "idle", "running" or how it ended          *)
  node,      (* the node the graph executes next; "end" is _deliver        *)
  graph,     (* GraphState                                                 *)
  answered,  (* the task carries the user's answer                         *)
  exceeded,  (* SpendGuard.exceeded of the task                            *)
  recurring, (* the job is a run of a recurring search                     *)
  seen,      (* seen_urls: the links its earlier runs delivered            *)
  delta,     (* the journal step of _deliver, if there is one              *)
  attempts   (* the tasks begun                                            *)

agVars == <<run, node, graph, answered, exceeded, recurring, seen, delta,
            attempts>>

(* The state of a fresh run.  asked and clarification are set together:    *)
(* informed is both.                                                       *)
NewState(answer) ==
  [hits |-> <<>>, collected |-> {}, steps |-> <<>>, informed |-> answer]

KeysOf(links) == {Canonical[links[i]] : i \in DOMAIN links}

(* The links that are not among `dropped', in their order.                 *)
Omit(links, dropped) ==
  LET kept[n \in 0..Len(links)] ==
        IF n = 0 THEN <<>>
        ELSE IF links[n] \in dropped THEN kept[n - 1]
        ELSE Append(kept[n - 1], links[n])
  IN  kept[Len(links)]

NotIn(keys, links) ==
  Omit(links, {u \in DOMAIN Canonical : Canonical[u] \in keys})

SearchesDone(journal) ==
  Cardinality({i \in DOMAIN journal : journal[i].kind = "search"})

(* A node's step, numbered after the steps of the state.                   *)
Journaled(journal, kind, new) ==
  Append(journal, [seq |-> Len(journal) + 1, kind |-> kind, new |-> new])

Nodes == {"decide", "search", "ask", "finalize", "critique", "end"}

AgTypeOK ==
  /\ run \in {"idle", "running", "paused", "failed", "delivered"}
  /\ node \in Nodes
  /\ {answered, exceeded, graph.informed, recurring} \subseteq BOOLEAN
  /\ KeysOf(graph.hits) \subseteq Range(Canonical)
  /\ seen \in Memories \cup {{}}
  /\ Len(delta) <= 1
  /\ attempts \in 0..MaxAttempts

AgInit ==
  /\ run = "idle" /\ node = "decide" /\ graph = NewState(FALSE)
  /\ answered = FALSE /\ exceeded = FALSE
  /\ recurring \in BOOLEAN
  /\ seen \in IF recurring THEN Memories ELSE {{}}
  /\ delta = <<>> /\ attempts = 0

Spending == exceeded' \in {exceeded, TRUE}
-----------------------------------------------------------------------------
(* run_agent_graph is called with the state of a fresh run: there is no    *)
(* answer, or no checkpoint of the task before.                            *)
FreshRun ==
  /\ node' = "decide"
  /\ graph' = NewState(answered')

(* It is called with the answer and there is a checkpoint: the graph goes  *)
(* on from it, and a pending interrupt() returns the answer.               *)
ResumedRun ==
  /\ answered'
  /\ IF node = "ask"
       THEN node' = "decide" /\ graph' = [graph EXCEPT !.informed = TRUE]
       ELSE UNCHANGED <<node, graph>>

(* A task of the job begins: the first, the one of the answer, or a retry  *)
(* or redelivery, with a new UsageMeter.                                   *)
Task ==
  /\ run # "running" /\ attempts < MaxAttempts
  /\ answered' \in {answered, answered \/ run = "paused"}
  /\ FreshRun \/ ResumedRun
  /\ run' = "running" /\ exceeded' = FALSE /\ delta' = <<>>
  /\ attempts' = attempts + 1
  /\ UNCHANGED <<recurring, seen>>

(* Mutant: a question is refused only when there is no clarifier.          *)
ApplyAskGuardAlwaysAsks(action) == action

(* _apply_ask_guard: one question per job.                                 *)
ApplyAskGuard(action) ==
  IF action = "ask" /\ graph.informed THEN "finalize" ELSE action

(* Mutant: one search too many is allowed.                                 *)
DecideNodeOffByOne ==
  /\ node = "decide"
  /\ IF SearchesDone(graph.steps) > MaxSteps \/ exceeded
       THEN node' = "finalize" /\ UNCHANGED exceeded
       ELSE /\ Spending
            /\ \E action \in {"search", "ask", "finalize"} :
                 node' = ApplyAskGuard(action)
  /\ UNCHANGED <<run, graph>>

DecideNode ==
  /\ node = "decide"
  /\ IF SearchesDone(graph.steps) >= MaxSteps \/ exceeded
       THEN node' = "finalize" /\ UNCHANGED exceeded
       ELSE /\ Spending
            /\ \E action \in {"search", "ask", "finalize"} :
                 node' = ApplyAskGuard(action)
  /\ UNCHANGED <<run, graph>>

SearchNode ==
  /\ node = "search" /\ Spending
  /\ \E found \in Responses :
       LET new == NotIn(graph.collected, found)
       IN  graph' = [graph EXCEPT
             !.hits = @ \o new,
             !.collected = @ \cup KeysOf(new),
             !.steps = Journaled(@, "search", Len(new))]
  /\ node' = "decide"
  /\ UNCHANGED run

(* interrupt(): the question is sent, and the node stays pending.          *)
AskNode ==
  /\ node = "ask"
  /\ run' = "paused"
  /\ UNCHANGED <<node, graph, exceeded>>

FinalizeNode ==
  /\ node = "finalize"
  /\ graph' = [graph EXCEPT !.steps = Journaled(@, "finish", 0)]
  /\ node' = "critique"
  /\ UNCHANGED <<run, exceeded>>

(* The critic is paid, and then one search if it names a gap.              *)
Verdict ==
  \E irrelevant \in SUBSET Range(graph.hits), gap, crossed \in BOOLEAN :
    LET kept == Omit(graph.hits, irrelevant)
        journal == Journaled(graph.steps, "critique", 0)
    IN  IF gap /\ SearchesDone(journal) < MaxSteps /\ ~crossed
          THEN \E found \in Responses :
                 LET new == NotIn(KeysOf(kept), found)
                 IN  /\ graph' = [graph EXCEPT
                           !.hits = kept \o new,
                           !.steps = Journaled(journal, "search", Len(new))]
                     /\ Spending
          ELSE /\ graph' = [graph EXCEPT !.hits = kept, !.steps = journal]
               /\ exceeded' = crossed

CritiqueNode ==
  /\ node = "critique"
  /\ IF exceeded THEN UNCHANGED <<graph, exceeded>> ELSE Verdict
  /\ node' = "end"
  /\ UNCHANGED run

NodeStep ==
  /\ run = "running"
  /\ DecideNode \/ SearchNode \/ AskNode \/ FinalizeNode \/ CritiqueNode
  /\ UNCHANGED <<answered, recurring, seen, delta, attempts>>

DeliverGraph ==
  /\ run = "running" /\ node = "end"
  /\ delta' =
       IF ~recurring THEN <<>>
       ELSE <<[seq |-> Len(graph.steps) + 1, kind |-> "report",
               new |-> Len(NotIn({Canonical[u] : u \in seen}, graph.hits))]>>
  /\ run' = "delivered"
  /\ UNCHANGED <<node, graph, answered, exceeded, recurring, seen, attempts>>

(* A call raises, or the worker is lost: the checkpoint is that of the     *)
(* node before.                                                            *)
TaskFails ==
  /\ run = "running"
  /\ run' = "failed"
  /\ UNCHANGED
       <<node, graph, answered, exceeded, recurring, seen, delta, attempts>>

AgNext == Task \/ NodeStep \/ DeliverGraph \/ TaskFails

AgSpec == AgInit /\ [][AgNext]_agVars
-----------------------------------------------------------------------------
(* What the loop does next, at each node.                                  *)
PhaseOf ==
  [decide |-> "deciding", search |-> "searching", ask |-> "asking",
   finalize |-> "finishing", critique |-> "reviewing", end |-> "delivering"]

(* The loop as the graph shows it.                                         *)
Phase == IF run # "running" THEN run ELSE PhaseOf[node]

(* The loop's turn: after the searches the policy chose.                   *)
Turn ==
  1 + Cardinality({i \in DOMAIN graph.steps :
                     \A j \in 1..i : graph.steps[j].kind = "search"})

Loop == INSTANCE AgentLoop WITH
  phase <- Phase, turn <- Turn,
  hits <- graph.hits, collected <- graph.collected,
  steps <- graph.steps \o delta,
  informed <- graph.informed, over <- exceeded,
  recurring <- recurring, memory <- seen

(* What the loop never does: it goes on after the answer, with what was    *)
(* found and journaled before, the cap of a new meter and no question      *)
(* left.                                                                   *)
GoesOn ==
  /\ answered' /\ run' = "running" /\ graph'.informed /\ ~exceeded'
  /\ UNCHANGED <<graph.hits, graph.collected, graph.steps, recurring,
               seen>>

(* The default orchestrator is "the same decision loop as the hand-rolled  *)
(* run_agent_research": whatever the policy, the searches, the critic and  *)
(* the meter answer and wherever its tasks fail, every step of the graph   *)
(* is one of the loop, with its guards, journal numbers and results, or    *)
(* goes on from a checkpoint.                                              *)
GraphIsTheLoop ==
  Loop!LoopInit /\ [][Loop!LoopNext \/ GoesOn]_agVars

(* AGENT_MAX_STEPS bounds the searches of a run, the critic's included,    *)
(* and the user's answer or a retry that resumes buys no more of them.     *)
SearchBudget == SearchesDone(graph.steps) <= MaxSteps

(* Until the critic drops hits, `collected' holds the pages of the hits    *)
(* and no other, whichever checkpoint the run went on from: a page that    *)
(* was collected and not kept would never be found again.                  *)
CollectedAreKept ==
  node # "end" => graph.collected = KeysOf(graph.hits)

(* A search the policy chose adds only pages that no hit shows.            *)
FreshPages ==
  [][node = "search" =>
       \A u \in Range(graph'.hits) \ Range(graph.hits) :
         Canonical[u] \notin KeysOf(graph.hits)]_agVars
=============================================================================
