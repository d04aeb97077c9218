-------------------------- MODULE MCResearchSystem ----------------------------
(* Instances of ResearchSystem for TLC.                                    *)
EXTENDS ResearchSystem, TLC

CONSTANT u1

OneOwner == [j \in Jobs |-> u1]

HandlersAlike == Permutations(Handlers)
HandlersAndTasksAlike == Permutations(Handlers) \cup Permutations(Tasks)
=============================================================================
