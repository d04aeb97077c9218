--------------------------- MODULE MCJobHandlers ------------------------------
(* Instances of JobHandlers for TLC.                                       *)
EXTENDS JobHandlers, TLC

CONSTANT u1

OneOwner == [j \in Jobs |-> u1]

(* Bound of the quota run: one job at a time grows old.                    *)
OneJobAges == Cardinality({j \in Jobs : age[j] > 0}) <= 1

HandlersAlike == Permutations(Handlers)
JobsAndHandlersAlike == Permutations(Handlers) \cup Permutations(Jobs)
=============================================================================
