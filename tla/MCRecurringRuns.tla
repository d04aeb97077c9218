-------------------------- MODULE MCRecurringRuns -----------------------------
(* Instances of RecurringRuns for TLC.                                     *)
EXTENDS RecurringRuns, TLC

Alike == Permutations(Replicas) \cup Permutations(Searches)
=============================================================================
