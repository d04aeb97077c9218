---------------------------- MODULE JobLifecycle -----------------------------
(***************************************************************************)
(* What the backend promises of a job's life, whatever its handlers and    *)
(* background loop interleave: it only moves forward.  A job is stored at  *)
(* most once; once its completion is settled (no request that read the row *)
(* before it is still in flight) it stays completed; and once its row is   *)
(* gone it never comes back.                                               *)
(***************************************************************************)
CONSTANT Jobs

VARIABLE phase

Phases == {"absent", "open", "settled", "gone"}

TypeOK == phase \in [Jobs -> Phases]

Init == phase = [j \in Jobs |-> "absent"]

(* Every job of a set moves to a phase, from one of the phases before it.  *)
Move(group, from, to) ==
  /\ \A j \in group : phase[j] \in from
  /\ phase' = [j \in Jobs |-> IF j \in group THEN to ELSE phase[j]]

Launch == \E j \in Jobs : Move({j}, {"absent"}, "open")
Settle == \E group \in SUBSET Jobs : Move(group, {"open"}, "settled")
Close  == \E group \in SUBSET Jobs :
            Move(group, {"absent", "open", "settled"}, "gone")

Next == Launch \/ Settle \/ Close

Spec == Init /\ [][Next]_phase
=============================================================================
