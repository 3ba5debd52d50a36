------------------------------ MODULE JobPool ------------------------------
(***************************************************************************)
(* What a bounded pool of jobs promises: each job runs once, at most limit *)
(* of them at a time, and the pool concludes when all have finished, or    *)
(* gives up because one of them failed.  The comment on run_sweep in       *)
(* robustness-sweep.rb promises this without saying how.                   *)
(***************************************************************************)
EXTENDS Integers, FiniteSets

CONSTANTS Jobs, limit

VARIABLES
  running, finished, failed,    \* disjoint sets of jobs
  outcome                       \* "none", "complete" or "gave up"

pool_vars == <<running, finished, failed, outcome>>

PoolInit ==
  /\ running = {} /\ finished = {} /\ failed = {}
  /\ outcome = "none"

Begin(j) ==
  /\ j \notin running \cup finished \cup failed
  /\ Cardinality(running) < limit
  /\ running' = running \cup {j}
  /\ UNCHANGED <<finished, failed, outcome>>

Finish(j) ==
  /\ j \in running
  /\ running' = running \ {j}
  /\ \/ finished' = finished \cup {j} /\ UNCHANGED failed
     \/ failed' = failed \cup {j} /\ UNCHANGED finished
  /\ UNCHANGED outcome

Conclude ==
  /\ \/ finished = Jobs /\ outcome' = "complete"
     \/ failed # {} /\ outcome' = "gave up"
  /\ UNCHANGED <<running, finished, failed>>

PoolNext ==
  /\ outcome = "none"
  /\ \/ \E j \in Jobs : Begin(j) \/ Finish(j)
     \/ Conclude

PoolSpec == PoolInit /\ [][PoolNext]_pool_vars
=============================================================================
