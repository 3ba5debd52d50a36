------------------------------- MODULE Sweep -------------------------------
(***************************************************************************)
(* robustness-sweep.rb: a worker thread per binary, as many at once as     *)
(* there are tokens in a pipe.  The main thread takes a token before it    *)
(* starts a worker, and the worker puts it back whatever happens.          *)
(*                                                                         *)
(* A check ends with the exit status of `timeout`, which is the tool's, or *)
(* 124 after the time limit; a process killed by a signal has none, which  *)
(* the script turns into -1; or it raises, when nothing could be run.      *)
(***************************************************************************)
EXTENDS Integers, FiniteSets

CONSTANTS
  N,             \* number of binaries
  jobs,
  Statuses       \* statuses a check may have: what exit keeps of them, or -1

ASSUME SweepAssumption ==
  /\ N \in Nat
  /\ jobs \in Nat \ {0}
  /\ Statuses \subseteq -1..255

VARIABLES
  sweep,         \* main thread: "spawn", "join", then "exited" or "raised"
  next,          \* binaries started
  tokens,        \* in the pipe
  worker,        \* binary -> "none", "checking", "checked", "raising", "ended" or "dead"
  rc,            \* binary -> exit status, once checked
  abnormal,      \* binaries reported ABNORMAL
  joined,        \* workers joined
  sweep_exit     \* the script's exit status, -1 before

sweep_vars == <<sweep, next, tokens, worker, rc, abnormal, joined, sweep_exit>>

Binaries == 1..N

NoStatus == -2

SweepInit ==
  /\ sweep = "spawn"
  /\ next = 0
  /\ tokens = jobs
  /\ worker = [i \in Binaries |-> "none"]
  /\ rc = [i \in Binaries |-> NoStatus]
  /\ abnormal = {}
  /\ joined = 0
  /\ sweep_exit = -1

-----------------------------------------------------------------------------
(* The main thread.                                                        *)

(* Faulty variant: reading the token does not block.                       *)
StartWorkerAnyway ==
  /\ sweep = "spawn" /\ next < N
  /\ tokens' = IF tokens > 0 THEN tokens - 1 ELSE 0
  /\ next' = next + 1
  /\ worker' = [worker EXCEPT ![next + 1] = "checking"]
  /\ UNCHANGED <<sweep, rc, abnormal, joined, sweep_exit>>

StartWorker ==
  /\ sweep = "spawn" /\ next < N
  /\ tokens > 0
  /\ tokens' = tokens - 1
  /\ next' = next + 1
  /\ worker' = [worker EXCEPT ![next + 1] = "checking"]
  /\ UNCHANGED <<sweep, rc, abnormal, joined, sweep_exit>>

AllStarted ==
  /\ sweep = "spawn" /\ next = N
  /\ sweep' = "join"
  /\ UNCHANGED <<next, tokens, worker, rc, abnormal, joined, sweep_exit>>

(* Faulty variant: a thread that raised is joined like any other.          *)
JoinRescued ==
  /\ sweep = "join" /\ joined < N
  /\ worker[joined + 1] \in {"ended", "dead"}
  /\ joined' = joined + 1
  /\ UNCHANGED <<sweep, next, tokens, worker, rc, abnormal, sweep_exit>>

(* Joining a thread that raised raises in the main thread.                 *)
Join ==
  /\ sweep = "join" /\ joined < N
  /\ \/ /\ worker[joined + 1] = "ended"
        /\ joined' = joined + 1
        /\ UNCHANGED <<sweep, sweep_exit>>
     \/ /\ worker[joined + 1] = "dead"
        /\ sweep' = "raised"
        /\ sweep_exit' = 1
        /\ UNCHANGED joined
  /\ UNCHANGED <<next, tokens, worker, rc, abnormal>>

(* Faulty variant: the results are added up without joining.               *)
SummarizeEarly ==
  /\ sweep = "join"
  /\ sweep' = "exited"
  /\ sweep_exit' = IF abnormal = {} THEN 0 ELSE 1
  /\ UNCHANGED <<next, tokens, worker, rc, abnormal, joined>>

SummarizeSweep ==
  /\ sweep = "join" /\ joined = N
  /\ sweep' = "exited"
  /\ sweep_exit' = IF abnormal = {} THEN 0 ELSE 1
  /\ UNCHANGED <<next, tokens, worker, rc, abnormal, joined>>

-----------------------------------------------------------------------------
(* A worker.                                                               *)

IsAbnormal(status) == status > 3

CheckBinary(i) ==
  /\ worker[i] = "checking"
  /\ \E status \in Statuses :
       /\ rc' = [rc EXCEPT ![i] = status]
       /\ abnormal' = IF IsAbnormal(status) THEN abnormal \cup {i} ELSE abnormal
  /\ worker' = [worker EXCEPT ![i] = "checked"]
  /\ UNCHANGED <<sweep, next, tokens, joined, sweep_exit>>

CheckRaises(i) ==
  /\ worker[i] = "checking"
  /\ worker' = [worker EXCEPT ![i] = "raising"]
  /\ UNCHANGED <<sweep, next, tokens, rc, abnormal, joined, sweep_exit>>

(* Faulty variant: a worker that raised keeps its token.                   *)
ReturnTokenUnlessRaising(i) ==
  /\ worker[i] \in {"checked", "raising"}
  /\ tokens' = IF worker[i] = "checked" THEN tokens + 1 ELSE tokens
  /\ worker' = [worker EXCEPT ![i] = IF @ = "checked" THEN "ended" ELSE "dead"]
  /\ UNCHANGED <<sweep, next, rc, abnormal, joined, sweep_exit>>

(* ensure *)
ReturnToken(i) ==
  /\ worker[i] \in {"checked", "raising"}
  /\ tokens' = tokens + 1
  /\ worker' = [worker EXCEPT ![i] = IF @ = "checked" THEN "ended" ELSE "dead"]
  /\ UNCHANGED <<sweep, next, rc, abnormal, joined, sweep_exit>>

MainThread ==
  \/ StartWorker
  \/ AllStarted
  \/ Join
  \/ SummarizeSweep

(* The threads end with the script.                                        *)
WorkerThread(i) ==
  /\ sweep \in {"spawn", "join"}
  /\ \/ CheckBinary(i)
     \/ CheckRaises(i)
     \/ ReturnToken(i)

SweepNext == MainThread \/ \E i \in Binaries : WorkerThread(i)

SweepSpec == SweepInit /\ [][SweepNext]_sweep_vars

-----------------------------------------------------------------------------
Holding == {i \in Binaries : worker[i] \in {"checking", "checked", "raising"}}

(* At most jobs checks run at once, whichever end by raising (run_sweep's  *)
(* pipe of tokens).                                                        *)
AtMostJobs == Cardinality(Holding) <= jobs

(* A sweep that comes to its summary has a result for every binary, and    *)
(* exits with 0 exactly if no check ended with a status above 3            *)
(* (check_binary, main).                                                   *)
SweepIsComplete ==
  sweep = "exited" =>
    /\ \A i \in Binaries : rc[i] # NoStatus
    /\ sweep_exit = 0 <=> \A i \in Binaries : rc[i] <= 3

(* A worker with a token runs in the pool, until it has put the token back.*)
Pool == INSTANCE JobPool WITH
  Jobs <- Binaries,
  limit <- jobs,
  running <- Holding,
  finished <- {i \in Binaries : worker[i] = "ended"},
  failed <- {i \in Binaries : worker[i] = "dead"},
  outcome <- IF sweep = "exited" THEN "complete" ELSE IF sweep = "raised" THEN "gave up" ELSE "none"

(* The threads and the pipe of run_sweep implement a bounded pool: no      *)
(* binary is checked twice, one starts only while fewer than jobs run, and *)
(* there is a summary only when all have finished, none of them by raising.*)
SweepIsPool == Pool!PoolSpec

(* The sweep ends: every token comes back, so the main thread never waits  *)
(* for ever.                                                               *)
SweepEnds == <>(sweep \in {"exited", "raised"})
=============================================================================
