----------------------------- MODULE ToolProofs -----------------------------
(***************************************************************************)
(* Proofs about what runs beside the checker: the sweep over several       *)
(* binaries, the child processes of --inspect and those of the report.     *)
(***************************************************************************)
EXTENDS Sweep, Inspect, Report, FiniteSetTheorems, TLAPS

-----------------------------------------------------------------------------
(***************************************************************************)
(* Sweep, for every number of binaries and of jobs.                        *)
(***************************************************************************)
WorkerStates == {"none", "checking", "checked", "raising", "ended", "dead"}

SweepTypeOK ==
  /\ sweep \in {"spawn", "join", "exited", "raised"}
  /\ next \in 0..N
  /\ tokens \in Nat
  /\ worker \in [Binaries -> WorkerStates]
  /\ rc \in [Binaries -> -2..255]
  /\ abnormal \in SUBSET Binaries
  /\ joined \in 0..N
  /\ sweep_exit \in {-1, 0, 1}

(* A token is in the pipe or with exactly one worker.                      *)
TokensAccounted == tokens + Cardinality(Holding) = jobs

(* Only binaries up to next have a worker.                                 *)
StartedInOrder == \A i \in Binaries : i > next => worker[i] = "none"

(* The workers that came through their check have left a result.           *)
ResultsLeft == \A i \in Binaries : worker[i] \in {"checked", "ended"} <=> rc[i] # NoStatus

AbnormalIsExact == abnormal = {i \in Binaries : rc[i] > 3}

JoinedHaveEnded == \A i \in Binaries : i <= joined => worker[i] = "ended"

SummaryIsLast == sweep = "exited" => joined = N /\ (sweep_exit = 0 <=> abnormal = {})

SweepInv ==
  /\ SweepTypeOK
  /\ TokensAccounted
  /\ StartedInOrder
  /\ ResultsLeft
  /\ AbnormalIsExact
  /\ JoinedHaveEnded
  /\ SummaryIsLast

-----------------------------------------------------------------------------
(* Binaries and all sets of them are finite, so that their sizes are       *)
(* numbers.                                                                *)
LEMMA HoldingIsFinite == IsFiniteSet(Holding) /\ Cardinality(Holding) \in Nat
<1>1. IsFiniteSet(Binaries)
  BY FS_Interval, SweepAssumption DEF Binaries
<1>2. Holding \subseteq Binaries
  BY DEF Holding
<1> QED BY <1>1, <1>2, FS_Subset, FS_CardinalityType

(* The sweep begins with all tokens in the pipe and no worker.             *)
LEMMA SweepInitially == SweepInit => SweepInv
<1> SUFFICES ASSUME SweepInit PROVE SweepInv
  OBVIOUS
<1> USE DEF SweepInit
<1>1. SweepTypeOK
  BY SweepAssumption DEF SweepTypeOK, WorkerStates, NoStatus
<1>2. TokensAccounted
  <2>1. Holding = {}
    BY DEF Holding
  <2> QED BY <2>1, FS_EmptySet, SweepAssumption DEF TokensAccounted
<1>3. StartedInOrder /\ ResultsLeft /\ SummaryIsLast
  BY DEF StartedInOrder, ResultsLeft, SummaryIsLast
<1>4. AbnormalIsExact
  BY DEF AbnormalIsExact, NoStatus
<1>5. JoinedHaveEnded
  BY DEF JoinedHaveEnded, Binaries
<1> QED BY <1>1, <1>2, <1>3, <1>4, <1>5 DEF SweepInv

(* Starting a worker moves a token from the pipe to it.                    *)
LEMMA StartKeeps == SweepInv /\ StartWorker => SweepInv'
<1> SUFFICES ASSUME SweepInv, StartWorker PROVE SweepInv'
  OBVIOUS
<1> USE DEF StartWorker
<1> DEFINE i == next + 1
<1>1. i \in Binaries /\ worker[i] = "none" /\ i \notin Holding
  BY SweepAssumption DEF SweepInv, SweepTypeOK, Binaries, StartedInOrder, Holding
<1>2. SweepTypeOK'
  BY <1>1, SweepAssumption DEF SweepInv, SweepTypeOK, WorkerStates
<1>3. TokensAccounted'
  <2>1. Holding' = Holding \cup {i}
    BY <1>1 DEF SweepInv, SweepTypeOK, Holding
  <2>2. Cardinality(Holding') = Cardinality(Holding) + 1
    BY <1>1, <2>1, HoldingIsFinite, FS_AddElement
  <2> QED BY <2>2, HoldingIsFinite, SweepAssumption DEF SweepInv, SweepTypeOK, TokensAccounted
<1>4. StartedInOrder'
  BY <1>1 DEF SweepInv, SweepTypeOK, StartedInOrder, Binaries
<1>5. ResultsLeft' /\ JoinedHaveEnded'
  BY <1>1 DEF SweepInv, SweepTypeOK, ResultsLeft, JoinedHaveEnded
<1>6. AbnormalIsExact' /\ SummaryIsLast'
  BY DEF SweepInv, AbnormalIsExact, SummaryIsLast
<1> QED BY <1>2, <1>3, <1>4, <1>5, <1>6 DEF SweepInv

(* The rest of the main thread moves no token.                             *)
LEMMA MainKeeps == SweepInv /\ (AllStarted \/ Join \/ SummarizeSweep) => SweepInv'
<1> SUFFICES ASSUME SweepInv, AllStarted \/ Join \/ SummarizeSweep PROVE SweepInv'
  OBVIOUS
<1> USE DEF AllStarted, Join, SummarizeSweep
<1>1. SweepTypeOK'
  BY SweepAssumption DEF SweepInv, SweepTypeOK
<1>2. Holding' = Holding
  BY DEF Holding
<1>3. TokensAccounted'
  BY <1>2 DEF SweepInv, TokensAccounted
<1>4. StartedInOrder' /\ ResultsLeft' /\ AbnormalIsExact'
  BY DEF SweepInv, StartedInOrder, ResultsLeft, AbnormalIsExact
<1>5. JoinedHaveEnded'
  <2> SUFFICES ASSUME NEW i \in Binaries, i <= joined' PROVE worker'[i] = "ended"
    BY DEF JoinedHaveEnded
  <2>1. i <= joined \/ (i = joined + 1 /\ worker[i] = "ended")
    BY SweepAssumption DEF SweepInv, SweepTypeOK, Binaries
  <2>2. worker' = worker
    OBVIOUS
  <2> QED BY <2>1, <2>2 DEF SweepInv, JoinedHaveEnded
<1>6. SummaryIsLast'
  BY DEF SweepInv, SweepTypeOK, SummaryIsLast
<1> QED BY <1>1, <1>3, <1>4, <1>5, <1>6 DEF SweepInv

(* A check that ends, one way or the other, keeps its token.               *)
LEMMA CheckKeeps ==
  ASSUME NEW i \in Binaries, SweepInv, sweep \in {"spawn", "join"}, CheckBinary(i) \/ CheckRaises(i)
  PROVE  SweepInv'
<1> USE DEF CheckBinary, CheckRaises
<1>1. SweepTypeOK'
  BY SweepAssumption DEF SweepInv, SweepTypeOK, WorkerStates
<1>2. Holding' = Holding
  BY DEF SweepInv, SweepTypeOK, Holding
<1>3. TokensAccounted'
  BY <1>2 DEF SweepInv, TokensAccounted
<1>4. StartedInOrder' /\ JoinedHaveEnded' /\ SummaryIsLast'
  BY DEF SweepInv, SweepTypeOK, StartedInOrder, JoinedHaveEnded, SummaryIsLast
<1>5. ResultsLeft'
  BY SweepAssumption DEF SweepInv, SweepTypeOK, ResultsLeft, NoStatus
<1>6. AbnormalIsExact'
  <2>1. CASE CheckRaises(i)
    BY <2>1 DEF SweepInv, AbnormalIsExact
  <2>2. CASE CheckBinary(i)
    <3>1. rc[i] = NoStatus
      BY <2>2 DEF SweepInv, ResultsLeft
    <3> QED BY <2>2, <3>1, SweepAssumption DEF SweepInv, SweepTypeOK, AbnormalIsExact, IsAbnormal, NoStatus
  <2> QED BY <2>1, <2>2
<1> QED BY <1>1, <1>3, <1>4, <1>5, <1>6 DEF SweepInv

(* ensure: the token goes back to the pipe.                                *)
LEMMA ReturnKeeps ==
  ASSUME NEW i \in Binaries, SweepInv, sweep \in {"spawn", "join"}, ReturnToken(i)
  PROVE  SweepInv'
<1> USE DEF ReturnToken
<1>1. SweepTypeOK'
  BY DEF SweepInv, SweepTypeOK, WorkerStates
<1>2. TokensAccounted'
  <2>1. i \in Holding /\ Holding' = Holding \ {i}
    BY DEF SweepInv, SweepTypeOK, Holding
  <2>2. Cardinality(Holding') = Cardinality(Holding) - 1
    BY <2>1, HoldingIsFinite, FS_RemoveElement
  <2> QED BY <2>2, HoldingIsFinite, SweepAssumption DEF SweepInv, SweepTypeOK, TokensAccounted
<1>3. StartedInOrder' /\ JoinedHaveEnded' /\ SummaryIsLast' /\ AbnormalIsExact'
  BY DEF SweepInv, SweepTypeOK, StartedInOrder, JoinedHaveEnded, SummaryIsLast, AbnormalIsExact
<1>4. ResultsLeft'
  BY DEF SweepInv, SweepTypeOK, ResultsLeft
<1> QED BY <1>1, <1>2, <1>3, <1>4 DEF SweepInv

(* SweepInv is an invariant of run_sweep's threads.                        *)
THEOREM SweepInvariant == SweepSpec => []SweepInv
<1>1. SweepInv /\ [SweepNext]_sweep_vars => SweepInv'
  <2> SUFFICES ASSUME SweepInv, [SweepNext]_sweep_vars PROVE SweepInv'
    OBVIOUS
  <2>1. CASE StartWorker
    BY <2>1, StartKeeps
  <2>2. CASE AllStarted \/ Join \/ SummarizeSweep
    BY <2>2, MainKeeps
  <2>3. ASSUME NEW i \in Binaries, WorkerThread(i) PROVE SweepInv'
    BY <2>3, CheckKeeps, ReturnKeeps DEF WorkerThread
  <2>4. CASE UNCHANGED sweep_vars
    BY <2>4 DEF sweep_vars, SweepInv, SweepTypeOK, TokensAccounted, Holding, StartedInOrder, ResultsLeft,
                AbnormalIsExact, JoinedHaveEnded, SummaryIsLast
  <2> QED BY <2>1, <2>2, <2>3, <2>4 DEF SweepNext, MainThread
<1> QED BY SweepInitially, <1>1, PTL DEF SweepSpec

(* However many binaries and however their checks end, at most jobs of     *)
(* them run at once: a token is held for every worker (run_sweep).         *)
THEOREM AtMostJobsRun == SweepSpec => []AtMostJobs
<1>1. SweepInv => AtMostJobs
  BY HoldingIsFinite, SweepAssumption DEF SweepInv, SweepTypeOK, TokensAccounted, AtMostJobs
<1> QED BY SweepInvariant, <1>1, PTL

(* A summary is of all binaries, and its exit status tells whether one     *)
(* was abnormal (run_sweep's join, main).                                  *)
THEOREM SummaryIsComplete == SweepSpec => []SweepIsComplete
<1>1. SweepInv => SweepIsComplete
  <2> SUFFICES ASSUME SweepInv, sweep = "exited"
               PROVE  /\ \A i \in Binaries : rc[i] # NoStatus
                      /\ sweep_exit = 0 <=> \A i \in Binaries : rc[i] <= 3
    BY DEF SweepIsComplete
  <2>1. \A i \in Binaries : worker[i] = "ended"
    BY SweepAssumption DEF SweepInv, Binaries, JoinedHaveEnded, SummaryIsLast
  <2>2. \A i \in Binaries : rc[i] # NoStatus
    BY <2>1 DEF SweepInv, ResultsLeft
  <2>3. abnormal = {} <=> \A i \in Binaries : rc[i] <= 3
    BY DEF SweepInv, SweepTypeOK, AbnormalIsExact
  <2> QED BY <2>2, <2>3 DEF SweepInv, SummaryIsLast
<1> QED BY SweepInvariant, <1>1, PTL

-----------------------------------------------------------------------------
(* Starting a worker begins a job, since the token it takes leaves fewer   *)
(* than jobs with the others.                                              *)
LEMMA StartIsBegin == SweepInv /\ StartWorker => Pool!PoolNext
<1> SUFFICES ASSUME SweepInv, StartWorker PROVE Pool!PoolNext
  OBVIOUS
<1> DEFINE i == next + 1
<1> USE DEF StartWorker
<1>1. i \in Binaries /\ worker[i] = "none"
  BY SweepAssumption DEF SweepInv, SweepTypeOK, Binaries, StartedInOrder
<1>2. worker' = [worker EXCEPT ![i] = "checking"] /\ sweep = "spawn" /\ sweep' = sweep
  OBVIOUS
<1>3. Cardinality(Holding) < jobs
  BY HoldingIsFinite, SweepAssumption DEF SweepInv, SweepTypeOK, TokensAccounted
<1> HIDE DEF StartWorker, i
<1>4. i \notin Holding /\ Holding' = Holding \cup {i}
  BY <1>1, <1>2 DEF SweepInv, SweepTypeOK, Holding
<1>5. Pool!Cardinality(Holding) < jobs
  BY <1>3 DEF Cardinality, Pool!Cardinality
<1>6. Pool!Begin(i)
  BY <1>1, <1>2, <1>4, <1>5 DEF SweepInv, SweepTypeOK, Pool!Begin
<1> QED BY <1>1, <1>2, <1>6 DEF Pool!PoolNext

(* Returning the token finishes a job, well or badly.                      *)
LEMMA ReturnIsFinish ==
  ASSUME NEW i \in Binaries, SweepInv, sweep \in {"spawn", "join"}, ReturnToken(i)
  PROVE  Pool!PoolNext
<1> USE DEF ReturnToken
<1>1. i \in Holding /\ Holding' = Holding \ {i}
  BY DEF SweepInv, SweepTypeOK, Holding
<1>2. Pool!Finish(i)
  BY <1>1 DEF SweepInv, SweepTypeOK, Pool!Finish
<1> QED BY <1>2 DEF Pool!PoolNext

(* The main thread ends the pool only after joining every worker, or a     *)
(* dead one.                                                               *)
LEMMA EndIsConclude ==
  ASSUME SweepInv, AllStarted \/ Join \/ SummarizeSweep
  PROVE  Pool!PoolNext \/ UNCHANGED Pool!pool_vars
<1>1. CASE AllStarted
  BY <1>1 DEF AllStarted, Pool!pool_vars, Holding
<1>2. CASE Join
  <2>1. joined + 1 \in Binaries
    BY <1>2, SweepAssumption DEF Join, SweepInv, SweepTypeOK, Binaries
  <2> QED BY <1>2, <2>1 DEF Join, Pool!pool_vars, Pool!PoolNext, Pool!Conclude, Holding
<1>3. CASE SummarizeSweep
  <2>1. \A i \in Binaries : worker[i] = "ended"
    BY <1>3, SweepAssumption DEF SummarizeSweep, SweepInv, Binaries, JoinedHaveEnded
  <2> QED BY <1>3, <2>1 DEF SummarizeSweep, Pool!PoolNext, Pool!Conclude, Holding
<1> QED BY <1>1, <1>2, <1>3

(* The sweep's threads implement the bounded pool, for every number of     *)
(* binaries and of jobs (run_sweep).                                       *)
THEOREM SweepImplementsPool == SweepSpec => SweepIsPool
<1>1. SweepInit => Pool!PoolInit
  BY DEF SweepInit, Pool!PoolInit, Holding
<1>2. SweepInv /\ [SweepNext]_sweep_vars => [Pool!PoolNext]_(Pool!pool_vars)
  <2> SUFFICES ASSUME SweepInv, [SweepNext]_sweep_vars
               PROVE  Pool!PoolNext \/ UNCHANGED Pool!pool_vars
    OBVIOUS
  <2>1. CASE StartWorker
    BY <2>1, StartIsBegin
  <2>2. CASE AllStarted \/ Join \/ SummarizeSweep
    BY <2>2, EndIsConclude
  <2>3. ASSUME NEW i \in Binaries, WorkerThread(i) PROVE Pool!PoolNext \/ UNCHANGED Pool!pool_vars
    <3>1. CASE CheckBinary(i) \/ CheckRaises(i)
      BY <3>1 DEF CheckBinary, CheckRaises, Pool!pool_vars, SweepInv, SweepTypeOK, Holding
    <3>2. CASE ReturnToken(i)
      BY <2>3, <3>2, ReturnIsFinish DEF WorkerThread
    <3> QED BY <2>3, <3>1, <3>2 DEF WorkerThread
  <2>4. CASE UNCHANGED sweep_vars
    BY <2>4 DEF sweep_vars, Pool!pool_vars, Holding
  <2> QED BY <2>1, <2>2, <2>3, <2>4 DEF SweepNext, MainThread
<1> QED BY SweepInvariant, <1>1, <1>2, PTL DEF SweepSpec, SweepIsPool, Pool!PoolSpec

-----------------------------------------------------------------------------
(***************************************************************************)
(* Inspect, for every capacity of the pipe and every size of the           *)
(* annotations.                                                            *)
(***************************************************************************)
InspectTypeOK ==
  /\ size \in Nat /\ off \in Nat /\ has_read \in Nat /\ in_pipe \in Nat
  /\ write_status \in {"ok", "error"}
  /\ child.state \in {"none", "running", "exited", "reaped"}
  /\ inspecting \in {"start", "spawn", "write", "wait", "listed", "failed", "killed"}

(* Which descriptors the tool holds, and whether there is a child, follows *)
(* from where it is.                                                       *)
InspectSpawning ==
  \/ spawn = "in" /\ fds = {} /\ child.state = "none"
  \/ spawn \in {"out", "fork"} /\ fds = Ends("in") /\ child.state = "none"
  \/ spawn = "close" /\ fds = Ends("in")
  \/ spawn = "ok" /\ fds = {<<"in", "w">>} /\ child.state \in {"running", "exited"}
  \/ spawn = "failed" /\ fds = {} /\ child.state = "none"

InspectHeld ==
  /\ inspecting = "start" => fds = {} /\ child.state = "none" /\ in_pipe = 0 /\ write_status = "ok"
  /\ inspecting = "spawn" => InspectSpawning /\ child.state # "reaped" /\ write_status = "ok"
  /\ inspecting = "write" => fds = {<<"in", "w">>} /\ child.state \in {"running", "exited"}
  /\ inspecting = "wait" => fds = {} /\ child.state \in {"running", "exited"}
  /\ inspecting = "listed" => fds = {} /\ child.state = "reaped"
  /\ inspecting = "failed" => fds = {} /\ child.state \in {"none", "reaped"}
  /\ inspecting = "killed" => fds = {} /\ child.state = "reaped"

(* Every byte written is in the pipe or has been read.                     *)
NoByteLost == has_read + in_pipe = off /\ off <= size

(* Only a child that is gone makes a write fail.                           *)
FailsOnlyWithoutReader == write_status = "error" => child.state # "running"

WaitsAfterAll == inspecting = "wait" /\ write_status = "ok" => off = size

EOFMeansAll == at_eof => has_read = size

(* Status 0 comes from a script that saw the end of its input.             *)
ZeroMeansEOF == child.state \in {"exited", "reaped"} /\ child.status = 0 => at_eof

ListedMeansZero == inspecting = "listed" => child.status = 0

InspectInv ==
  /\ InspectTypeOK
  /\ InspectHeld
  /\ NoByteLost
  /\ FailsOnlyWithoutReader
  /\ WaitsAfterAll
  /\ EOFMeansAll
  /\ ZeroMeansEOF
  /\ ListedMeansZero

-----------------------------------------------------------------------------
(* There is nothing open and nothing written when RunInspectPipeline gets  *)
(* to its child.                                                           *)
LEMMA InspectInitially == InspectInit => InspectInv
<1> SUFFICES ASSUME InspectInit PROVE InspectInv
  OBVIOUS
<1> USE DEF InspectInit, ProcessInit, NoChild
<1>1. InspectTypeOK /\ NoByteLost
  BY InspectAssumption DEF InspectTypeOK, NoByteLost
<1>2. InspectHeld
  BY DEF InspectHeld
<1>3. FailsOnlyWithoutReader /\ WaitsAfterAll /\ EOFMeansAll /\ ZeroMeansEOF /\ ListedMeansZero
  BY DEF FailsOnlyWithoutReader, WaitsAfterAll, EOFMeansAll, ZeroMeansEOF, ListedMeansZero
<1> QED BY <1>1, <1>2, <1>3 DEF InspectInv

(* SpawnProcess, with its pipe to the child's stdin.                       *)
LEMMA InspectSpawnKeeps == InspectInv /\ (StartPipeline \/ SpawnPipeline \/ PipelineSpawned) => InspectInv'
<1> SUFFICES ASSUME InspectInv, StartPipeline \/ SpawnPipeline \/ PipelineSpawned PROVE InspectInv'
  OBVIOUS
<1> USE DEF InspectInv, InspectTypeOK, InspectHeld, NoByteLost, FailsOnlyWithoutReader, WaitsAfterAll, EOFMeansAll,
            ZeroMeansEOF, ListedMeansZero, InspectSpawning
<1>1. CASE StartPipeline
  BY <1>1 DEF StartPipeline, SpawnBegins, NoChild
<1>2. CASE SpawnPipeline
  <2>1. CASE MakePipe("in", {"in"}, "out")
    BY <1>2, <2>1 DEF SpawnPipeline, MakePipe, SpawnFails, inspect_vars, Ends
  <2>2. CASE MakePipe("out", {"in"}, "fork")
    BY <1>2, <2>2 DEF SpawnPipeline, MakePipe, SpawnFails, inspect_vars
  <2>3. CASE Fork
    BY <1>2, <2>3 DEF SpawnPipeline, Fork, NoChild, inspect_vars
  <2>4. CASE CloseChildEnds
    BY <1>2, <2>4 DEF SpawnPipeline, CloseChildEnds, SpawnFails, inspect_vars, Ends, ChildEnds
  <2> QED BY <1>2, <2>1, <2>2, <2>3, <2>4 DEF SpawnPipeline, SpawnProcess
<1>3. CASE PipelineSpawned
  BY <1>3 DEF PipelineSpawned
<1> QED BY <1>1, <1>2, <1>3

(* WriteAll, close and waitpid.                                            *)
LEMMA WriteKeeps ==
  InspectInv /\ (WriteAll \/ Killed \/ WriteFails \/ CloseStdin \/ WaitForPipeline) => InspectInv'
<1> SUFFICES ASSUME InspectInv, WriteAll \/ Killed \/ WriteFails \/ CloseStdin \/ WaitForPipeline PROVE InspectInv'
  OBVIOUS
<1> USE DEF InspectInv, InspectTypeOK, InspectHeld, NoByteLost, FailsOnlyWithoutReader, WaitsAfterAll, EOFMeansAll,
            ZeroMeansEOF, ListedMeansZero
<1>1. CASE WriteAll
  BY <1>1 DEF WriteAll
<1>2. CASE Killed
  BY <1>2 DEF Killed, ChildReads
<1>3. CASE WriteFails
  BY <1>3 DEF WriteFails, ChildReads, process_vars
<1>4. CASE CloseStdin
  BY <1>4 DEF CloseStdin
<1>5. CASE WaitForPipeline
  BY <1>5 DEF WaitForPipeline, WaitForProcess, Outcome
<1> QED BY <1>1, <1>2, <1>3, <1>4, <1>5

(* inspect.rb, and its death.                                              *)
LEMMA ScriptKeeps == InspectInv /\ (InspectScript \/ ScriptDies) => InspectInv'
<1> SUFFICES ASSUME InspectInv, InspectScript \/ ScriptDies PROVE InspectInv'
  OBVIOUS
<1> USE DEF InspectInv, InspectTypeOK, InspectHeld, NoByteLost, FailsOnlyWithoutReader, WaitsAfterAll, EOFMeansAll,
            ZeroMeansEOF, ListedMeansZero, InspectSpawning
<1>1. CASE ScriptReads
  BY <1>1 DEF ScriptReads
<1>2. CASE ScriptSeesEOF
  BY <1>2 DEF ScriptSeesEOF, NoWriter, process_vars, Ends
<1>3. CASE ScriptEnds
  BY <1>3 DEF ScriptEnds, ChildExits, inspect_vars
<1>4. CASE ScriptDies
  BY <1>4 DEF ScriptDies, ChildExits, inspect_vars
<1> QED BY <1>1, <1>2, <1>3, <1>4 DEF InspectScript

(* InspectInv is an invariant of the tool and its child together.          *)
THEOREM InspectInvariant == InspectSpec => []InspectInv
<1>1. InspectInv /\ UNCHANGED <<process_vars, inspect_vars>> => InspectInv'
  BY DEF process_vars, inspect_vars, InspectInv, InspectTypeOK, InspectHeld, InspectSpawning, NoByteLost, FailsOnlyWithoutReader,
         WaitsAfterAll, EOFMeansAll, ZeroMeansEOF, ListedMeansZero
<1>2. InspectInv /\ [InspectNext]_<<process_vars, inspect_vars>> => InspectInv'
  BY <1>1, InspectSpawnKeeps, WriteKeeps, ScriptKeeps DEF InspectNext, RunInspectPipeline
<1> QED BY InspectInitially, <1>2, PTL DEF InspectSpec

(* Whatever the sizes of the pipe and of the annotations, however writes   *)
(* are cut and whenever inspect.rb dies, --inspect answers with a verdict  *)
(* only if inspect.rb read everything and was content (WriteAll,           *)
(* RunInspectPipeline).                                                    *)
THEOREM VerdictMeansListed == InspectSpec => []ListingIsWhole
<1>1. InspectInv => ListingIsWhole
  BY DEF InspectInv, InspectHeld, ZeroMeansEOF, EOFMeansAll, ListedMeansZero, ListingIsWhole
<1> QED BY InspectInvariant, <1>1, PTL

(* RunInspectPipeline returns with every pipe closed and its child waited  *)
(* for, on its error returns too (SpawnProcess's pipe_closer).             *)
THEOREM NothingLeftOpen == InspectSpec => []InspectSettles
<1>1. InspectInv => InspectSettles
  BY DEF InspectInv, InspectHeld, InspectSettles, Settled
<1> QED BY InspectInvariant, <1>1, PTL

-----------------------------------------------------------------------------
(***************************************************************************)
(* Report, for every report, batch size and capacity of the pipe: what     *)
(* Prepare does with descriptors and children.                             *)
(***************************************************************************)
ReportSpawning ==
  \/ spawn \in {"in", "out"} /\ fds = {} /\ child.state = "none"
  \/ spawn = "fork" /\ fds = Ends("out") /\ child.state = "none"
  \/ spawn = "close" /\ fds = Ends("out") /\ child.state \in {"none", "running", "exited"}
  \/ spawn = "ok" /\ fds = {<<"out", "r">>} /\ child.state \in {"running", "exited"}
  \/ spawn = "failed" /\ fds = {} /\ child.state = "none"

(* Which descriptors the tool holds, and whether there is a child, follows *)
(* from where it is.                                                       *)
ReportHeld ==
  /\ step \in {"collect", "batch", "spawn", "read", "wait", "print", "done"}
  /\ step \in {"collect", "batch", "print", "done"} => Settled
  /\ step = "spawn" => ReportSpawning
  /\ step = "read" => fds = {<<"out", "r">>} /\ child.state \in {"running", "exited"}
  /\ step = "wait" => fds = {} /\ child.state \in {"running", "exited"}

-----------------------------------------------------------------------------
(* SpawnProcess, with its pipe from the child's stdout.                    *)
LEMMA ReportSpawnKeeps == ReportHeld /\ (BeginBatch \/ SpawnStep \/ SpawnReturns) => ReportHeld'
<1> SUFFICES ASSUME ReportHeld, BeginBatch \/ SpawnStep \/ SpawnReturns PROVE ReportHeld'
  OBVIOUS
<1> USE DEF ReportHeld, ReportSpawning, Settled
<1>1. CASE BeginBatch
  BY <1>1 DEF BeginBatch, SpawnBegins, NoChild
<1>2. CASE SpawnStep
  <2>1. step = "spawn" /\ step' = "spawn"
    BY <1>2 DEF SpawnStep
  <2>2. CASE MakePipe("in", {"out"}, "out")
    BY <2>1, <2>2 DEF MakePipe, SpawnFails
  <2>3. CASE MakePipe("out", {"out"}, "fork")
    BY <2>1, <2>3 DEF MakePipe, SpawnFails
  <2>4. CASE Fork
    BY <2>1, <2>4 DEF Fork, NoChild
  <2>5. CASE CloseChildEnds
    BY <2>1, <2>5 DEF CloseChildEnds, SpawnFails, Ends, ChildEnds
  <2> QED BY <1>2, <2>2, <2>3, <2>4, <2>5 DEF SpawnStep, SpawnProcess
<1>3. CASE SpawnReturns
  BY <1>3 DEF SpawnReturns
<1> QED BY <1>1, <1>2, <1>3

(* Reading the answers, fclose and waitpid.                                *)
LEMMA BatchKeeps == ReportHeld /\ (ReadField \/ ClosePipe \/ Wait) => ReportHeld'
<1> SUFFICES ASSUME ReportHeld, ReadField \/ ClosePipe \/ Wait PROVE ReportHeld'
  OBVIOUS
<1> USE DEF ReportHeld, Settled
<1>1. CASE ReadField
  BY <1>1 DEF ReadField
<1>2. CASE ClosePipe
  BY <1>2 DEF ClosePipe
<1>3. CASE Wait
  BY <1>3 DEF Wait, WaitForProcess
<1> QED BY <1>1, <1>2, <1>3

(* The steps of PrintReport outside Prepare's loop.                        *)
LEMMA PrintKeeps == ReportHeld /\ (Collect \/ Prepared \/ PrintResults) => ReportHeld'
BY DEF ReportHeld, Settled, Collect, Prepared, PrintResults, process_vars

(* addr2line, and its death.                                               *)
LEMMA Addr2LineKeeps == ReportHeld /\ (Addr2Line \/ Addr2LineDies) => ReportHeld'
<1> SUFFICES ASSUME ReportHeld, Addr2Line \/ Addr2LineDies PROVE ReportHeld'
  OBVIOUS
<1>1. child.state = "running" /\ fds' = fds /\ spawn' = spawn /\ step' = step
  BY DEF Addr2Line, Addr2LineWrites, Addr2LineEnds, Addr2LineDies, ChildExits, report_vars
<1>2. child'.state \in {"running", "exited"}
  BY <1>1 DEF Addr2Line, Addr2LineWrites, Addr2LineEnds, Addr2LineDies, ChildExits
<1> QED BY <1>1, <1>2 DEF ReportHeld, ReportSpawning, Settled

(* PrintReport leaves no pipe open and no child unwaited for, whichever    *)
(* batch fails at whichever call and whenever addr2line dies               *)
(* (SpawnProcess's pipe_closer, Prepare's fclose and WaitForProcess).      *)
THEOREM ReportLeavesNothing == ReportSpec => []ReportSettles
<1>1. ReportInit => ReportHeld
  BY DEF ReportInit, ProcessInit, NoChild, ReportHeld, Settled
<1>2. ReportHeld /\ UNCHANGED <<report_vars, process_vars>> => ReportHeld'
  BY DEF ReportHeld, ReportSpawning, Settled, report_vars, process_vars
<1>3. ReportHeld /\ [ReportNext]_<<report_vars, process_vars>> => ReportHeld'
  BY <1>2, ReportSpawnKeeps, BatchKeeps, PrintKeeps, Addr2LineKeeps DEF ReportNext, PrintReport
<1>4. ReportHeld => ReportSettles
  BY DEF ReportHeld, ReportSettles
<1> QED BY <1>1, <1>3, <1>4, PTL DEF ReportSpec
=============================================================================
