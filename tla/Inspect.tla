------------------------------ MODULE Inspect ------------------------------
(***************************************************************************)
(* RunInspectPipeline (diagnostics.cc) from the spawning of inspect.rb on: *)
(* write the annotations to its stdin, close it, wait, and let the exit    *)
(* code of --inspect follow.  What the checker found is fixed beforehand.  *)
(*                                                                         *)
(* inspect.rb (external) reads its stdin to the end before it runs         *)
(* objdump, and exits with 0 only if it printed everything.  The tool does *)
(* not set what SIGPIPE does: its parent has.                              *)
(***************************************************************************)
EXTENDS Subprocess

CONSTANT Sizes       \* sizes of the annotations

ASSUME InspectAssumption ==
  /\ PipeCapacity \in Nat \ {0}
  /\ Sizes \subseteq Nat

VARIABLES
  size,
  off,               \* WriteAll's offset
  has_read,          \* how much inspect.rb has read
  at_eof,            \* it has seen the end of its input
  write_status,      \* "ok" or "error"
  inspecting         \* "start", "spawn", "write", "wait", "listed", "failed" or "killed"

inspect_vars == <<size, off, has_read, at_eof, write_status, inspecting>>

InspectInit ==
  /\ ProcessInit
  /\ size \in Sizes
  /\ off = 0
  /\ has_read = 0
  /\ at_eof = FALSE
  /\ write_status = "ok"
  /\ inspecting = "start"

StartPipeline ==
  /\ inspecting = "start"
  /\ SpawnBegins
  /\ inspecting' = "spawn"
  /\ UNCHANGED <<size, off, has_read, at_eof, write_status>>

SpawnPipeline ==
  /\ inspecting = "spawn"
  /\ SpawnProcess({"in"})
  /\ UNCHANGED inspect_vars

PipelineSpawned ==
  /\ inspecting = "spawn" /\ spawn \in {"ok", "failed"}
  /\ inspecting' = IF spawn = "ok" THEN "write" ELSE "failed"
  /\ spawn' = "idle"
  /\ UNCHANGED <<size, off, has_read, at_eof, write_status, fds, child, in_pipe, out_pipe>>

(* write takes what fits, at least one byte, or blocks.                    *)
WriteAll ==
  /\ inspecting = "write" /\ off < size /\ write_status = "ok"
  /\ ChildReads
  /\ \E n \in 1..(size - off) :
       /\ in_pipe + n <= PipeCapacity
       /\ off' = off + n
       /\ in_pipe' = in_pipe + n
  /\ UNCHANGED <<size, has_read, at_eof, write_status, inspecting, fds, spawn, child, out_pipe>>

(* Nobody reads: SIGPIPE.  The kernel closes everything.                   *)
Killed ==
  /\ inspecting = "write" /\ off < size /\ write_status = "ok"
  /\ ~ChildReads
  /\ inspecting' = "killed"
  /\ fds' = {}
  /\ child' = [child EXCEPT !.state = "reaped"]
  /\ UNCHANGED <<size, off, has_read, at_eof, write_status, spawn, in_pipe, out_pipe>>

(* Nobody reads, and SIGPIPE was ignored by whoever started the tool.      *)
WriteFails ==
  /\ inspecting = "write" /\ off < size /\ write_status = "ok"
  /\ ~ChildReads
  /\ write_status' = "error"
  /\ UNCHANGED <<size, off, has_read, at_eof, inspecting, process_vars>>

(* Faulty variant: stdin is closed only after the child has ended.         *)
CloseStdinLate ==
  /\ inspecting = "write" /\ (off = size \/ write_status = "error")
  /\ inspecting' = "wait"
  /\ UNCHANGED <<size, off, has_read, at_eof, write_status, process_vars>>

CloseStdin ==
  /\ inspecting = "write" /\ (off = size \/ write_status = "error")
  /\ fds' = fds \ {<<"in", "w">>}
  /\ inspecting' = "wait"
  /\ UNCHANGED <<size, off, has_read, at_eof, write_status, spawn, child, in_pipe, out_pipe>>

(* Faulty variant: the exit status of the pipeline is not looked at.       *)
OutcomeAny(status) == "listed"

(* "listed": the verdict decides the exit code; "failed": kExitFailure.    *)
Outcome(status) == IF write_status = "ok" /\ status = 0 THEN "listed" ELSE "failed"

WaitForPipeline ==
  /\ inspecting = "wait"
  /\ WaitForProcess
  /\ inspecting' = Outcome(child.status)
  /\ UNCHANGED <<size, off, has_read, at_eof, write_status, fds, spawn, in_pipe, out_pipe>>

RunInspectPipeline ==
  \/ StartPipeline
  \/ SpawnPipeline
  \/ PipelineSpawned
  \/ WriteAll
  \/ Killed
  \/ WriteFails
  \/ CloseStdin
  \/ WaitForPipeline

-----------------------------------------------------------------------------
(* inspect.rb (external)                                                   *)

ScriptReads ==
  /\ child.state = "running" /\ in_pipe > 0
  /\ in_pipe' = in_pipe - 1
  /\ has_read' = has_read + 1
  /\ UNCHANGED <<size, off, at_eof, write_status, inspecting, fds, spawn, child, out_pipe>>

ScriptSeesEOF ==
  /\ child.state = "running" /\ in_pipe = 0 /\ NoWriter
  /\ at_eof' = TRUE
  /\ UNCHANGED <<size, off, has_read, write_status, inspecting, process_vars>>

(* It lists and succeeds, or finds fault with what objdump printed.        *)
ScriptEnds ==
  /\ at_eof
  /\ \E status \in {0, 1} : ChildExits(status)
  /\ UNCHANGED inspect_vars

(* It dies of something else.                                              *)
ScriptDies ==
  /\ \E status \in {1, -1} : ChildExits(status)
  /\ UNCHANGED inspect_vars

InspectScript ==
  \/ ScriptReads
  \/ ScriptSeesEOF
  \/ ScriptEnds

InspectNext ==
  \/ RunInspectPipeline
  \/ InspectScript
  \/ ScriptDies

InspectSpec == InspectInit /\ [][InspectNext]_<<process_vars, inspect_vars>>

(* --inspect answers with a verdict only if inspect.rb read all that was   *)
(* written and said it had printed everything (RunInspectPipeline's three  *)
(* error returns).                                                         *)
ListingIsWhole == inspecting = "listed" => has_read = size /\ at_eof /\ child.status = 0

(* When it returns, no pipe is left open and no child unwaited for.        *)
InspectSettles == inspecting \in {"listed", "failed"} => Settled

(* It always ends: stdin is closed before the child is waited for, and     *)
(* annotations larger than the pipe do not block it for ever.              *)
InspectEnds == <>(inspecting \in {"listed", "failed", "killed"})
=============================================================================
