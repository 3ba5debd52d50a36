----------------------------- MODULE Subprocess -----------------------------
(***************************************************************************)
(* SpawnProcess and WaitForProcess (subprocess.cc), with the child process *)
(* and the pipes they are about.                                           *)
(*                                                                         *)
(* "in" is the pipe to the child's stdin and "out" the one from its        *)
(* stdout; <<"in", "r">> is the reading end of the first.  The tool's      *)
(* descriptors are fds; the child holds its ends while it runs.            *)
(***************************************************************************)
EXTENDS Integers, FiniteSets, SequencesExt

CONSTANT PipeCapacity

VARIABLES
  fds,          \* ends of pipes the tool has open
  spawn,        \* SpawnProcess: "idle", "in", "out", "fork", "close", then "ok" or "failed"
  child,        \* [state : "none", "running", "exited", "reaped"; status : exit status, or -1 for a signal]
  in_pipe,      \* bytes on the way to the child
  out_pipe      \* lines on the way from the child

process_vars == <<fds, spawn, child, in_pipe, out_pipe>>

NoChild == [state |-> "none", status |-> 0]

ProcessInit ==
  /\ fds = {}
  /\ spawn = "idle"
  /\ child = NoChild
  /\ in_pipe = 0
  /\ out_pipe = <<>>

Ends(pipe) == {<<pipe, "r">>, <<pipe, "w">>}

ChildEnds == {<<"in", "r">>, <<"out", "w">>}

-----------------------------------------------------------------------------
(* SpawnProcess.  wanted is the set of pipes of its options.               *)

SpawnBegins ==
  /\ spawn' = "in"
  /\ child' = NoChild
  /\ in_pipe' = 0
  /\ out_pipe' = <<>>
  /\ UNCHANGED fds

(* Faulty variant: the pipe made first stays open when the second fails.   *)
SpawnFailsLeaking == spawn' = "failed" /\ fds' = fds

(* pipe_closer *)
SpawnFails == spawn' = "failed" /\ fds' = {}

MakePipe(pipe, wanted, next) ==
  /\ spawn = pipe
  /\ \/ pipe \notin wanted /\ spawn' = next /\ UNCHANGED fds
     \/ pipe \in wanted /\ spawn' = next /\ fds' = fds \cup Ends(pipe)
     \/ pipe \in wanted /\ SpawnFails
  /\ UNCHANGED <<child, in_pipe, out_pipe>>

(* posix_spawnp, which may fail.                                           *)
Fork ==
  /\ spawn = "fork"
  /\ child' \in {NoChild, [state |-> "running", status |-> 0]}
  /\ spawn' = "close"
  /\ UNCHANGED <<fds, in_pipe, out_pipe>>

(* The child's ends are closed either way.  The rest goes to the caller,   *)
(* or is closed by pipe_closer.                                            *)
CloseChildEnds ==
  /\ spawn = "close"
  /\ IF child.state = "none" THEN SpawnFails
     ELSE spawn' = "ok" /\ fds' = fds \ ChildEnds
  /\ UNCHANGED <<child, in_pipe, out_pipe>>

SpawnProcess(wanted) ==
  \/ MakePipe("in", wanted, "out")
  \/ MakePipe("out", wanted, "fork")
  \/ Fork
  \/ CloseChildEnds

(* waitpid returns once the child has ended; -1 stands for a signal.       *)
WaitForProcess ==
  /\ child.state = "exited"
  /\ child' = [child EXCEPT !.state = "reaped"]

-----------------------------------------------------------------------------
(* The child, as the kernel runs it.                                       *)

ChildExits(status) ==
  /\ child.state = "running"
  /\ child' = [state |-> "exited", status |-> status]
  /\ UNCHANGED <<fds, spawn, in_pipe, out_pipe>>

(* Nobody will write to the child any more; nobody can read from it.       *)
NoWriter == <<"in", "w">> \notin fds

NoReader == <<"out", "r">> \notin fds

(* What the tool sees of the child's ends.                                 *)
ChildReads == child.state = "running" \/ <<"in", "r">> \in fds

ChildWrites == child.state = "running" \/ <<"out", "w">> \in fds

(* Every descriptor is closed and the child has been waited for.           *)
Settled == fds = {} /\ child.state \in {"none", "reaped"}
=============================================================================
