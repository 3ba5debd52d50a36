------------------------------ MODULE Worklist ------------------------------
(***************************************************************************)
(* Pass 1 of the full checker (fde-checker.cc): the forward dataflow walk, *)
(* FDEChecker::Propagate and FDEChecker::Drain.                            *)
(*                                                                         *)
(* What an instruction does is a parameter.  Edges(fde, pc, state) is the  *)
(* sequence of [to, state] records one iteration of Drain hands to         *)
(* Propagate, in the order it does: landing pad, fall-through, branch      *)
(* target, switch targets.  It is empty when the bytes do not decode.      *)
(* PCs(fde) are its addresses, max_iterations(fde) is the cap its walk     *)
(* runs under.                                                             *)
(* Seeds(fde) are the places a walk may be started from outside: the entry *)
(* of the FDE and the landing pads SeedUnreachedLandingPads falls back to. *)
(***************************************************************************)
EXTENDS AbsState

CONSTANTS PCs(_), FDEs, Edges(_, _, _), Seeds(_), max_iterations(_)

ASSUME CapAssumption == \A f \in FDEs : max_iterations(f) \in Nat

VARIABLES
  fde,             \* the FDE under analysis; chosen once
  in_states,       \* reached pc -> joined state before the instruction
  worklist,        \* stack of pcs to (re)visit
  pending_pushes,  \* the pcs flagged as sitting in worklist
  join_conflicts,  \* set of <<pc, conflict>> that Join reported
  visited,         \* the pcs Drain has popped at least once
  draining,        \* Drain has run since the last seed
  iterations,      \* pops so far
  hit_cap,         \* the walk was abandoned
  from,            \* {the pc Drain is working on}, or {}
  todo             \* its edges not yet propagated

vars == <<fde, in_states, worklist, pending_pushes, join_conflicts, visited,
          draining, iterations, hit_cap, from, todo>>

(* A walk that has not begun.                                              *)
EmptyWalk ==
  /\ in_states = [pc \in {} |-> Top]
  /\ worklist = <<>>
  /\ pending_pushes = {}
  /\ join_conflicts = {}
  /\ visited = {}
  /\ draining = FALSE
  /\ iterations = 0
  /\ hit_cap = FALSE
  /\ from = {}
  /\ todo = <<>>

Init == fde \in FDEs /\ EmptyWalk

Reached == DOMAIN in_states

(* FDEChecker::Propagate                                                   *)
FirstSighting(pc, st) ==
  /\ pc \notin Reached
  /\ in_states' = [p \in Reached \cup {pc} |-> IF p = pc THEN st ELSE in_states[p]]
  /\ worklist' = Append(worklist, pc)
  /\ pending_pushes' = pending_pushes \cup {pc}
  /\ UNCHANGED join_conflicts

(* Faulty variants, for the mutation runs: the later state replaces the    *)
(* earlier one; only the CFI half of the state is compared; any arrival    *)
(* queues its pc; only the first arrival counts.                           *)
JoinedOverwrites(pc, st) == st

EnqueuesOnRegisters(pc, joined) == joined.gpr # in_states[pc].gpr /\ pc \notin pending_pushes

EnqueuesAlways(pc, joined) == pc \notin pending_pushes

JoinIntoIgnores(pc, st) ==
  pc \in Reached /\ UNCHANGED <<in_states, worklist, pending_pushes, join_conflicts>>

Joined(pc, st) == Join(st, in_states[pc])

Enqueues(pc, joined) == joined # in_states[pc] /\ pc \notin pending_pushes

JoinInto(pc, st) ==
  LET joined == Joined(pc, st)
  IN  /\ pc \in Reached
      /\ in_states' = [in_states EXCEPT ![pc] = joined]
      /\ join_conflicts' = join_conflicts \cup {<<pc, c>> : c \in JoinConflicts(st, in_states[pc])}
      /\ IF Enqueues(pc, joined)
         THEN /\ worklist' = Append(worklist, pc)
              /\ pending_pushes' = pending_pushes \cup {pc}
         ELSE UNCHANGED <<worklist, pending_pushes>>

Propagate(pc, st) == FirstSighting(pc, st) \/ JoinInto(pc, st)

(* A walk is started at a pc nothing has reached, never inside Drain's     *)
(* loop: before it, or after it emptied the worklist or gave up.  (The     *)
(* checker seeds the entry first and the pads in pc order; any order is    *)
(* allowed here.)                                                          *)
Seed ==
  /\ todo = <<>>
  /\ worklist = <<>> \/ ~draining \/ hit_cap
  /\ \E seed \in Seeds(fde) : seed.to \notin Reached /\ Propagate(seed.to, seed.state)
  /\ draining' = FALSE
  /\ UNCHANGED <<fde, visited, iterations, hit_cap, from, todo>>

(* One iteration of Drain: Pop, then one PropagateEdge per edge.           *)
Pop ==
  /\ todo = <<>>
  /\ worklist # <<>>
  /\ iterations < max_iterations(fde)
  /\ iterations' = iterations + 1
  /\ draining' = TRUE
  /\ LET pc == worklist[Len(worklist)] IN
       /\ worklist' = SubSeq(worklist, 1, Len(worklist) - 1)
       /\ pending_pushes' = pending_pushes \ {pc}
       /\ visited' = visited \cup {pc}
       /\ from' = {pc}
       /\ todo' = Edges(fde, pc, in_states[pc])
  /\ UNCHANGED <<fde, in_states, join_conflicts, hit_cap>>

PropagateEdge ==
  /\ todo # <<>>
  /\ Propagate(Head(todo).to, Head(todo).state)
  /\ todo' = Tail(todo)
  /\ UNCHANGED <<fde, visited, draining, iterations, hit_cap, from>>

(* Faulty variants: giving up clears the queue and its flags; giving up    *)
(* clears the queue and leaves the flags.                                  *)
HitCapClears ==
  /\ todo = <<>> /\ worklist # <<>> /\ iterations >= max_iterations(fde)
  /\ worklist' = <<>> /\ pending_pushes' = {}
  /\ iterations' = iterations + 1 /\ hit_cap' = TRUE /\ draining' = TRUE
  /\ UNCHANGED <<fde, in_states, join_conflicts, visited, from, todo>>

HitCapDropsQueue ==
  /\ todo = <<>> /\ worklist # <<>> /\ iterations >= max_iterations(fde)
  /\ worklist' = <<>>
  /\ iterations' = iterations + 1 /\ hit_cap' = TRUE /\ draining' = TRUE
  /\ UNCHANGED <<fde, in_states, pending_pushes, join_conflicts, visited, from, todo>>

HitCap ==
  /\ todo = <<>>
  /\ worklist # <<>>
  /\ iterations >= max_iterations(fde)
  /\ ~(hit_cap /\ draining)
  /\ iterations' = iterations + 1
  /\ hit_cap' = TRUE
  /\ draining' = TRUE
  /\ UNCHANGED <<fde, in_states, worklist, pending_pushes, join_conflicts, visited, from, todo>>

Next == Seed \/ Pop \/ PropagateEdge \/ HitCap

Spec == Init /\ [][Next]_vars

(* Drain is a loop on the checker's only thread: it does not stop early.   *)
FairSpec == Spec /\ WF_vars(Next)

-----------------------------------------------------------------------------
EdgeSet(f) == [to : PCs(f), state : AbsStates]

(* The transfer functions map states to states and stay within the FDE;    *)
(* seeds are states.                                                       *)
EdgesTyped ==
  \A f \in FDEs :
    /\ Seeds(f) \subseteq EdgeSet(f)
    /\ \A pc \in PCs(f), st \in AbsStates : Edges(f, pc, st) \in Seq(EdgeSet(f))

(* An edge is absorbed when joining it into its target changes nothing.    *)
Absorbed(incoming, state) == Join(incoming, state) = state

EdgeAbsorbed(e) == e.to \in Reached /\ Absorbed(e.state, in_states[e.to])

EdgesOf(pc) == Edges(fde, pc, in_states[pc])

(* Every variable has its type, and all states in the tables are states.   *)
TypeOK ==
  /\ fde \in FDEs
  /\ Reached \subseteq PCs(fde)
  /\ in_states \in [Reached -> AbsStates]
  /\ worklist \in Seq(Reached)
  /\ pending_pushes \subseteq Reached
  /\ IsFiniteSet(join_conflicts)
  /\ visited \subseteq Reached
  /\ draining \in BOOLEAN
  /\ iterations \in Nat
  /\ hit_cap \in BOOLEAN
  /\ from \subseteq Reached
  /\ todo \in Seq(EdgeSet(fde))

(* pending_pushes_ says exactly which pcs sit in worklist_, and no pc sits *)
(* there twice: the dedup in Propagate neither loses nor repeats a visit.  *)
PendingIsQueued ==
  /\ pending_pushes = {worklist[i] : i \in 1..Len(worklist)}
  /\ \A i, j \in 1..Len(worklist) : worklist[i] = worklist[j] => i = j

(* Convergence.  A reached pc that is not queued has nothing left to say:  *)
(* every edge its current in-state produces is already absorbed at its     *)
(* target, except the edges of the pc in hand that are still to be         *)
(* propagated.  Pass 2 verifies states this walk left behind, so an edge   *)
(* lost here would be a path the verdict never looked at.                  *)
Settled ==
  \A pc \in Reached \ pending_pushes : \A i \in 1..Len(EdgesOf(pc)) :
    \/ EdgeAbsorbed(EdgesOf(pc)[i])
    \/ pc \in from /\ \E j \in 1..Len(todo) : todo[j] = EdgesOf(pc)[i]

(* When Drain returns without the cap, every edge of every reached pc has  *)
(* been absorbed: in_states_ is a fixed point of the transfer functions.   *)
FixedPoint ==
  worklist = <<>> /\ todo = <<>>
    => \A pc \in Reached : \A i \in 1..Len(EdgesOf(pc)) : EdgeAbsorbed(EdgesOf(pc)[i])

(* In-states only move down the lattice, and a reached pc stays reached:   *)
(* what a predecessor once contributed is never forgotten (Propagate).     *)
InStatesDescend ==
  [][\A pc \in Reached : pc \in DOMAIN in_states' /\ Absorbed(in_states[pc], in_states'[pc])]_vars
=============================================================================
