----------------------------- MODULE FDEChecker -----------------------------
(***************************************************************************)
(* The full checker of one FDE (fde-checker.cc): FDEChecker::Run, with the *)
(* walk of module Worklist as its first pass, and CheckWithGuessing, which *)
(* may run it a second time.                                               *)
(***************************************************************************)
EXTENDS FDEAnalysis

CONSTANTS
  FDEs,                  \* the FDEs to check
  report_coverage_gaps,  \* options.report_coverage_gaps
  PathBound              \* length of the paths the properties look at

ASSUME CheckerAssumption ==
  /\ \A f \in FDEs : IsFDE(f) /\ ~f.guessing_enabled
  /\ report_coverage_gaps \in BOOLEAN
  /\ PathBound \in Nat

VARIABLES
  fde, in_states, worklist, pending_pushes, join_conflicts, visited, draining, iterations,
  hit_cap, from, todo,   \* the walk: see Worklist
  phase,                 \* where Run is
  sink,                  \* FindingSink
  verified,              \* the pcs VerifyPass is done with
  unbounded_jumps,       \* the table-shaped jumps without a bound it met
  guessed_jump_tables,   \* the jumps whose table it guessed
  result                 \* FDEResult of the last finished Check, then of CheckWithGuessing

walk_vars == <<in_states, worklist, pending_pushes, join_conflicts, visited, draining,
               iterations, hit_cap, from, todo>>

run_vars == <<sink, verified, unbounded_jumps, guessed_jump_tables>>

vars == <<fde, walk_vars, phase, run_vars, result>>

-----------------------------------------------------------------------------
IterationCap(f) == f.max_iterations

(* A walk is of an FDE as it was given, or with guessing enabled.          *)
Guessing(f) == [f EXCEPT !.guessing_enabled = TRUE]

Walks == {IF guess THEN Guessing(f) ELSE f : f \in FDEs, guess \in BOOLEAN}

W == INSTANCE Worklist WITH PCs <- FDEPCs, FDEs <- Walks, Edges <- FDEEdges, Seeds <- FDESeeds, max_iterations <- IterationCap

-----------------------------------------------------------------------------
(* FDEChecker::Run                                                         *)

Result(v, findings, guessable, guessed) ==
  [verdict |-> v, findings |-> findings, guessable_jump_pc |-> guessable,
   guessed_jump_tables |-> guessed]

NoResult == Result("none", <<>>, {}, {})

(* Faulty variant: the second run starts from the states of the first.     *)
StaleWalk ==
  /\ visited' = {}
  /\ draining' = FALSE
  /\ iterations' = 0
  /\ hit_cap' = FALSE
  /\ UNCHANGED <<in_states, worklist, pending_pushes, join_conflicts, from, todo>>

FreshWalk ==
  /\ in_states' = [pc \in {} |-> Top]
  /\ worklist' = <<>>
  /\ pending_pushes' = {}
  /\ join_conflicts' = {}
  /\ visited' = {}
  /\ draining' = FALSE
  /\ iterations' = 0
  /\ hit_cap' = FALSE
  /\ from' = {}
  /\ todo' = <<>>

FreshRun ==
  /\ sink' = EmptySink
  /\ verified' = {}
  /\ unbounded_jumps' = {}
  /\ guessed_jump_tables' = {}

Init ==
  /\ fde \in FDEs
  /\ W!EmptyWalk
  /\ phase = "entry"
  /\ sink = EmptySink
  /\ verified = {}
  /\ unbounded_jumps = {}
  /\ guessed_jump_tables = {}
  /\ result = NoResult

(* CheckWithGuessing on the result of a Check: a guessable REVIEW is       *)
(* checked once more with guessing, by a fresh FDEChecker.  Anything else  *)
(* is final, and a retry counts only when it is BLESSED.                   *)
Retries(r) == ~fde.guessing_enabled /\ r.verdict = "REVIEW" /\ r.guessable_jump_pc # {}

Accepts(r) == r.verdict = "BLESSED"

RecoveredRetry(r) == [r EXCEPT !.verdict = "REVIEW-LIGHT"]   \* faulty

Recovered(r) ==
  [result EXCEPT !.verdict = "REVIEW-LIGHT", !.guessed_jump_tables = r.guessed_jump_tables]

Conclude(r) ==
  IF Retries(r)
  THEN /\ phase' = "entry"
       /\ result' = r
       /\ fde' = Guessing(fde)
       /\ FreshWalk
       /\ FreshRun
  ELSE /\ phase' = "done"
       /\ result' = IF ~fde.guessing_enabled THEN r
                    ELSE IF Accepts(r) THEN Recovered(r)
                    ELSE result
       /\ UNCHANGED <<fde, walk_vars, run_vars>>

(* The two early answers.                                                  *)
NothingToWalk ==
  /\ phase = "entry"
  /\ IF ~HasRow(fde.cfi, fde.cfi.pc_begin)
     THEN Conclude(Result("REVIEW", <<Review(fde.cfi.pc_begin, <<"no first row">>)>>, {}, {}))
     ELSE /\ FirstRow(fde).regs[kDWARFRip].kind = "kUndefined"
          /\ Conclude(Result("BLESSED", <<>>, {}, {}))

(* CheckEntryRow, SetupCallSites and the seed of the entry.                *)
EnterFDE ==
  /\ phase = "entry"
  /\ HasRow(fde.cfi, fde.cfi.pc_begin)
  /\ FirstRow(fde).regs[kDWARFRip].kind # "kUndefined"
  /\ sink' = AddAll(sink, EntryFindings(fde))
  /\ W!Propagate(EntrySeed(fde).to, EntrySeed(fde).state)
  /\ phase' = "drain"
  /\ UNCHANGED <<fde, visited, draining, iterations, hit_cap, from, todo,
                 verified, unbounded_jumps, guessed_jump_tables, result>>

(* Drain, one step of its loop.                                            *)
DrainStep ==
  /\ phase = "drain"
  /\ W!Pop \/ W!PropagateEdge \/ W!HitCap
  /\ UNCHANGED <<phase, run_vars, result>>

(* Faulty variant: giving up does not leave the loop.                      *)
DrainReturnsEmpty ==
  /\ phase = "drain"
  /\ todo = <<>>
  /\ worklist = <<>>
  /\ phase' = "pads"
  /\ UNCHANGED <<fde, walk_vars, run_vars, result>>

DrainReturns ==
  /\ phase = "drain"
  /\ todo = <<>>
  /\ worklist = <<>> \/ (hit_cap /\ draining)
  /\ phase' = "pads"
  /\ UNCHANGED <<fde, walk_vars, run_vars, result>>

(* SeedUnreachedLandingPads: the unreached pads that have a row, in        *)
(* increasing order, and then Drain again if there was one.                *)
UnreachedPads == {lp \in LandingPads(fde) : lp \notin DOMAIN in_states /\ HasRow(fde.cfi, lp)}

SeedPad ==
  /\ phase = "pads"
  /\ \E lp \in UnreachedPads :
       /\ \A other \in UnreachedPads : lp <= other
       /\ sink' = Add(sink, Review(lp, <<"landing pad is trusted">>))
       /\ W!Propagate(lp, PadSeed(fde, lp).state)
  /\ draining' = FALSE
  /\ UNCHANGED <<fde, visited, iterations, hit_cap, from, todo,
                 phase, verified, unbounded_jumps, guessed_jump_tables, result>>

(* Faulty variant: forgets that the cap was hit.                           *)
PadsSeededSilently ==
  /\ phase = "pads"
  /\ UnreachedPads = {}
  /\ phase' = IF draining THEN "verify" ELSE "drain"
  /\ UNCHANGED <<fde, walk_vars, run_vars, result>>

PadsSeeded ==
  /\ phase = "pads"
  /\ UnreachedPads = {}
  /\ IF draining
     THEN /\ phase' = "verify"
          /\ sink' = IF hit_cap THEN Add(sink, Review(fde.cfi.pc_begin, <<"analysis gave up">>)) ELSE sink
     ELSE /\ phase' = "drain"
          /\ UNCHANGED sink
  /\ UNCHANGED <<fde, walk_vars, verified, unbounded_jumps, guessed_jump_tables, result>>

(* VerifyPass, one reached pc in increasing order.                         *)
Unverified == DOMAIN in_states \ verified

ConflictsAt(pc) == {c[2] : c \in {x \in join_conflicts : x[1] = pc}}

VerifyInsn ==
  /\ phase = "verify"
  /\ \E pc \in {p \in Unverified : \A other \in Unverified : p <= other} :
     \E out \in {OutcomeAt(fde, pc, in_states[pc])} :
     \E targets \in {JumpTableTargets(fde, pc, in_states[pc], out)} :
     \E fs \in {InsnFindings(fde, pc, in_states[pc], out, targets, ConflictsAt(pc))} :
       /\ sink' = AddAll(sink, fs)
       /\ verified' = verified \cup {pc}
       /\ unbounded_jumps' = IF out.has_unbounded_jump_target THEN unbounded_jumps \cup {pc}
                                                              ELSE unbounded_jumps
       /\ guessed_jump_tables' = IF out.has_unbounded_jump_target /\ targets # <<>>
                                 THEN guessed_jump_tables \cup {pc} ELSE guessed_jump_tables
  /\ UNCHANGED <<fde, walk_vars, phase, result>>

(* ReportCoverageGaps                                                      *)
Walked(f) == {pc \in visited : Decodes(f, pc)}

ReportCoverageGaps ==
  /\ phase = "verify"
  /\ DOMAIN in_states = verified
  /\ phase' = "verdict"
  /\ sink' = IF report_coverage_gaps THEN AddAll(sink, GapFindings(fde, Walked(fde))) ELSE sink
  /\ UNCHANGED <<fde, walk_vars, verified, unbounded_jumps, guessed_jump_tables, result>>

(* The end of Run.                                                         *)
Finish ==
  /\ phase = "verdict"
  /\ Conclude(Result(Verdict(Take(sink)), Take(sink),
                     IF Cardinality(unbounded_jumps) = 1 THEN unbounded_jumps ELSE {},
                     guessed_jump_tables))

Next ==
  \/ NothingToWalk
  \/ EnterFDE
  \/ DrainStep
  \/ DrainReturns
  \/ SeedPad
  \/ PadsSeeded
  \/ VerifyInsn
  \/ ReportCoverageGaps
  \/ Finish

Spec == Init /\ [][Next]_vars

(* The checker is one thread that never waits.                             *)
FairSpec == Spec /\ WF_vars(Next)

-----------------------------------------------------------------------------
Phases == {"entry", "drain", "pads", "verify", "verdict", "done"}

Verdicts == {"none", "BLESSED", "REVIEW-LIGHT", "REVIEW", "MISMATCH"}

(* Where Run is, and what it has collected.                                *)
TypeOK ==
  /\ phase \in Phases
  /\ result.verdict \in Verdicts
  /\ sink.truncated \in Nat
  /\ Len(sink.findings) <= max_findings_per_fde
  /\ verified \subseteq DOMAIN in_states
  /\ unbounded_jumps \subseteq verified
  /\ guessed_jump_tables \subseteq unbounded_jumps
  /\ \A pc \in DOMAIN in_states : InRange(fde, pc)

Done == phase = "done"

(* The checker vouches for the FDE.  An FDE that ends the stack (undefined *)
(* return address) is waved through unchecked by design.                   *)
Vouched ==
  /\ Done
  /\ result.verdict \in {"BLESSED", "REVIEW-LIGHT"}
  /\ FirstRow(fde).regs[kDWARFRip].kind # "kUndefined"

(* The findings of every reached pc, as VerifyPass computed them.          *)
FindingsIn(f, pc, st, conflicts) ==
  LET out == OutcomeAt(f, pc, st)
  IN  Range(InsnFindings(f, pc, st, out, JumpTableTargets(f, pc, st, out), conflicts))

FindingsAt(pc) == FindingsIn(fde, pc, in_states[pc], ConflictsAt(pc))

(* A byte is accounted for when a walked instruction or padding covers it. *)
Covers(pc, byte) == byte \in pc..(pc + fde.code[pc].size - 1)

AccountedFor(byte) ==
  \E pc \in fde.cfi.pc_begin..byte :
    Covers(pc, byte) /\ (pc \in Walked(fde) \/ fde.code[pc].id \in {"nop", "int3"})

(* kBlessed is not a default: behind it are a walk that converged, a row   *)
(* and exit check without findings at every reached pc, and no byte of the *)
(* FDE that was neither walked nor padding (Run, VerifyPass,               *)
(* ReportCoverageGaps, FindingSink).                                       *)
VouchedMeansChecked ==
  Vouched =>
    /\ W!FixedPoint /\ worklist = <<>> /\ ~hit_cap
    /\ \A pc \in DOMAIN in_states : FindingsAt(pc) = {}
    /\ report_coverage_gaps => \A byte \in fde.cfi.pc_begin..(fde.cfi.pc_end - 1) : AccountedFor(byte)

(* A contradiction found at any reached pc of the final walk makes the     *)
(* verdict MISMATCH (FindingSink::Add, FindingSink::Take, Run).            *)
MismatchIsReported ==
  Done /\ (\E pc \in verified : \E f \in FindingsAt(pc) : f.severity = "kMismatch")
    => result.verdict = "MISMATCH" \/ fde.guessing_enabled

(* The states of single paths, never joined: what the code does when it    *)
(* runs along one path of at most PathBound instructions.                  *)
PathStates(f) ==
  LET along[n \in 0..PathBound] ==
        IF n = 0 THEN {EntrySeed(f)}
        ELSE LET shorter == along[n - 1]
             IN  shorter \cup UNION {Range(FDEEdges(f, e.to, e.state)) : e \in shorter}
  IN  along[PathBound]

FindingsAlong(f, e) == FindingsIn(f, e.to, e.state, {})

(* Joining never launders a contradiction: when the checker vouches for    *)
(* the FDE, no single path by itself contradicts a row or the return       *)
(* convention (Join, Propagate, FallThroughIsReal, VerifyPass).            *)
NoPathContradicts ==
  Vouched => \A e \in PathStates(fde) : \A f \in FindingsAlong(fde, e) : f.severity # "kMismatch"

(* fde-checker.cc on FallThroughIsReal: CFI that is wrong on both sides of *)
(* an instruction is pruned, but the region then shows up as a coverage    *)
(* gap rather than silently passing.  (After a call or a nop, and before   *)
(* padding, pruning is what the heuristic is for.)                         *)
PrunedEdge(pc) ==
  LET t == Transfer(fde.code[pc], in_states[pc])
      next == pc + fde.code[pc].size
  IN  /\ Decodes(fde, pc)
      /\ t.out.falls_through
      /\ next < fde.cfi.pc_end
      /\ ~FallThroughIsReal(fde.cfi, RowAt(fde.cfi, pc), next, in_states[pc], t.state, t.out.is_call)

Pruned(pc) ==
  /\ PrunedEdge(pc)
  /\ fde.code[pc].id \notin {"call", "nop"}
  /\ ~IsPadding(fde, pc + fde.code[pc].size)

PruningIsNotSilent == Vouched => \A pc \in DOMAIN in_states : ~Pruned(pc)

(* CheckWithGuessing: once a Check has answered, a retry can only soften a *)
(* REVIEW to REVIEW-LIGHT, and it keeps the findings.                      *)
GuessingOnlySoftens ==
  [][result.verdict # "none" =>
       /\ result'.findings = result.findings
       /\ \/ result'.verdict = result.verdict
          \/ result.verdict = "REVIEW" /\ result'.verdict = "REVIEW-LIGHT"]_vars

(* fde-checker.h on guessable_jump_pc: a guess is the FDE's one point of   *)
(* uncertainty, so REVIEW-LIGHT rests on the guess at that jump alone.     *)
LightMeansOneGuess ==
  Done /\ result.verdict = "REVIEW-LIGHT" => result.guessed_jump_tables = result.guessable_jump_pc

(* The walk inside the checker keeps the invariants proved of Worklist,    *)
(* with the real transfer functions and across a retry.                    *)
WalkKeepsEdges == W!PendingIsQueued /\ W!Settled

(* Run and CheckWithGuessing answer for every FDE.                         *)
Answers == <>Done
=============================================================================
