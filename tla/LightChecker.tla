---------------------------- MODULE LightChecker ----------------------------
(***************************************************************************)
(* The default checker of one FDE (light-checker.cc): LightCheck decodes   *)
(* the FDE in address order and checks each instruction by itself, from a  *)
(* state seeded by the row at its own address.                             *)
(***************************************************************************)
EXTENDS FDERecord

VARIABLES
  fde,            \* the FDE under check
  light_phase,    \* "entry", "sweep", "verdict", "done"
  light_pc,       \* the loop variable pc
  light_sink,     \* FindingSink
  light_verdict

light_vars == <<light_phase, light_pc, light_sink, light_verdict>>

LightInit ==
  /\ light_phase = "entry"
  /\ light_pc = fde.cfi.pc_begin
  /\ light_sink = EmptySink
  /\ light_verdict = "none"

(* Faulty variant: an unknown register counts as a disagreement.           *)
LightCheckCFAStrict(pc, target, s, edge) ==
  LET v == RegOf(s, target.reg) IN
  IF target.kind # "kRegOffset" THEN <<Review(pc, <<"CFA is not evaluated", edge>>)>>
  ELSE IF ~CFASatisfiedBy(target, v) THEN <<Mismatch(pc, <<"wrong CFA", target, v, edge>>)>>
  ELSE <<>>

(* CheckCFA: what it adds.  It gives up exactly when that is a review.     *)
LightCheckCFA(pc, target, s, edge) ==
  LET v == RegOf(s, target.reg) IN
  IF target.kind # "kRegOffset" THEN <<Review(pc, <<"CFA is not evaluated", edge>>)>>
  ELSE IF v.kind # "kCFARel" THEN <<Review(pc, <<"CFA cannot be verified", target, v, edge>>)>>
  ELSE IF ~CFASatisfiedBy(target, v) THEN <<Mismatch(pc, <<"wrong CFA", target, v, edge>>)>>
  ELSE <<>>

GivesUp(fs) == \E i \in 1..Len(fs) : fs[i].severity = "kReview"

(* Leaving a frame pointer: rsp is not tracked, so the instruction decides.*)
LeavesFrame(row, next_row) ==
  row.cfa = RegOffset(kDWARFRbp, 16) /\ next_row.cfa = RegOffset(kDWARFRsp, 8)

RestoresFrame(insn) ==
  \/ insn.id = "pop" /\ insn.ops[1] = Written(RegOp(kDWARFRbp, WordBits))
  \/ insn.id = "leave"

(* Faulty variant: the branch target is not compared.                      *)
TakenFindingsNone(f, pc, t) == <<>>

FallThroughFindings(f, pc, t) ==
  LET insn == f.code[pc]
      next_row == RowOf(f.cfi, pc + insn.size)
  IN  IF ~t.out.falls_through \/ t.out.is_call \/ pc + insn.size >= f.cfi.pc_end THEN <<>>
      ELSE IF LeavesFrame(RowOf(f.cfi, pc), next_row)
           THEN IF RestoresFrame(insn) THEN <<>> ELSE <<Review(pc, <<"odd end of frame">>)>>
      ELSE IF insn.id = "nop" THEN <<>>
      ELSE LightCheckCFA(pc, next_row.cfa, t.state, NoEdge)

TakenFindings(f, pc, t) ==
  LET target == t.out.direct_target
      covering == IF t.out.has_direct_target THEN {c \in CFIContaining(f, target) : HasRow(c, target)}
                                             ELSE {}
      cfi == CHOOSE c \in covering : TRUE
  IN  IF covering = {} THEN <<>>
      ELSE LightCheckCFA(pc, RowOf(cfi, target).cfa, t.state,
                         IF cfi = f.cfi THEN NoEdge ELSE <<target, cfi.pc_begin>>)

LightVerdict(findings) ==
  IF \E i \in 1..Len(findings) : findings[i].severity = "kMismatch" THEN "MISMATCH"
  ELSE IF \E i \in 1..Len(findings) : findings[i].severity = "kReview" THEN "REVIEW"
  ELSE "BLESSED"

-----------------------------------------------------------------------------
(* A first row that says there is no return address ends the check.        *)
LightEnter ==
  /\ light_phase = "entry"
  /\ IF HasRow(fde.cfi, fde.cfi.pc_begin) /\ FirstRow(fde).regs[kDWARFRip].kind = "kUndefined"
     THEN light_phase' = "done" /\ light_verdict' = "BLESSED"
     ELSE light_phase' = "sweep" /\ UNCHANGED light_verdict
  /\ UNCHANGED <<fde, light_pc, light_sink>>

InSweep ==
  /\ light_phase = "sweep"
  /\ light_pc < fde.cfi.pc_end
  /\ HasRow(fde.cfi, light_pc)

LightUndecodable ==
  /\ InSweep
  /\ ~Decodes(fde, light_pc)
  /\ light_sink' = Add(light_sink, Mismatch(light_pc, <<"could not decode", light_pc>>))
  /\ light_phase' = "verdict"
  /\ UNCHANGED <<fde, light_pc, light_verdict>>

(* One iteration: the edge to the next instruction, then, unless that one  *)
(* made it give up, the edge to the branch target.                         *)
LightInsn ==
  /\ InSweep
  /\ Decodes(fde, light_pc)
  /\ \E t \in {Transfer(fde.code[light_pc], SeedFromRow(RowOf(fde.cfi, light_pc), FALSE))} :
     \E falls \in {FallThroughFindings(fde, light_pc, t)} :
     \E taken \in {IF GivesUp(falls) THEN <<>> ELSE TakenFindings(fde, light_pc, t)} :
       /\ light_sink' = AddAll(light_sink, falls \o taken)
       /\ IF GivesUp(falls \o taken)
          THEN light_phase' = "verdict" /\ UNCHANGED light_pc
          ELSE light_pc' = light_pc + fde.code[light_pc].size /\ UNCHANGED light_phase
  /\ UNCHANGED <<fde, light_verdict>>

LightSwept ==
  /\ light_phase = "sweep"
  /\ light_pc >= fde.cfi.pc_end \/ ~HasRow(fde.cfi, light_pc)
  /\ light_phase' = "verdict"
  /\ UNCHANGED <<fde, light_pc, light_sink, light_verdict>>

LightFinish ==
  /\ light_phase = "verdict"
  /\ light_verdict' = LightVerdict(Take(light_sink))
  /\ light_phase' = "done"
  /\ UNCHANGED <<fde, light_pc, light_sink>>

LightNext == LightEnter \/ LightUndecodable \/ LightInsn \/ LightSwept \/ LightFinish

-----------------------------------------------------------------------------
LightDone == light_phase = "done"
=============================================================================
