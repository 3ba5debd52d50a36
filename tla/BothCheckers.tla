---------------------------- MODULE BothCheckers ----------------------------
(***************************************************************************)
(* The two checkers on the same FDE: LightCheck, which a plain run of the  *)
(* tool uses, and then FDEChecker, which --full and --inspect use.  They   *)
(* share no state; what is asked is whether their verdicts can disagree.   *)
(***************************************************************************)
EXTENDS FDEChecker

VARIABLES light_phase, light_pc, light_sink, light_verdict

L == INSTANCE LightChecker

light_run == <<light_phase, light_pc, light_sink, light_verdict>>

both_vars == <<vars, light_run>>

BothInit == Init /\ L!LightInit

LightStep == L!LightNext /\ UNCHANGED <<walk_vars, phase, run_vars, result>>

FullStep == L!LightDone /\ Next /\ UNCHANGED light_run

BothNext == LightStep \/ FullStep

BothSpec == BothInit /\ [][BothNext]_both_vars

-----------------------------------------------------------------------------
(* Where LightCheck and FDEChecker have both answered about a frame.       *)
BothDone == L!LightDone /\ Done /\ FirstRow(fde).regs[kDWARFRip].kind # "kUndefined"

InFDE == fde.cfi.pc_begin..(fde.cfi.pc_end - 1)

(* The instructions of the linear sweep.                                   *)
Swept ==
  LET starts[pc \in InFDE] ==
        \/ pc = fde.cfi.pc_begin
        \/ \E p \in fde.cfi.pc_begin..(pc - 1) :
             Decodes(fde, p) /\ p + fde.code[p].size = pc /\ starts[p]
  IN  {pc \in InFDE : starts[pc]}

(* An instruction that LightCheck exempts from the comparison with the     *)
(* next row: a call, a nop, or one that leaves the frame.                  *)
Exempt(pc) ==
  LET next == pc + fde.code[pc].size IN
  /\ next < fde.cfi.pc_end
  /\ \/ fde.code[pc].id \in {"call", "nop"}
     \/ L!LeavesFrame(RowOf(fde.cfi, pc), RowOf(fde.cfi, next))

(* What LightCheck blesses, FDEChecker does not contradict: when the sweep *)
(* found nothing and exempted nothing, the walk computes the declared CFA  *)
(* wherever it knows it at all (LightCheck, CheckCFA of both checkers).    *)
WrongCFA(f) == f.message[1] = "wrong CFA"

LightBlessedMeansNoWrongCFA ==
  BothDone /\ light_verdict = "BLESSED" /\ (\A pc \in Swept : ~Exempt(pc))
    => \A pc \in DOMAIN in_states : \A f \in FindingsAt(pc) : ~WrongCFA(f)

(* What LightCheck calls a mismatch, FDEChecker does not bless: a concrete *)
(* disagreement at one instruction is seen by the walk too, unless it did  *)
(* not come to that instruction, or pruned the edge out of it as not real  *)
(* (LightCheck, Drain, FallThroughIsReal).                                 *)
LightMismatchIsNotBlessed ==
  BothDone /\ result.verdict = "BLESSED" =>
    \A i \in 1..Len(light_sink.findings) :
      LET f == light_sink.findings[i] IN
      f.severity = "kMismatch" => f.pc \notin DOMAIN in_states \/ PrunedEdge(f.pc)
=============================================================================
