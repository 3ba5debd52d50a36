----------------------------- MODULE RowChecker -----------------------------
(***************************************************************************)
(* FindingSink and RowChecker, and the row tests of the full checker       *)
(* (fde-checker.cc).                                                       *)
(*                                                                         *)
(* A finding's message is a tuple of what its text is made from, without   *)
(* the pc: two findings with equal messages are one entry with a repeat.   *)
(***************************************************************************)
EXTENDS AbsState, Functions

CONSTANTS check_unmentioned_callee_saved, max_findings_per_fde

ASSUME SinkAssumption ==
  check_unmentioned_callee_saved \in BOOLEAN /\ max_findings_per_fde \in Nat \ {0}

kCalleeSaved == {kDWARFRbx, kDWARFRbp, 12, 13, 14, 15} \cap GPRs

-----------------------------------------------------------------------------
(* FindingSink                                                             *)

Finding(sev, at, msg) == [severity |-> sev, pc |-> at, message |-> msg, repeats |-> 0]

Review(at, msg) == Finding("kReview", at, msg)

Mismatch(at, msg) == Finding("kMismatch", at, msg)

EmptySink == [findings |-> <<>>, truncated |-> 0]

Repeated(f) == [f EXCEPT !.repeats = @ + 1]

Add(sink, f) ==
  LET same == {i \in 1..Len(sink.findings) : sink.findings[i].message = f.message} IN
  IF same # {} THEN [sink EXCEPT !.findings = [i \in 1..Len(@) |->
                       IF i \in same THEN Repeated(@[i]) ELSE @[i]]]
  ELSE IF Len(sink.findings) >= max_findings_per_fde THEN [sink EXCEPT !.truncated = @ + 1]
  ELSE [sink EXCEPT !.findings = Append(@, f)]

(* The set-bound variable makes TLC evaluate each intermediate sink once.  *)
AddAll(sink, fs) ==
  LET added[n \in 0..Len(fs)] ==
        IF n = 0 THEN sink
        ELSE CHOOSE after \in {Add(before, fs[n]) : before \in {added[n - 1]}} : TRUE
  IN  added[Len(fs)]

Take(sink) ==
  IF sink.truncated > 0
  THEN Append(sink.findings, Review(0, <<"further distinct findings not shown", sink.truncated>>))
  ELSE sink.findings

-----------------------------------------------------------------------------
(* RowChecker.  Each operator yields the findings it adds, in order.       *)

RegOf(s, r) == IF r \in GPRs THEN s.gpr[r] ELSE Bottom

(* A known value that is not the expected one contradicts the row; an      *)
(* unknown one only leaves it unverified.                                  *)
Expect(v, expected, at, msg) ==
  IF IsUnknown(v) THEN <<Review(at, <<"untracked">> \o msg)>>
  ELSE IF v # expected THEN <<Mismatch(at, <<"holds", v>> \o msg)>>
  ELSE <<>>

CheckCFA(at, cfa, s, edge) ==
  LET v == RegOf(s, cfa.reg) IN
  CASE cfa.kind = "kUndefined"  -> <<Review(at, <<"no CFA rule", edge>>)>>
    [] cfa.kind = "kExpression" -> <<Review(at, <<"CFA expression", edge>>)>>
    [] cfa.kind = "kRegOffset" /\ v.kind # "kCFARel" ->
         <<Review(at, <<"CFA cannot be verified", cfa, v, edge>>)>>
    [] cfa.kind = "kRegOffset" /\ v.kind = "kCFARel" /\ v.delta + cfa.offset # 0 ->
         <<Mismatch(at, <<"wrong CFA", cfa, v, edge>>)>>
    [] OTHER -> <<>>

CheckReg(at, r, rule, s, edge, force) ==
  CASE \/ rule.kind = "kSameValue"
       \/ /\ rule.kind = "kUnset"
          /\ check_unmentioned_callee_saved \/ force
          /\ r \in kCalleeSaved ->
         Expect(RegOf(s, r), OrigReg(r), at, <<"same value", r, edge>>)
    [] rule.kind = "kAtCFAOffset" ->
         Expect(Slot(s, rule.offset), OrigReg(r), at, <<"saved at", r, rule.offset, edge>>)
    [] rule.kind = "kValOffset" ->
         Expect(RegOf(s, r), CFARel(rule.offset), at, <<"is CFA", r, rule.offset, edge>>)
    [] rule.kind = "kInRegister" ->
         Expect(RegOf(s, rule.reg), OrigReg(r), at, <<"moved into", r, rule.reg, edge>>)
    [] rule.kind \in {"kExpression", "kValExpression"} -> <<Review(at, <<"expression", r, edge>>)>>
    [] OTHER -> <<>>

(* edge is the context prefixed to every message of a cross-FDE check, and *)
(* the empty tuple for the row of the instruction itself.                  *)
CheckRow(at, row, s, edge, force) ==
  LET reg(r) == IF r \in DWARFRegs THEN CheckReg(at, r, row.regs[r], s, edge, force) ELSE <<>>
  IN  CheckCFA(at, row.cfa, s, edge)
      \o reg(0) \o reg(1) \o reg(2) \o reg(3) \o reg(4) \o reg(5) \o reg(6) \o reg(7) \o reg(8)
      \o reg(9) \o reg(10) \o reg(11) \o reg(12) \o reg(13) \o reg(14) \o reg(15) \o reg(16)

NoEdge == <<>>

RowMatchesCleanly(at, row, s, force) == CheckRow(at, row, s, NoEdge, force) = <<>>

-----------------------------------------------------------------------------
(* Which disagreements between paths the row consults.                     *)
RowDependsOn(row, conflict) ==
  IF conflict.reg = kSlotConflict
  THEN \E r \in DWARFRegs : row.regs[r] = AtCFAOffset(conflict.offset)
  ELSE \/ row.cfa.kind = "kRegOffset" /\ row.cfa.reg = conflict.reg
       \/ \E r \in DWARFRegs : row.regs[r].kind = "kInRegister" /\ row.regs[r].reg = conflict.reg
       \/ row.regs[conflict.reg].kind \in {"kSameValue", "kValOffset"}

CFASatisfiedBy(cfa, v) == v.kind = "kCFARel" /\ v.delta + cfa.offset = 0

RowLooksLikeFreshBlockStart(row) == \A r \in GPRs : row.regs[r].kind = "kUnset"

(* Whether the instruction after this one is really its successor.  here   *)
(* and RowAt are compared as row addresses are.                            *)
FallThroughIsReal(cfi, here, next, before, after, after_call) ==
  LET at == RowAt(cfi, next)
      row == cfi.rows[at]
      was == before.gpr[row.cfa.reg]
      now == after.gpr[row.cfa.reg]
  IN  \/ at = 0 \/ at = here
      \/ /\ ~(/\ after_call
              /\ RowLooksLikeFreshBlockStart(row)
              /\ ~RowLooksLikeFreshBlockStart(cfi.rows[here]))
         /\ \/ row.cfa.kind # "kRegOffset" \/ row.cfa.reg \notin GPRs
            \/ was.kind # "kCFARel" \/ now.kind # "kCFARel"
            \/ CFASatisfiedBy(row.cfa, now) \/ CFASatisfiedBy(row.cfa, was)

IsExitState(s) ==
  s.gpr[kDWARFRsp] = CFARel(-8) /\ \A r \in kCalleeSaved : s.gpr[r] = OrigReg(r)
=============================================================================
