---------------------------- MODULE FDEAnalysis ----------------------------
(***************************************************************************)
(* What the full checker (fde-checker.cc) computes from an FDE: the edges  *)
(* and seeds of its walk, the findings VerifyPass adds at a reached        *)
(* instruction, and those of ReportCoverageGaps.                           *)
(***************************************************************************)
EXTENDS FDERecord

CONSTANT kMaxJumpTableEntries

ASSUME TableAssumption == kMaxJumpTableEntries \in Nat

-----------------------------------------------------------------------------
(* Call sites.                                                             *)

(* SetupCallSites keeps the pads inside the FDE; none when parsing failed. *)
CallSites(f) ==
  {i \in 1..Len(f.call_sites) : f.lsda_ok /\ InRange(f, f.call_sites[i].landing_pad)}

(* LandingPadForCall: by upper bound on start, then the end test.          *)
LandingPadForCall(f, pc) ==
  LET starts == {i \in CallSites(f) : f.call_sites[i].start <= pc}
      covers == {i \in starts : (\A k \in starts : k <= i) /\ pc < f.call_sites[i].end}
  IN  {f.call_sites[i].landing_pad : i \in covers}

-----------------------------------------------------------------------------
(* Jump tables.  A resolved entry is {target}, a rejected one {}.          *)

ResolveTableEntry(f, addr, index) ==
  LET entry_addr == addr + index * 4
      target == addr + f.rodata[entry_addr]
  IN  IF entry_addr \in DOMAIN f.rodata /\ CFIContaining(f, target) # {} /\ IsInstruction(f, target)
      THEN {target} ELSE {}

TheTarget(f, addr, index) == CHOOSE t \in ResolveTableEntry(f, addr, index) : TRUE

ResolveJumpTable(f, addr, entries) ==
  IF entries \in 1..kMaxJumpTableEntries /\ \A i \in 0..(entries - 1) : ResolveTableEntry(f, addr, i) # {}
  THEN [i \in 1..entries |-> TheTarget(f, addr, i - 1)]
  ELSE <<>>

(* Would the row declared at target accept the state of the jump?          *)
IsCanonicalEntryOf(cfi, target) == target = cfi.pc_begin /\ IsCanonicalEntry(RowOf(cfi, target))

Compatible(f, target, jmp_pc, st) ==
  \E cfi \in IF InRange(f, target) THEN {f.cfi} ELSE CFIContaining(f, target) :
    /\ HasRow(cfi, target)
    /\ RowMatchesCleanly(jmp_pc, RowOf(cfi, target), st,
                         ~InRange(f, target) /\ IsCanonicalEntryOf(cfi, target))

(* ProbeJumpTable: the longest prefix of entries that resolve and fit.     *)
ProbeJumpTable(f, addr, jmp_pc, st) ==
  LET good(i) == \E t \in ResolveTableEntry(f, addr, i) : Compatible(f, t, jmp_pc, st)
      n == CHOOSE k \in 0..kMaxJumpTableEntries :
             /\ \A i \in 0..(k - 1) : good(i)
             /\ k = kMaxJumpTableEntries \/ ~good(k)
  IN  [i \in 1..n |-> TheTarget(f, addr, i - 1)]

(* Where a dispatch goes; <<>> when the table is rejected or not read.     *)
JumpTableTargets(f, pc, st, out) ==
  IF out.has_jump_table
  THEN ResolveJumpTable(f, out.jump_table_addr, out.jump_table_entries)
  ELSE IF f.guessing_enabled /\ out.has_unbounded_jump_target
  THEN ProbeJumpTable(f, out.unbounded_jump_table_addr, pc, st)
  ELSE <<>>

-----------------------------------------------------------------------------
(* The edges one iteration of Drain propagates, in its order.              *)

Edge(pc, st) == [to |-> pc, state |-> st]

PadEdges(f, pc, t) ==
  LET pads == IF t.out.is_call THEN LandingPadForCall(f, pc) ELSE {}
  IN  IF pads = {} THEN <<>> ELSE <<Edge(CHOOSE p \in pads : TRUE, t.state)>>

FallThroughEdges(f, pc, before, t) ==
  LET insn == f.code[pc]
      next == pc + insn.size
  IN  IF /\ t.out.falls_through
         /\ next < f.cfi.pc_end
         /\ FallThroughIsReal(f.cfi, RowAt(f.cfi, pc), next, before, t.state, t.out.is_call)
      THEN <<Edge(next, TransferEdge(insn, "kFallThrough", t.state))>>
      ELSE <<>>

(* Faulty variant: follows a branch out of the FDE.                        *)
TakenEdgesAnywhere(f, pc, t) ==
  IF t.out.has_direct_target
  THEN <<Edge(t.out.direct_target, TransferEdge(f.code[pc], "kTaken", t.state))>>
  ELSE <<>>

TakenEdges(f, pc, t) ==
  IF t.out.has_direct_target /\ InRange(f, t.out.direct_target)
  THEN <<Edge(t.out.direct_target, TransferEdge(f.code[pc], "kTaken", t.state))>>
  ELSE <<>>

SwitchEdges(f, pc, t) ==
  LET targets == JumpTableTargets(f, pc, t.state, t.out)
  IN  InOrder([i \in 1..Len(targets) |->
                 IF InRange(f, targets[i]) THEN <<Edge(targets[i], t.state)>> ELSE <<>>])

FDEEdges(f, pc, st) ==
  LET t == Transfer(f.code[pc], st) IN
  IF ~Decodes(f, pc) THEN <<>>
  ELSE PadEdges(f, pc, t) \o FallThroughEdges(f, pc, st, t) \o TakenEdges(f, pc, t) \o SwitchEdges(f, pc, t)

EntrySeed(f) == Edge(f.cfi.pc_begin, SeedFromRow(FirstRow(f), is_canonical_entry(f)))

LandingPads(f) == {f.call_sites[i].landing_pad : i \in CallSites(f)}

PadSeed(f, lp) == Edge(lp, SeedFromRow(RowOf(f.cfi, lp), FALSE))

FDESeeds(f) ==
  (IF HasRow(f.cfi, f.cfi.pc_begin) THEN {EntrySeed(f)} ELSE {})
  \cup {PadSeed(f, lp) : lp \in {p \in LandingPads(f) : HasRow(f.cfi, p)}}

-----------------------------------------------------------------------------
(* CheckEntryRow and the failure of SetupCallSites.                        *)
EntryFindings(f) ==
  (IF f.at_function_entry /\ ~is_canonical_entry(f)
   THEN <<Review(f.cfi.pc_begin, <<"entry is not canonical">>)>> ELSE <<>>)
  \o (IF f.lsda_ok THEN <<>> ELSE <<Review(f.cfi.pc_begin, <<"LSDA does not parse">>)>>)

-----------------------------------------------------------------------------
(* VerifyPass: the findings one reached instruction adds, in order.        *)

Unresolved(pc) == Review(pc, <<"unresolved indirect jump">>)

(* CheckCrossFDEEdge, with what its caller adds when it answers false.     *)
CheckCrossFDEEdge(f, pc, target, st, otherwise) ==
  LET covering == {cfi \in CFIContaining(f, target) : HasRow(cfi, target)}
      cfi == CHOOSE c \in covering : TRUE
  IN  IF covering = {} THEN otherwise
      ELSE CheckRow(pc, RowOf(cfi, target), st, <<target, cfi.pc_begin>>,
                    IsCanonicalEntryOf(cfi, target))

CheckCrossFDETargets(f, pc, targets, st) ==
  InOrder([i \in 1..Len(targets) |->
    IF InRange(f, targets[i]) THEN <<>>
    ELSE CheckCrossFDEEdge(f, pc, targets[i], st, <<Review(pc, <<"entry without FDE", targets[i]>>)>>)])

(* CheckExitState                                                          *)
CheckCalleeSaved(pc, st, context) ==
  LET saved(r) == IF r \in kCalleeSaved
                  THEN Expect(st.gpr[r], OrigReg(r), pc, <<"callee-saved", r, st.gpr[r], context>>)
                  ELSE <<>>
  IN  saved(3) \o saved(6) \o saved(12) \o saved(13) \o saved(14) \o saved(15)

CheckExitState(f, pc, st, is_tail_call) ==
  LET context == IF is_tail_call THEN "tail call" ELSE "return"
      rsp == st.gpr[kDWARFRsp]
      stack == IF IsUnknown(rsp) THEN <<Review(pc, <<"untracked rsp", rsp, context>>)>>
               ELSE IF rsp = CFARel(-8) THEN <<>>
               ELSE IF is_tail_call THEN <<Review(pc, <<"rsp of a jump out", rsp.delta>>)>>
               ELSE <<Mismatch(pc, <<"rsp of a return", rsp.delta>>)>>
  IN  IF ~is_canonical_entry(f) THEN <<Review(pc, <<"exit of a fragment", context>>)>>
      ELSE IF is_tail_call /\ rsp # CFARel(-8) THEN stack
      ELSE stack \o CheckCalleeSaved(pc, st, context)
                 \o Expect(Slot(st, -8), OrigReg(kDWARFRip), pc,
                           <<"return address", Slot(st, -8), context>>)

TableFindings(f, pc, st, targets) ==
  IF targets = <<>> THEN <<Unresolved(pc)>> ELSE CheckCrossFDETargets(f, pc, targets, st)

ControlFindings(f, pc, st, out, targets) ==
  CASE out.has_jump_table \/ out.has_unbounded_jump_target -> TableFindings(f, pc, st, targets)
    [] out.is_return                 -> CheckExitState(f, pc, st, FALSE)
    [] out.has_direct_target /\ ~InRange(f, out.direct_target) ->
         CheckCrossFDEEdge(f, pc, out.direct_target, st, CheckExitState(f, pc, st, TRUE))
    [] out.indirect_branch /\ ~out.has_unbounded_jump_target ->
         IF is_canonical_entry(f) /\ IsExitState(st) THEN <<>> ELSE <<Unresolved(pc)>>
    [] OTHER -> <<>>

ConflictFindings(f, pc, conflicts) ==
  LET consulted == {c \in conflicts : HasRow(f.cfi, pc) /\ RowDependsOn(RowOf(f.cfi, pc), c)}
      in_turn == CHOOSE q \in [1..Cardinality(consulted) -> consulted] : Range(q) = consulted
  IN  [i \in 1..Cardinality(consulted) |-> Review(pc, <<"paths disagree", in_turn[i]>>)]

OutcomeAt(f, pc, st) == IF Decodes(f, pc) THEN Transfer(f.code[pc], st).out ELSE Stops

InsnFindings(f, pc, st, out, targets, conflicts) ==
  IF ~Decodes(f, pc) THEN <<Review(pc, <<"cannot decode">>)>>
  ELSE (IF HasRow(f.cfi, pc) THEN CheckRow(pc, RowOf(f.cfi, pc), st, NoEdge, FALSE)
                             ELSE <<Review(pc, <<"no CFI row">>)>>)
       \o ConflictFindings(f, pc, conflicts)
       \o (IF out.review_reason = "none" THEN <<>> ELSE <<Review(pc, <<out.review_reason>>)>>)
       \o ControlFindings(f, pc, st, out, targets)

(* ReportCoverageGaps: the runs of bytes between walked instructions that  *)
(* are not all nop and int3.                                               *)
IsPaddingLoose(f, pc) == Decodes(f, pc) => f.code[pc].id \in {"nop", "int3"}  \* faulty

IsPadding(f, pc) == Decodes(f, pc) /\ f.code[pc].id \in {"nop", "int3"}

StepOver(f, pc) == IF Decodes(f, pc) THEN f.code[pc].size ELSE 1

GapFindings(f, walked) ==
  LET end == f.cfi.pc_end
      next(pc) == pc + StepOver(f, pc)
      gap_end[pc \in f.cfi.pc_begin..end] ==
        IF pc = end \/ pc \in walked THEN pc ELSE gap_end[next(pc)]
      real[pc \in f.cfi.pc_begin..end] ==
        IF pc = end \/ pc \in walked THEN {} ELSE {p \in {pc} : ~IsPadding(f, p)} \cup real[next(pc)]
      own(pc) == IF pc \in walked \/ real[pc] = {} THEN <<>>
                 ELSE <<Review(pc, <<"bytes not reached", gap_end[pc] - pc>>)>>
      after(pc) == IF pc \in walked THEN next(pc) ELSE gap_end[pc]
      gaps[pc \in f.cfi.pc_begin..end] == IF pc = end THEN <<>> ELSE own(pc) \o gaps[after(pc)]
  IN  gaps[f.cfi.pc_begin]

-----------------------------------------------------------------------------
(* The end of Run: the worst finding decides.                              *)

(* Faulty variant: the last finding decides.                               *)
VerdictOfLast(findings) ==
  IF findings = <<>> THEN "BLESSED"
  ELSE IF findings[Len(findings)].severity = "kMismatch" THEN "MISMATCH"
  ELSE "REVIEW"

Verdict(findings) ==
  IF \E i \in 1..Len(findings) : findings[i].severity = "kMismatch" THEN "MISMATCH"
  ELSE IF findings # <<>> THEN "REVIEW"
  ELSE "BLESSED"
=============================================================================
