---------------------------- MODULE InsnSemantics ----------------------------
(***************************************************************************)
(* What one instruction does (insn-semantics.cc): Transfer, on every path  *)
(* out of it, and TransferEdge, on one of its edges.                       *)
(*                                                                         *)
(* An instruction is a record [id, ops, hidden, writes_flags, width, size]:*)
(* the mnemonic, the visible and the hidden operands in Zydis's order,     *)
(* whether its accessed-flags say that it writes EFLAGS, its operand width *)
(* and its length in bytes.  The decoder is external.  Widths are scaled:  *)
(* WordBits is the code's 64, half of it the code's 32, and a word is      *)
(* always 8 bytes of memory.                                               *)
(***************************************************************************)
EXTENDS AbsState

DwordBits == WordBits \div 2

-----------------------------------------------------------------------------
(* Operands.  NoReg is a register that is not a GPR, or none at all; rip   *)
(* appears only as the base of a memory operand, whose disp is then the    *)
(* resolved address.  high marks the spellings %ah, %bh, %ch and %dh,      *)
(* which neither DWARFRegOf nor the operand's size tells from %al, ...     *)
NoReg == -1

Operand(t, r, w) ==
  [type |-> t, reg |-> r, size |-> w, high |-> FALSE, writes |-> FALSE, imm |-> 0,
   base |-> NoReg, index |-> NoReg, scale |-> 0, disp |-> 0, seg |-> FALSE]

RegOp(r, w) == Operand("reg", r, w)

ImmOp(i) == [Operand("imm", NoReg, WordBits) EXCEPT !.imm = i]

MemOp(b, d, w) == [Operand("mem", NoReg, w) EXCEPT !.base = b, !.disp = d]

Written(op) == [op EXCEPT !.writes = TRUE]

Insn(name, operands) ==
  [id |-> name, ops |-> operands, hidden |-> <<>>, writes_flags |-> FALSE, width |-> WordBits,
   size |-> 1]

(* What the decoder hands over: a GPR has at most WordBits bits, a branch  *)
(* an operand, and mov two.                                                *)
Operands ==
  {op \in [type : {"reg", "imm", "mem", "ptr"}, reg : GPRs \cup {NoReg}, size : Nat, high : BOOLEAN,
           writes : BOOLEAN, imm : Int, base : GPRs \cup {NoReg, kDWARFRip},
           index : GPRs \cup {NoReg}, scale : Nat, disp : Int, seg : BOOLEAN] :
     op.reg # NoReg => op.size <= WordBits}

Branches == {"jmp", "ja", "jae", "jbe", "jb", "jcc"}

Insns ==
  {insn \in [id : STRING, ops : Seq(Operands), hidden : Seq(Operands), writes_flags : BOOLEAN,
             width : Nat, size : Nat \ {0}] :
     /\ insn.id \in Branches => insn.ops # <<>>
     /\ insn.id = "mov" => Len(insn.ops) = 2}

IsFull64(op) == op.reg # NoReg /\ op.size = WordBits

IsReg(op) == op.type = "reg"

IsGPR(op) == IsReg(op) /\ op.reg # NoReg

-----------------------------------------------------------------------------
(* Reading and writing.                                                    *)

ReadReg(s, op) == IF IsFull64(op) THEN s.gpr[op.reg] ELSE Top

HasMemSlot(s, op) ==
  /\ ~op.seg
  /\ op.index = NoReg
  /\ op.base \in GPRs
  /\ s.gpr[op.base].kind = "kCFARel"

MemSlot(s, op) == s.gpr[op.base].delta + op.disp

LeaValue(s, op) == IF HasMemSlot(s, op) THEN CFARel(MemSlot(s, op)) ELSE Top

LoadedValue(s, op) ==
  IF HasMemSlot(s, op) /\ op.size = WordBits THEN Slot(s, MemSlot(s, op)) ELSE Top

EraseSlots(s, start, size) ==
  [s EXCEPT !.slots = KeepSlots(@, {o \in DOMAIN @ : o < start - 7 \/ o >= start + size})]

BytesOf(op) == Larger(1, (op.size * 8) \div WordBits)

WrittenRegBound(op) == IF op.size = DwordBits THEN WidthBound(DwordBits) ELSE kBoundTop

ClobberWrittenReg(s, op) ==
  [ClobberReg(s, op.reg) EXCEPT !.tbl[op.reg].value_bound = WrittenRegBound(op)]

(* A written memory operand erases the slots it overlaps; one that cannot  *)
(* be placed is assumed to miss them all (HandleUnplacedMemWrite).         *)
ClobberWrite(s, op) ==
  IF ~op.writes THEN s
  ELSE IF IsGPR(op) THEN ClobberWrittenReg(s, op)
  ELSE IF op.type = "mem" /\ HasMemSlot(s, op)
       THEN EraseSlots(s, MemSlot(s, op), BytesOf(op))
  ELSE s

ClobberWrites(insn, s) ==
  LET ops == insn.ops \o insn.hidden
      after[n \in 0..Len(ops)] == IF n = 0 THEN s ELSE ClobberWrite(after[n - 1], ops[n])
  IN  after[Len(ops)]

-----------------------------------------------------------------------------
(* Bounds.                                                                 *)

ProvenGuardBound(s, r, read_bits) ==
  IF Proven(s.last_cmp) /\ s.last_cmp.reg = r /\ read_bits <= s.last_cmp.width_bits
  THEN Smaller(WidthBound(read_bits), s.last_cmp.proven_bound)
  ELSE kBoundTop

(* The source half of a widen, read before its destination is clobbered.   *)
TableOf(s, op) == IF IsGPR(op) THEN s.tbl[op.reg] ELSE None

GuardOf(s, op) == IF IsGPR(op) THEN ProvenGuardBound(s, op.reg, op.size) ELSE kBoundTop

ApplyZeroExtendedFrom(t, src, src_bits, guard) ==
  [t EXCEPT !.value_bound = Smaller(WidthBound(src_bits), Smaller(src.value_bound, guard)),
            !.table_bound = Smaller(src.table_bound, guard)]

(* Faulty variant: without the proof that the sign bit is clear.           *)
ApplySignExtendedFromAny(t, src, src_bits, guard) == ApplyZeroExtendedFrom(t, src, src_bits, guard)

ApplySignExtendedFrom(t, src, src_bits, guard) ==
  LET low == Smaller(WidthBound(src_bits), Smaller(src.value_bound, guard)) IN
  IF src_bits >= WordBits \/ low >= 2^(src_bits - 1)
  THEN [t EXCEPT !.value_bound = kBoundTop, !.table_bound = kBoundTop]
  ELSE [t EXCEPT !.value_bound = low, !.table_bound = Smaller(src.table_bound, guard)]

ZeroExtend(s, dst, read, op) ==
  [s EXCEPT !.tbl[dst.reg] = ApplyZeroExtendedFrom(@, TableOf(read, op), op.size, GuardOf(read, op))]

SignExtend(s, dst, read, op) ==
  [s EXCEPT !.tbl[dst.reg] = ApplySignExtendedFrom(@, TableOf(read, op), op.size, GuardOf(read, op))]

-----------------------------------------------------------------------------
(* The effect of each modelled instruction on the state.                   *)

kCallerSaved == {0, 1, 2, 4, 5, 8, 9, 10, 11}

ClobberCallerSaved(s) ==
  [s EXCEPT !.gpr = [r \in GPRs |-> IF r \in kCallerSaved THEN Top ELSE @[r]],
            !.tbl = [r \in GPRs |-> IF r \in kCallerSaved THEN None ELSE @[r]],
            !.last_cmp = IF @.reg \in kCallerSaved THEN nullopt ELSE @]

(* Faulty variant: what the frame saved below rsp survives a call.         *)
CallEffectKeepsSlots(s) == ClobberCallerSaved(s)

(* call, and the instructions that trap into a kernel or hypervisor        *)
CallEffect(s) ==
  LET rsp == s.gpr[kDWARFRsp] IN
  ClobberCallerSaved(IF rsp.kind = "kCFARel" THEN DropSlotsBelow(s, rsp.delta) ELSE s)

OddStackWidth(insn) ==
  insn.id \in {"push", "pop"} /\ (Len(insn.ops) # 1 \/ insn.width # WordBits)

PushedValue(insn, s) ==
  IF insn.id = "pushfq" THEN Top
  ELSE LET op == insn.ops[1] IN
       CASE op.type = "reg" -> ReadReg(s, op)
         [] op.type = "mem" -> LoadedValue(s, op)
         [] OTHER           -> Top

PushEffect(insn, s) ==
  LET rsp == s.gpr[kDWARFRsp]
      at == rsp.delta - 8
  IN  IF OddStackWidth(insn) THEN ClobberReg(s, kDWARFRsp)
      ELSE IF rsp.kind # "kCFARel" THEN s
      ELSE SetSlot(SetReg(s, kDWARFRsp, CFARel(at)), at, PushedValue(insn, s))

PopEffect(insn, s) ==
  LET rsp == s.gpr[kDWARFRsp]
      tracked == rsp.kind = "kCFARel"
      popped == IF tracked THEN Slot(s, rsp.delta) ELSE Top
      moved == IF tracked THEN SetReg(s, kDWARFRsp, CFARel(rsp.delta + 8)) ELSE s
      dst == insn.ops[1]
  IN  IF OddStackWidth(insn) THEN ClobberReg(s, kDWARFRsp)
      ELSE IF insn.id = "popfq" THEN moved
      ELSE IF IsGPR(dst) THEN SetReg(moved, dst.reg, IF IsFull64(dst) THEN popped ELSE Top)
      ELSE IF dst.type = "mem" /\ HasMemSlot(moved, dst)
           THEN SetSlot(moved, MemSlot(moved, dst), popped)
      ELSE moved

(* Faulty variant: leave without its pop moving rsp.                       *)
LeaveEffectHalf(s) ==
  LET moved == CopyReg(s, kDWARFRsp, kDWARFRbp) IN
  IF moved.gpr[kDWARFRsp].kind = "kCFARel"
  THEN SetReg(moved, kDWARFRbp, Slot(moved, moved.gpr[kDWARFRsp].delta))
  ELSE ClobberReg(moved, kDWARFRbp)

LeaveEffect(s) ==
  LET moved == CopyReg(s, kDWARFRsp, kDWARFRbp)
      rsp == moved.gpr[kDWARFRsp]
  IN  IF rsp.kind = "kCFARel"
      THEN SetReg(SetReg(moved, kDWARFRbp, Slot(moved, rsp.delta)), kDWARFRsp, CFARel(rsp.delta + 8))
      ELSE ClobberReg(moved, kDWARFRbp)

LeaEffect(dst, mem, s) ==
  IF ~IsFull64(dst) THEN ClobberWrittenReg(s, dst)
  ELSE IF mem.base = kDWARFRip /\ mem.index = NoReg THEN SetTableReg(s, dst.reg, Const(mem.disp))
  ELSE SetReg(s, dst.reg, LeaValue(s, mem))

MovToReg(dst, src, s) ==
  IF ~IsFull64(dst)
  THEN IF dst.size = DwordBits /\ IsGPR(src)
       THEN ZeroExtend(ClobberWrittenReg(s, dst), dst, s, src)
       ELSE ClobberWrittenReg(s, dst)
  ELSE CASE src.type = "reg" -> IF IsFull64(src) THEN CopyReg(s, dst.reg, src.reg)
                                                 ELSE SetReg(s, dst.reg, Top)
         [] src.type = "mem" -> SetReg(s, dst.reg, LoadedValue(s, src))
         [] OTHER            -> ClobberReg(s, dst.reg)

(* Faulty variant: a store erases nothing but the slot it writes.          *)
MovToMemOverlapping(dst, src, s) ==
  IF HasMemSlot(s, dst) /\ dst.size = WordBits /\ IsReg(src) /\ IsFull64(src)
  THEN SetSlot(s, MemSlot(s, dst), ReadReg(s, src))
  ELSE s

MovToMem(dst, src, s) ==
  LET at == MemSlot(s, dst)
      erased == EraseSlots(s, at, BytesOf(dst))
  IN  IF ~HasMemSlot(s, dst) THEN s
      ELSE IF dst.size = WordBits /\ IsReg(src) /\ IsFull64(src)
           THEN SetSlot(erased, at, ReadReg(s, src))
      ELSE erased

(* movslq disp(%B,%I,4),%T with %B a known constant: a switch-table load.  *)
IsTableLoad(s, mem) ==
  /\ mem.type = "mem"
  /\ mem.index # NoReg
  /\ mem.scale = 4
  /\ mem.base \in GPRs
  /\ s.tbl[mem.base].kind = "kConst"

MovsxdEffect(insn, dst, src, s) ==
  IF IsGPR(src) THEN SignExtend(ClobberReg(s, dst.reg), dst, s, src)
  ELSE IF IsTableLoad(s, src)
       THEN LET base == s.tbl[src.base].addr IN
            SetTableReg(s, dst.reg, TableEntry(base + src.disp, src.index, base,
                                               s.tbl[src.index].table_bound))
  ELSE ClobberWrites(insn, s)

(* add %B,%T where %B is the constant %T's table was derived from.         *)
Dispatches(base, entry) ==
  base.kind = "kConst" /\ entry.kind = "kTableEntry" /\ entry.base_const = base.addr

DispatchTarget(entry) == JumpTarget(entry.addr, entry.index_reg, entry.table_bound)

AddRegEffect(insn, dst, src, s) ==
  LET t0 == s.tbl[dst.reg]
      t1 == s.tbl[src.reg]
  IN  IF ~(IsFull64(dst) /\ IsFull64(src)) THEN ClobberWrites(insn, s)
      ELSE IF Dispatches(t0, t1) THEN SetTableReg(s, dst.reg, DispatchTarget(t1))
      ELSE IF Dispatches(t1, t0) THEN SetTableReg(s, dst.reg, DispatchTarget(t0))
      ELSE ClobberWrites(insn, s)

AddImmEffect(insn, dst, i, s) ==
  LET cur == s.gpr[dst.reg] IN
  IF ~IsFull64(dst) \/ cur.kind # "kCFARel" THEN ClobberWrittenReg(s, dst)
  ELSE SetReg(s, dst.reg, CFARel(IF insn.id = "add" THEN cur.delta + i ELSE cur.delta - i))

CmpEffect(op, i, s) ==
  [s EXCEPT !.last_cmp = FlagsGuard(op.reg, op.size, i % 2^op.size, kBoundTop)]

MovxEffect(insn, dst, src, s) ==
  LET clobbered == ClobberWrittenReg(s, dst)
      widened == IF insn.id = "movzx" THEN ZeroExtend(clobbered, dst, s, src)
                                      ELSE SignExtend(clobbered, dst, s, src)
  IN  IF dst.size < DwordBits THEN clobbered
      ELSE ApplyValueBound(widened, dst.reg, WrittenRegBound(dst))

-----------------------------------------------------------------------------
(* TransferOutcome: what the instruction does to control flow.             *)

Continues ==
  [falls_through |-> TRUE, has_direct_target |-> FALSE, direct_target |-> 0,
   indirect_branch |-> FALSE, is_return |-> FALSE, is_call |-> FALSE,
   has_jump_table |-> FALSE, jump_table_addr |-> 0, jump_table_entries |-> 0,
   has_unbounded_jump_target |-> FALSE, unbounded_jump_table_addr |-> 0,
   review_reason |-> "none"]

Stops == [Continues EXCEPT !.falls_through = FALSE]

Traps == {"syscall", "sysenter", "int", "int1", "into", "vmcall", "vmmcall"}

NeverReturns == {"ud0", "ud1", "ud2", "hlt", "int3"}

BranchOutcome(insn, s) ==
  LET out == [Continues EXCEPT !.falls_through = insn.id # "jmp"]
      op == insn.ops[1]
      t == TableOf(s, op)
  IN  CASE op.type = "imm" ->
             [out EXCEPT !.has_direct_target = TRUE, !.direct_target = op.imm]
        [] t.kind = "kJumpTarget" /\ t.table_bound # kBoundTop ->
             [out EXCEPT !.has_jump_table = TRUE, !.jump_table_addr = t.addr,
                         !.jump_table_entries = t.table_bound + 1]
        [] t.kind = "kJumpTarget" /\ t.table_bound = kBoundTop ->
             [out EXCEPT !.has_unbounded_jump_target = TRUE,
                         !.unbounded_jump_table_addr = t.addr, !.indirect_branch = TRUE]
        [] OTHER -> [out EXCEPT !.indirect_branch = TRUE]

Outcome(insn, s) ==
  CASE insn.id \in {"ret", "iret"}   -> [Stops EXCEPT !.is_return = TRUE]
    [] insn.id \in Branches          -> BranchOutcome(insn, s)
    [] insn.id \in NeverReturns      -> Stops
    [] insn.id = "call"              -> [Continues EXCEPT !.is_call = TRUE]
    [] OddStackWidth(insn)           -> [Continues EXCEPT !.review_reason = "odd stack width"]
    [] OTHER                         -> Continues

(* The whole switch; a case that does not match its operands falls to the  *)
(* generic clobber.                                                        *)
Effect(insn, s) ==
  LET dst == insn.ops[1]
      src == insn.ops[2]
      to_gpr == Len(insn.ops) = 2 /\ IsGPR(dst)
  IN  CASE insn.id \in {"ret", "iret"} \cup Branches \cup NeverReturns -> s
        [] insn.id \in {"call"} \cup Traps           -> CallEffect(s)
        [] insn.id \in {"push", "pushfq"}            -> PushEffect(insn, s)
        [] insn.id \in {"pop", "popfq"}              -> PopEffect(insn, s)
        [] insn.id = "leave"                         -> LeaveEffect(s)
        [] insn.id = "lea" /\ to_gpr                 -> LeaEffect(dst, src, s)
        [] insn.id = "mov" /\ to_gpr                 -> MovToReg(dst, src, s)
        [] insn.id = "mov" /\ dst.type = "mem"       -> MovToMem(dst, src, s)
        [] insn.id = "movsxd" /\ to_gpr /\ IsFull64(dst) -> MovsxdEffect(insn, dst, src, s)
        [] insn.id = "add" /\ to_gpr /\ IsGPR(src)   -> AddRegEffect(insn, dst, src, s)
        [] insn.id \in {"add", "sub"} /\ to_gpr /\ src.type = "imm" ->
             AddImmEffect(insn, dst, src.imm, s)
        [] insn.id = "cmp" -> IF to_gpr /\ src.type = "imm" THEN CmpEffect(dst, src.imm, s) ELSE s
        [] insn.id \in {"movzx", "movsx"} /\ to_gpr  -> MovxEffect(insn, dst, src, s)
        [] insn.id \in {"nop", "endbr"}              -> s
        [] OTHER                                     -> ClobberWrites(insn, s)

ForgetFlags(insn, s) ==
  IF insn.writes_flags /\ ~Proven(s.last_cmp) THEN [s EXCEPT !.last_cmp = nullopt] ELSE s

Transfer(insn, s) ==
  LET forgot == ForgetFlags(insn, s)
  IN  [out |-> Outcome(insn, forgot), state |-> Effect(insn, forgot)]

(* TransferEdge: on the in-range edge of an unsigned guard branch the      *)
(* comparison becomes a proven bound.                                      *)
InRangeEdgeOf(name, edge) ==
  CASE name = "ja"  /\ edge = "kFallThrough" -> "kAtMostImm"
    [] name = "jae" /\ edge = "kFallThrough" -> "kBelowImm"
    [] name = "jbe" /\ edge = "kTaken"       -> "kAtMostImm"
    [] name = "jb"  /\ edge = "kTaken"       -> "kBelowImm"
    [] OTHER                                 -> "kNone"

(* Faulty variant: a narrow compare bounds the whole register.             *)
ProveGuardWide(s, ubound) ==
  ApplyGuardBound([s EXCEPT !.last_cmp.proven_bound = ubound], s.last_cmp.reg, ubound)

ProveGuard(s, ubound) ==
  LET guard == s.last_cmp
      carried == [s EXCEPT !.last_cmp.proven_bound = ubound]
  IN  IF guard.width_bits >= WordBits \/ s.tbl[guard.reg].value_bound <= WidthBound(guard.width_bits)
      THEN ApplyGuardBound(carried, guard.reg, ubound)
      ELSE carried

TransferEdge(insn, edge, s) ==
  LET guard_edge == InRangeEdgeOf(insn.id, edge)
      guard == s.last_cmp
  IN  IF guard_edge = "kNone" \/ guard = nullopt \/ Proven(guard) THEN s
      ELSE IF guard_edge = "kAtMostImm" THEN ProveGuard(s, guard.imm)
      ELSE IF guard.imm = 0 THEN s
      ELSE ProveGuard(s, guard.imm - 1)
=============================================================================
