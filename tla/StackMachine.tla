---------------------------- MODULE StackMachine ----------------------------
(***************************************************************************)
(* A concrete machine beside Transfer: it runs a function from its entry,  *)
(* any instruction of Menu at a time, and Transfer (insn-semantics.cc)     *)
(* follows it.  What the checker believes can so be compared with what is. *)
(*                                                                         *)
(* The machine computes with three kinds of words: the address CFA + d,    *)
(* the value a register had in the caller, and anything else.  Memory is   *)
(* bytes, so that stores may overlap; only bytes of the first two kinds    *)
(* are kept.                                                               *)
(*                                                                         *)
(* It takes over two assumptions the code states: a store whose address is *)
(* not a place of the frame misses what is tracked (HandleUnplacedMem-     *)
(* Write), and a callee respects the frame of its caller.  Its programs    *)
(* keep to the psABI: they use no memory below the red zone.  They do not  *)
(* switch stacks: rsp is never loaded with a word of the caller's.         *)
(***************************************************************************)
EXTENDS InsnSemantics, RowChecker

CONSTANTS
  Menu,       \* the instructions a program is made of
  Rows,       \* the rows it may be unwound with
  Bytes,      \* the offsets from the CFA that may be accessed
  StepBound   \* length of a program

VARIABLES
  abs,        \* AbsState
  reg,        \* GPR -> word
  mem,        \* offset from the CFA -> <<word, number of the byte>>
  steps

stack_vars == <<abs, reg, mem, steps>>

Ptr(d) == [kind |-> "ptr", n |-> d]

Orig(r) == [kind |-> "orig", n |-> r]

Junk == [kind |-> "junk", n |-> 0]

IsPtr(w) == w.kind = "ptr"

-----------------------------------------------------------------------------
(* Memory                                                                  *)

Load(m, o) ==
  IF \A k \in 0..7 : o + k \in DOMAIN m /\ m[o + k] = <<m[o][1], k>> THEN m[o][1] ELSE Junk

Forget(m, gone) == [o \in DOMAIN m \ gone |-> m[o]]

Store(m, o, w, size) ==
  LET kept == Forget(m, o..(o + size - 1)) IN
  IF w = Junk THEN kept
  ELSE [x \in DOMAIN kept \cup o..(o + 7) |-> IF x \in o..(o + 7) THEN <<w, x - o>> ELSE kept[x]]

Below(m, o) == {x \in DOMAIN m : x < o}

(* Operands                                                                *)

Places(op) == ~op.seg /\ op.index = NoReg /\ op.base \in GPRs

Addr(g, op) == IF Places(op) /\ IsPtr(g[op.base]) THEN Ptr(g[op.base].n + op.disp) ELSE Junk

Source(g, m, op) ==
  CASE op.type = "reg" /\ IsFull64(op) -> g[op.reg]
    [] op.type = "mem" /\ op.size = WordBits /\ IsPtr(Addr(g, op)) -> Load(m, Addr(g, op).n)
    [] OTHER -> Junk

Machine(g, m) == [reg |-> g, mem |-> m]

(* Writing a part of a register leaves a word without a name.              *)
SetOp(g, op, w) == [g EXCEPT ![op.reg] = IF IsFull64(op) THEN w ELSE Junk]

StoreOp(g, m, op, w) ==
  IF IsPtr(Addr(g, op)) THEN Store(m, Addr(g, op).n, w, BytesOf(op)) ELSE m

Moved(w, d) == IF IsPtr(w) THEN Ptr(w.n + d) ELSE Junk

-----------------------------------------------------------------------------
(* What the processor does.                                                *)

ExecPush(op, g, m) ==
  LET rsp == Moved(g[kDWARFRsp], -8) IN
  Machine([g EXCEPT ![kDWARFRsp] = rsp], IF IsPtr(rsp) THEN Store(m, rsp.n, Source(g, m, op), 8) ELSE m)

ExecPop(op, g, m) ==
  LET rsp == g[kDWARFRsp]
      word == IF IsPtr(rsp) THEN Load(m, rsp.n) ELSE Junk
      up == [g EXCEPT ![kDWARFRsp] = Moved(rsp, 8)]
  IN  IF op.type = "reg" THEN Machine(SetOp(up, op, word), m)
      ELSE Machine(up, StoreOp(up, m, op, word))

ExecLeave(g, m) ==
  LET rbp == g[kDWARFRbp] IN
  Machine([g EXCEPT ![kDWARFRsp] = Moved(rbp, 8),
                    ![kDWARFRbp] = IF IsPtr(rbp) THEN Load(m, rbp.n) ELSE Junk], m)

(* The callee owns everything below the return address it was given.       *)
ExecCall(g, m) ==
  LET rsp == g[kDWARFRsp] IN
  Machine([r \in GPRs |-> IF r \in kCallerSaved THEN Junk ELSE g[r]],
          IF IsPtr(rsp) THEN Forget(m, Below(m, rsp.n)) ELSE m)

ExecOther(insn, g, m) ==
  LET dst == insn.ops[1] IN
  CASE dst.writes /\ dst.type = "reg" -> Machine(SetOp(g, dst, Junk), m)
    [] dst.writes /\ dst.type = "mem" -> Machine(g, StoreOp(g, m, dst, Junk))
    [] OTHER -> Machine(g, m)

Exec(insn, g, m) ==
  LET dst == insn.ops[1]
      src == insn.ops[2]
      signed == IF insn.id = "add" THEN src.imm ELSE -src.imm
  IN  CASE insn.id = "push"  -> ExecPush(dst, g, m)
        [] insn.id = "pop"   -> ExecPop(dst, g, m)
        [] insn.id = "leave" -> ExecLeave(g, m)
        [] insn.id = "call"  -> ExecCall(g, m)
        [] insn.id = "lea"   -> Machine(SetOp(g, dst, Addr(g, src)), m)
        [] insn.id = "mov" /\ dst.type = "reg" -> Machine(SetOp(g, dst, Source(g, m, src)), m)
        [] insn.id = "mov" /\ dst.type = "mem" -> Machine(g, StoreOp(g, m, dst, Source(g, m, src)))
        [] insn.id \in {"add", "sub"} /\ src.type = "imm" ->
             Machine(SetOp(g, dst, Moved(g[dst.reg], signed)), m)
        [] OTHER -> ExecOther(insn, g, m)

-----------------------------------------------------------------------------
EntryRow == [cfa |-> RegOffset(kDWARFRsp, 8),
             regs |-> [r \in DWARFRegs |-> IF r = kDWARFRip THEN AtCFAOffset(-8) ELSE kUnset]]

StackInit ==
  /\ abs = SeedFromRow(EntryRow, TRUE)
  /\ reg = [r \in GPRs |-> IF r = kDWARFRsp THEN Ptr(-8) ELSE Orig(r)]
  /\ mem = [o \in -8..-1 |-> <<Orig(kDWARFRip), o + 8>>]
  /\ steps = 0

(* The program keeps to its stack: a store lies in Bytes and not below the *)
(* red zone, and so does the stack pointer itself.                         *)
InBounds(g, o) ==
  /\ {o, o + 7} \subseteq Bytes
  /\ IsPtr(g[kDWARFRsp]) => o >= g[kDWARFRsp].n - kRedZoneBytes

OperandsInBounds(g, insn) ==
  \A i \in 1..Len(insn.ops) :
    insn.ops[i].type = "mem" /\ insn.id # "lea" /\ IsPtr(Addr(g, insn.ops[i])) =>
      InBounds(g, Addr(g, insn.ops[i]).n)

SwitchesStack(g, m, insn) ==
  LET word == CASE insn.id = "leave" -> g[kDWARFRbp]
                [] insn.id = "mov" /\ insn.ops[1].reg = kDWARFRsp -> Source(g, m, insn.ops[2])
                [] OTHER -> Junk
  IN  word.kind = "orig"

StackInsn(insn) ==
  /\ steps < StepBound
  /\ OperandsInBounds(reg, insn)
  /\ ~SwitchesStack(reg, mem, insn)
  /\ LET after == Exec(insn, reg, mem) IN
       /\ IsPtr(after.reg[kDWARFRsp]) => after.reg[kDWARFRsp].n \in Bytes
       /\ reg' = after.reg
       /\ mem' = after.mem
  /\ abs' = Transfer(insn, abs).state
  /\ steps' = steps + 1

(* A signal handler runs below the red zone.                               *)
Signal ==
  /\ IsPtr(reg[kDWARFRsp])
  /\ Below(mem, reg[kDWARFRsp].n - kRedZoneBytes) # {}
  /\ mem' = Forget(mem, Below(mem, reg[kDWARFRsp].n - kRedZoneBytes))
  /\ UNCHANGED <<abs, reg, steps>>

StackNext == (\E insn \in Menu : StackInsn(insn)) \/ Signal

-----------------------------------------------------------------------------
(* A word is what an abstract value says; the unknown ones say nothing.    *)
Says(v, w) ==
  CASE v.kind = "kCFARel"  -> w = Ptr(v.delta)
    [] v.kind = "kOrigReg" -> w = Orig(v.reg)
    [] v.kind = "kOther"   -> w = Junk
    [] OTHER               -> TRUE

(* What Transfer tracks is true of the machine: every register and every   *)
(* stack slot it can name holds what it says, whatever was stored over     *)
(* what, in which order (Transfer, EraseSlots, SetSlot, DropDeadSlots).    *)
TracksTheMachine ==
  /\ \A r \in GPRs : Says(abs.gpr[r], reg[r])
  /\ \A o \in DOMAIN abs.slots : Says(abs.slots[o], Load(mem, o))

(* Unwinding one frame with a row, as an unwinder would.                   *)
CFAOf(row) ==
  IF row.cfa.kind = "kRegOffset" THEN Moved(reg[row.cfa.reg], row.cfa.offset) ELSE Junk

Restored(row, r) ==
  LET rule == row.regs[r] IN
  CASE rule.kind \in {"kUnset", "kSameValue"} -> reg[r]
    [] rule.kind = "kInRegister"              -> reg[rule.reg]
    [] rule.kind = "kAtCFAOffset" /\ IsPtr(CFAOf(row)) -> Load(mem, CFAOf(row).n + rule.offset)
    [] OTHER                                  -> Junk

Unwinds(row) ==
  /\ CFAOf(row) = Ptr(0)
  /\ \A r \in kCalleeSaved \cup {kDWARFRip} : Restored(row, r) = Orig(r)

RowFindings(row) == Range(CheckRow(0, row, abs, NoEdge, TRUE))

(* A row RowChecker finds nothing against does unwind the machine to its   *)
(* caller: the right CFA, every callee-saved register and the return       *)
(* address (CheckRow with the states of Transfer).                         *)
CleanRowUnwinds == \A row \in Rows : Unwinds(row) \/ RowFindings(row) # {}

(* A mismatch is never a false alarm: a row that unwinds the machine to    *)
(* its caller is never contradicted (CheckCFA, CheckReg, Expect).          *)
MismatchIsReal ==
  \A row \in Rows : Unwinds(row) => \A f \in RowFindings(row) : f.severity # "kMismatch"
=============================================================================
