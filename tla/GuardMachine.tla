---------------------------- MODULE GuardMachine ----------------------------
(***************************************************************************)
(* A concrete machine beside the half of Transfer that resolves switch     *)
(* tables: it computes with numbers of WordBits bits, sets the flags,      *)
(* takes branches, and loads entries of tables, while Transfer and         *)
(* TransferEdge (insn-semantics.cc) bound its registers along the path.    *)
(*                                                                         *)
(* A register holds a number and what the number is: data, the address of  *)
(* a table, an entry that was loaded from one, or the target such an entry *)
(* leads to.  A read of memory gives any number of Words.                  *)
(***************************************************************************)
EXTENDS InsnSemantics

CONSTANTS
  GuardMenu,    \* the instructions a program is made of
  Words,        \* the numbers that may be read from memory or passed in
  GuardBound    \* length of a program

VARIABLES
  known,        \* AbsState
  word,         \* GPR -> what the register holds
  flags,        \* the operands the flags compare, or NoFlags
  taken         \* number of instructions executed

guard_vars == <<known, word, flags, taken>>

Data(v) == [kind |-> "data", val |-> v, addr |-> 0, base |-> 0, index |-> 0]

Address(a) == [Data(a % 2^WordBits) EXCEPT !.kind = "const", !.addr = a]

Entry(v, a, b, i) == [kind |-> "entry", val |-> v, addr |-> a, base |-> b, index |-> i]

NoFlags == [lhs |-> -1, rhs |-> -1]

Low(v, bits) == v % 2^bits

(* %ah and its like are the second lowest part of their register.          *)
Read(op) == IF op.high THEN Low(word[op.reg].val \div 2^op.size, op.size) ELSE Low(word[op.reg].val, op.size)

SignExtended(v, bits) == IF v < 2^(bits - 1) THEN v ELSE 2^WordBits - 2^bits + v

(* A 32-bit write zero-extends; a narrower one keeps the upper bits.       *)
Put(op, v) ==
  IF op.size >= DwordBits THEN Data(v)
  ELSE Data(word[op.reg].val - Low(word[op.reg].val, op.size) + Low(v, op.size))

-----------------------------------------------------------------------------
(* What the processor may leave in the destination.                        *)

ReadOperand(op) ==
  CASE op.type = "reg" -> {Read(op)}
    [] op.type = "imm" -> {Low(op.imm, WordBits)}
    [] op.type = "mem" -> {Low(v, op.size) : v \in Words}

Widened(insn, v) ==
  IF insn.id \in {"movsx", "movsxd"} THEN SignExtended(v, insn.ops[2].size) ELSE v

LoadedEntry(mem, v) ==
  LET b == word[mem.base].addr IN Entry(SignExtended(v, mem.size), b + mem.disp, b, word[mem.index].val)

Added(x, y) ==
  LET sum == Low(x.val + y.val, WordBits) IN
  IF x.kind = "entry" /\ y.kind = "const" /\ y.addr = x.base
  THEN [x EXCEPT !.kind = "target", !.val = sum]
  ELSE Data(sum)

Sum(x, y) == IF y.kind = "entry" THEN Added(y, x) ELSE Added(x, y)

Results(insn) ==
  LET dst == insn.ops[1]
      src == insn.ops[2]
  IN  CASE insn.id = "lea" -> {Address(src.disp)}
        [] insn.id = "mov" /\ IsFull64(dst) /\ IsGPR(src) /\ IsFull64(src) -> {word[src.reg]}
        [] insn.id = "movsxd" /\ src.type = "mem" /\ src.index # NoReg ->
             {LoadedEntry(src, Low(v, src.size)) : v \in Words}
        [] insn.id = "add" /\ IsGPR(src) -> {Sum(word[dst.reg], word[src.reg])}
        [] insn.id \in {"mov", "movzx", "movsx", "movsxd"} ->
             {Put(dst, Low(Widened(insn, v), dst.size)) : v \in ReadOperand(src)}
        [] ~dst.writes -> {word[dst.reg]}
        [] OTHER -> {Put(dst, Low(v, dst.size)) : v \in Words}

-----------------------------------------------------------------------------
(* The function has begun and has loaded the address of a table.           *)
kTable == 100

LoadTable == Insn("lea", <<Written(RegOp(kDWARFRcx, WordBits)), MemOp(kDWARFRip, kTable, WordBits)>>)

GuardInit ==
  /\ known = Transfer(LoadTable,
                      SeedFromRow([cfa |-> RegOffset(kDWARFRsp, 8),
                                   regs |-> [r \in DWARFRegs |-> kUnset]], TRUE)).state
  /\ \E v \in Words :
       word = [r \in GPRs |-> IF r = kDWARFRcx THEN Address(kTable) ELSE Data(v)]
  /\ flags = NoFlags
  /\ taken = 0

(* A table is indexed with data: an entry of one is only copied whole, or  *)
(* added to.                                                               *)
CopiesOrAdds(insn, op) == insn.id = "add" \/ (insn.id = "mov" /\ IsFull64(op))

UsesEntry(insn) ==
  \E i \in 1..Len(insn.ops) :
    LET op == insn.ops[i] IN
    \/ op.index # NoReg /\ word[op.index].kind # "data"
    \/ /\ IsGPR(op)
       /\ ~op.writes
       /\ word[op.reg].kind # "data"
       /\ ~CopiesOrAdds(insn, op)

Compute(insn) ==
  /\ insn.id # "cmp"
  /\ insn.id \notin Branches
  /\ \E w \in Results(insn) : word' = [word EXCEPT ![insn.ops[1].reg] = w]
  /\ flags' = IF insn.writes_flags THEN NoFlags ELSE flags
  /\ known' = Transfer(insn, known).state

Compare(insn) ==
  /\ insn.id = "cmp"
  /\ flags' = [lhs |-> Read(insn.ops[1]), rhs |-> Low(insn.ops[2].imm, insn.ops[1].size)]
  /\ known' = Transfer(insn, known).state
  /\ UNCHANGED word

(* The branch goes where the flags send it; flags nobody compared, and the *)
(* conditions the code does not interpret, send it anywhere.               *)
Goes(name, edge) ==
  LET above == flags.lhs > flags.rhs
      below == flags.lhs < flags.rhs
      cond == CASE name = "ja"  -> above
                [] name = "jae" -> ~below
                [] name = "jb"  -> below
                [] name = "jbe" -> ~above
                [] OTHER        -> FALSE
  IN  flags = NoFlags \/ name = "jcc" \/ (cond <=> edge = "kTaken")

Branch(insn) ==
  /\ insn.id \in Branches
  /\ \E edge \in {"kTaken", "kFallThrough"} :
       /\ Goes(insn.id, edge)
       /\ known' = TransferEdge(insn, edge, Transfer(insn, known).state)
  /\ UNCHANGED <<word, flags>>

GuardInsn(insn) ==
  /\ taken < GuardBound
  /\ Compute(insn) \/ Compare(insn) \/ Branch(insn)
  /\ taken' = taken + 1

GuardNext == \E insn \in GuardMenu : ~UsesEntry(insn) /\ GuardInsn(insn)

(* Programs that do anything with an entry.                                *)
NestedNext == \E insn \in GuardMenu : GuardInsn(insn)

-----------------------------------------------------------------------------
(* The bounds are true on every path: no register exceeds its value_bound, *)
(* data does not exceed its table_bound either, and the low width_bits of  *)
(* the register of a proven guard do not exceed proven_bound (TransferEdge,*)
(* ApplyZeroExtendedFrom, ApplySignExtendedFrom, ProvenGuardBound).        *)
BoundsHold ==
  /\ \A r \in GPRs :
       /\ word[r].val <= known.tbl[r].value_bound
       /\ word[r].kind = "data" => word[r].val <= known.tbl[r].table_bound
  /\ Proven(known.last_cmp) =>
       Low(word[known.last_cmp.reg].val, known.last_cmp.width_bits) <= known.last_cmp.proven_bound

(* A jump through a register that Transfer resolves to a table of n        *)
(* entries goes through one of the first n entries of that very table: the *)
(* bound captured at the load is the bound of the index that was used.     *)
ResolvedJumpStaysInTable ==
  \A r \in GPRs :
    LET out == BranchOutcome(Insn("jmp", <<RegOp(r, WordBits)>>), known) IN
    out.has_jump_table =>
      /\ word[r].kind = "target"
      /\ word[r].addr = out.jump_table_addr
      /\ word[r].index < out.jump_table_entries
=============================================================================
