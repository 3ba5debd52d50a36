---------------------------- MODULE MCFunctions ----------------------------
(***************************************************************************)
(* Families of small functions with their CFI, for model checking.         *)
(***************************************************************************)
EXTENDS FDERecord

kRax == kDWARFRax
kRcx == kDWARFRcx
kRbp == kDWARFRbp
kRsp == kDWARFRsp

(* Instructions                                                            *)
Full(r) == RegOp(r, WordBits)

Push(r) == Insn("push", <<Full(r)>>)
Pop(r) == Insn("pop", <<Written(Full(r))>>)
MovReg(d, s) == Insn("mov", <<Written(Full(d)), Full(s)>>)
AddImm(r, i) == [Insn("add", <<Written(Full(r)), ImmOp(i)>>) EXCEPT !.writes_flags = TRUE]
Xor(r) == [Insn("xor", <<Written(Full(r)), Full(r)>>) EXCEPT !.writes_flags = TRUE]
Jcc(t) == Insn("jcc", <<ImmOp(t)>>)
Jmp(t) == Insn("jmp", <<ImmOp(t)>>)
Ret == Insn("ret", <<>>)
Nop == Insn("nop", <<>>)
Leave == Insn("leave", <<>>)
Call == Insn("call", <<ImmOp(90)>>)
Invalid == Insn("invalid", <<>>)

(* Rows.  Each maps the registers it mentions; the others are unset.       *)
Row(start, cfa, rbp) ==
  [pc_start |-> start, cfa |-> cfa,
   regs |-> [r \in DWARFRegs |-> CASE r = kDWARFRip -> AtCFAOffset(-8)
                                   [] r = kRbp      -> rbp
                                   [] OTHER         -> kUnset]]

(* The rules of a frame: at entry, after push %rbp, after mov %rsp,%rbp.   *)
RuleAt(k, start) ==
  CASE k = 1 -> Row(start, RegOffset(kRsp, 8), kUnset)
    [] k = 2 -> Row(start, RegOffset(kRsp, 16), AtCFAOffset(-16))
    [] k = 3 -> Row(start, RegOffset(kRbp, 16), AtCFAOffset(-16))

(* A new row starts where the rule changes.                                *)
RowsOf(rules, n) ==
  LET starts == SelectSeq([i \in 1..n |-> i - 1], LAMBDA pc : pc = 0 \/ rules[pc] # rules[pc - 1])
  IN  [i \in 1..Len(starts) |-> RuleAt(rules[starts[i]], starts[i])]

CFI(b, e, rows) == [pc_begin |-> b, pc_end |-> e, rows |-> rows]

Function(n, code, rules) ==
  [cfi |-> CFI(0, n, RowsOf(rules, n)), code |-> code, rodata |-> [a \in {} |-> 0],
   call_sites |-> <<>>, lsda_ok |-> TRUE, others |-> <<>>,
   at_function_entry |-> TRUE, guessing_enabled |-> FALSE, max_iterations |-> 40]

(* Frames: four instructions, each with any of the rules.                  *)
FrameMenu == {Push(kRbp), Pop(kRbp), MovReg(kRbp, kRsp), AddImm(kRsp, 8), Leave, Xor(kRbp),
              Nop, Jcc(1), Jcc(3)}

FrameFDEs ==
  {Function(4, [pc \in 0..3 |-> IF pc = 3 THEN Ret ELSE c[pc]], r) :
     c \in {x \in [0..2 -> FrameMenu] : x[0] \in {Push(kRbp), Xor(kRbp), Jcc(3)}},
     r \in {x \in [0..3 -> 1..3] : x[0] = 1}}

(* Switches: a guarded or unguarded PIC dispatch on %rax over a table at   *)
(* 100, into the FDE, into the one at 9..10, or to where no FDE is.        *)
TableLoad(t, b, x) ==
  Insn("movsxd", <<Written(Full(t)), [MemOp(b, 0, DwordBits) EXCEPT !.index = x, !.scale = 4]>>)
AddReg(d, s) == [Insn("add", <<Written(Full(d)), Full(s)>>) EXCEPT !.writes_flags = TRUE]
LeaRip(r, a) == Insn("lea", <<Written(Full(r)), MemOp(kDWARFRip, a, WordBits)>>)
JmpReg(r) == Insn("jmp", <<Full(r)>>)
CmpImm(r, i) == [Insn("cmp", <<Full(r), ImmOp(i)>>) EXCEPT !.writes_flags = TRUE]
Guard(name, t) == Insn(name, <<ImmOp(t)>>)
kRdx == 1

SwitchCode(guard, imm, case0) ==
  [pc \in 0..10 |->
     CASE pc = 0 -> CmpImm(kRax, imm)
       [] pc = 1 -> Guard(guard, 8)
       [] pc = 2 -> LeaRip(kRcx, 100)
       [] pc = 3 -> TableLoad(kRdx, kRcx, kRax)
       [] pc = 4 -> AddReg(kRdx, kRcx)
       [] pc = 5 -> JmpReg(kRdx)
       [] pc = 6 -> case0
       [] OTHER  -> Ret]

NextFDE(k) == <<CFI(9, 11, <<RuleAt(k, 9)>>)>>

SwitchFDEs ==
  {[Function(9, SwitchCode(guard, imm, case0), [pc \in 0..8 |-> IF pc = 7 THEN rule ELSE 1]) EXCEPT
      !.rodata = [a \in {100, 104} |-> (IF a = 100 THEN t[1] ELSE t[2]) - 100],
      !.others = NextFDE(other)] :
     guard \in {"ja", "jae", "jcc"}, imm \in 0..2, case0 \in {Ret, JmpReg(kRdx), Push(kRbp)},
     rule \in 1..2, other \in 1..2, t \in {<<6, 7>>, <<6, 9>>, <<7, 6>>, <<9, 7>>, <<10, 6>>, <<20, 7>>}}

(* Exits: calls with landing pads, tail calls, fragments and odd FDEs.     *)
Site(b, e, lp) == [start |-> b, end |-> e, landing_pad |-> lp]

CallSiteTables ==
  {<<>>, <<Site(0, 1, 3)>>, <<Site(0, 1, 20), Site(1, 2, 3)>>, <<Site(2, 3, 4), Site(4, 5, 3)>>}

ExitCode(c0, c1, c3, c4) ==
  [pc \in 0..10 |-> CASE pc = 0 -> c0 [] pc = 1 -> c1 [] pc = 3 -> c3 [] pc = 4 -> c4 [] OTHER -> Ret]

Long(insn) == [insn EXCEPT !.size = 2]

ExitFDEs ==
  {[Function(5, ExitCode(c0, c1, c3, c4), rules) EXCEPT
      !.call_sites = sites, !.lsda_ok = ok, !.others = NextFDE(1)] :
     c0 \in {Call, Nop, Push(kRbp)},
     c1 \in {Call, Jmp(9), Jmp(20), JmpReg(kRbp), Invalid, Pop(kRbp), Long(Nop)},
     c3 \in {Nop, Pop(kRbp), Call, Invalid}, c4 \in {Ret, Jmp(2), Nop},
     rules \in {[pc \in 0..4 |-> 1], [pc \in 0..4 |-> IF pc \in {0, 2, 4} THEN 1 ELSE 2],
                [pc \in 0..4 |-> 2]},
     sites \in CallSiteTables, ok \in BOOLEAN}

(* One whose return address is undefined: nothing unwinds past it.         *)
StartFDE == [Function(5, ExitCode(Pop(kRbp), Ret, Ret, Ret), [pc \in 0..4 |-> 1]) EXCEPT
               !.cfi.rows[1].regs[kDWARFRip] = RegRule("kUndefined", 0, 0)]

OddFDEs == ExitFDEs \cup {StartFDE}

FrameAndOddFDEs == FrameFDEs \cup OddFDEs

(* Walks that are given up after two instructions.                         *)
CappedFDEs == {[f EXCEPT !.max_iterations = 2] : f \in {g \in OddFDEs : g.lsda_ok /\ g.code[0].id # "nop" /\ Len(g.cfi.rows) = 1}}

SwitchAndCappedFDEs == SwitchFDEs \cup CappedFDEs
=============================================================================
