----------------------------- MODULE MCMachines -----------------------------
(***************************************************************************)
(* The two concrete machines, on small menus of instructions.  The first   *)
(* step decides which of the two runs.                                     *)
(*                                                                         *)
(* Words are scaled to 8 bits, so that a dword is 4 and the narrow         *)
(* operands are 2 bits wide.  Of MCWords, 3 has the narrow sign bit and 24 *)
(* has the dword's, and a bit above it; only 3 is within the compared 4.   *)
(* Stack displacements are multiples of 8, except for the dword stores,    *)
(* and large enough to leave the red zone.                                 *)
(***************************************************************************)
EXTENDS StackMachine, GuardMachine

VARIABLE running

machines_vars == <<stack_vars, guard_vars, running>>

Full(r) == RegOp(r, WordBits)

Dword(r) == RegOp(r, DwordBits)

Narrow(r) == RegOp(r, DwordBits \div 2)

Frame(b, d) == MemOp(b, d, WordBits)

Flagged(insn) == [insn EXCEPT !.writes_flags = TRUE]

MCMenu ==
  {Insn("push", <<op>>) : op \in {Full(kDWARFRax), Full(kDWARFRbp), Frame(kDWARFRsp, 8)}}
  \cup {Insn("pop", <<Written(op)>>) : op \in {Full(kDWARFRax), Full(kDWARFRbp), Frame(kDWARFRsp, 8)}}
  \cup {Insn("mov", <<Written(Full(p[1])), Full(p[2])>>) :
          p \in {q \in {kDWARFRax, kDWARFRbp, kDWARFRsp} \X {kDWARFRax, kDWARFRbp, kDWARFRsp} : q[1] # q[2]}}
  \cup {Insn("mov", <<Written(Frame(b, d)), Full(s)>>) :
          b \in {kDWARFRbp, kDWARFRsp}, d \in {-8, 0}, s \in {kDWARFRax, kDWARFRbp}}
  \cup {Insn("mov", <<Written(Full(kDWARFRbp)), Frame(b, d)>>) : b \in {kDWARFRbp, kDWARFRsp}, d \in {-8, 0}}
  \cup {Insn("mov", <<Written(MemOp(kDWARFRsp, d, DwordBits)), ImmOp(0)>>) : d \in {-4, 4}}
  \cup {Insn("mov", <<Written(Dword(kDWARFRbp)), Dword(kDWARFRax)>>)}
  \cup {Flagged(Insn(name, <<Written(Full(kDWARFRsp)), ImmOp(i)>>)) :
          name \in {"add", "sub"}, i \in {8, 144}}
  \cup {Flagged(Insn("and", <<Written(Full(kDWARFRsp)), ImmOp(-16)>>)),
        Flagged(Insn("xor", <<Written(Full(kDWARFRbp)), Full(kDWARFRbp)>>))}
  \cup {Insn("lea", <<Written(Full(kDWARFRbp)), Frame(kDWARFRsp, 8)>>),
        Insn("lea", <<Written(Full(kDWARFRax)), MemOp(kDWARFRip, kTable, WordBits)>>)}
  \cup {Insn("leave", <<>>), Insn("call", <<ImmOp(9)>>)}

MCRows ==
  {[cfa |-> cfa,
    regs |-> [r \in DWARFRegs |-> CASE r = kDWARFRip -> AtCFAOffset(-8)
                                    [] r = kDWARFRbp -> rule
                                    [] OTHER         -> kUnset]] :
     cfa \in {RegOffset(kDWARFRsp, d) : d \in {8, 16, 152}} \cup {RegOffset(kDWARFRbp, 16)},
     rule \in {kUnset, AtCFAOffset(-16), RegRule("kInRegister", kDWARFRax, 0)}}

MCBytes == -170..15

TableEntryOp(i) == [MemOp(kDWARFRcx, 0, DwordBits) EXCEPT !.index = i, !.scale = 4]

Elsewhere(w) == [MemOp(NoReg, 0, w) EXCEPT !.seg = TRUE]

MCGuardMenu ==
  {Flagged(Insn("cmp", <<op, ImmOp(4)>>)) : op \in {Full(kDWARFRax), Dword(kDWARFRax), Narrow(kDWARFRax)}}
  \cup {Flagged(Insn("cmp", <<Full(kDWARFRax), ImmOp(0)>>))}
  \cup {Insn(name, <<ImmOp(9)>>) : name \in {"ja", "jae", "jb", "jbe", "jcc"}}
  \cup {Insn("mov", <<Written(Dword(d)), Dword(kDWARFRax)>>) : d \in {kDWARFRax, kDWARFRbp}}
  \cup {Insn("mov", <<Written(Full(kDWARFRax)), Elsewhere(WordBits)>>),
        Insn("mov", <<Written(Dword(kDWARFRax)), Elsewhere(DwordBits)>>),
        Insn("mov", <<Written(Narrow(kDWARFRax)), Narrow(kDWARFRbp)>>),
        Insn("mov", <<Written(Full(kDWARFRbp)), Full(kDWARFRax)>>)}
  \cup {Insn(name, <<Written(Dword(kDWARFRax)), Narrow(kDWARFRax)>>) : name \in {"movzx", "movsx"}}
  \cup {Insn("movsxd", <<Written(Full(kDWARFRax)), Dword(kDWARFRax)>>)}
  \cup {Insn("movsxd", <<Written(Full(d)), TableEntryOp(i)>>) :
          d \in {kDWARFRax, kDWARFRbp}, i \in {kDWARFRax, kDWARFRbp}}
  \cup {Insn("lea", <<Written(Full(kDWARFRcx)), MemOp(kDWARFRip, 2 * kTable, WordBits)>>)}
  \cup {Flagged(Insn("add", <<Written(Full(d)), Full(kDWARFRcx)>>)) : d \in {kDWARFRax, kDWARFRbp}}
  \cup {Flagged(Insn("or", <<Written(Dword(kDWARFRax)), Dword(kDWARFRbp)>>))}

MCWords == {3, 24}

MachinesInit ==
  /\ StackInit
  /\ GuardInit
  /\ running \in {"stack", "guard"}
  /\ running = "stack" => word[kDWARFRax] = Data(3)

RunStack == running = "stack" /\ StackNext /\ UNCHANGED <<guard_vars, running>>

RunGuard == running = "guard" /\ GuardNext /\ UNCHANGED <<stack_vars, running>>

RunNested == running = "guard" /\ NestedNext /\ UNCHANGED <<stack_vars, running>>

MachinesSpec == MachinesInit /\ [][RunStack \/ RunGuard]_machines_vars

NestedSpec == MachinesInit /\ [][RunNested]_machines_vars
=============================================================================
