-------------------------- MODULE SemanticsProofs --------------------------
(***************************************************************************)
(* The transfer functions and the seeding from a row map states to states, *)
(* for every instruction, every row, every set of registers and every word *)
(* width.                                                                  *)
(***************************************************************************)
EXTENDS InsnSemantics, AbsStateProofs

-----------------------------------------------------------------------------
(* The operations on states keep their types.                              *)

(* The named values are values.                                            *)
LEMMA Values ==
  /\ Top \in AbsVals /\ Bottom \in AbsVals /\ Other \in AbsVals
  /\ \A d \in Int : CFARel(d) \in AbsVals /\ CFARel(d) # Top
  /\ \A r \in DWARFRegs : OrigReg(r) \in AbsVals /\ OrigReg(r) # Top
  /\ None \in TableVals
  /\ \A a \in Int : Const(a) \in TableVals
  /\ \A a \in Int, base \in Int, idx \in GPRs, b \in Bounds :
       TableEntry(a, idx, base, b) \in TableVals /\ JumpTarget(a, idx, b) \in TableVals
<1>1. /\ Top \in AbsVals /\ Bottom \in AbsVals /\ Other \in AbsVals
      /\ \A d \in Int : CFARel(d) \in AbsVals /\ CFARel(d) # Top
  BY DEF AbsVals, Top, Bottom, Other, CFARel
<1>2. \A r \in DWARFRegs : OrigReg(r) \in AbsVals /\ OrigReg(r) # Top
  BY GPRsAssumption DEF AbsVals, OrigReg, Top, DWARFRegs, kDWARFRip
<1>3. kBoundTop \in Bounds /\ \A r \in GPRs : r \in 0..15
  BY WordAssumption, GPRsAssumption DEF Bounds
<1>4. None \in TableVals /\ \A a \in Int : Const(a) \in TableVals
  BY <1>3 DEF None, Const, TableVal, TableVals
<1>5. \A a \in Int, base \in Int, idx \in GPRs, b \in Bounds :
        TableEntry(a, idx, base, b) \in TableVals /\ JumpTarget(a, idx, b) \in TableVals
  BY <1>3 DEF TableEntry, JumpTarget, TableVal, TableVals
<1> QED BY <1>1, <1>2, <1>4, <1>5

(* Replacing a part of a state by one of its type.                         *)
LEMMA StateUpdates ==
  ASSUME NEW s \in AbsStates
  PROVE  /\ \A m \in SlotMaps : [s EXCEPT !.slots = m] \in AbsStates
         /\ \A g \in FlagsGuards \cup {nullopt} : [s EXCEPT !.last_cmp = g] \in AbsStates
         /\ \A r \in GPRs, v \in AbsVals : [s EXCEPT !.gpr[r] = v] \in AbsStates
         /\ \A r \in GPRs, t \in TableVals : [s EXCEPT !.tbl[r] = t] \in AbsStates
BY DEF AbsStates

(* Slots that are kept or written.                                         *)
LEMMA SlotUpdates ==
  ASSUME NEW m \in SlotMaps
  PROVE  /\ EmptySlots \in SlotMaps
         /\ \A S \in SUBSET DOMAIN m : KeepSlots(m, S) \in SlotMaps
         /\ \A o \in Int, v \in AbsVals \ {Top} : PutSlot(m, o, v) \in SlotMaps
<1>1. EmptySlots \in SlotMaps
  <2>1. DOMAIN EmptySlots = {} /\ EmptySlots = [o \in DOMAIN EmptySlots |-> EmptySlots[o]]
    BY DEF EmptySlots
  <2>2. IsFiniteSet({})
    BY FS_EmptySet
  <2>3. DOMAIN EmptySlots \subseteq Int /\ IsFiniteSet(DOMAIN EmptySlots)
    BY <2>1, <2>2
  <2> QED BY <2>1, <2>3, SlotMapMembership
<1>2. ASSUME NEW S \in SUBSET DOMAIN m PROVE KeepSlots(m, S) \in SlotMaps
  <2>1. /\ DOMAIN m \subseteq Int /\ IsFiniteSet(DOMAIN m)
        /\ \A o \in DOMAIN m : m[o] \in AbsVals \ {Top}
    BY SlotMapMembership
  <2>2. IsFiniteSet(S)
    BY <2>1, FS_Subset
  <2>3. /\ DOMAIN KeepSlots(m, S) = S
        /\ KeepSlots(m, S) = [o \in S |-> KeepSlots(m, S)[o]]
        /\ \A o \in S : KeepSlots(m, S)[o] = m[o]
    BY DEF KeepSlots
  <2> QED BY <2>1, <2>2, <2>3, SlotMapMembership
<1>3. ASSUME NEW o \in Int, NEW v \in AbsVals \ {Top} PROVE PutSlot(m, o, v) \in SlotMaps
  <2>1. /\ DOMAIN m \subseteq Int /\ IsFiniteSet(DOMAIN m)
        /\ \A x \in DOMAIN m : m[x] \in AbsVals \ {Top}
    BY SlotMapMembership
  <2> DEFINE S == DOMAIN m \cup {o}
  <2>2. IsFiniteSet(S)
    BY <2>1, FS_AddElement
  <2>3. /\ DOMAIN PutSlot(m, o, v) = S
        /\ PutSlot(m, o, v) = [x \in S |-> PutSlot(m, o, v)[x]]
        /\ \A x \in S : PutSlot(m, o, v)[x] = IF x = o THEN v ELSE m[x]
    BY DEF PutSlot
  <2>4. S \subseteq Int /\ \A x \in S : PutSlot(m, o, v)[x] \in AbsVals \ {Top}
    BY <2>1, <2>3
  <2> HIDE DEF S
  <2> QED BY <2>2, <2>3, <2>4, SlotMapMembership
<1> QED BY <1>1, <1>2, <1>3

(* Reading a slot yields a value; writing, dropping and erasing keep the   *)
(* state a state.                                                          *)
LEMMA SlotsTyped ==
  ASSUME NEW s \in AbsStates
  PROVE  /\ \A o \in Int : Slot(s, o) \in AbsVals
         /\ \A o \in Int, v \in AbsVals : SetSlot(s, o, v) \in AbsStates
         /\ \A d \in Int : DropSlotsBelow(s, d) \in AbsStates /\ DropDeadSlots(s, d) \in AbsStates
         /\ \A o, n \in Int : EraseSlots(s, o, n) \in AbsStates
<1>1. s.slots \in SlotMaps
  BY DEF AbsStates
<1>2. \A S \in SUBSET DOMAIN s.slots : [s EXCEPT !.slots = KeepSlots(@, S)] \in AbsStates
  BY <1>1, SlotUpdates, StateUpdates
<1>3. \A o \in Int, v \in AbsVals \ {Top} : [s EXCEPT !.slots = PutSlot(@, o, v)] \in AbsStates
  BY <1>1, SlotUpdates, StateUpdates
<1>4. \A o \in Int : Slot(s, o) \in AbsVals
  BY <1>1, SlotMapMembership, Values DEF Slot
<1>5. ASSUME NEW o \in Int, NEW v \in AbsVals PROVE SetSlot(s, o, v) \in AbsStates
  BY <1>2, <1>3 DEF SetSlot
<1>6. \A d \in Int : DropSlotsBelow(s, d) \in AbsStates
  BY <1>2 DEF DropSlotsBelow
<1>7. \A d \in Int : DropDeadSlots(s, d) \in AbsStates
  BY <1>6 DEF DropDeadSlots, kRedZoneBytes
<1>8. \A o, n \in Int : EraseSlots(s, o, n) \in AbsStates
  BY <1>2 DEF EraseSlots
<1> QED BY <1>4, <1>5, <1>6, <1>7, <1>8

(* So do the writes to registers.                                          *)
LEMMA RegsTyped ==
  ASSUME NEW s \in AbsStates
  PROVE  /\ \A r : InvalidateLastCmpFor(s, r) \in AbsStates
         /\ \A r \in GPRs, v \in AbsVals, t \in TableVals : SetRegTable(s, r, v, t) \in AbsStates
         /\ \A r \in GPRs, v \in AbsVals : SetReg(s, r, v) \in AbsStates
         /\ \A r \in GPRs, t \in TableVals : SetTableReg(s, r, t) \in AbsStates
         /\ \A r, q \in GPRs : CopyReg(s, r, q) \in AbsStates
         /\ \A r \in GPRs : ClobberReg(s, r) \in AbsStates
<1>1. ASSUME NEW x \in AbsStates, NEW r PROVE InvalidateLastCmpFor(x, r) \in AbsStates
  <2>1. x.last_cmp \in FlagsGuards \cup {nullopt}
    BY DEF AbsStates
  <2> QED BY <2>1, StateUpdates DEF InvalidateLastCmpFor
<1>2. ASSUME NEW r \in GPRs, NEW v \in AbsVals, NEW t \in TableVals
      PROVE  SetRegTable(s, r, v, t) \in AbsStates
  <2> DEFINE put == [s EXCEPT !.gpr[r] = v, !.tbl[r] = t]
             written == InvalidateLastCmpFor(put, r)
  <2>1. put \in AbsStates
    BY DEF AbsStates
  <2>2. written \in AbsStates
    <3> HIDE DEF put
    <3> QED BY <1>1, <2>1
  <2>3. v.delta \in Int
    BY DEF AbsVals
  <2>4. SetRegTable(s, r, v, t) = written \/ SetRegTable(s, r, v, t) = DropDeadSlots(written, v.delta)
    BY DEF SetRegTable
  <2> HIDE DEF written
  <2> QED BY <2>2, <2>3, <2>4, SlotsTyped
<1>3. s.gpr \in [GPRs -> AbsVals] /\ s.tbl \in [GPRs -> TableVals]
  BY DEF AbsStates
<1> QED BY <1>1, <1>2, <1>3, Values DEF SetReg, SetTableReg, CopyReg, ClobberReg

-----------------------------------------------------------------------------
(* The transfer functions map states to states.                            *)

(* Bounds stay bounds.                                                     *)
LEMMA BoundsTyped ==
  /\ kBoundTop \in Bounds
  /\ \A b \in Nat : WidthBound(b) \in Bounds
  /\ \A a, b \in Bounds : Smaller(a, b) \in Bounds
  /\ \A t \in TableVals, a, b \in Bounds :
       /\ [t EXCEPT !.value_bound = a] \in TableVals
       /\ [t EXCEPT !.table_bound = a] \in TableVals
       /\ [t EXCEPT !.value_bound = a, !.table_bound = b] \in TableVals
<1>1. kBoundTop \in Bounds
  BY WordAssumption DEF Bounds
<1>2. \A b \in Nat : WidthBound(b) \in Bounds
  BY <1>1, WordAssumption DEF Bounds, WidthBound, kBoundTop
<1>3. \A a, b \in Bounds : Smaller(a, b) \in Bounds
  BY DEF Smaller
<1>4. \A t \in TableVals, a, b \in Bounds :
       /\ [t EXCEPT !.value_bound = a] \in TableVals
       /\ [t EXCEPT !.table_bound = a] \in TableVals
       /\ [t EXCEPT !.value_bound = a, !.table_bound = b] \in TableVals
  BY DEF TableVals
<1> QED BY <1>1, <1>2, <1>3, <1>4

(* The state's table half, with bounds replaced.                           *)
LEMMA TableUpdates ==
  ASSUME NEW s \in AbsStates, NEW r \in GPRs, NEW b \in Bounds
  PROVE  /\ s.tbl[r] \in TableVals /\ s.tbl[r].value_bound \in Bounds /\ s.tbl[r].table_bound \in Bounds
         /\ [s EXCEPT !.tbl[r].value_bound = b] \in AbsStates
         /\ ApplyValueBound(s, r, b) \in AbsStates
         /\ ApplyGuardBound(s, r, b) \in AbsStates
<1>1. s.tbl[r] \in TableVals
  BY DEF AbsStates
<1>2. s.tbl[r].value_bound \in Bounds /\ s.tbl[r].table_bound \in Bounds
  BY <1>1 DEF TableVals
<1>3. ASSUME NEW x \in Bounds PROVE [s EXCEPT !.tbl[r].value_bound = x] \in AbsStates
  <2>1. [s EXCEPT !.tbl[r].value_bound = x] = [s EXCEPT !.tbl[r] = [s.tbl[r] EXCEPT !.value_bound = x]]
    OBVIOUS
  <2> QED BY <1>1, <2>1, BoundsTyped, StateUpdates
<1>4. ApplyValueBound(s, r, b) \in AbsStates
  BY <1>2, <1>3, BoundsTyped DEF ApplyValueBound
<1>5. ApplyGuardBound(s, r, b) \in AbsStates
  <2> DEFINE v == Smaller(s.tbl[r].value_bound, b)
             u == Smaller(s.tbl[r].table_bound, b)
  <2>1. v \in Bounds /\ u \in Bounds
    BY <1>2, BoundsTyped
  <2>2. ApplyGuardBound(s, r, b) =
          [s EXCEPT !.tbl[r] = [s.tbl[r] EXCEPT !.value_bound = v, !.table_bound = u]]
    BY DEF ApplyGuardBound, AbsStates, TableVals
  <2> HIDE DEF v, u
  <2>3. [s.tbl[r] EXCEPT !.value_bound = v, !.table_bound = u] \in TableVals
    BY <1>1, <2>1, BoundsTyped
  <2> QED BY <2>2, <2>3, StateUpdates
<1> QED BY <1>1, <1>2, <1>3, <1>4, <1>5

(* What the decoder promises of an operand.                                *)
LEMMA OperandFacts ==
  ASSUME NEW op \in Operands
  PROVE  /\ op.reg \in GPRs \cup {NoReg} /\ op.index \in GPRs \cup {NoReg}
         /\ IsFull64(op) => op.reg \in GPRs
         /\ IsGPR(op) => op.reg \in GPRs
         /\ op.reg \in GPRs => op.size \in 0..WordBits
         /\ op.size \in Nat /\ op.imm \in Int /\ op.disp \in Int
<1>1. NoReg \notin GPRs
  BY GPRsAssumption DEF NoReg
<1> QED BY <1>1 DEF Operands, IsFull64, IsGPR

(* What is read through an operand is a value.                             *)
LEMMA ReadsTyped ==
  ASSUME NEW s \in AbsStates, NEW op \in Operands
  PROVE  /\ ReadReg(s, op) \in AbsVals
         /\ HasMemSlot(s, op) => MemSlot(s, op) \in Int
         /\ LeaValue(s, op) \in AbsVals
         /\ LoadedValue(s, op) \in AbsVals
         /\ TableOf(s, op) \in TableVals
<1>1. s.gpr \in [GPRs -> AbsVals] /\ s.tbl \in [GPRs -> TableVals]
  BY DEF AbsStates
<1>2. ReadReg(s, op) \in AbsVals /\ TableOf(s, op) \in TableVals
  BY <1>1, OperandFacts, Values DEF ReadReg, TableOf
<1>3. HasMemSlot(s, op) => MemSlot(s, op) \in Int
  <2>1. \A v \in AbsVals : v.delta \in Int
    BY DEF AbsVals
  <2> QED BY <1>1, <2>1, OperandFacts DEF HasMemSlot, MemSlot
<1>4. LeaValue(s, op) \in AbsVals /\ LoadedValue(s, op) \in AbsVals
  BY <1>3, Values, SlotsTyped DEF LeaValue, LoadedValue
<1> QED BY <1>2, <1>3, <1>4

(* The generic write to a register.                                        *)
LEMMA ClobberWrittenRegTyped ==
  ASSUME NEW s \in AbsStates, NEW op \in Operands, op.reg \in GPRs
  PROVE  ClobberWrittenReg(s, op) \in AbsStates
<1>1. WrittenRegBound(op) \in Bounds
  <2>1. DwordBits \in Nat \/ op.size # DwordBits
    BY OperandFacts
  <2> QED BY <2>1, BoundsTyped DEF WrittenRegBound
<1>2. ClobberReg(s, op.reg) \in AbsStates
  BY RegsTyped
<1> QED BY <1>1, <1>2, TableUpdates DEF ClobberWrittenReg

(* One write of the generic clobber.                                       *)
LEMMA ClobberWriteTyped ==
  ASSUME NEW s \in AbsStates, NEW op \in Operands
  PROVE  ClobberWrite(s, op) \in AbsStates
<1>1. BytesOf(op) \in Int
  <2>1. op.size * 8 \in Int /\ WordBits \in Nat \ {0}
    BY OperandFacts, WordAssumption
  <2>2. (op.size * 8) \div WordBits \in Int
    BY <2>1
  <2> QED BY <2>2 DEF BytesOf, Larger
<1> QED BY <1>1, ClobberWrittenRegTyped, ReadsTyped, OperandFacts, SlotsTyped DEF ClobberWrite

(* All of them.                                                            *)
LEMMA ClobberWritesTyped ==
  ASSUME NEW s \in AbsStates, NEW insn \in Insns
  PROVE  ClobberWrites(insn, s) \in AbsStates
<1> DEFINE ops == insn.ops \o insn.hidden
           n == Len(ops)
           Step(x, i) == ClobberWrite(x, ops[i])
           step == [i \in 1..n |-> [x \in AbsStates |-> Step(x, i)]]
           after[i \in 0..n] == IF i = 0 THEN s ELSE Step(after[i - 1], i)
<1>1. ClobberWrites(insn, s) = after[n]
  BY Zenon DEF ClobberWrites
<1>2. ops \in Seq(Operands)
  BY DEF Insns
<1>3. n \in Nat /\ n \in 0..n /\ \A i \in 1..n : ops[i] \in Operands
  <2> HIDE DEF ops
  <2> QED BY <1>2
<1>4. \A i \in 1..n, x \in AbsStates : Step(x, i) \in AbsStates
  <2> HIDE DEF n, ops
  <2> QED BY <1>3, ClobberWriteTyped
<1> SUFFICES after[n] \in AbsStates
  BY <1>1
<1> HIDE DEF n, ops, Step
<1>5. \E f : f = [i \in 0..n |-> IF i = 0 THEN s ELSE Step(f[i - 1], i)]
  <2> HIDE DEF after
  <2>1. step \in [1..n -> [AbsStates -> AbsStates]] /\ \A i \in 1..n, x \in AbsStates : step[i][x] = Step(x, i)
    BY <1>4
  <2> HIDE DEF step
  <2>2. PICK f \in Runs(n, AbsStates, s, step) : TRUE
    BY <1>3, <2>1, RecursionExists
  <2>3. f = [i \in 0..n |-> IF i = 0 THEN s ELSE Step(f[i - 1], i)]
    BY <1>3, <2>1, <2>2 DEF Runs
  <2> QED BY <2>3
<1>6. after = [i \in 0..n |-> IF i = 0 THEN s ELSE Step(after[i - 1], i)]
  BY <1>5, Zenon
<1> HIDE DEF after
<1>7. after[0] \in AbsStates /\ \A i \in 1..n : after[i - 1] \in AbsStates => after[i] \in AbsStates
  BY <1>3, <1>4, <1>6
<1> QED BY <1>3, <1>7, StepsStay

(* Widening moves carry bounds over.                                       *)
LEMMA WidensTyped ==
  ASSUME NEW s \in AbsStates, NEW read \in AbsStates, NEW dst \in Operands, NEW op \in Operands,
         dst.reg \in GPRs
  PROVE  ZeroExtend(s, dst, read, op) \in AbsStates /\ SignExtend(s, dst, read, op) \in AbsStates
<1> DEFINE src == TableOf(read, op)
           guard == GuardOf(read, op)
<1>1. src \in TableVals /\ src.value_bound \in Bounds /\ src.table_bound \in Bounds
  BY ReadsTyped DEF TableVals
<1>2. guard \in Bounds
  <2>1. Proven(read.last_cmp) => read.last_cmp.proven_bound \in Bounds
    BY DEF AbsStates, Proven, FlagsGuards
  <2> QED BY <2>1, OperandFacts, BoundsTyped DEF GuardOf, ProvenGuardBound
<1>3. s.tbl[dst.reg] \in TableVals
  BY DEF AbsStates
<1> HIDE DEF src, guard
<1>4. ApplyZeroExtendedFrom(s.tbl[dst.reg], src, op.size, guard) \in TableVals
  BY <1>1, <1>2, <1>3, OperandFacts, BoundsTyped DEF ApplyZeroExtendedFrom
<1>5. ApplySignExtendedFrom(s.tbl[dst.reg], src, op.size, guard) \in TableVals
  BY <1>1, <1>2, <1>3, OperandFacts, BoundsTyped DEF ApplySignExtendedFrom
<1> QED BY <1>4, <1>5, StateUpdates DEF ZeroExtend, SignExtend, src, guard

(* Calls, pushes, pops and leave.                                          *)
LEMMA CallEffectTyped == ASSUME NEW s \in AbsStates PROVE CallEffect(s) \in AbsStates
<1>1. ASSUME NEW x \in AbsStates PROVE ClobberCallerSaved(x) \in AbsStates
  <2>1. [r \in GPRs |-> IF r \in kCallerSaved THEN Top ELSE x.gpr[r]] \in [GPRs -> AbsVals]
    BY Values DEF AbsStates
  <2>2. [r \in GPRs |-> IF r \in kCallerSaved THEN None ELSE x.tbl[r]] \in [GPRs -> TableVals]
    BY Values DEF AbsStates
  <2>3. (IF x.last_cmp.reg \in kCallerSaved THEN nullopt ELSE x.last_cmp) \in FlagsGuards \cup {nullopt}
    BY DEF AbsStates
  <2> QED BY <2>1, <2>2, <2>3 DEF ClobberCallerSaved, AbsStates
<1>2. s.gpr[kDWARFRsp].kind = "kCFARel" => s.gpr[kDWARFRsp].delta \in Int
  BY GPRsAssumption DEF AbsStates, AbsVals
<1> QED BY <1>1, <1>2, SlotsTyped DEF CallEffect

(* The stack pointer is tracked, and a known one is at an offset.          *)
LEMMA RspFacts ==
  ASSUME NEW s \in AbsStates
  PROVE  /\ kDWARFRsp \in GPRs /\ kDWARFRbp \in GPRs
         /\ \A r \in GPRs : s.gpr[r] \in AbsVals /\ s.gpr[r].delta \in Int
  BY GPRsAssumption DEF AbsStates, AbsVals

(* push and pushfq                                                         *)
LEMMA PushEffectTyped ==
  ASSUME NEW s \in AbsStates, NEW insn \in Insns, insn.id \in {"push", "pushfq"}
  PROVE  PushEffect(insn, s) \in AbsStates
<1>1. CASE OddStackWidth(insn)
  BY <1>1, RspFacts, RegsTyped DEF PushEffect
<1>2. CASE ~OddStackWidth(insn)
  <2> DEFINE at == s.gpr[kDWARFRsp].delta - 8
             moved == SetReg(s, kDWARFRsp, CFARel(at))
  <2>1. PushedValue(insn, s) \in AbsVals
    <3>1. insn.id = "push" => insn.ops[1] \in Operands
      BY <1>2 DEF OddStackWidth, Insns
    <3> QED BY <3>1, ReadsTyped, Values DEF PushedValue
  <2>2. at \in Int
    BY RspFacts
  <2>3. CFARel(at) \in AbsVals
    <3> HIDE DEF at
    <3> QED BY <2>2, Values
  <2>4. moved \in AbsStates
    <3> HIDE DEF at
    <3> QED BY <2>3, RspFacts, RegsTyped
  <2>5. PushEffect(insn, s) = s \/ PushEffect(insn, s) = SetSlot(moved, at, PushedValue(insn, s))
    BY <1>2 DEF PushEffect
  <2> HIDE DEF at, moved
  <2> QED BY <2>1, <2>2, <2>4, <2>5, SlotsTyped
<1> QED BY <1>1, <1>2

(* pop and popfq                                                           *)
LEMMA PopEffectTyped ==
  ASSUME NEW s \in AbsStates, NEW insn \in Insns, insn.id \in {"pop", "popfq"}
  PROVE  PopEffect(insn, s) \in AbsStates
<1>1. CASE OddStackWidth(insn)
  BY <1>1, RspFacts, RegsTyped DEF PopEffect
<1>2. CASE ~OddStackWidth(insn)
  <2> DEFINE rsp == s.gpr[kDWARFRsp]
             tracked == rsp.kind = "kCFARel"
             popped == IF tracked THEN Slot(s, rsp.delta) ELSE Top
             moved == IF tracked THEN SetReg(s, kDWARFRsp, CFARel(rsp.delta + 8)) ELSE s
             dst == insn.ops[1]
  <2>1. popped \in AbsVals
    BY RspFacts, SlotsTyped, Values
  <2>2. moved \in AbsStates
    <3>1. rsp.delta + 8 \in Int
      BY RspFacts
    <3>2. CFARel(rsp.delta + 8) \in AbsVals
      BY <3>1, Values
    <3> QED BY <3>2, RspFacts, RegsTyped
  <2>3. insn.id # "popfq" => dst \in Operands
    BY <1>2 DEF OddStackWidth, Insns
  <2>4. PopEffect(insn, s) =
          IF insn.id = "popfq" THEN moved
          ELSE IF IsGPR(dst) THEN SetReg(moved, dst.reg, IF IsFull64(dst) THEN popped ELSE Top)
          ELSE IF dst.type = "mem" /\ HasMemSlot(moved, dst)
               THEN SetSlot(moved, MemSlot(moved, dst), popped)
          ELSE moved
    BY <1>2, Zenon DEF PopEffect
  <2> HIDE DEF rsp, tracked, popped, moved, dst
  <2> QED BY <2>1, <2>2, <2>3, <2>4, OperandFacts, ReadsTyped, RegsTyped, SlotsTyped, Values
<1> QED BY <1>1, <1>2

(* leave                                                                   *)
LEMMA LeaveEffectTyped == ASSUME NEW s \in AbsStates PROVE LeaveEffect(s) \in AbsStates
<1> DEFINE moved == CopyReg(s, kDWARFRsp, kDWARFRbp)
           rsp == moved.gpr[kDWARFRsp]
           popped == SetReg(moved, kDWARFRbp, Slot(moved, rsp.delta))
<1>1. moved \in AbsStates
  BY RspFacts, RegsTyped
<1>2. LeaveEffect(s) = SetReg(popped, kDWARFRsp, CFARel(rsp.delta + 8)) \/ LeaveEffect(s) = ClobberReg(moved, kDWARFRbp)
  BY DEF LeaveEffect
<1> HIDE DEF moved
<1>3. rsp.delta \in Int /\ rsp.delta + 8 \in Int
  BY <1>1, RspFacts
<1> HIDE DEF rsp
<1>4. popped \in AbsStates
  BY <1>1, <1>3, RspFacts, SlotsTyped, RegsTyped
<1>5. CFARel(rsp.delta + 8) \in AbsVals
  BY <1>3, Values
<1> HIDE DEF popped
<1> QED BY <1>1, <1>2, <1>4, <1>5, RspFacts, RegsTyped

(* lea and mov                                                             *)
LEMMA MovesTyped ==
  ASSUME NEW s \in AbsStates, NEW dst \in Operands, NEW src \in Operands
  PROVE  /\ IsGPR(dst) => LeaEffect(dst, src, s) \in AbsStates /\ MovToReg(dst, src, s) \in AbsStates
         /\ MovToMem(dst, src, s) \in AbsStates
<1>1. IsGPR(dst) => ClobberWrittenReg(s, dst) \in AbsStates
  BY ClobberWrittenRegTyped, OperandFacts
<1>2. IsGPR(dst) => LeaEffect(dst, src, s) \in AbsStates
  BY <1>1, OperandFacts, ReadsTyped, RegsTyped, Values DEF LeaEffect
<1>3. IsGPR(dst) => MovToReg(dst, src, s) \in AbsStates
  <2>1. IsGPR(dst) => ZeroExtend(ClobberWrittenReg(s, dst), dst, s, src) \in AbsStates
    BY <1>1, OperandFacts, WidensTyped
  <2> QED BY <1>1, <2>1, OperandFacts, ReadsTyped, RegsTyped, Values DEF MovToReg
<1>4. MovToMem(dst, src, s) \in AbsStates
  <2>1. BytesOf(dst) \in Int
    <3>1. dst.size * 8 \in Int /\ WordBits \in Nat \ {0}
      BY OperandFacts, WordAssumption
    <3>2. (dst.size * 8) \div WordBits \in Int
      BY <3>1
    <3> QED BY <3>2 DEF BytesOf, Larger
  <2> DEFINE at == MemSlot(s, dst)
             erased == EraseSlots(s, at, BytesOf(dst))
  <2>2. CASE ~HasMemSlot(s, dst)
    BY <2>2 DEF MovToMem
  <2>3. CASE HasMemSlot(s, dst)
    <3>1. at \in Int
      BY <2>3, ReadsTyped
    <3>2. erased \in AbsStates
      BY <2>1, <3>1, SlotsTyped
    <3>3. MovToMem(dst, src, s) = SetSlot(erased, at, ReadReg(s, src)) \/ MovToMem(dst, src, s) = erased
      BY <2>3 DEF MovToMem
    <3> HIDE DEF at, erased
    <3> QED BY <3>1, <3>2, <3>3, ReadsTyped, SlotsTyped
  <2> QED BY <2>2, <2>3
<1> QED BY <1>2, <1>3, <1>4

(* A table load.                                                           *)
LEMMA MovsxdTyped ==
  ASSUME NEW s \in AbsStates, NEW insn \in Insns, NEW dst \in Operands, NEW src \in Operands,
         dst.reg \in GPRs
  PROVE  MovsxdEffect(insn, dst, src, s) \in AbsStates
<1>1. CASE IsGPR(src)
  <2>1. ClobberReg(s, dst.reg) \in AbsStates
    BY RegsTyped
  <2> QED BY <1>1, <2>1, WidensTyped DEF MovsxdEffect
<1>2. CASE ~IsGPR(src) /\ IsTableLoad(s, src)
  <2> DEFINE base == s.tbl[src.base].addr
             bound == s.tbl[src.index].table_bound
  <2>1. base \in Int
    <3>1. s.tbl[src.base] \in TableVals
      BY <1>2 DEF IsTableLoad, AbsStates
    <3> QED BY <3>1 DEF TableVals
  <2>2. src.index \in GPRs /\ bound \in Bounds
    BY <1>2, OperandFacts, TableUpdates, BoundsTyped DEF IsTableLoad
  <2>3. MovsxdEffect(insn, dst, src, s) =
          SetTableReg(s, dst.reg, TableEntry(base + src.disp, src.index, base, bound))
    BY <1>2 DEF MovsxdEffect
  <2> HIDE DEF base, bound
  <2>4. base + src.disp \in Int
    BY <2>1, OperandFacts
  <2>5. TableEntry(base + src.disp, src.index, base, bound) \in TableVals
    BY <2>1, <2>2, <2>4, Values
  <2> QED BY <2>3, <2>5, RegsTyped
<1>3. CASE ~IsGPR(src) /\ ~IsTableLoad(s, src)
  BY <1>3, ClobberWritesTyped DEF MovsxdEffect
<1> QED BY <1>1, <1>2, <1>3

(* add and sub                                                             *)
LEMMA AddsTyped ==
  ASSUME NEW s \in AbsStates, NEW insn \in Insns, NEW dst \in Operands, NEW src \in Operands, NEW i \in Int,
         dst.reg \in GPRs
  PROVE  /\ AddImmEffect(insn, dst, i, s) \in AbsStates
         /\ src.reg \in GPRs => AddRegEffect(insn, dst, src, s) \in AbsStates
<1>1. AddImmEffect(insn, dst, i, s) \in AbsStates
  <2> DEFINE sum == IF insn.id = "add" THEN s.gpr[dst.reg].delta + i ELSE s.gpr[dst.reg].delta - i
  <2>1. sum \in Int
    BY RspFacts
  <2>2. AddImmEffect(insn, dst, i, s) = ClobberWrittenReg(s, dst)
        \/ AddImmEffect(insn, dst, i, s) = SetReg(s, dst.reg, CFARel(sum))
    BY DEF AddImmEffect
  <2> HIDE DEF sum
  <2> QED BY <2>1, <2>2, ClobberWrittenRegTyped, RegsTyped, Values
<1>2. ASSUME src.reg \in GPRs PROVE AddRegEffect(insn, dst, src, s) \in AbsStates
  <2>1. ASSUME NEW r \in GPRs, s.tbl[r].kind = "kTableEntry"
        PROVE  DispatchTarget(s.tbl[r]) \in TableVals
    <3>1. s.tbl[r] \in TableVals
      BY DEF AbsStates
    <3>2. /\ s.tbl[r].addr \in Int /\ s.tbl[r].index_reg \in 0..15 /\ s.tbl[r].table_bound \in Bounds
          /\ kBoundTop \in Bounds
      BY <3>1, BoundsTyped DEF TableVals
    <3> QED BY <3>2 DEF DispatchTarget, JumpTarget, TableVal, TableVals
  <2> QED BY <1>2, <2>1, ClobberWritesTyped, RegsTyped DEF AddRegEffect, Dispatches
<1> QED BY <1>1, <1>2

(* cmp, and the widening moves                                             *)
LEMMA CmpAndMovxTyped ==
  ASSUME NEW s \in AbsStates, NEW insn \in Insns, NEW dst \in Operands, NEW src \in Operands, NEW i \in Int,
         dst.reg \in GPRs
  PROVE  /\ CmpEffect(dst, i, s) \in AbsStates
         /\ MovxEffect(insn, dst, src, s) \in AbsStates
<1>1. CmpEffect(dst, i, s) \in AbsStates
  <2> DEFINE m == 2^dst.size
  <2>1. dst.size \in Nat /\ m \in 1..2^WordBits /\ 2^WordBits = kBoundTop + 1 /\ kBoundTop \in Nat
    <3>1. 2^WordBits \in 1..2^WordBits
      BY WordAssumption
    <3> QED BY <3>1, OperandFacts, WordAssumption DEF kBoundTop
  <2> HIDE DEF m
  <2>2. i % m \in 0..(m - 1)
    BY <2>1
  <2>3. i % m \in Bounds
    BY <2>1, <2>2 DEF Bounds
  <2>4. FlagsGuard(dst.reg, dst.size, i % m, kBoundTop) \in FlagsGuards
    BY <2>1, <2>3, BoundsTyped DEF FlagsGuard, FlagsGuards
  <2> QED BY <2>4, StateUpdates DEF CmpEffect, m
<1>2. MovxEffect(insn, dst, src, s) \in AbsStates
  <2> DEFINE clobbered == ClobberWrittenReg(s, dst)
             widened == IF insn.id = "movzx" THEN ZeroExtend(clobbered, dst, s, src)
                                             ELSE SignExtend(clobbered, dst, s, src)
  <2>1. clobbered \in AbsStates
    BY ClobberWrittenRegTyped
  <2>2. widened \in AbsStates
    <3> HIDE DEF clobbered
    <3> QED BY <2>1, WidensTyped
  <2>3. WrittenRegBound(dst) \in Bounds
    BY OperandFacts, BoundsTyped DEF WrittenRegBound
  <2>4. MovxEffect(insn, dst, src, s) = clobbered
        \/ MovxEffect(insn, dst, src, s) = ApplyValueBound(widened, dst.reg, WrittenRegBound(dst))
    BY DEF MovxEffect
  <2> HIDE DEF clobbered, widened
  <2> QED BY <2>1, <2>2, <2>3, <2>4, TableUpdates
<1> QED BY <1>1, <1>2

(* The whole switch.                                                       *)
LEMMA EffectTyped ==
  ASSUME NEW s \in AbsStates, NEW insn \in Insns
  PROVE  Effect(insn, s) \in AbsStates
<1> DEFINE dst == insn.ops[1]
           src == insn.ops[2]
           to_gpr == Len(insn.ops) = 2 /\ IsGPR(dst)
<1>1. Len(insn.ops) = 2 => dst \in Operands /\ src \in Operands
  BY DEF Insns
<1>2. insn.id = "mov" => Len(insn.ops) = 2
  BY DEF Insns
<1>3. Len(insn.ops) = 2 => (IsGPR(dst) => dst.reg \in GPRs) /\ (IsGPR(src) => src.reg \in GPRs) /\ src.imm \in Int
  BY <1>1, OperandFacts
<1>4. Effect(insn, s) \in
        {s, CallEffect(s), LeaveEffect(s), ClobberWrites(insn, s)}
        \cup (IF insn.id \in {"push", "pushfq"} THEN {PushEffect(insn, s)} ELSE {})
        \cup (IF insn.id \in {"pop", "popfq"} THEN {PopEffect(insn, s)} ELSE {})
        \cup (IF insn.id = "mov" THEN {MovToMem(dst, src, s)} ELSE {})
        \cup (IF to_gpr
              THEN {LeaEffect(dst, src, s), MovToReg(dst, src, s), MovsxdEffect(insn, dst, src, s),
                    AddImmEffect(insn, dst, src.imm, s), CmpEffect(dst, src.imm, s),
                    MovxEffect(insn, dst, src, s)}
              ELSE {})
        \cup (IF to_gpr /\ IsGPR(src) THEN {AddRegEffect(insn, dst, src, s)} ELSE {})
  BY DEF Effect
<1> HIDE DEF dst, src
<1>5. {s, CallEffect(s), LeaveEffect(s), ClobberWrites(insn, s)} \subseteq AbsStates
  BY CallEffectTyped, LeaveEffectTyped, ClobberWritesTyped
<1>6. /\ insn.id \in {"push", "pushfq"} => PushEffect(insn, s) \in AbsStates
      /\ insn.id \in {"pop", "popfq"} => PopEffect(insn, s) \in AbsStates
  BY PushEffectTyped, PopEffectTyped
<1>7. insn.id = "mov" => MovToMem(dst, src, s) \in AbsStates
  BY <1>1, <1>2, MovesTyped
<1>8. to_gpr => LeaEffect(dst, src, s) \in AbsStates /\ MovToReg(dst, src, s) \in AbsStates
  BY <1>1, MovesTyped
<1>9. to_gpr => MovsxdEffect(insn, dst, src, s) \in AbsStates /\ AddImmEffect(insn, dst, src.imm, s) \in AbsStates
  BY <1>1, <1>3, MovsxdTyped, AddsTyped
<1>10. to_gpr => CmpEffect(dst, src.imm, s) \in AbsStates /\ MovxEffect(insn, dst, src, s) \in AbsStates
  BY <1>1, <1>3, CmpAndMovxTyped
<1>11. to_gpr /\ IsGPR(src) => AddRegEffect(insn, dst, src, s) \in AbsStates
  BY <1>1, <1>3, AddsTyped
<1> QED BY <1>4, <1>5, <1>6, <1>7, <1>8, <1>9, <1>10, <1>11

(* InsnSemantics::Transfer and TransferEdge map states to states, for      *)
(* every instruction the decoder hands over.                               *)
THEOREM TransferTyped ==
  ASSUME NEW s \in AbsStates, NEW insn \in Insns
  PROVE  /\ Transfer(insn, s).state \in AbsStates
         /\ \A edge : TransferEdge(insn, edge, s) \in AbsStates
<1>1. ForgetFlags(insn, s) \in AbsStates
  BY StateUpdates DEF ForgetFlags
<1>2. Transfer(insn, s).state \in AbsStates
  BY <1>1, EffectTyped DEF Transfer
<1>3. ASSUME NEW edge PROVE TransferEdge(insn, edge, s) \in AbsStates
  <2>1. ASSUME s.last_cmp # nullopt, NEW b \in Bounds PROVE ProveGuard(s, b) \in AbsStates
    <3> DEFINE carried == [s EXCEPT !.last_cmp.proven_bound = b]
    <3>1. s.last_cmp \in FlagsGuards
      BY <2>1 DEF AbsStates
    <3>2. [s.last_cmp EXCEPT !.proven_bound = b] \in FlagsGuards /\ s.last_cmp.reg \in GPRs
      BY <2>1, <3>1 DEF FlagsGuards
    <3>3. carried \in AbsStates
      BY <3>2, StateUpdates
    <3>4. ProveGuard(s, b) = carried \/ ProveGuard(s, b) = ApplyGuardBound(carried, s.last_cmp.reg, b)
      BY DEF ProveGuard
    <3> HIDE DEF carried
    <3> QED BY <2>1, <3>2, <3>3, <3>4, TableUpdates
  <2>2. ASSUME s.last_cmp # nullopt
        PROVE  s.last_cmp.imm \in Bounds /\ (s.last_cmp.imm # 0 => s.last_cmp.imm - 1 \in Bounds)
    <3>1. s.last_cmp.imm \in Bounds
      BY <2>2 DEF AbsStates, FlagsGuards
    <3> QED BY <3>1, WordAssumption DEF Bounds
  <2> QED BY <2>1, <2>2 DEF TransferEdge
<1> QED BY <1>2, <1>3

(* Control flow: the outcome's fields have their types.                    *)
LEMMA OutcomeTyped ==
  ASSUME NEW s \in AbsStates, NEW insn \in Insns
  PROVE  LET out == Transfer(insn, s).out IN
         /\ out.direct_target \in Int /\ out.jump_table_addr \in Int /\ out.jump_table_entries \in Nat
         /\ out.unbounded_jump_table_addr \in Int
         /\ out.review_reason \in {"none", "odd stack width"}
<1> DEFINE f == ForgetFlags(insn, s)
           out == Outcome(insn, f)
           Typed(o) == /\ o.direct_target \in Int /\ o.jump_table_addr \in Int /\ o.jump_table_entries \in Nat
                       /\ o.unbounded_jump_table_addr \in Int
                       /\ o.review_reason \in {"none", "odd stack width"}
<1>1. f \in AbsStates
  BY StateUpdates DEF ForgetFlags
<1>2. Transfer(insn, s).out = out
  BY DEF Transfer
<1> HIDE DEF f
<1>3. ASSUME insn.id \in Branches PROVE Typed(BranchOutcome(insn, f))
  <2> DEFINE op == insn.ops[1]
             t == TableOf(f, op)
  <2>1. op \in Operands
    BY <1>3 DEF Insns
  <2>2. op.imm \in Int /\ t \in TableVals
    BY <1>1, <2>1, OperandFacts, ReadsTyped
  <2>3. t.addr \in Int /\ t.table_bound + 1 \in Nat
    BY <2>2 DEF TableVals, Bounds
  <2> HIDE DEF op, t
  <2> DEFINE falls == insn.id # "jmp"
             fresh == [Continues EXCEPT !.falls_through = falls]
             direct == [fresh EXCEPT !.has_direct_target = TRUE, !.direct_target = op.imm]
             bounded == [fresh EXCEPT !.has_jump_table = TRUE, !.jump_table_addr = t.addr,
                                      !.jump_table_entries = t.table_bound + 1]
             unbounded == [fresh EXCEPT !.has_unbounded_jump_target = TRUE,
                                        !.unbounded_jump_table_addr = t.addr, !.indirect_branch = TRUE]
             indirect == [fresh EXCEPT !.indirect_branch = TRUE]
  <2>4. BranchOutcome(insn, f) \in {direct, bounded, unbounded, indirect}
    <3>1. BranchOutcome(insn, f) =
            CASE op.type = "imm" -> direct
              [] t.kind = "kJumpTarget" /\ t.table_bound # kBoundTop -> bounded
              [] t.kind = "kJumpTarget" /\ t.table_bound = kBoundTop -> unbounded
              [] OTHER -> indirect
      BY Zenon DEF BranchOutcome, op, t
    <3> HIDE DEF direct, bounded, unbounded, indirect
    <3> QED BY <3>1
  <2> HIDE DEF falls
  <2>5. Typed(direct) /\ Typed(bounded) /\ Typed(unbounded) /\ Typed(indirect)
    BY <2>2, <2>3 DEF Continues
  <2> HIDE DEF direct, bounded, unbounded, indirect, Typed
  <2> QED BY <2>4, <2>5
<1>4. Typed(out)
  <2> DEFINE returns == [Stops EXCEPT !.is_return = TRUE]
             calls == [Continues EXCEPT !.is_call = TRUE]
             odd == [Continues EXCEPT !.review_reason = "odd stack width"]
  <2>1. Typed(Continues) /\ Typed(Stops) /\ Typed(returns) /\ Typed(calls) /\ Typed(odd)
    BY DEF Continues, Stops
  <2>2. out = CASE insn.id \in {"ret", "iret"} -> returns
                [] insn.id \in Branches      -> BranchOutcome(insn, f)
                [] insn.id \in NeverReturns  -> Stops
                [] insn.id = "call"          -> calls
                [] OddStackWidth(insn)       -> odd
                [] OTHER                     -> Continues
    BY Zenon DEF Outcome
  <2> HIDE DEF Typed, out, returns, calls, odd
  <2>3. \/ insn.id \in Branches /\ out = BranchOutcome(insn, f)
        \/ out \in {Continues, Stops, returns, calls, odd}
    BY <2>2
  <2> QED BY <1>3, <2>1, <2>3
<1>5. Typed(Transfer(insn, s).out)
  <2> HIDE DEF out
  <2> QED BY <1>2, <1>4
<1> HIDE DEF out
<1> QED BY <1>5

-----------------------------------------------------------------------------
(* Seeding from a row yields a state.                                      *)

(* One rule.                                                               *)
LEMMA SeedRuleTyped ==
  ASSUME NEW s \in AbsStates, NEW r \in DWARFRegs, NEW rule \in AllRegRules, NEW entry
  PROVE  SeedRule(s, r, rule, entry) \in AbsStates
<1>1. rule.offset \in Int /\ OrigReg(r) \in AbsVals \ {Top} /\ CFARel(rule.offset) \in AbsVals /\ Top \in AbsVals
  BY Values DEF AllRegRules
<1>2. [s EXCEPT !.slots = PutSlot(@, rule.offset, OrigReg(r))] \in AbsStates
  <2>1. s.slots \in SlotMaps
    BY DEF AbsStates
  <2> QED BY <1>1, <2>1, SlotUpdates, StateUpdates
<1> QED BY <1>1, <1>2, StateUpdates DEF SeedRule

(* All rules, then rsp and the CFA.                                        *)
LEMMA SeedTyped ==
  ASSUME NEW row \in CFIRows, NEW entry
  PROVE  SeedFromRow(row, entry) \in AbsStates
<1> DEFINE all_orig == [gpr |-> [r \in GPRs |-> OrigReg(r)], tbl |-> [r \in GPRs |-> None],
                        slots |-> EmptySlots, last_cmp |-> nullopt]
           Step(s, i) == IF i - 1 \in DWARFRegs THEN SeedRule(s, i - 1, row.regs[i - 1], entry) ELSE s
           step == [i \in 1..17 |-> [s \in AbsStates |-> Step(s, i)]]
           seeded[n \in 0..17] ==
             IF n = 0 THEN all_orig
             ELSE IF n - 1 \in DWARFRegs THEN SeedRule(seeded[n - 1], n - 1, row.regs[n - 1], entry)
             ELSE seeded[n - 1]
           unanchored == [seeded[17] EXCEPT !.gpr[kDWARFRsp] = Top]
<1>1. SeedFromRow(row, entry) =
        IF row.cfa.kind = "kRegOffset" /\ row.cfa.reg \in GPRs
        THEN [unanchored EXCEPT !.gpr[row.cfa.reg] = CFARel(-row.cfa.offset)]
        ELSE unanchored
  BY Zenon DEF SeedFromRow
<1>2. all_orig \in AbsStates
  <2>1. EmptySlots \in SlotMaps
    <3>1. PICK m : m \in SlotMaps
      <4>1. [o \in {} |-> Top] \in [{} -> AbsVals \ {Top}] /\ IsFiniteSet({}) /\ {} \in SUBSET Int
        BY FS_EmptySet
      <4> QED BY <4>1 DEF SlotMaps
    <3> QED BY <3>1, SlotUpdates
  <2>2. [r \in GPRs |-> OrigReg(r)] \in [GPRs -> AbsVals] /\ [r \in GPRs |-> None] \in [GPRs -> TableVals]
    BY Values DEF DWARFRegs
  <2> QED BY <2>1, <2>2 DEF AbsStates
<1>3. \A i \in 1..17, s \in AbsStates : Step(s, i) \in AbsStates
  BY SeedRuleTyped DEF CFIRows
<1> HIDE DEF all_orig
<1>4. \E f : f = [n \in 0..17 |-> IF n = 0 THEN all_orig
                 ELSE IF n - 1 \in DWARFRegs THEN SeedRule(f[n - 1], n - 1, row.regs[n - 1], entry)
                 ELSE f[n - 1]]
  <2> HIDE DEF seeded, Step
  <2>1. step \in [1..17 -> [AbsStates -> AbsStates]] /\ \A i \in 1..17, s \in AbsStates : step[i][s] = Step(s, i)
    BY <1>3
  <2> HIDE DEF step
  <2>2. PICK f \in Runs(17, AbsStates, all_orig, step) : TRUE
    BY <1>2, <2>1, RecursionExists
  <2>3. f = [n \in 0..17 |-> IF n = 0 THEN all_orig ELSE Step(f[n - 1], n)]
    BY <2>1, <2>2 DEF Runs
  <2>4. f = [n \in 0..17 |-> IF n = 0 THEN all_orig
             ELSE IF n - 1 \in DWARFRegs THEN SeedRule(f[n - 1], n - 1, row.regs[n - 1], entry)
             ELSE f[n - 1]]
    BY <2>3, Zenon DEF Step
  <2> QED BY <2>4
<1>5. seeded = [n \in 0..17 |-> IF n = 0 THEN all_orig
                 ELSE IF n - 1 \in DWARFRegs THEN SeedRule(seeded[n - 1], n - 1, row.regs[n - 1], entry)
                 ELSE seeded[n - 1]]
  BY <1>4, Zenon
<1> HIDE DEF seeded
<1>6. seeded[0] = all_orig /\ \A i \in 1..17 : seeded[i] = Step(seeded[i - 1], i)
  BY <1>5
<1> HIDE DEF Step
<1>7. seeded[17] \in AbsStates
  <2>1. seeded[0] \in AbsStates /\ \A i \in 1..17 : seeded[i - 1] \in AbsStates => seeded[i] \in AbsStates
    BY <1>2, <1>3, <1>6
  <2>2. \A i \in 0..17 : seeded[i] \in AbsStates
    BY <2>1, StepsStay
  <2> QED BY <2>2
<1>8. unanchored \in AbsStates
  BY <1>7, GPRsAssumption, Values, StateUpdates
<1>9. CFARel(-row.cfa.offset) \in AbsVals
  <2>1. -row.cfa.offset \in Int
    BY DEF CFIRows, CFARules
  <2> QED BY <2>1, Values
<1> HIDE DEF unanchored
<1> QED BY <1>1, <1>8, <1>9, StateUpdates
=============================================================================
