------------------------------ MODULE AbsState ------------------------------
(***************************************************************************)
(* The abstract machine state of the checker (abs-state.h, abs-state.cc)   *)
(* and the declared rows it is compared with (cfi-table.h): pure operators *)
(* that the modules with variables are built from.                         *)
(*                                                                         *)
(* Registers are DWARF numbers.  GPRs are the ones an instance tracks; the *)
(* code tracks 0..15.  A machine word has WordBits bits, 64 in the code;   *)
(* only the bounds depend on it, and stack offsets are plain integers.     *)
(***************************************************************************)
EXTENDS Integers, Sequences, FiniteSets

CONSTANTS GPRs, WordBits

kDWARFRax == 0
kDWARFRcx == 2
kDWARFRbx == 3
kDWARFRbp == 6
kDWARFRsp == 7
kDWARFRip == 16

DWARFRegs == GPRs \cup {kDWARFRip}

(* The bound lattice: an inclusive upper bound on an unsigned word.        *)
kBoundTop == 2^WordBits - 1

WidthBound(bits) == IF bits >= WordBits THEN kBoundTop ELSE 2^bits - 1

Larger(a, b) == IF a >= b THEN a ELSE b

Smaller(a, b) == IF a <= b THEN a ELSE b

ASSUME GPRsAssumption == GPRs \subseteq 0..15 /\ {kDWARFRbp, kDWARFRsp} \subseteq GPRs

ASSUME WordAssumption ==
  WordBits \in Nat \ {0} /\ kBoundTop \in Nat /\ \A b \in 0..WordBits : 2^b \in 1..2^WordBits

(* The sequences in parts, one after the other.                            *)
InOrder(parts) ==
  LET upto[n \in 0..Len(parts)] == IF n = 0 THEN <<>> ELSE upto[n - 1] \o parts[n]
  IN  upto[Len(parts)]

-----------------------------------------------------------------------------
(* AbsVal: the CFI lattice.                                                *)

AbsVals == [kind : {"kTop", "kBottom", "kCFARel", "kOrigReg", "kOther"},
            delta : Int, reg : 0..16]

Top == [kind |-> "kTop", delta |-> 0, reg |-> 0]

Bottom == [kind |-> "kBottom", delta |-> 0, reg |-> 0]

CFARel(d) == [kind |-> "kCFARel", delta |-> d, reg |-> 0]

OrigReg(r) == [kind |-> "kOrigReg", delta |-> 0, reg |-> r]

Other == [kind |-> "kOther", delta |-> 0, reg |-> 0]

IsUnknown(v) == v.kind \in {"kTop", "kBottom"}

(* TableVal: what resolving a switch table needs, registers only.          *)

Bounds == 0..kBoundTop

TableVal(k, a, idx, base, tb) ==
  [kind |-> k, addr |-> a, index_reg |-> idx, base_const |-> base,
   value_bound |-> kBoundTop, table_bound |-> tb]

None == TableVal("kNone", 0, 0, 0, kBoundTop)

Conflict == TableVal("kConflict", 0, 0, 0, kBoundTop)

Const(a) == TableVal("kConst", a, 0, 0, kBoundTop)

TableEntry(a, idx, base, index_bound) == TableVal("kTableEntry", a, idx, base, index_bound)

JumpTarget(a, idx, index_bound) == TableVal("kJumpTarget", a, idx, 0, index_bound)

SameIdentity(t, u) ==
  /\ t.kind = u.kind
  /\ t.addr = u.addr
  /\ t.index_reg = u.index_reg
  /\ t.base_const = u.base_const

(* A value that knows nothing or gave up names no table.                   *)
TableVals ==
  {t \in [kind : {"kNone", "kConflict", "kConst", "kTableEntry", "kJumpTarget"},
          addr : Int, index_reg : 0..15, base_const : Int,
          value_bound : Bounds, table_bound : Bounds] :
     t.kind \in {"kNone", "kConflict"} => t.addr = 0 /\ t.index_reg = 0 /\ t.base_const = 0}

(* FlagsGuard: the compare-with-immediate in play; nullopt when none is.   *)

FlagsGuard(r, width, i, b) == [reg |-> r, width_bits |-> width, imm |-> i, proven_bound |-> b]

nullopt == FlagsGuard(-1, 0, 0, kBoundTop)

FlagsGuards == [reg : GPRs, width_bits : Nat, imm : Bounds, proven_bound : Bounds]

Proven(guard) == guard # nullopt /\ guard.proven_bound # kBoundTop

-----------------------------------------------------------------------------
(* AbsState.  An offset that is not in DOMAIN slots reads as Top.          *)

SlotMaps == UNION {[S -> AbsVals \ {Top}] : S \in {T \in SUBSET Int : IsFiniteSet(T)}}

AbsStates == [gpr : [GPRs -> AbsVals], tbl : [GPRs -> TableVals],
              slots : SlotMaps, last_cmp : FlagsGuards \cup {nullopt}]

EmptySlots == [o \in {} |-> Top]

KeepSlots(slots, offsets) == [o \in offsets |-> slots[o]]

PutSlot(slots, offset, v) ==
  [o \in DOMAIN slots \cup {offset} |-> IF o = offset THEN v ELSE slots[o]]

Slot(s, offset) == IF offset \in DOMAIN s.slots THEN s.slots[offset] ELSE Top

SetSlot(s, offset, v) ==
  [s EXCEPT !.slots = IF v = Top THEN KeepSlots(@, DOMAIN @ \ {offset})
                                 ELSE PutSlot(@, offset, v)]

DropSlotsBelow(s, rsp_delta) ==
  [s EXCEPT !.slots = KeepSlots(@, {o \in DOMAIN @ : o >= rsp_delta})]

kRedZoneBytes == 128

DropDeadSlots(s, rsp_delta) == DropSlotsBelow(s, rsp_delta - kRedZoneBytes)

InvalidateLastCmpFor(s, r) ==
  [s EXCEPT !.last_cmp = IF @.reg = r THEN nullopt ELSE @]

(* Every register write: both halves move, a guard on the register dies,   *)
(* and moving rsp to a known place kills what falls out of the red zone.   *)
SetRegTable(s, r, v, t) ==
  LET written == InvalidateLastCmpFor([s EXCEPT !.gpr[r] = v, !.tbl[r] = t], r)
  IN  IF r = kDWARFRsp /\ v.kind = "kCFARel" THEN DropDeadSlots(written, v.delta) ELSE written

SetReg(s, r, v) == SetRegTable(s, r, v, None)

SetTableReg(s, r, t) == SetRegTable(s, r, Other, t)

CopyReg(s, dst, src) == SetRegTable(s, dst, s.gpr[src], s.tbl[src])

ClobberReg(s, r) == SetReg(s, r, Top)

ApplyGuardBound(s, r, b) ==
  [s EXCEPT !.tbl[r].value_bound = Smaller(@, b), !.tbl[r].table_bound = Smaller(@, b)]

ApplyValueBound(s, r, b) == [s EXCEPT !.tbl[r].value_bound = Smaller(@, b)]

-----------------------------------------------------------------------------
(* CFIRow: the declared rules in force at a pc.                            *)

RegRule(k, r, off) == [kind |-> k, reg |-> r, offset |-> off]

kUnset == RegRule("kUnset", 0, 0)

AtCFAOffset(off) == RegRule("kAtCFAOffset", 0, off)

CFARule(k, r, off) == [kind |-> k, reg |-> r, offset |-> off]

RegOffset(r, off) == CFARule("kRegOffset", r, off)

CFARules == [kind : {"kUndefined", "kRegOffset", "kExpression"}, reg : 0..255, offset : Int]

AllRegRules ==
  [kind : {"kUnset", "kUndefined", "kSameValue", "kAtCFAOffset", "kValOffset", "kInRegister",
           "kExpression", "kValExpression"},
   reg : 0..255, offset : Int]

CFIRows == [pc_start : Int, cfa : CFARules, regs : [DWARFRegs -> AllRegRules]]

CFIs == [pc_begin : Int, pc_end : Int, rows : Seq(CFIRows)]

IsCanonicalEntry(row) ==
  row.cfa = RegOffset(kDWARFRsp, 8) /\ row.regs[kDWARFRip] = AtCFAOffset(-8)

(* A CFI is a record [pc_begin, pc_end, rows], rows sorted by pc_start.    *)
(* RowAt is the index of the row in force at pc: the last that starts at   *)
(* or before it.  0 when there is none.                                    *)
RowAt(cfi, pc) ==
  LET begun == {i \in 1..Len(cfi.rows) : cfi.rows[i].pc_start <= pc}
  IN  IF pc < cfi.pc_begin \/ pc >= cfi.pc_end \/ begun = {} THEN 0
      ELSE CHOOSE i \in begun : \A j \in begun : j <= i

(* Seeding from a row visits the registers in increasing order, so a later *)
(* rule overwrites what an earlier one put in the same register; the rsp   *)
(* reset and the CFA rule come last.                                       *)
SeedRule(s, r, rule, at_function_entry) ==
  CASE rule.kind = "kAtCFAOffset" ->
         [s EXCEPT !.slots = PutSlot(@, rule.offset, OrigReg(r))]
    [] rule.kind = "kInRegister" /\ rule.reg \in GPRs ->
         [s EXCEPT !.gpr[rule.reg] = OrigReg(r)]
    [] rule.kind = "kValOffset" /\ r \in GPRs ->
         [s EXCEPT !.gpr[r] = CFARel(rule.offset)]
    [] /\ r \in GPRs
       /\ \/ rule.kind \in {"kUndefined", "kExpression", "kValExpression"}
          \/ rule.kind = "kUnset" /\ ~at_function_entry ->
         [s EXCEPT !.gpr[r] = Top]
    [] OTHER -> s

SeedFromRow(row, at_function_entry) ==
  LET all_orig == [gpr |-> [r \in GPRs |-> OrigReg(r)], tbl |-> [r \in GPRs |-> None],
                   slots |-> EmptySlots, last_cmp |-> nullopt]
      seeded[n \in 0..17] ==
        IF n = 0 THEN all_orig
        ELSE IF n - 1 \in DWARFRegs
             THEN SeedRule(seeded[n - 1], n - 1, row.regs[n - 1], at_function_entry)
        ELSE seeded[n - 1]
      unanchored == [seeded[17] EXCEPT !.gpr[kDWARFRsp] = Top]
  IN  IF row.cfa.kind = "kRegOffset" /\ row.cfa.reg \in GPRs
      THEN [unanchored EXCEPT !.gpr[row.cfa.reg] = CFARel(-row.cfa.offset)]
      ELSE unanchored

-----------------------------------------------------------------------------
(* Join: incoming is met into state.                                       *)

JoinValue(current, incoming) ==
  IF current = incoming \/ current.kind = "kBottom" \/ incoming.kind = "kTop" THEN current
  ELSE IF current.kind = "kTop" THEN incoming
  ELSE Bottom

RealConflict(current, incoming) ==
  current # incoming /\ ~IsUnknown(current) /\ ~IsUnknown(incoming)

MergedIdentity(current, incoming) ==
  IF "kConflict" \in {current.kind, incoming.kind} THEN Conflict
  ELSE IF SameIdentity(current, incoming) THEN current
  ELSE IF current.kind = "kNone" THEN incoming
  ELSE IF incoming.kind = "kNone" THEN current
  ELSE Conflict

JoinTableValue(current, incoming) ==
  [MergedIdentity(current, incoming) EXCEPT
     !.value_bound = Larger(current.value_bound, incoming.value_bound),
     !.table_bound = Larger(current.table_bound, incoming.table_bound)]

JoinSlots(current, incoming) ==
  [o \in DOMAIN current \cup DOMAIN incoming |->
     IF o \notin DOMAIN incoming THEN current[o]
     ELSE IF o \notin DOMAIN current THEN incoming[o]
     ELSE JoinValue(current[o], incoming[o])]

JoinLastCmp(current, incoming) == IF current = incoming THEN current ELSE nullopt

Join(incoming, state) ==
  [gpr      |-> [r \in GPRs |-> JoinValue(state.gpr[r], incoming.gpr[r])],
   tbl      |-> [r \in GPRs |-> JoinTableValue(state.tbl[r], incoming.tbl[r])],
   slots    |-> JoinSlots(state.slots, incoming.slots),
   last_cmp |-> JoinLastCmp(state.last_cmp, incoming.last_cmp)]

(* What Join reports: the registers and the slots that really disagree.    *)
kSlotConflict == -1

JoinConflicts(incoming, state) ==
  {[reg |-> r, offset |-> 0, lhs |-> state.gpr[r], rhs |-> incoming.gpr[r]] :
     r \in {x \in GPRs : RealConflict(state.gpr[x], incoming.gpr[x])}}
  \cup
  {[reg |-> kSlotConflict, offset |-> o, lhs |-> state.slots[o], rhs |-> incoming.slots[o]] :
     o \in {x \in DOMAIN state.slots \cap DOMAIN incoming.slots :
              RealConflict(state.slots[x], incoming.slots[x])}}
=============================================================================
