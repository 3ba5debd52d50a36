------------------------------ MODULE CFITable ------------------------------
(***************************************************************************)
(* Reading one FDE: Decoder::ParseFDE and RunInstructions feed the call    *)
(* frame instructions of the CIE and then of the FDE to TableBuilder,      *)
(* which turns them into the rows of a CFI (eh-frame-reader.h,             *)
(* cfi-table.cc, ReadFDE).                                                 *)
(*                                                                         *)
(* The instruction stream is chosen as it is read; opcodes that differ     *)
(* only in how their operands are encoded are one action.  Offsets are     *)
(* already scaled.  Addresses are those of the ELF file: the constant bias *)
(* of the mapping is left out.                                             *)
(***************************************************************************)
EXTENDS AbsState

CONSTANTS
  PCLimit,          \* 2^64: addresses wrap around
  Ranges,           \* the <<pc_begin, pc_end>> an FDE may state
  Deltas,           \* what an advance may add, operand times code alignment
  CFAOffsets,       \* operands of the instructions
  RuleRegs,
  RegRules,
  kMaxRemembered,   \* depth at which HandleRememberState refuses; 32
  OpBound           \* longest instruction stream

Addresses == 0..(PCLimit - 1)

kNumDWARFRegs == 17

ASSUME TableAssumption ==
  /\ PCLimit \in Nat \ {0}
  /\ Ranges \subseteq Addresses \X Addresses
  /\ Deltas \subseteq Addresses
  /\ CFAOffsets \subseteq Int
  /\ \A r \in RuleRegs : r \in Nat /\ (r < kNumDWARFRegs => r \in DWARFRegs)
  /\ RegRules \subseteq AllRegRules
  /\ kMaxRemembered \in Nat
  /\ OpBound \in Nat

VARIABLES
  phase,            \* "cie", "fde", then "read" or "failed"
  pc_begin, pc_end,
  current_loc,      \* Decoder's location
  row_pc,           \* where the row being built starts
  cur_cfa, cur_regs,
  cie_regs,         \* what DW_CFA_restore goes back to
  stack,            \* remembered rules
  rows,
  has_exotic_regs,
  ops,              \* instructions so far
  declared,         \* history: pc -> the rules the instructions put in force there
  wrapped           \* history: an advance went past the end of the address space

reader == <<pc_begin, pc_end, current_loc, row_pc, rows, wrapped>>

rules == <<cur_cfa, cur_regs, cie_regs, stack, has_exotic_regs>>

vars == <<phase, reader, rules, ops, declared>>

kUndefinedCFA == CFARule("kUndefined", 0, 0)

NoRegRules == [r \in DWARFRegs |-> kUnset]

Rules(cfa, regs) == [cfa |-> cfa, regs |-> regs]

(* StartFDE, on a builder that holds nothing.                              *)
Init ==
  /\ \E range \in Ranges : pc_begin = range[1] /\ pc_end = range[2]
  /\ phase = "cie"
  /\ current_loc = pc_begin
  /\ row_pc = pc_begin
  /\ cur_cfa = kUndefinedCFA
  /\ cur_regs = NoRegRules
  /\ cie_regs = NoRegRules
  /\ stack = <<>>
  /\ rows = <<>>
  /\ has_exotic_regs = FALSE
  /\ ops = 0
  /\ declared = [pc \in Addresses |-> Rules(kUndefinedCFA, NoRegRules)]
  /\ wrapped = FALSE

(* One more instruction of either stream.                                  *)
Reading == phase \in {"cie", "fde"} /\ ops < OpBound /\ ops' = ops + 1

(* What DWARF says an instruction means: the rules after it hold from the  *)
(* current location on, until a later instruction at a later location.     *)
Declare(loc, cfa, regs) ==
  declared' = [pc \in Addresses |-> IF pc >= loc THEN Rules(cfa, regs) ELSE declared[pc]]

Fails == phase' = "failed" /\ UNCHANGED <<reader, rules, declared>>

-----------------------------------------------------------------------------
(* Locations.                                                              *)

(* uintptr_t addition *)
AddLoc(a, d) == IF a + d < PCLimit THEN a + d ELSE a + d - PCLimit

Row(pc) == [pc_start |-> pc, cfa |-> cur_cfa, regs |-> cur_regs]

(* Faulty variants: a zero-width row is recorded; the row that reaches the *)
(* end of the FDE is not.                                                  *)
HandleSetLocEmptyRows(pc) ==
  /\ rows' = IF pc >= row_pc THEN Append(rows, Row(row_pc)) ELSE rows
  /\ row_pc' = pc

HandleSetLocInside(pc) ==
  /\ rows' = IF pc > row_pc /\ pc < pc_end THEN Append(rows, Row(row_pc)) ELSE rows
  /\ row_pc' = pc

HandleSetLoc(pc) ==
  /\ rows' = IF pc > row_pc THEN Append(rows, Row(row_pc)) ELSE rows
  /\ row_pc' = pc

(* DoSetLoc: an instruction of the CIE may not move.                       *)
DoSetLoc(loc) ==
  IF phase = "cie" THEN Fails
  ELSE /\ HandleSetLoc(loc)
       /\ current_loc' = loc
       /\ wrapped' = (wrapped \/ loc < current_loc)
       /\ Declare(loc, cur_cfa, cur_regs)
       /\ UNCHANGED <<phase, pc_begin, pc_end, rules>>

AdvanceLoc == Reading /\ \E d \in Deltas : DoSetLoc(AddLoc(current_loc, d))

SetLoc ==
  /\ Reading
  /\ \E d \in Deltas : LET loc == AddLoc(pc_begin, d) IN
       IF loc < current_loc THEN Fails ELSE DoSetLoc(loc)

-----------------------------------------------------------------------------
(* Rules.  Register numbers of the CFA are stored in eight bits.           *)

NewRules(cfa, regs) ==
  /\ cur_cfa' = cfa
  /\ cur_regs' = regs
  /\ Declare(current_loc, cfa, regs)
  /\ UNCHANGED <<phase, reader, cie_regs>>

NewCFA(cfa) == Reading /\ NewRules(cfa, cur_regs) /\ UNCHANGED <<stack, has_exotic_regs>>

HandleDefCFA ==
  \E r \in RuleRegs, off \in CFAOffsets : NewCFA(RegOffset(r % 256, off))

HandleDefCFAReg == \E r \in RuleRegs : NewCFA(RegOffset(r % 256, cur_cfa.offset))

HandleDefCFAOffset == \E off \in CFAOffsets : NewCFA(RegOffset(cur_cfa.reg, off))

HandleDefCFAExpression == NewCFA(CFARule("kExpression", 0, 0))

SetRule(r, rule) ==
  /\ Reading
  /\ IF r >= kNumDWARFRegs
     THEN NewRules(cur_cfa, cur_regs) /\ has_exotic_regs' = TRUE
     ELSE NewRules(cur_cfa, [cur_regs EXCEPT ![r] = rule]) /\ UNCHANGED has_exotic_regs
  /\ UNCHANGED stack

HandleRegRule == \E r \in RuleRegs, rule \in RegRules : SetRule(r, rule)

HandleRestore ==
  \E r \in RuleRegs : SetRule(r, IF r < kNumDWARFRegs THEN cie_regs[r] ELSE kUnset)

HandleRememberState ==
  /\ Reading
  /\ IF Len(stack) >= kMaxRemembered THEN Fails
     ELSE /\ stack' = Append(stack, Rules(cur_cfa, cur_regs))
          /\ UNCHANGED <<phase, reader, cur_cfa, cur_regs, cie_regs, has_exotic_regs, declared>>

HandleRestoreState ==
  /\ Reading
  /\ IF stack = <<>> THEN Fails
     ELSE /\ NewRules(stack[Len(stack)].cfa, stack[Len(stack)].regs)
          /\ stack' = SubSeq(stack, 1, Len(stack) - 1)
          /\ UNCHANGED has_exotic_regs

-----------------------------------------------------------------------------
(* The ends of the streams.                                                *)

(* The FDE's augmentation data sit between the two; LSDA is not a rule.    *)
AfterCIE ==
  /\ phase = "cie"
  /\ phase' = "fde"
  /\ cie_regs' = cur_regs
  /\ UNCHANGED <<reader, cur_cfa, cur_regs, stack, has_exotic_regs, ops, declared>>

(* An opcode or an operand that does not decode.                           *)
BadInstruction == Reading /\ Fails

(* The last row reaches to the end of the FDE.  ReadFDE refuses a table    *)
(* without rows.                                                           *)
EndOfInstructions ==
  /\ phase = "fde"
  /\ HandleSetLoc(pc_end)
  /\ current_loc' = pc_end
  /\ phase' = IF rows' = <<>> /\ pc_end > pc_begin THEN "failed" ELSE "read"
  /\ UNCHANGED <<pc_begin, pc_end, wrapped, rules, ops, declared>>

Next ==
  \/ AdvanceLoc
  \/ SetLoc
  \/ HandleDefCFA
  \/ HandleDefCFAReg
  \/ HandleDefCFAOffset
  \/ HandleDefCFAExpression
  \/ HandleRegRule
  \/ HandleRestore
  \/ HandleRememberState
  \/ HandleRestoreState
  \/ AfterCIE
  \/ BadInstruction
  \/ EndOfInstructions

Spec == Init /\ [][Next]_vars

-----------------------------------------------------------------------------
RuleSet == [cfa : CFARules, regs : [DWARFRegs -> AllRegRules]]

RowSet == [pc_start : Addresses, cfa : CFARules, regs : [DWARFRegs -> AllRegRules]]

(* Every variable has its type: every row and every remembered state is a  *)
(* complete set of rules.                                                  *)
TypeOK ==
  /\ phase \in {"cie", "fde", "read", "failed"}
  /\ {pc_begin, pc_end, current_loc, row_pc} \subseteq Addresses
  /\ cur_cfa \in CFARules
  /\ cur_regs \in [DWARFRegs -> AllRegRules]
  /\ cie_regs \in [DWARFRegs -> AllRegRules]
  /\ stack \in Seq(RuleSet)
  /\ rows \in Seq(RowSet)
  /\ has_exotic_regs \in BOOLEAN
  /\ ops \in Nat
  /\ declared \in [Addresses -> RuleSet]
  /\ wrapped \in BOOLEAN

cfi == [pc_begin |-> pc_begin, pc_end |-> pc_end, rows |-> rows]

InFDE == {pc \in Addresses : pc_begin <= pc /\ pc < pc_end}

Ascending == \A i, j \in 1..Len(rows) : i < j => rows[i].pc_start < rows[j].pc_start

(* cfi-table.h on CFI::rows: sorted by pc_start, rows[0].pc_start is       *)
(* pc_begin.  Everything that calls RowAt relies on it.  It holds as long  *)
(* as no advance wraps around (HandleSetLoc).                              *)
RowsSorted == ~wrapped => Ascending /\ (rows # <<>> => rows[1].pc_start = pc_begin)

(* The table says what the instructions said: at every pc of the FDE,      *)
(* RowAt finds a row, and it has the rules that the instructions up to pc  *)
(* left in force, whatever they remembered, restored or stated twice at    *)
(* one location, and wherever the last one moved to (HandleSetLoc,         *)
(* RunInstructions' closing move, CFI::RowAt).                             *)
TableIsDeclared ==
  phase = "read" /\ ~wrapped =>
    \A pc \in InFDE :
      /\ RowAt(cfi, pc) # 0
      /\ Rules(rows[RowAt(cfi, pc)].cfa, rows[RowAt(cfi, pc)].regs) = declared[pc]

(* Why the table is right.  Row i answers for the pcs from its start to    *)
(* the start of the next row.                                              *)
InForce(i, pc) ==
  rows[i].pc_start <= pc /\ (i < Len(rows) => pc < rows[i + 1].pc_start)

Answered(pc) ==
  \E i \in 1..Len(rows) : InForce(i, pc) /\ Rules(rows[i].cfa, rows[i].regs) = declared[pc]

(* While the instructions run, the closed rows lie before row_pc, the pcs  *)
(* before row_pc are answered, and from row_pc on the current rules are    *)
(* the declared ones.                                                      *)
Building ==
  phase \in {"cie", "fde"} =>
    /\ current_loc = row_pc
    /\ phase = "cie" => rows = <<>> /\ row_pc = pc_begin
    /\ ~wrapped =>
         /\ pc_begin <= row_pc
         /\ \A i \in 1..Len(rows) : rows[i].pc_start < row_pc
         /\ rows = <<>> => row_pc = pc_begin
         /\ \A pc \in Addresses : pc_begin <= pc /\ pc < row_pc => Answered(pc)
         /\ \A pc \in Addresses : row_pc <= pc => declared[pc] = Rules(cur_cfa, cur_regs)

(* Once they have run, every pc of the FDE is answered.                    *)
Built == phase = "read" /\ ~wrapped => \A pc \in InFDE : Answered(pc)
=============================================================================
