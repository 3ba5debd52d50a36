--------------------------- MODULE CFITableProofs ---------------------------
(***************************************************************************)
(* Proofs about CFITable, for every address space, FDE range, instruction  *)
(* stream and remember depth.                                              *)
(***************************************************************************)
EXTENDS CFITable, TLAPS

(* The table of an appended row: the old rows keep their places.           *)
LEMMA AppendedRow ==
  ASSUME NEW S, NEW s \in Seq(S), NEW e \in S
  PROVE  /\ Append(s, e) \in Seq(S)
         /\ Len(Append(s, e)) = Len(s) + 1
         /\ \A i \in 1..Len(s) : Append(s, e)[i] = s[i]
         /\ Append(s, e)[Len(s) + 1] = e
  OBVIOUS

(* Addition of addresses stays within them (uintptr_t).                    *)
LEMMA AddLocType ==
  ASSUME NEW a \in Addresses, NEW d \in Addresses
  PROVE  AddLoc(a, d) \in Addresses
  BY TableAssumption DEF AddLoc, Addresses

(* A declaration keeps the type of the history.                            *)
LEMMA DeclareType ==
  ASSUME TypeOK, NEW loc, NEW c \in CFARules, NEW g \in [DWARFRegs -> AllRegRules],
         Declare(loc, c, g)
  PROVE  declared' \in [Addresses -> RuleSet]
  BY DEF TypeOK, Declare, Rules, RuleSet

(* Closing a row keeps the type of the table (HandleSetLoc).               *)
LEMMA HandleSetLocType ==
  ASSUME TypeOK, NEW loc \in Addresses, HandleSetLoc(loc)
  PROVE  rows' \in Seq(RowSet) /\ row_pc' \in Addresses
<1>1. Row(row_pc) \in RowSet
  BY DEF TypeOK, Row, RowSet
<1>2. Append(rows, Row(row_pc)) \in Seq(RowSet)
  BY <1>1, AppendedRow DEF TypeOK
<1> QED BY <1>2 DEF TypeOK, HandleSetLoc

(* An EHFrameError leaves every type as it was (Fails).                    *)
LEMMA FailsType ==
  ASSUME TypeOK, Fails, ops' \in Nat
  PROVE  TypeOK'
  BY DEF TypeOK, Fails, reader, rules

(* Reading one more instruction counts it (RunInstructions).               *)
LEMMA ReadingType ==
  ASSUME TypeOK, Reading
  PROVE  ops' \in Nat
  BY DEF TypeOK, Reading

(* Moving the location keeps the types, whether it fails or not.           *)
LEMMA DoSetLocType ==
  ASSUME TypeOK, NEW loc \in Addresses, DoSetLoc(loc), ops' \in Nat
  PROVE  TypeOK'
<1>1. CASE phase = "cie"
  BY <1>1, FailsType DEF DoSetLoc
<1>2. CASE phase # "cie"
  <2>1. declared' \in [Addresses -> RuleSet]
    BY <1>2, DeclareType DEF TypeOK, DoSetLoc
  <2>2. rows' \in Seq(RowSet) /\ row_pc' \in Addresses
    BY <1>2, HandleSetLocType DEF DoSetLoc
  <2>3. current_loc' \in Addresses /\ wrapped' \in BOOLEAN
    BY <1>2 DEF DoSetLoc, TypeOK
  <2> QED BY <1>2, <2>1, <2>2, <2>3 DEF TypeOK, DoSetLoc, rules
<1> QED BY <1>1, <1>2

(* So does an instruction that states new rules, if they are rules.        *)
LEMMA NewRulesType ==
  ASSUME TypeOK, NEW c \in CFARules, NEW g \in [DWARFRegs -> AllRegRules], NewRules(c, g),
         stack' \in Seq(RuleSet), has_exotic_regs' \in BOOLEAN, ops' \in Nat
  PROVE  TypeOK'
<1>1. declared' \in [Addresses -> RuleSet]
  BY DeclareType DEF NewRules
<1> QED BY <1>1 DEF TypeOK, NewRules, reader

(* The same, for an instruction that states only the CFA rule.             *)
LEMMA NewCFAType ==
  ASSUME TypeOK, NEW c \in CFARules, NewCFA(c)
  PROVE  TypeOK'
<1>1. ops' \in Nat
  BY ReadingType DEF NewCFA
<1>2. NewRules(c, cur_regs) /\ stack' \in Seq(RuleSet) /\ has_exotic_regs' \in BOOLEAN
  BY DEF NewCFA, TypeOK
<1>3. cur_regs \in [DWARFRegs -> AllRegRules]
  BY DEF TypeOK
<1> QED BY <1>1, <1>2, <1>3, NewRulesType

(* The same, for a rule of one register, tracked or exotic (SetRule).      *)
LEMMA SetRuleType ==
  ASSUME TypeOK, NEW r \in RuleRegs, NEW rule \in AllRegRules, SetRule(r, rule)
  PROVE  TypeOK'
<1>1. ops' \in Nat
  BY ReadingType DEF SetRule
<1>2. stack' \in Seq(RuleSet) /\ has_exotic_regs' \in BOOLEAN
  BY DEF SetRule, TypeOK
<1>3. cur_cfa \in CFARules /\ cur_regs \in [DWARFRegs -> AllRegRules]
  BY DEF TypeOK
<1>4. [cur_regs EXCEPT ![r] = rule] \in [DWARFRegs -> AllRegRules]
  BY <1>3
<1>5. CASE r >= kNumDWARFRegs
  BY <1>1, <1>2, <1>3, <1>5, NewRulesType DEF SetRule
<1>6. CASE ~(r >= kNumDWARFRegs)
  BY <1>1, <1>2, <1>3, <1>4, <1>6, NewRulesType DEF SetRule
<1> QED BY <1>5, <1>6

(* TableBuilder and the decoder keep the types of their state.             *)
THEOREM TableTypeCorrect == Spec => []TypeOK
<1>1. Init => TypeOK
  <2> SUFFICES ASSUME Init PROVE TypeOK
    OBVIOUS
  <2>1. kUndefinedCFA \in CFARules /\ NoRegRules \in [DWARFRegs -> AllRegRules]
    BY DEF kUndefinedCFA, CFARule, CFARules, NoRegRules, kUnset, RegRule, AllRegRules
  <2>2. pc_begin \in Addresses /\ pc_end \in Addresses
    <3>1. PICK range \in Ranges : pc_begin = range[1] /\ pc_end = range[2]
      BY DEF Init
    <3>2. range \in Addresses \X Addresses
      BY TableAssumption
    <3> QED BY <3>1, <3>2
  <2>3. declared \in [Addresses -> RuleSet]
    BY <2>1 DEF Init, Rules, RuleSet
  <2>4. stack \in Seq(RuleSet) /\ rows \in Seq(RowSet) /\ ops \in Nat
    BY DEF Init
  <2>5. phase = "cie" /\ wrapped = FALSE /\ has_exotic_regs = FALSE
    BY DEF Init
  <2>6. /\ current_loc = pc_begin /\ row_pc = pc_begin
        /\ cur_cfa = kUndefinedCFA /\ cur_regs = NoRegRules /\ cie_regs = NoRegRules
    BY DEF Init
  <2> QED BY <2>1, <2>2, <2>3, <2>4, <2>5, <2>6 DEF TypeOK
<1>2. TypeOK /\ [Next]_vars => TypeOK'
  <2> SUFFICES ASSUME TypeOK, [Next]_vars PROVE TypeOK'
    OBVIOUS
  <2>1. CASE AdvanceLoc
    <3>1. PICK d \in Deltas : DoSetLoc(AddLoc(current_loc, d))
      BY <2>1 DEF AdvanceLoc
    <3>2. AddLoc(current_loc, d) \in Addresses
      BY AddLocType, TableAssumption DEF TypeOK
    <3> QED BY <2>1, <3>1, <3>2, DoSetLocType, ReadingType DEF AdvanceLoc
  <2>2. CASE SetLoc
    <3>1. PICK d \in Deltas : LET loc == AddLoc(pc_begin, d) IN
                                IF loc < current_loc THEN Fails ELSE DoSetLoc(loc)
      BY <2>2 DEF SetLoc
    <3>2. AddLoc(pc_begin, d) \in Addresses
      BY AddLocType, TableAssumption DEF TypeOK
    <3>3. ops' \in Nat
      BY <2>2, ReadingType DEF SetLoc
    <3> QED BY <3>1, <3>2, <3>3, DoSetLocType, FailsType
  <2>3. CASE HandleDefCFA
    <3>1. PICK r \in RuleRegs, off \in CFAOffsets : NewCFA(RegOffset(r % 256, off))
      BY <2>3 DEF HandleDefCFA
    <3>2. RegOffset(r % 256, off) \in CFARules
      BY TableAssumption DEF RegOffset, CFARule, CFARules
    <3> QED BY <3>1, <3>2, NewCFAType
  <2>4. CASE HandleDefCFAReg
    <3>1. PICK r \in RuleRegs : NewCFA(RegOffset(r % 256, cur_cfa.offset))
      BY <2>4 DEF HandleDefCFAReg
    <3>2. cur_cfa.offset \in Int
      BY DEF CFARules, TypeOK
    <3>3. RegOffset(r % 256, cur_cfa.offset) \in CFARules
      BY <3>2, TableAssumption DEF RegOffset, CFARule, CFARules
    <3> QED BY <3>1, <3>3, NewCFAType
  <2>5. CASE HandleDefCFAOffset
    <3>1. PICK off \in CFAOffsets : NewCFA(RegOffset(cur_cfa.reg, off))
      BY <2>5 DEF HandleDefCFAOffset
    <3>2. RegOffset(cur_cfa.reg, off) \in CFARules
      BY TableAssumption DEF RegOffset, CFARule, CFARules, TypeOK
    <3> QED BY <3>1, <3>2, NewCFAType
  <2>6. CASE HandleDefCFAExpression
    <3>1. CFARule("kExpression", 0, 0) \in CFARules
      BY DEF CFARule, CFARules
    <3> QED BY <2>6, <3>1, NewCFAType DEF HandleDefCFAExpression
  <2>7. CASE HandleRegRule
    BY <2>7, SetRuleType, TableAssumption DEF HandleRegRule
  <2>8. CASE HandleRestore
    <3>1. PICK r \in RuleRegs : SetRule(r, IF r < kNumDWARFRegs THEN cie_regs[r] ELSE kUnset)
      BY <2>8 DEF HandleRestore
    <3>2. kUnset \in AllRegRules
      BY DEF kUnset, RegRule, AllRegRules
    <3>3. (IF r < kNumDWARFRegs THEN cie_regs[r] ELSE kUnset) \in AllRegRules
      BY <3>2, TableAssumption DEF TypeOK
    <3> QED BY <3>1, <3>3, SetRuleType
  <2>9. CASE HandleRememberState
    <3>1. ops' \in Nat
      BY <2>9, ReadingType DEF HandleRememberState
    <3>2. CASE Len(stack) >= kMaxRemembered
      BY <2>9, <3>1, <3>2, FailsType DEF HandleRememberState
    <3>3. CASE ~(Len(stack) >= kMaxRemembered)
      <4>1. Rules(cur_cfa, cur_regs) \in RuleSet
        BY DEF TypeOK, Rules, RuleSet
      <4>2. stack' \in Seq(RuleSet)
        BY <2>9, <3>3, <4>1, AppendedRow DEF HandleRememberState, TypeOK
      <4> QED BY <2>9, <3>1, <3>3, <4>2 DEF HandleRememberState, TypeOK, reader
    <3> QED BY <3>2, <3>3
  <2>10. CASE HandleRestoreState
    <3>1. ops' \in Nat
      BY <2>10, ReadingType DEF HandleRestoreState
    <3>2. CASE stack = <<>>
      BY <2>10, <3>1, <3>2, FailsType DEF HandleRestoreState
    <3>3. CASE stack # <<>>
      <4>1. stack[Len(stack)] \in RuleSet
        BY <3>3 DEF TypeOK
      <4>2. stack' \in Seq(RuleSet) /\ has_exotic_regs' \in BOOLEAN
        <5>1. SubSeq(stack, 1, Len(stack) - 1) \in Seq(RuleSet)
          BY <3>3 DEF TypeOK
        <5> QED BY <2>10, <3>3, <5>1 DEF HandleRestoreState, TypeOK
      <4>3. stack[Len(stack)].cfa \in CFARules /\ stack[Len(stack)].regs \in [DWARFRegs -> AllRegRules]
        BY <4>1 DEF RuleSet
      <4> QED BY <2>10, <3>1, <3>3, <4>2, <4>3, NewRulesType DEF HandleRestoreState
    <3> QED BY <3>2, <3>3
  <2>11. CASE AfterCIE
    BY <2>11 DEF AfterCIE, TypeOK, reader
  <2>12. CASE BadInstruction
    BY <2>12, FailsType, ReadingType DEF BadInstruction
  <2>13. CASE EndOfInstructions
    <3>1. pc_end \in Addresses
      BY DEF TypeOK
    <3>2. rows' \in Seq(RowSet) /\ row_pc' \in Addresses
      BY <2>13, <3>1, HandleSetLocType DEF EndOfInstructions
    <3>3. phase' \in {"cie", "fde", "read", "failed"}
      BY <2>13 DEF EndOfInstructions
    <3> QED BY <2>13, <3>1, <3>2, <3>3 DEF EndOfInstructions, TypeOK, rules
  <2>14. CASE UNCHANGED vars
    BY <2>14 DEF vars, reader, rules, TypeOK
  <2> QED BY <2>1, <2>2, <2>3, <2>4, <2>5, <2>6, <2>7, <2>8, <2>9, <2>10, <2>11, <2>12, <2>13, <2>14
      DEF Next
<1> QED BY <1>1, <1>2, PTL DEF Spec

-----------------------------------------------------------------------------
(* Closing a row, wherever the location moves to: the rows stay in order,  *)
(* and every pc before the new location is answered (HandleSetLoc).        *)
LEMMA ClosedRow ==
  ASSUME TypeOK, RowsSorted, Building, phase = "fde", ~wrapped,
         NEW loc \in Addresses, HandleSetLoc(loc), pc_begin' = pc_begin,
         \A pc \in Addresses : pc < loc => declared'[pc] = declared[pc]
  PROVE  /\ Ascending'
         /\ rows' # <<>> => rows'[1].pc_start = pc_begin
         /\ rows' = <<>> => loc <= row_pc /\ row_pc = pc_begin
         /\ loc >= row_pc => \A i \in 1..Len(rows') : rows'[i].pc_start < loc
         /\ \A pc \in Addresses : pc_begin <= pc /\ pc < loc => Answered(pc)'
<1>1. /\ pc_begin <= row_pc
      /\ \A i \in 1..Len(rows) : rows[i].pc_start < row_pc
      /\ rows = <<>> => row_pc = pc_begin
      /\ \A pc \in Addresses : pc_begin <= pc /\ pc < row_pc => Answered(pc)
      /\ \A pc \in Addresses : row_pc <= pc => declared[pc] = Rules(cur_cfa, cur_regs)
  BY DEF Building
<1>2. Ascending /\ (rows # <<>> => rows[1].pc_start = pc_begin)
  BY DEF RowsSorted
<1>3. /\ rows \in Seq(RowSet) /\ row_pc \in Int /\ loc \in Int /\ pc_begin \in Int
      /\ Addresses \subseteq Int
      /\ \A i \in 1..Len(rows) : rows[i].pc_start \in Int
  <2>1. Addresses \subseteq Int
    BY TableAssumption DEF Addresses
  <2>2. rows \in Seq(RowSet) /\ row_pc \in Addresses /\ pc_begin \in Addresses
    BY DEF TypeOK
  <2>3. \A i \in 1..Len(rows) : rows[i] \in RowSet
    BY <2>2
  <2>4. \A i \in 1..Len(rows) : rows[i].pc_start \in Addresses
    BY <2>3 DEF RowSet
  <2> QED BY <2>1, <2>2, <2>4
<1>4. CASE loc <= row_pc
  <2>1. rows' = rows
    BY <1>3, <1>4 DEF HandleSetLoc
  <2>2. Ascending' /\ (rows' # <<>> => rows'[1].pc_start = pc_begin)
    BY <1>2, <2>1 DEF Ascending
  <2>3. ASSUME NEW pc \in Addresses, pc_begin <= pc, pc < loc PROVE Answered(pc)'
    <3>1. Answered(pc) /\ declared'[pc] = declared[pc]
      BY <1>1, <1>3, <1>4, <2>3
    <3> QED BY <2>1, <3>1 DEF Answered, InForce, Rules
  <2>4. loc >= row_pc => \A i \in 1..Len(rows') : rows'[i].pc_start < loc
    BY <1>1, <1>3, <1>4, <2>1
  <2> QED BY <1>1, <1>4, <2>1, <2>2, <2>3, <2>4
<1>5. CASE loc > row_pc
  <2>0. PICK n \in Nat : n = Len(rows) + 1
    BY <1>3
  <2>1. Row(row_pc) \in RowSet /\ Row(row_pc).pc_start = row_pc
        /\ Row(row_pc).cfa = cur_cfa /\ Row(row_pc).regs = cur_regs
    BY DEF Row, TypeOK, RowSet
  <2>2. rows' = Append(rows, Row(row_pc))
    BY <1>5 DEF HandleSetLoc
  <2>3. /\ Len(rows') = n /\ n \in Nat /\ Len(rows) \in Nat
        /\ \A i \in 1..Len(rows) : rows'[i] = rows[i]
        /\ rows'[n] = Row(row_pc)
    BY <2>0, <1>3, <2>1, <2>2, AppendedRow
  <2>4. \A i \in 1..n : i \in 1..Len(rows) \/ i = n
    BY <2>0, <2>3
  <2>5. n \in 1..n /\ (\A i \in 1..Len(rows) : i \in 1..n /\ i < n)
    BY <2>0, <2>3
  <2>6. Ascending'
    <3> SUFFICES ASSUME NEW i \in 1..n, NEW j \in 1..n, i < j
                 PROVE  rows'[i].pc_start < rows'[j].pc_start
      BY <2>3 DEF Ascending
    <3>1. i \in 1..Len(rows)
      BY <2>0, <2>3
    <3>2. CASE j = n
      BY <1>1, <2>1, <2>3, <3>1, <3>2
    <3>3. CASE j \in 1..Len(rows)
      BY <1>2, <2>3, <3>1, <3>3 DEF Ascending
    <3> QED BY <2>4, <3>2, <3>3
  <2>7. rows' # <<>> => rows'[1].pc_start = pc_begin
    <3>1. CASE rows = <<>>
      BY <2>0, <1>1, <2>1, <2>3, <3>1
    <3>2. CASE rows # <<>>
      <4>1. 1 \in 1..Len(rows)
        BY <1>3, <3>2
      <4> QED BY <1>2, <2>3, <3>2, <4>1
    <3> QED BY <3>1, <3>2
  <2>8. rows' # <<>>
    BY <2>0, <2>3
  <2>9. \A i \in 1..Len(rows') : rows'[i].pc_start < loc
    <3> SUFFICES ASSUME NEW i \in 1..n PROVE rows'[i].pc_start < loc
      BY <2>3
    <3>1. CASE i = n
      BY <1>3, <1>5, <2>1, <2>3, <3>1
    <3>2. CASE i \in 1..Len(rows)
      BY <1>1, <1>3, <1>5, <2>3, <3>2
    <3> QED BY <2>4, <3>1, <3>2
  <2>10. ASSUME NEW pc \in Addresses, pc_begin <= pc, pc < loc PROVE Answered(pc)'
    <3>1. declared'[pc] = declared[pc] /\ pc \in Int
      BY <1>3, <2>10
    <3>2. CASE pc < row_pc
      <4>1. PICK i \in 1..Len(rows) : InForce(i, pc) /\ Rules(rows[i].cfa, rows[i].regs) = declared[pc]
        BY <1>1, <2>10, <3>2 DEF Answered
      <4>2. rows'[i].pc_start <= pc
        BY <2>3, <4>1 DEF InForce
      <4>3. i < n => pc < rows'[i + 1].pc_start
        <5>1. CASE i = Len(rows)
          BY <2>0, <2>1, <2>3, <3>2, <5>1
        <5>2. CASE i < Len(rows)
          <6>1. i + 1 \in 1..Len(rows)
            BY <2>3, <5>2
          <6> QED BY <2>3, <4>1, <5>2, <6>1 DEF InForce
        <5> QED BY <2>3, <5>1, <5>2
      <4>4. InForce(i, pc)'
        BY <2>3, <4>2, <4>3 DEF InForce
      <4>5. Rules(rows'[i].cfa, rows'[i].regs) = declared'[pc]
        BY <2>3, <3>1, <4>1
      <4> QED BY <2>3, <2>5, <4>4, <4>5 DEF Answered, Rules
    <3>3. CASE row_pc <= pc
      <4>1. InForce(n, pc)'
        BY <2>1, <2>3, <3>3 DEF InForce
      <4>2. Rules(rows'[n].cfa, rows'[n].regs) = declared'[pc]
        BY <1>1, <2>1, <2>3, <3>1, <3>3
      <4> QED BY <2>3, <2>5, <4>1, <4>2 DEF Answered, Rules
    <3> QED BY <1>3, <3>1, <3>2, <3>3
  <2> QED BY <2>6, <2>7, <2>8, <2>9, <2>10
<1> QED BY <1>3, <1>4, <1>5

(* The inductive invariant: the rows are in order, they answer for every   *)
(* pc before the open row while the table is being built, and for the      *)
(* whole FDE once it is.                                                   *)
TableSafe == RowsSorted /\ Building /\ Built

(* A decoder that fails leaves its rows alone.                             *)
LEMMA FailsSafe ==
  ASSUME TableSafe, Fails
  PROVE  TableSafe'
  BY DEF TableSafe, Fails, RowsSorted, Building, Built, reader, Ascending

(* Stating rules at the current location changes no closed row.            *)
LEMMA NewRulesSafe ==
  ASSUME TypeOK, TableSafe, phase \in {"cie", "fde"},
         NEW c, NEW g, NewRules(c, g)
  PROVE  TableSafe'
<1>1. /\ phase' = phase /\ rows' = rows /\ row_pc' = row_pc /\ wrapped' = wrapped
      /\ pc_begin' = pc_begin /\ current_loc' = current_loc /\ cur_cfa' = c /\ cur_regs' = g
  BY DEF NewRules, reader
<1>2. current_loc = row_pc /\ row_pc \in Int /\ Addresses \subseteq Int
  BY TableAssumption DEF TableSafe, Building, TypeOK, Addresses
<1>3. \A pc \in Addresses : declared'[pc] = IF pc >= row_pc THEN Rules(c, g) ELSE declared[pc]
  BY <1>2 DEF NewRules, Declare
<1>4. RowsSorted'
  BY <1>1 DEF TableSafe, RowsSorted, Ascending
<1>5. Built'
  BY <1>1 DEF Built
<1>6. ASSUME ~wrapped PROVE
        /\ \A pc \in Addresses : pc_begin <= pc /\ pc < row_pc => Answered(pc)'
        /\ \A pc \in Addresses : row_pc <= pc => declared'[pc] = Rules(c, g)
  <2>1. ASSUME NEW pc \in Addresses, pc_begin <= pc, pc < row_pc PROVE Answered(pc)'
    <3>1. Answered(pc)
      BY <1>6, <2>1 DEF TableSafe, Building
    <3>2. declared'[pc] = declared[pc]
      BY <1>2, <1>3, <2>1
    <3> QED BY <1>1, <3>1, <3>2 DEF Answered, InForce, Rules
  <2> QED BY <1>2, <1>3, <2>1
<1>7. Building'
  <2>1. Rules(c, g) = Rules(cur_cfa', cur_regs')
    BY <1>1
  <2> QED BY <1>1, <1>2, <1>6, <2>1 DEF TableSafe, Building, Rules
<1> QED BY <1>4, <1>5, <1>7 DEF TableSafe

(* Moving the location, forwards or around the end of the address space.   *)
LEMMA DoSetLocSafe ==
  ASSUME TypeOK, TableSafe, phase \in {"cie", "fde"}, NEW loc \in Addresses, DoSetLoc(loc)
  PROVE  TableSafe'
<1>1. CASE phase = "cie"
  BY <1>1, FailsSafe DEF DoSetLoc
<1>2. CASE phase = "fde"
  <2>1. /\ HandleSetLoc(loc) /\ row_pc' = loc /\ current_loc' = loc /\ phase' = "fde"
        /\ wrapped' = (wrapped \/ loc < current_loc) /\ pc_begin' = pc_begin
        /\ cur_cfa' = cur_cfa /\ cur_regs' = cur_regs
        /\ Declare(loc, cur_cfa, cur_regs)
    BY <1>2 DEF DoSetLoc, HandleSetLoc, rules
  <2>2. Built'
    BY <2>1 DEF Built
  <2>3. CASE wrapped'
    BY <2>1, <2>2, <2>3 DEF TableSafe, RowsSorted, Building
  <2>4. CASE ~wrapped'
    <3>1. /\ ~wrapped /\ loc >= row_pc /\ current_loc = row_pc
          /\ loc \in Int /\ row_pc \in Int /\ pc_begin \in Int /\ Addresses \subseteq Int
      <4>1. /\ loc \in Int /\ row_pc \in Int /\ pc_begin \in Int /\ Addresses \subseteq Int
        BY TableAssumption DEF TypeOK, Addresses
      <4>2. current_loc = row_pc
        BY <1>2 DEF TableSafe, Building
      <4>3. ~wrapped /\ ~(loc < current_loc)
        BY <2>1, <2>4, Zenon
      <4>4. loc >= row_pc
        BY <4>1, <4>2, <4>3
      <4> QED BY <4>1, <4>2, <4>3, <4>4
    <3>2. \A pc \in Addresses :
            declared'[pc] = IF pc >= loc THEN Rules(cur_cfa, cur_regs) ELSE declared[pc]
      BY <2>1 DEF Declare
    <3>3. \A pc \in Addresses : pc < loc => declared'[pc] = declared[pc]
      BY <3>1, <3>2
    <3>4. \A pc \in Addresses : loc <= pc => declared'[pc] = Rules(cur_cfa, cur_regs)
      BY <3>1, <3>2
    <3>5. /\ Ascending'
          /\ rows' # <<>> => rows'[1].pc_start = pc_begin
          /\ rows' = <<>> => loc <= row_pc /\ row_pc = pc_begin
          /\ loc >= row_pc => \A i \in 1..Len(rows') : rows'[i].pc_start < loc
          /\ \A pc \in Addresses : pc_begin <= pc /\ pc < loc => Answered(pc)'
      BY <1>2, <2>1, <3>1, <3>3, ClosedRow DEF TableSafe
    <3>6. pc_begin <= loc
      BY <1>2, <3>1 DEF TableSafe, Building
    <3>7. rows' = <<>> => loc = pc_begin
      BY <3>1, <3>5
    <3>8. RowsSorted'
      BY <2>1, <3>5 DEF RowsSorted
    <3>9. Building'
      <4>1. Rules(cur_cfa, cur_regs) = Rules(cur_cfa', cur_regs')
        BY <2>1
      <4> QED BY <2>1, <3>1, <3>4, <3>5, <3>6, <3>7, <4>1 DEF Building, Rules
    <3> QED BY <2>2, <3>8, <3>9 DEF TableSafe
  <2> QED BY <2>3, <2>4
<1> QED BY <1>1, <1>2

(* The closing move answers for the rest of the FDE, also when the last    *)
(* location lies beyond it (RunInstructions).                              *)
LEMMA EndSafe ==
  ASSUME TypeOK, TableSafe, EndOfInstructions
  PROVE  TableSafe'
<1>1. /\ phase = "fde" /\ HandleSetLoc(pc_end) /\ pc_begin' = pc_begin /\ pc_end' = pc_end
      /\ wrapped' = wrapped /\ declared' = declared /\ phase' \in {"read", "failed"}
  BY DEF EndOfInstructions
<1>2. Building'
  BY <1>1 DEF Building
<1>3. CASE wrapped
  BY <1>1, <1>2, <1>3 DEF TableSafe, RowsSorted, Built
<1>4. CASE ~wrapped
  <2>1. pc_end \in Addresses
    BY DEF TypeOK
  <2>2. /\ Ascending'
        /\ rows' # <<>> => rows'[1].pc_start = pc_begin
        /\ \A pc \in Addresses : pc_begin <= pc /\ pc < pc_end => Answered(pc)'
    BY <1>1, <1>4, <2>1, ClosedRow DEF TableSafe
  <2>3. RowsSorted'
    BY <1>1, <2>2 DEF RowsSorted
  <2>4. Built'
    BY <1>1, <2>2 DEF Built, InFDE
  <2> QED BY <1>2, <2>3, <2>4 DEF TableSafe
<1> QED BY <1>3, <1>4

(* What CFITable's rows rest on: in order, and answering for every pc.     *)
LEMMA TableStep ==
  ASSUME TypeOK, TableSafe, [Next]_vars
  PROVE  TableSafe'
<1>1. CASE AdvanceLoc
  <2>1. phase \in {"cie", "fde"}
    BY <1>1 DEF AdvanceLoc, Reading
  <2>2. PICK d \in Deltas : DoSetLoc(AddLoc(current_loc, d))
    BY <1>1 DEF AdvanceLoc
  <2>3. AddLoc(current_loc, d) \in Addresses
    BY AddLocType, TableAssumption DEF TypeOK
  <2> QED BY <2>1, <2>2, <2>3, DoSetLocSafe
<1>2. CASE SetLoc
  <2>1. phase \in {"cie", "fde"}
    BY <1>2 DEF SetLoc, Reading
  <2>2. PICK d \in Deltas : LET loc == AddLoc(pc_begin, d) IN
                              IF loc < current_loc THEN Fails ELSE DoSetLoc(loc)
    BY <1>2 DEF SetLoc
  <2>3. AddLoc(pc_begin, d) \in Addresses
    BY AddLocType, TableAssumption DEF TypeOK
  <2> QED BY <2>1, <2>2, <2>3, DoSetLocSafe, FailsSafe
<1>3. CASE HandleDefCFA \/ HandleDefCFAReg \/ HandleDefCFAOffset \/ HandleDefCFAExpression
  <2>1. PICK c : NewCFA(c)
    BY <1>3 DEF HandleDefCFA, HandleDefCFAReg, HandleDefCFAOffset, HandleDefCFAExpression
  <2> QED BY <2>1, NewRulesSafe DEF NewCFA, Reading
<1>4. CASE HandleRegRule \/ HandleRestore
  <2>1. PICK r, rule : SetRule(r, rule)
    BY <1>4 DEF HandleRegRule, HandleRestore
  <2>2. PICK g : NewRules(cur_cfa, g)
    BY <2>1 DEF SetRule
  <2> QED BY <2>1, <2>2, NewRulesSafe DEF SetRule, Reading
<1>5. CASE HandleRememberState
  <2>1. CASE Len(stack) >= kMaxRemembered
    BY <1>5, <2>1, FailsSafe DEF HandleRememberState
  <2>2. CASE ~(Len(stack) >= kMaxRemembered)
    BY <1>5, <2>2 DEF HandleRememberState, TableSafe, RowsSorted, Building, Built, InFDE,
                      Answered, InForce, Ascending, Rules, reader
  <2> QED BY <2>1, <2>2
<1>6. CASE HandleRestoreState
  <2>1. CASE stack = <<>>
    BY <1>6, <2>1, FailsSafe DEF HandleRestoreState
  <2>2. CASE stack # <<>>
    BY <1>6, <2>2, NewRulesSafe DEF HandleRestoreState, Reading
  <2> QED BY <2>1, <2>2
<1>7. CASE AfterCIE
  BY <1>7 DEF AfterCIE, TableSafe, RowsSorted, Building, Built, InFDE, Answered, InForce,
              Ascending, Rules, reader
<1>8. CASE BadInstruction
  BY <1>8, FailsSafe DEF BadInstruction
<1>9. CASE EndOfInstructions
  BY <1>9, EndSafe
<1>10. CASE UNCHANGED vars
  BY <1>10 DEF vars, reader, rules, TableSafe, RowsSorted, Building, Built, InFDE, Answered,
               InForce, Ascending, Rules
<1> QED BY <1>1, <1>2, <1>3, <1>4, <1>5, <1>6, <1>7, <1>8, <1>9, <1>10 DEF Next

(* TableBuilder keeps that invariant on every instruction stream.          *)
LEMMA TableSafeAlways == Spec => []TableSafe
<1>1. Init => TableSafe
  <2> SUFFICES ASSUME Init PROVE TableSafe
    OBVIOUS
  <2>1. /\ phase = "cie" /\ current_loc = pc_begin /\ row_pc = pc_begin /\ rows = <<>>
        /\ cur_cfa = kUndefinedCFA /\ cur_regs = NoRegRules
        /\ declared = [pc \in Addresses |-> Rules(kUndefinedCFA, NoRegRules)]
    BY DEF Init
  <2>2. pc_begin \in Int /\ Addresses \subseteq Int
    <3>1. PICK range \in Ranges : pc_begin = range[1]
      BY DEF Init
    <3>2. range \in Addresses \X Addresses /\ Addresses \subseteq Int
      BY TableAssumption DEF Addresses
    <3> QED BY <3>1, <3>2
  <2>3. RowsSorted /\ Built
    BY <2>1 DEF RowsSorted, Ascending, Built
  <2>4. Building
    BY <2>1, <2>2 DEF Building
  <2> QED BY <2>3, <2>4 DEF TableSafe
<1>2. TypeOK /\ TableSafe /\ [Next]_vars => TableSafe'
  BY TableStep
<1> QED BY <1>1, <1>2, TableTypeCorrect, PTL DEF Spec

(* The rows of a table are in strictly ascending order and start at        *)
(* pc_begin, unless an advance wrapped (cfi-table.h on CFI::rows).         *)
THEOREM RowsAreSorted == Spec => []RowsSorted
<1>1. TableSafe => RowsSorted
  BY DEF TableSafe
<1> QED BY <1>1, TableSafeAlways, PTL

(* RowAt finds the row that InForce describes.                             *)
LEMMA RowAtInForce ==
  ASSUME TypeOK, Ascending, NEW pc \in InFDE, NEW i \in 1..Len(rows), InForce(i, pc)
  PROVE  RowAt(cfi, pc) = i
<1> DEFINE begun == {j \in 1..Len(rows) : rows[j].pc_start <= pc}
<1>1. /\ Addresses \subseteq Int /\ pc \in Int /\ pc_begin \in Int /\ pc_end \in Int
      /\ pc_begin <= pc /\ pc < pc_end
  BY TableAssumption DEF InFDE, Addresses, TypeOK
<1>2. Len(rows) \in Nat /\ \A j \in 1..Len(rows) : rows[j].pc_start \in Int
  <2>1. rows \in Seq(RowSet) /\ \A j \in 1..Len(rows) : rows[j] \in RowSet
    BY DEF TypeOK
  <2>2. \A j \in 1..Len(rows) : rows[j].pc_start \in Addresses
    BY <2>1 DEF RowSet
  <2>3. Len(rows) \in Nat
    BY <2>1
  <2> QED BY <1>1, <2>2, <2>3
<1>3. i \in begun
  BY DEF InForce
<1>4. ASSUME NEW j \in begun PROVE j <= i
  <2> SUFFICES ASSUME j > i PROVE FALSE
    BY <1>2
  <2>1. i + 1 \in 1..Len(rows) /\ i < Len(rows)
    BY <1>2
  <2>2. pc < rows[i + 1].pc_start
    BY <2>1 DEF InForce
  <2>3. j = i + 1 \/ rows[i + 1].pc_start < rows[j].pc_start
    BY <1>2, <2>1 DEF Ascending
  <2> QED BY <1>1, <1>2, <2>1, <2>2, <2>3
<1>5. \A k \in begun : (\A j \in begun : j <= k) => k = i
  BY <1>2, <1>3, <1>4
<1>6. i = CHOOSE k \in begun : \A j \in begun : j <= k
  <2> HIDE DEF begun
  <2> QED BY <1>3, <1>4, <1>5
<1>7. cfi.rows = rows /\ cfi.pc_begin = pc_begin /\ cfi.pc_end = pc_end
  BY DEF cfi
<1>8. RowAt(cfi, pc) = CHOOSE k \in begun : \A j \in begun : j <= k
  <2>1. begun # {} /\ ~(pc < pc_begin) /\ ~(pc >= pc_end)
    BY <1>1, <1>3
  <2>2. begun = {j \in 1..Len(cfi.rows) : cfi.rows[j].pc_start <= pc}
    BY <1>7
  <2> HIDE DEF begun
  <2> QED BY <1>7, <2>1, <2>2, Zenon DEF RowAt
<1> QED BY <1>6, <1>8

(* Looking a pc up in the table gives the rules that the call frame        *)
(* instructions up to that pc left in force (HandleSetLoc, the closing     *)
(* move of RunInstructions, CFI::RowAt).                                   *)
THEOREM TableMeansDeclared == Spec => []TableIsDeclared
<1>1. TypeOK /\ TableSafe => TableIsDeclared
  <2> SUFFICES ASSUME TypeOK, TableSafe, phase = "read", ~wrapped, NEW pc \in InFDE
               PROVE  /\ RowAt(cfi, pc) # 0
                      /\ Rules(rows[RowAt(cfi, pc)].cfa, rows[RowAt(cfi, pc)].regs) = declared[pc]
    BY DEF TableIsDeclared
  <2>1. PICK i \in 1..Len(rows) : InForce(i, pc) /\ Rules(rows[i].cfa, rows[i].regs) = declared[pc]
    BY DEF TableSafe, Built, Answered
  <2>2. RowAt(cfi, pc) = i
    BY <2>1, RowAtInForce DEF TableSafe, RowsSorted
  <2> QED BY <2>1, <2>2
<1> QED BY <1>1, TableSafeAlways, TableTypeCorrect, PTL
=============================================================================
