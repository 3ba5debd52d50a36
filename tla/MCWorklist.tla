----------------------------- MODULE MCWorklist -----------------------------
(***************************************************************************)
(* Worklist on every control-flow graph over three instructions whose      *)
(* effects are drawn from a small set, cycles and self-loops included.     *)
(***************************************************************************)
EXTENDS Worklist

kPCs == 0..2

MCPCs(f) == kPCs

(* What an instruction may do: clobber rbp, set rbp to a fixed place, move *)
(* rsp down one slot and save rbp there, bound rbp, compare rbp.           *)
Effects == {"clobber", "frame", "push", "bound", "cmp"}

Apply(effect, st) ==
  LET rsp == st.gpr[kDWARFRsp] IN
  CASE effect = "clobber" -> ClobberReg(st, kDWARFRbp)
    [] effect = "frame"   -> SetReg(st, kDWARFRbp, CFARel(-16))
    [] effect = "push"    -> IF rsp.kind = "kCFARel"
                             THEN SetSlot(SetReg(st, kDWARFRsp, CFARel(rsp.delta - 8)),
                                          rsp.delta - 8, st.gpr[kDWARFRbp])
                             ELSE st
    [] effect = "bound"   -> ApplyValueBound(st, kDWARFRbp, 1)
    [] effect = "cmp"     -> [st EXCEPT !.last_cmp = FlagsGuard(kDWARFRbp, WordBits, 1, kBoundTop)]

(* Successors in the order Drain would propagate them: fall-through first. *)
Successors == {<<>>, <<0>>, <<1>>, <<2>>, <<2, 1>>}

(* A cap no walk comes near, and one that most walks hit.                  *)
kEnough == 10

MCFDEs == [cap : {3, kEnough}, effect : [kPCs -> Effects],
           succ : {s \in [kPCs -> Successors] : s[0] \in {<<1>>, <<2, 1>>}}]

MCCap(f) == f.cap

MCEdges(f, pc, st) ==
  [i \in 1..Len(f.succ[pc]) |-> [to |-> f.succ[pc][i], state |-> Apply(f.effect[pc], st)]]

EntryRow == [cfa |-> RegOffset(kDWARFRsp, 8),
             regs |-> [r \in DWARFRegs |-> IF r = kDWARFRip THEN AtCFAOffset(-8) ELSE kUnset]]

(* The entry, and pc 2 as a landing pad no call site led to.               *)
MCSeeds(f) == {[to |-> 0, state |-> SeedFromRow(EntryRow, TRUE)],
               [to |-> 2, state |-> SeedFromRow(EntryRow, FALSE)]}

(* Every walk ends, and one whose cap is high enough ends in a fixed point *)
(* with the cap unused: a component of an in-state changes only a few      *)
(* times (Drain, Join).                                                    *)
Converges ==
  <>[](/\ todo = <<>>
       /\ worklist = <<>> \/ hit_cap
       /\ fde.cap = kEnough => worklist = <<>> /\ ~hit_cap)
=============================================================================
