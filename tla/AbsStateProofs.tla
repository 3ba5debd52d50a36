--------------------------- MODULE AbsStateProofs ---------------------------
(***************************************************************************)
(* The laws of Join that the dataflow walk relies on, for every set of     *)
(* registers, every word width and every pair of states.  A state absorbs  *)
(* another when joining the other into it changes nothing, which is what   *)
(* Join's return value tells Propagate.                                    *)
(*                                                                         *)
(* The last part is about recursive functions: the operators of the model  *)
(* that go along a sequence, or up through the addresses of an FDE, are    *)
(* written with them, and its lemmas give them their equations.            *)
(***************************************************************************)
EXTENDS AbsState, FiniteSetTheorems, WellFoundedInduction, TLAPS

(* JoinValue: joining is idempotent, both sides are absorbed by the        *)
(* result, and what a value absorbs it still absorbs after a further join. *)
LEMMA JoinValueLaws ==
  ASSUME NEW a \in AbsVals, NEW b \in AbsVals, NEW c \in AbsVals
  PROVE  /\ JoinValue(a, b) \in AbsVals
         /\ JoinValue(a, a) = a
         /\ JoinValue(JoinValue(a, b), b) = JoinValue(a, b)
         /\ JoinValue(JoinValue(a, b), a) = JoinValue(a, b)
         /\ JoinValue(a, b) = a => JoinValue(JoinValue(a, c), b) = JoinValue(a, c)
         /\ a # Top => JoinValue(a, b) # Top
<1> USE DEF JoinValue
<1>t. Bottom \in AbsVals /\ Bottom.kind = "kBottom" /\ Top.kind = "kTop" /\ Bottom # Top
  BY DEF AbsVals, Top, Bottom
<1>1. JoinValue(a, b) \in AbsVals
  BY <1>t
<1>2. JoinValue(a, a) = a
  OBVIOUS
<1>3. JoinValue(JoinValue(a, b), b) = JoinValue(a, b)
  BY <1>t
<1>4. JoinValue(JoinValue(a, b), a) = JoinValue(a, b)
  BY <1>t
<1>5. JoinValue(a, b) = a => JoinValue(JoinValue(a, c), b) = JoinValue(a, c)
  BY <1>t
<1>6. a # Top => JoinValue(a, b) # Top
  BY <1>t
<1> QED
  BY <1>1, <1>2, <1>3, <1>4, <1>5, <1>6

-----------------------------------------------------------------------------
(* A table value is determined by its identity and its two bounds.         *)
LEMMA TableValEquality ==
  ASSUME NEW a \in TableVals, NEW b \in TableVals, SameIdentity(a, b),
         a.value_bound = b.value_bound, a.table_bound = b.table_bound
  PROVE  a = b
  BY DEF TableVals, SameIdentity

(* JoinTableValue settles identity and bounds separately.                  *)
LEMMA JoinTableFields ==
  ASSUME NEW a \in TableVals, NEW b \in TableVals
  PROVE  /\ JoinTableValue(a, b) \in TableVals
         /\ JoinTableValue(a, b).value_bound = Larger(a.value_bound, b.value_bound)
         /\ JoinTableValue(a, b).table_bound = Larger(a.table_bound, b.table_bound)
         /\ SameIdentity(JoinTableValue(a, b), MergedIdentity(a, b))
<1>1. MergedIdentity(a, b) \in TableVals
  BY WordAssumption DEF MergedIdentity, TableVals, Conflict, TableVal, Bounds
<1>2. /\ Larger(a.value_bound, b.value_bound) \in Bounds
      /\ Larger(a.table_bound, b.table_bound) \in Bounds
  BY DEF Larger, TableVals
<1> QED
  BY <1>1, <1>2 DEF JoinTableValue, TableVals, SameIdentity

(* Larger, the join of the bound lattice, obeys the same laws.             *)
LEMMA LargerLaws ==
  ASSUME NEW a \in Bounds, NEW b \in Bounds, NEW c \in Bounds
  PROVE  /\ Larger(a, a) = a
         /\ Larger(Larger(a, b), a) = Larger(a, b)
         /\ Larger(Larger(a, b), b) = Larger(a, b)
         /\ Larger(a, b) = a => Larger(Larger(a, c), b) = Larger(a, c)
  BY WordAssumption DEF Larger, Bounds

(* JoinTableValue: the same laws as JoinValue.                             *)
LEMMA JoinTableValueLaws ==
  ASSUME NEW a \in TableVals, NEW b \in TableVals, NEW c \in TableVals
  PROVE  /\ JoinTableValue(a, b) \in TableVals
         /\ JoinTableValue(a, a) = a
         /\ JoinTableValue(JoinTableValue(a, b), b) = JoinTableValue(a, b)
         /\ JoinTableValue(JoinTableValue(a, b), a) = JoinTableValue(a, b)
         /\ JoinTableValue(a, b) = a
              => JoinTableValue(JoinTableValue(a, c), b) = JoinTableValue(a, c)
<1> DEFINE J(x, y) == JoinTableValue(x, y)
<1> HIDE DEF J
<1>1. ASSUME NEW x \in TableVals, NEW y \in TableVals
      PROVE  /\ J(x, y) \in TableVals
             /\ J(x, y).value_bound = Larger(x.value_bound, y.value_bound)
             /\ J(x, y).table_bound = Larger(x.table_bound, y.table_bound)
             /\ SameIdentity(J(x, y), MergedIdentity(x, y))
  BY JoinTableFields DEF J
<1>2. \A x \in TableVals : x.value_bound \in Bounds /\ x.table_bound \in Bounds
  BY DEF TableVals
<1>3. \A x, y \in TableVals :
        x.kind = y.kind /\ x.kind \in {"kNone", "kConflict"} => SameIdentity(x, y)
  BY DEF TableVals, SameIdentity
<1>4. Conflict \in TableVals /\ Conflict.kind = "kConflict"
  BY WordAssumption DEF Conflict, TableVal, TableVals, Bounds
<1>5. J(a, a) = a
  BY <1>1, <1>2, <1>3, <1>4, LargerLaws, TableValEquality DEF MergedIdentity, SameIdentity
<1>6. J(J(a, b), b) = J(a, b)
  <2>1. SameIdentity(J(J(a, b), b), J(a, b))
    BY <1>1, <1>3, <1>4 DEF MergedIdentity, SameIdentity
  <2> QED
    BY <2>1, <1>1, <1>2, LargerLaws, TableValEquality
<1>7. J(J(a, b), a) = J(a, b)
  <2>1. SameIdentity(J(J(a, b), a), J(a, b))
    BY <1>1, <1>3, <1>4 DEF MergedIdentity, SameIdentity
  <2> QED
    BY <2>1, <1>1, <1>2, LargerLaws, TableValEquality
<1>8. ASSUME J(a, b) = a
      PROVE  J(J(a, c), b) = J(a, c)
  <2>1. SameIdentity(J(J(a, c), b), J(a, c))
    BY <1>1, <1>3, <1>4, <1>8 DEF MergedIdentity, SameIdentity
  <2> QED
    BY <2>1, <1>1, <1>2, <1>8, LargerLaws, TableValEquality
<1> QED
  BY <1>1, <1>5, <1>6, <1>7, <1>8 DEF J

-----------------------------------------------------------------------------
(* A slot map is a function from some offsets to values that are not Top.  *)
LEMMA SlotMapMembership ==
  ASSUME NEW f
  PROVE  f \in SlotMaps <=> /\ DOMAIN f \subseteq Int /\ IsFiniteSet(DOMAIN f)
                            /\ f = [o \in DOMAIN f |-> f[o]]
                            /\ \A o \in DOMAIN f : f[o] \in AbsVals \ {Top}
<1>1. ASSUME f \in SlotMaps
      PROVE  /\ DOMAIN f \subseteq Int /\ IsFiniteSet(DOMAIN f)
             /\ f = [o \in DOMAIN f |-> f[o]]
             /\ \A o \in DOMAIN f : f[o] \in AbsVals \ {Top}
  <2>1. PICK S \in SUBSET Int : IsFiniteSet(S) /\ f \in [S -> AbsVals \ {Top}]
    BY <1>1 DEF SlotMaps
  <2> QED
    BY <2>1
<1>2. ASSUME DOMAIN f \subseteq Int, IsFiniteSet(DOMAIN f), f = [o \in DOMAIN f |-> f[o]],
             \A o \in DOMAIN f : f[o] \in AbsVals \ {Top}
      PROVE  f \in SlotMaps
  <2>1. f \in [DOMAIN f -> AbsVals \ {Top}]
    BY <1>2
  <2> QED
    BY <2>1, <1>2 DEF SlotMaps
<1> QED
  BY <1>1, <1>2

(* JoinSlots: the same laws; a slot only one side names is adopted.        *)
LEMMA JoinSlotsLaws ==
  ASSUME NEW f \in SlotMaps, NEW g \in SlotMaps, NEW h \in SlotMaps
  PROVE  /\ JoinSlots(f, g) \in SlotMaps
         /\ JoinSlots(f, f) = f
         /\ JoinSlots(JoinSlots(f, g), g) = JoinSlots(f, g)
         /\ JoinSlots(JoinSlots(f, g), f) = JoinSlots(f, g)
         /\ JoinSlots(f, g) = f => JoinSlots(JoinSlots(f, h), g) = JoinSlots(f, h)
<1>1. ASSUME NEW x \in SlotMaps
      PROVE  /\ DOMAIN x \subseteq Int /\ IsFiniteSet(DOMAIN x)
             /\ x = [o \in DOMAIN x |-> x[o]]
             /\ \A o \in DOMAIN x : x[o] \in AbsVals \ {Top}
  BY SlotMapMembership
<1>2. JoinSlots(f, g) \in SlotMaps
  <2>1. \A o \in DOMAIN JoinSlots(f, g) : JoinSlots(f, g)[o] \in AbsVals \ {Top}
    BY <1>1, JoinValueLaws DEF JoinSlots
  <2>2. DOMAIN JoinSlots(f, g) = DOMAIN f \cup DOMAIN g
    BY DEF JoinSlots
  <2>3. DOMAIN JoinSlots(f, g) \subseteq Int /\ IsFiniteSet(DOMAIN JoinSlots(f, g))
    <3>1. IsFiniteSet(DOMAIN f \cup DOMAIN g)
      BY <1>1, FS_Union, Zenon
    <3> QED
      BY <2>2, <3>1, <1>1
  <2>4. JoinSlots(f, g) = [o \in DOMAIN JoinSlots(f, g) |-> JoinSlots(f, g)[o]]
    BY DEF JoinSlots
  <2> QED
    BY <2>1, <2>3, <2>4, SlotMapMembership
<1>3. JoinSlots(f, f) = f
  <2>1. DOMAIN f \cup DOMAIN f = DOMAIN f /\ \A o \in DOMAIN f : JoinValue(f[o], f[o]) = f[o]
    BY DEF JoinValue
  <2>2. JoinSlots(f, f) = [o \in DOMAIN f |-> f[o]]
    BY <2>1 DEF JoinSlots
  <2> QED
    BY <2>2, <1>1
<1>4. JoinSlots(JoinSlots(f, g), g) = JoinSlots(f, g)
  BY <1>1, JoinValueLaws DEF JoinSlots
<1>5. JoinSlots(JoinSlots(f, g), f) = JoinSlots(f, g)
  BY <1>1, JoinValueLaws DEF JoinSlots
<1>6. ASSUME JoinSlots(f, g) = f
      PROVE  JoinSlots(JoinSlots(f, h), g) = JoinSlots(f, h)
  <2>1. /\ DOMAIN g \subseteq DOMAIN f
        /\ \A o \in DOMAIN g : JoinValue(f[o], g[o]) = f[o]
    BY <1>6 DEF JoinSlots
  <2> QED
    BY <2>1, <1>1, JoinValueLaws DEF JoinSlots
<1> QED
  BY <1>2, <1>3, <1>4, <1>5, <1>6

-----------------------------------------------------------------------------
(* JoinLastCmp: a guard survives only where both sides agree on it.        *)
LEMMA JoinLastCmpLaws ==
  ASSUME NEW a, NEW b, NEW c
  PROVE  /\ JoinLastCmp(a, a) = a
         /\ JoinLastCmp(JoinLastCmp(a, b), b) = JoinLastCmp(a, b)
         /\ JoinLastCmp(JoinLastCmp(a, b), a) = JoinLastCmp(a, b)
         /\ JoinLastCmp(a, b) = a => JoinLastCmp(JoinLastCmp(a, c), b) = JoinLastCmp(a, c)
  BY DEF JoinLastCmp

(* Join, abs-state.cc, on whole states.  Joining twice changes nothing the *)
(* second time; the result absorbs both sides; and a state never stops     *)
(* absorbing what it once absorbed.                                        *)
THEOREM JoinLaws ==
  ASSUME NEW s \in AbsStates, NEW t \in AbsStates, NEW u \in AbsStates
  PROVE  /\ Join(t, s) \in AbsStates
         /\ Join(s, s) = s
         /\ Join(t, Join(t, s)) = Join(t, s)
         /\ Join(s, Join(t, s)) = Join(t, s)
         /\ Join(t, s) = s => Join(t, Join(u, s)) = Join(u, s)
<1>1. ASSUME NEW x \in AbsStates
      PROVE  /\ x.gpr \in [GPRs -> AbsVals]
             /\ x.tbl \in [GPRs -> TableVals]
             /\ x.slots \in SlotMaps
             /\ x.last_cmp \in FlagsGuards \cup {nullopt}
             /\ x = [gpr |-> x.gpr, tbl |-> x.tbl, slots |-> x.slots, last_cmp |-> x.last_cmp]
  BY <1>1 DEF AbsStates
<1>2. Join(t, s) \in AbsStates
  <2>1. Join(t, s).gpr \in [GPRs -> AbsVals]
    BY <1>1, JoinValueLaws DEF Join
  <2>2. Join(t, s).tbl \in [GPRs -> TableVals]
    BY <1>1, JoinTableValueLaws DEF Join
  <2>3. Join(t, s).slots \in SlotMaps
    BY <1>1, JoinSlotsLaws DEF Join
  <2>4. Join(t, s).last_cmp \in FlagsGuards \cup {nullopt}
    BY <1>1 DEF Join, JoinLastCmp
  <2> QED
    BY <2>1, <2>2, <2>3, <2>4 DEF Join, AbsStates
<1>3. Join(s, s) = s
  <2>1. [r \in GPRs |-> JoinValue(s.gpr[r], s.gpr[r])] = s.gpr
    BY <1>1, JoinValueLaws
  <2>2. [r \in GPRs |-> JoinTableValue(s.tbl[r], s.tbl[r])] = s.tbl
    BY <1>1, JoinTableValueLaws
  <2> QED
    BY <1>1, <2>1, <2>2, JoinSlotsLaws, JoinLastCmpLaws DEF Join
<1>4. Join(t, Join(t, s)) = Join(t, s)
  <2>1. \A r \in GPRs : JoinValue(Join(t, s).gpr[r], t.gpr[r]) = Join(t, s).gpr[r]
    BY <1>1, JoinValueLaws DEF Join
  <2>2. \A r \in GPRs : JoinTableValue(Join(t, s).tbl[r], t.tbl[r]) = Join(t, s).tbl[r]
    BY <1>1, JoinTableValueLaws DEF Join
  <2>3. JoinSlots(Join(t, s).slots, t.slots) = Join(t, s).slots
    BY <1>1, JoinSlotsLaws DEF Join
  <2>4. JoinLastCmp(Join(t, s).last_cmp, t.last_cmp) = Join(t, s).last_cmp
    BY JoinLastCmpLaws DEF Join
  <2> QED
    BY <2>1, <2>2, <2>3, <2>4 DEF Join
<1>5. Join(s, Join(t, s)) = Join(t, s)
  <2>1. \A r \in GPRs : JoinValue(Join(t, s).gpr[r], s.gpr[r]) = Join(t, s).gpr[r]
    BY <1>1, JoinValueLaws DEF Join
  <2>2. \A r \in GPRs : JoinTableValue(Join(t, s).tbl[r], s.tbl[r]) = Join(t, s).tbl[r]
    BY <1>1, JoinTableValueLaws DEF Join
  <2>3. JoinSlots(Join(t, s).slots, s.slots) = Join(t, s).slots
    BY <1>1, JoinSlotsLaws DEF Join
  <2>4. JoinLastCmp(Join(t, s).last_cmp, s.last_cmp) = Join(t, s).last_cmp
    BY JoinLastCmpLaws DEF Join
  <2> QED
    BY <2>1, <2>2, <2>3, <2>4 DEF Join
<1>6. ASSUME Join(t, s) = s
      PROVE  Join(t, Join(u, s)) = Join(u, s)
  <2>1. /\ \A r \in GPRs : JoinValue(s.gpr[r], t.gpr[r]) = s.gpr[r]
        /\ \A r \in GPRs : JoinTableValue(s.tbl[r], t.tbl[r]) = s.tbl[r]
        /\ JoinSlots(s.slots, t.slots) = s.slots
        /\ JoinLastCmp(s.last_cmp, t.last_cmp) = s.last_cmp
    BY <1>6 DEF Join
  <2>2. ASSUME NEW r \in GPRs
        PROVE  JoinValue(Join(u, s).gpr[r], t.gpr[r]) = Join(u, s).gpr[r]
    <3>1. /\ s.gpr[r] \in AbsVals /\ t.gpr[r] \in AbsVals /\ u.gpr[r] \in AbsVals
          /\ JoinValue(s.gpr[r], t.gpr[r]) = s.gpr[r]
      BY <1>1, <2>1
    <3>2. JoinValue(JoinValue(s.gpr[r], u.gpr[r]), t.gpr[r]) = JoinValue(s.gpr[r], u.gpr[r])
      BY <3>1, JoinValueLaws
    <3>3. Join(u, s).gpr[r] = JoinValue(s.gpr[r], u.gpr[r])
      BY DEF Join
    <3> QED
      BY <3>2, <3>3
  <2>3. ASSUME NEW r \in GPRs
        PROVE  JoinTableValue(Join(u, s).tbl[r], t.tbl[r]) = Join(u, s).tbl[r]
    <3>1. /\ s.tbl[r] \in TableVals /\ t.tbl[r] \in TableVals /\ u.tbl[r] \in TableVals
          /\ JoinTableValue(s.tbl[r], t.tbl[r]) = s.tbl[r]
      BY <1>1, <2>1
    <3>2. JoinTableValue(JoinTableValue(s.tbl[r], u.tbl[r]), t.tbl[r]) = JoinTableValue(s.tbl[r], u.tbl[r])
      BY <3>1, JoinTableValueLaws
    <3>3. Join(u, s).tbl[r] = JoinTableValue(s.tbl[r], u.tbl[r])
      BY DEF Join
    <3> QED
      BY <3>2, <3>3
  <2>4. JoinSlots(Join(u, s).slots, t.slots) = Join(u, s).slots
    BY <1>1, <2>1, JoinSlotsLaws DEF Join
  <2>5. JoinLastCmp(Join(u, s).last_cmp, t.last_cmp) = Join(u, s).last_cmp
    BY <2>1, JoinLastCmpLaws DEF Join
  <2> QED
    BY <2>2, <2>3, <2>4, <2>5 DEF Join
<1> QED
  BY <1>2, <1>3, <1>4, <1>5, <1>6
-----------------------------------------------------------------------------
(* The image of a finite set under a function is finite.                   *)
LEMMA FiniteImage ==
  ASSUME NEW S, IsFiniteSet(S), NEW g, DOMAIN g = S
  PROVE  IsFiniteSet({g[x] : x \in S})
<1> DEFINE T == {g[x] : x \in S}
           h == [x \in S |-> g[x]]
<1>1. h \in Surjection(S, T)
  BY DEF Surjection
<1> HIDE DEF h, T
<1>2. IsFiniteSet(T)
  BY <1>1, FS_Surjection
<1> QED BY <1>2 DEF T

(* Join reports finitely many conflicts.                                   *)
LEMMA ConflictsFinite ==
  ASSUME NEW incoming \in AbsStates, NEW state \in AbsStates, NEW pc
  PROVE  IsFiniteSet({<<pc, c>> : c \in JoinConflicts(incoming, state)})
<1> DEFINE R == {x \in GPRs : RealConflict(state.gpr[x], incoming.gpr[x])}
           O == {x \in DOMAIN state.slots \cap DOMAIN incoming.slots :
                   RealConflict(state.slots[x], incoming.slots[x])}
           reg(r) == [reg |-> r, offset |-> 0, lhs |-> state.gpr[r], rhs |-> incoming.gpr[r]]
           slot(o) == [reg |-> kSlotConflict, offset |-> o, lhs |-> state.slots[o], rhs |-> incoming.slots[o]]
<1>1. JoinConflicts(incoming, state) = {reg(r) : r \in R} \cup {slot(o) : o \in O}
  BY Zenon DEF JoinConflicts
<1>2. IsFiniteSet(R)
  <2>1. IsFiniteSet(0..15)
    <3>1. 0 \in Int /\ 15 \in Int
      OBVIOUS
    <3> QED BY <3>1, FS_Interval, Zenon
  <2>2. R \subseteq 0..15
    BY GPRsAssumption
  <2> HIDE DEF R
  <2> QED BY <2>1, <2>2, FS_Subset
<1>3. IsFiniteSet(O)
  <2>1. state.slots \in SlotMaps
    BY DEF AbsStates
  <2>2. IsFiniteSet(DOMAIN state.slots)
    BY <2>1 DEF SlotMaps
  <2>3. O \subseteq DOMAIN state.slots
    OBVIOUS
  <2> HIDE DEF O
  <2> QED BY <2>2, <2>3, FS_Subset
<1> DEFINE regs == [r \in R |-> <<pc, reg(r)>>]
           slots == [o \in O |-> <<pc, slot(o)>>]
           A == {regs[r] : r \in R}
           B == {slots[o] : o \in O}
<1>4. {<<pc, c>> : c \in JoinConflicts(incoming, state)} = A \cup B
  <2> HIDE DEF R, O, reg, slot
  <2> QED BY <1>1
<1>5. IsFiniteSet(A) /\ IsFiniteSet(B)
  <2>1. DOMAIN regs = R /\ DOMAIN slots = O
    OBVIOUS
  <2> HIDE DEF regs, slots, R, O
  <2> QED BY <1>2, <1>3, <2>1, FiniteImage
<1> HIDE DEF A, B
<1>6. IsFiniteSet(A \cup B)
  BY <1>5, FS_Union
<1> QED BY <1>4, <1>6

-----------------------------------------------------------------------------
(* Recursive functions.                                                    *)

(* A set of numbers that is not empty has a first one.                     *)
LEMMA FirstOf ==
  ASSUME NEW T, T \subseteq Nat, T # {}
  PROVE  \E j \in T : \A m \in T : j <= m
<1>1. PICK j \in T : \A m \in T : ~(<<m, j>> \in OpToRel(<, Nat))
  <2> HIDE DEF OpToRel
  <2> QED BY NatLessThanWellFounded, WFMin, Zenon
<1>2. \A m \in T : ~(m < j)
  BY <1>1, Zenon DEF OpToRel
<1> QED BY <1>2

(* Induction up to n, for the members of a set.                            *)
LEMMA Induction ==
  ASSUME NEW n \in Nat, NEW T, 0 \in T, \A i \in 1..n : i - 1 \in T => i \in T
  PROVE  \A i \in 0..n : i \in T
<1> DEFINE Bad == (0..n) \ T
<1>1. ASSUME Bad # {} PROVE FALSE
  <2>1. PICK j \in Bad : \A m \in Bad : j <= m
    <3>1. Bad \subseteq Nat OBVIOUS
    <3> HIDE DEF Bad
    <3> QED BY <1>1, <3>1, FirstOf
  <2>2. j \in 1..n /\ j - 1 \in 0..n /\ j - 1 \notin Bad
    BY <2>1
  <2> QED BY <2>1, <2>2
<1> QED BY <1>1

(* A function can be defined by its first value and a step.                *)
Runs(n, S, a, step) ==
  {f \in [0..n -> S] : f[0] = a /\ \A i \in 1..n : f[i] = step[i][f[i - 1]]}

(* There is one.                                                           *)
LEMMA RecursionExists ==
  ASSUME NEW n \in Nat, NEW S, NEW a \in S, NEW step \in [1..n -> [S -> S]]
  PROVE  Runs(n, S, a, step) # {}
<1> DEFINE Good(k, f) == f[0] = a /\ \A i \in 1..k : f[i] = step[i][f[i - 1]]
           T == {k \in 0..n : \E f \in [0..k -> S] : Good(k, f)}
<1>1. 0 \in T
  <2> DEFINE f == [i \in 0..0 |-> a]
  <2>1. f \in [0..0 -> S] /\ Good(0, f)
    OBVIOUS
  <2> HIDE DEF Good, f
  <2> QED BY <2>1
<1>2. ASSUME NEW k \in 1..n, k - 1 \in T PROVE k \in T
  <2>1. PICK g \in [0..(k - 1) -> S] : Good(k - 1, g)
    BY <1>2
  <2> DEFINE f == [i \in 0..k |-> IF i = k THEN step[k][g[k - 1]] ELSE g[i]]
  <2>2. f \in [0..k -> S]
    BY <2>1
  <2>3. Good(k, f)
    <3>1. f[0] = a BY <2>1
    <3>2. ASSUME NEW i \in 1..k PROVE f[i] = step[i][f[i - 1]]
      <4>1. f[i - 1] = g[i - 1]
        OBVIOUS
      <4>2. CASE i = k
        BY <4>1, <4>2
      <4>3. CASE i # k
        BY <2>1, <4>1, <4>3
      <4> QED BY <4>2, <4>3
    <3> QED BY <3>1, <3>2
  <2> HIDE DEF f, Good
  <2> QED BY <2>2, <2>3
<1>3. n \in T
  <2>1. n \in 0..n
    OBVIOUS
  <2> HIDE DEF T
  <2>2. \A i \in 0..n : i \in T
    BY <1>1, <1>2, Induction
  <2> QED BY <2>1, <2>2
<1> QED BY <1>3 DEF Runs

(* What every step keeps, every value has.                                 *)
LEMMA StepsStay ==
  ASSUME NEW n \in Nat, NEW S, NEW run, run[0] \in S,
         \A i \in 1..n : run[i - 1] \in S => run[i] \in S
  PROVE  \A i \in 0..n : run[i] \in S
<1> DEFINE T == {i \in 0..n : run[i] \in S}
<1>1. 0 \in T /\ \A i \in 1..n : i - 1 \in T => i \in T
  OBVIOUS
<1> HIDE DEF T
<1>2. \A i \in 0..n : i \in T
  BY <1>1, Induction
<1> QED BY <1>2 DEF T

(* Concatenating sequences over a set yields one over it.                  *)
LEMMA InOrderTyped ==
  ASSUME NEW X, NEW parts \in Seq(Seq(X))
  PROVE  InOrder(parts) \in Seq(X)
<1> DEFINE S == Seq(X)
           n == Len(parts)
           a == <<>>
           Step(s, i) == s \o parts[i]
           step == [i \in 1..n |-> [s \in S |-> Step(s, i)]]
           upto[i \in 0..n] == IF i = 0 THEN a ELSE Step(upto[i - 1], i)
<1>1. n \in Nat /\ n \in 0..n /\ a \in S
  OBVIOUS
<1>2. \A i \in 1..n, s \in S : Step(s, i) \in S
  OBVIOUS
<1>3. InOrder(parts) = upto[n]
  BY Zenon DEF InOrder
<1> SUFFICES upto[n] \in S
  BY <1>3
<1> HIDE DEF n, S, a, Step
<1>4. \E f : f = [i \in 0..n |-> IF i = 0 THEN a ELSE Step(f[i - 1], i)]
  <2> HIDE DEF upto
  <2>1. step \in [1..n -> [S -> S]] /\ \A i \in 1..n, s \in S : step[i][s] = Step(s, i)
    BY <1>2
  <2> HIDE DEF step
  <2>2. PICK f \in Runs(n, S, a, step) : TRUE
    BY <1>1, <2>1, RecursionExists
  <2>3. f = [i \in 0..n |-> IF i = 0 THEN a ELSE Step(f[i - 1], i)]
    BY <1>1, <2>1, <2>2 DEF Runs
  <2> QED BY <2>3
<1>5. upto = [i \in 0..n |-> IF i = 0 THEN a ELSE Step(upto[i - 1], i)]
  BY <1>4, Zenon
<1> HIDE DEF upto
<1>6. upto[0] \in S /\ \A i \in 1..n : upto[i - 1] \in S => upto[i] \in S
  BY <1>1, <1>2, <1>5
<1> QED BY <1>1, <1>6, StepsStay

-----------------------------------------------------------------------------
(* Functions on the addresses of an FDE whose value at one depends on the  *)
(* value at a later one.                                                   *)

(* Induction from the end of the FDE down.                                 *)
LEMMA DownwardInduction ==
  ASSUME NEW lo \in Int, NEW hi \in Int, NEW T,
         \A pc \in lo..hi : (\A q \in (pc + 1)..hi : q \in T) => pc \in T
  PROVE  \A pc \in lo..hi : pc \in T
<1> SUFFICES ASSUME NEW pc \in lo..hi, pc \notin T PROVE FALSE
  OBVIOUS
<1> DEFINE Bad == {k \in 0..(hi - lo) : hi - k \notin T}
<1>1. Bad \subseteq Nat /\ Bad # {}
  <2>1. hi - pc \in 0..(hi - lo) /\ hi - (hi - pc) = pc
    OBVIOUS
  <2>2. hi - pc \in Bad
    BY <2>1
  <2>3. \A k \in 0..(hi - lo) : k \in Nat
    OBVIOUS
  <2>4. Bad \subseteq Nat
    BY <2>3
  <2> HIDE DEF Bad
  <2> QED BY <2>2, <2>4
<1>2. PICK k \in Bad : \A m \in Bad : k <= m
  <2> HIDE DEF Bad
  <2> QED BY <1>1, FirstOf
<1>3. k \in 0..(hi - lo) /\ hi - k \in lo..hi /\ hi - k \notin T
  BY <1>2
<1>4. \A q \in (hi - k + 1)..hi : q \in T
  <2> SUFFICES ASSUME NEW q \in (hi - k + 1)..hi, q \notin T PROVE FALSE
    OBVIOUS
  <2>1. hi - q \in 0..(hi - lo) /\ hi - (hi - q) = q /\ hi - q < k
    BY <1>3
  <2>2. hi - q \in Bad
    BY <2>1
  <2> QED BY <1>2, <1>3, <2>1, <2>2
<1> QED BY <1>3, <1>4

(* The functions whose value at an address is given, or made from the      *)
(* value at the next one.                                                  *)
Climbs(lo, hi, S, stops, base, nxt, comb) ==
  {f \in [lo..hi -> S] :
     \A pc \in lo..hi : f[pc] = IF pc \in stops THEN base[pc] ELSE comb[pc][f[nxt[pc]]]}

(* There is one.                                                           *)
LEMMA ClimbExists ==
  ASSUME NEW lo \in Int, NEW hi \in Int, NEW S, NEW stops, NEW base \in [lo..hi -> S],
         NEW nxt, NEW comb \in [lo..hi -> [S -> S]],
         \A pc \in lo..hi : pc \notin stops => nxt[pc] \in (pc + 1)..hi
  PROVE  Climbs(lo, hi, S, stops, base, nxt, comb) # {}
<1> DEFINE Val(f, pc) == IF pc \in stops THEN base[pc] ELSE comb[pc][f[nxt[pc]]]
           From(pc) == {f \in [lo..hi -> S] : \A q \in pc..hi : f[q] = Val(f, q)}
           T == {pc \in lo..(hi + 1) : From(pc) # {}}
<1>0. CASE lo > hi
  <2> DEFINE f == [pc \in lo..hi |-> base[pc]]
  <2>1. f \in Climbs(lo, hi, S, stops, base, nxt, comb)
    BY <1>0 DEF Climbs
  <2> QED BY <2>1
<1>1. CASE lo <= hi
  <2>1. From(hi + 1) # {}
    <3>1. base \in From(hi + 1)
      OBVIOUS
    <3> QED BY <3>1
  <2>2. ASSUME NEW pc \in lo..hi, From(pc + 1) # {} PROVE From(pc) # {}
    <3>1. PICK g \in [lo..hi -> S] : \A q \in (pc + 1)..hi : g[q] = Val(g, q)
      BY <2>2
    <3> DEFINE v == Val(g, pc)
               f == [g EXCEPT ![pc] = v]
    <3>2. v \in S
      <4>1. CASE pc \in stops
        BY <4>1
      <4>2. CASE pc \notin stops
        <5>1. nxt[pc] \in lo..hi
          BY <4>2
        <5>2. g[nxt[pc]] \in S /\ comb[pc] \in [S -> S]
          BY <5>1
        <5> QED BY <4>2, <5>2
      <4> QED BY <4>1, <4>2
    <3> HIDE DEF v
    <3>3. f \in [lo..hi -> S] /\ f[pc] = v /\ \A q \in (pc + 1)..hi : f[q] = g[q]
      BY <3>2
    <3> HIDE DEF f
    <3>4. \A q \in pc..hi : q \notin stops => f[nxt[q]] = g[nxt[q]]
      <4> TAKE q \in pc..hi
      <4>1. q \notin stops => nxt[q] \in (pc + 1)..hi
        BY <1>1
      <4> QED BY <4>1, <3>3
    <3>5. \A q \in pc..hi : Val(f, q) = Val(g, q)
      BY <3>4
    <3>6. \A q \in pc..hi : f[q] = Val(f, q)
      <4> TAKE q \in pc..hi
      <4>1. CASE q = pc
        BY <4>1, <3>3, <3>5 DEF v
      <4>2. CASE q # pc
        <5>1. q \in (pc + 1)..hi
          BY <4>2
        <5> HIDE DEF Val
        <5> QED BY <5>1, <3>1, <3>3, <3>5
      <4> QED BY <4>1, <4>2
    <3> HIDE DEF Val
    <3>7. f \in From(pc)
      BY <3>3, <3>6
    <3> QED BY <3>7
  <2> HIDE DEF From
  <2>3. \A pc \in lo..hi : (\A q \in (pc + 1)..hi : q \in T) => pc \in T
    <3> SUFFICES ASSUME NEW pc \in lo..hi, \A q \in (pc + 1)..hi : q \in T PROVE pc \in T
      OBVIOUS
    <3>0. pc \in lo..(hi + 1)
      OBVIOUS
    <3>1. From(pc + 1) # {}
      <4>1. CASE pc = hi
        BY <4>1, <2>1
      <4>2. CASE pc # hi
        <5>1. pc + 1 \in (pc + 1)..hi
          BY <4>2
        <5>2. pc + 1 \in T
          BY <5>1
        <5> QED BY <5>2
      <4> QED BY <4>1, <4>2
    <3> QED BY <3>0, <3>1, <2>2
  <2> HIDE DEF T
  <2>4. \A pc \in lo..hi : pc \in T
    BY <2>3, DownwardInduction
  <2>5. PICK f : f \in From(lo)
    BY <1>1, <2>4 DEF T
  <2> HIDE DEF Val
  <2>6. f \in Climbs(lo, hi, S, stops, base, nxt, comb)
    BY <2>5 DEF From, Climbs, Val
  <2> QED BY <2>6
<1> QED BY <1>0, <1>1
=============================================================================
