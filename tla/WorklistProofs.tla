--------------------------- MODULE WorklistProofs ---------------------------
(***************************************************************************)
(* The dataflow walk of FDEChecker converges to a fixed point: proofs for  *)
(* every code, every transfer function and every iteration cap.  The       *)
(* inductive invariant is TypeOK, PendingIsQueued and Settled together:    *)
(* Settled needs the dedup flag to be exact, since a pc whose in-state     *)
(* changed while it was wrongly flagged would never be revisited.          *)
(***************************************************************************)
EXTENDS Worklist, AbsStateProofs

Inv == TypeOK /\ PendingIsQueued /\ Settled

(* The edges in hand: the first, and the others.                           *)
LEMMA HeadAndTail ==
  ASSUME NEW S, NEW s \in Seq(S), s # <<>>
  PROVE  /\ Head(s) \in S /\ Head(s) = s[1]
         /\ Tail(s) \in Seq(S)
         /\ Len(s) \in Nat /\ Len(Tail(s)) = Len(s) - 1
         /\ \A i \in 1..Len(Tail(s)) : Tail(s)[i] = s[i + 1]
OBVIOUS

(* What Propagate does to the tables, in terms of the laws of Join.        *)
LEMMA PropagateEffect ==
  ASSUME TypeOK, NEW to \in PCs(fde), NEW st \in AbsStates, Propagate(to, st)
  PROVE  /\ in_states' \in [Reached \cup {to} -> AbsStates]
         /\ \A p \in Reached : Absorbed(in_states[p], in_states'[p])
         /\ \A p \in Reached, e \in AbsStates :
              Absorbed(e, in_states[p]) => Absorbed(e, in_states'[p])
         /\ Absorbed(st, in_states'[to])
<1> USE DEF TypeOK, Reached, Absorbed
<1>1. CASE FirstSighting(to, st)
  BY <1>1, JoinLaws DEF FirstSighting
<1>2. CASE JoinInto(to, st)
  <2>1. /\ to \in Reached
        /\ in_states' = [in_states EXCEPT ![to] = Join(st, in_states[to])]
    BY <1>2 DEF JoinInto, Joined, Enqueues
  <2>2. /\ in_states'[to] = Join(st, in_states[to])
        /\ \A p \in Reached : p # to => in_states'[p] = in_states[p]
        /\ DOMAIN in_states' = Reached
        /\ in_states[to] \in AbsStates
    BY <2>1
  <2>3. /\ in_states'[to] \in AbsStates
        /\ Absorbed(in_states[to], in_states'[to])
        /\ Absorbed(st, in_states'[to])
        /\ \A e \in AbsStates : Absorbed(e, in_states[to]) => Absorbed(e, in_states'[to])
    BY <2>2, JoinLaws
  <2>4. \A p \in Reached : Absorbed(in_states[p], in_states[p])
    BY JoinLaws
  <2>5. in_states' \in [Reached \cup {to} -> AbsStates]
    BY <2>1, <2>3
  <2> HIDE DEF Absorbed
  <2> QED
    BY <2>2, <2>3, <2>4, <2>5
<1> QED
  BY <1>1, <1>2 DEF Propagate

(* What Propagate does to the queue: it queues to, or nothing, and a pc    *)
(* that is not queued afterwards kept its in-state.                        *)
LEMMA PropagateQueue ==
  ASSUME TypeOK, PendingIsQueued, NEW to \in PCs(fde), NEW st \in AbsStates, Propagate(to, st)
  PROVE  /\ worklist' \in Seq(Reached \cup {to})
         /\ pending_pushes' \subseteq Reached \cup {to}
         /\ PendingIsQueued'
         /\ pending_pushes \subseteq pending_pushes'
         /\ \A p \in Reached \cup {to} :
              p \notin pending_pushes' => p \in Reached /\ in_states'[p] = in_states[p]
<1> USE DEF TypeOK, Reached, PendingIsQueued
<1>1. CASE /\ worklist' = Append(worklist, to)
           /\ pending_pushes' = pending_pushes \cup {to}
           /\ to \notin pending_pushes
           /\ \A p \in Reached : p # to => in_states'[p] = in_states[p]
  <2>1. /\ Len(worklist') = Len(worklist) + 1
        /\ worklist'[Len(worklist) + 1] = to
        /\ \A i \in 1..Len(worklist) : worklist'[i] = worklist[i]
    BY <1>1
  <2>2. worklist' \in Seq(Reached \cup {to})
    BY <1>1
  <2>3. pending_pushes' = {worklist'[i] : i \in 1..Len(worklist')}
    BY <1>1, <2>1
  <2>4. \A i, j \in 1..Len(worklist') : worklist'[i] = worklist'[j] => i = j
    BY <1>1, <2>1
  <2> QED
    BY <1>1, <2>2, <2>3, <2>4
<1>2. CASE /\ UNCHANGED <<worklist, pending_pushes, in_states>>
           /\ to \in Reached
  BY <1>2
<1>3. CASE /\ UNCHANGED <<worklist, pending_pushes>>
           /\ to \in pending_pushes
           /\ \A p \in Reached : p # to => in_states'[p] = in_states[p]
  BY <1>3
<1>4. CASE FirstSighting(to, st)
  BY <1>1, <1>4 DEF FirstSighting
<1>5. CASE JoinInto(to, st)
  BY <1>1, <1>2, <1>3, <1>5 DEF JoinInto, Joined, Enqueues
<1> QED
  BY <1>4, <1>5 DEF Propagate

(* What Propagate reports stays finite.                                    *)
LEMMA PropagateReports ==
  ASSUME TypeOK, NEW to \in PCs(fde), NEW st \in AbsStates, Propagate(to, st)
  PROVE  IsFiniteSet(join_conflicts')
<1>1. CASE FirstSighting(to, st)
  BY <1>1 DEF FirstSighting, TypeOK
<1>2. CASE JoinInto(to, st)
  <2> DEFINE reported == {<<to, c>> : c \in JoinConflicts(st, in_states[to])}
  <2>1. in_states[to] \in AbsStates /\ IsFiniteSet(join_conflicts)
    BY <1>2 DEF JoinInto, TypeOK, Reached
  <2>2. join_conflicts' = join_conflicts \cup reported
    BY <1>2 DEF JoinInto
  <2>3. IsFiniteSet(reported)
    BY <2>1, ConflictsFinite
  <2> HIDE DEF reported
  <2>4. IsFiniteSet(join_conflicts \cup reported)
    BY <2>1, <2>3, FS_Union
  <2> QED BY <2>2, <2>4
<1> QED BY <1>1, <1>2 DEF Propagate

-----------------------------------------------------------------------------
(* Nothing is reached, queued or in hand before the first seed.            *)
LEMMA InitInv == Init => Inv
<1> SUFFICES ASSUME Init
             PROVE  Inv
  OBVIOUS
<1>1. Reached = {} /\ in_states \in [Reached -> AbsStates]
  BY DEF Init, EmptyWalk, Reached
<1>2. TypeOK
  <2>1. worklist \in Seq(Reached) /\ todo \in Seq(EdgeSet(fde))
    BY DEF Init, EmptyWalk
  <2> QED
    BY <1>1, <2>1, FS_EmptySet DEF Init, EmptyWalk, TypeOK
<1>3. PendingIsQueued
  BY DEF Init, EmptyWalk, PendingIsQueued
<1>4. Settled
  BY <1>1 DEF Settled
<1> QED
  BY <1>2, <1>3, <1>4 DEF Inv

(* Pop takes the last queued pc, and only that one, off the queue.         *)
LEMMA PopQueue ==
  ASSUME TypeOK, PendingIsQueued, Pop
  PROVE  LET pc == worklist[Len(worklist)] IN
         /\ pc \in Reached
         /\ worklist' \in Seq(Reached)
         /\ PendingIsQueued'
<1> DEFINE pc == worklist[Len(worklist)]
<1>1. /\ worklist \in Seq(Reached)
      /\ worklist # <<>>
      /\ worklist' = SubSeq(worklist, 1, Len(worklist) - 1)
      /\ pending_pushes' = pending_pushes \ {pc}
  BY DEF Pop, TypeOK
<1>2. /\ Len(worklist) \in Nat \ {0}
      /\ Len(worklist') = Len(worklist) - 1
      /\ \A i \in 1..(Len(worklist) - 1) : worklist'[i] = worklist[i]
  <2>1. Len(worklist) \in Nat \ {0}
    BY <1>1
  <2> DEFINE n == Len(worklist) - 1
  <2>2. n \in Nat /\ worklist' = SubSeq(worklist, 1, n)
    BY <1>1, <2>1
  <2> HIDE DEF n
  <2>3. /\ Len(SubSeq(worklist, 1, n)) = n
        /\ \A i \in 1..n : SubSeq(worklist, 1, n)[i] = worklist[i]
    BY <2>2
  <2> QED
    BY <2>1, <2>2, <2>3 DEF n
<1>3. pc \in Reached /\ worklist' \in Seq(Reached)
  BY <1>1, <1>2
<1>4. pending_pushes' = {worklist'[i] : i \in 1..Len(worklist')}
  BY <1>1, <1>2 DEF PendingIsQueued
<1>5. \A i, j \in 1..Len(worklist') : worklist'[i] = worklist'[j] => i = j
  BY <1>1, <1>2 DEF PendingIsQueued
<1> QED
  BY <1>3, <1>4, <1>5 DEF PendingIsQueued

(* A first sighting from outside disturbs no settled pc.                  *)
LEMMA SeedInv ==
  ASSUME EdgesTyped, Inv, Seed
  PROVE  Inv'
<1> USE DEF Inv
<1>1. PICK seed \in Seeds(fde) : seed.to \notin Reached /\ Propagate(seed.to, seed.state)
  BY DEF Seed
<1>2. seed \in EdgeSet(fde) /\ seed.to \in PCs(fde) /\ seed.state \in AbsStates
  BY DEF EdgesTyped, TypeOK, EdgeSet
<1>3. /\ todo = <<>>
      /\ draining' = FALSE
      /\ UNCHANGED <<fde, visited, iterations, hit_cap, from, todo>>
  BY DEF Seed
<1>4. Reached' = Reached \cup {seed.to}
  BY <1>1, <1>2, PropagateEffect DEF Reached
<1>5. TypeOK'
  BY <1>1, <1>2, <1>3, <1>4, PropagateEffect, PropagateQueue, PropagateReports DEF TypeOK
<1>6. PendingIsQueued'
  BY <1>1, <1>2, PropagateQueue
<1>7. Settled'
  <2> SUFFICES ASSUME NEW p \in Reached' \ pending_pushes', NEW i \in 1..Len(EdgesOf(p)')
               PROVE  EdgeAbsorbed(EdgesOf(p)[i])'
    BY DEF Settled
  <2>1. p \in Reached \ pending_pushes /\ in_states'[p] = in_states[p]
    BY <1>1, <1>2, <1>4, PropagateQueue
  <2>2. EdgesOf(p)' = EdgesOf(p) /\ EdgesOf(p) \in Seq(EdgeSet(fde))
    BY <1>3, <2>1 DEF EdgesOf, EdgesTyped, TypeOK
  <2>3. EdgeAbsorbed(EdgesOf(p)[i])
    BY <1>3, <2>1, <2>2 DEF Settled
  <2>4. EdgesOf(p)[i] \in EdgeSet(fde)
    BY <2>2
  <2>5. EdgesOf(p)[i].to \in Reached /\ EdgesOf(p)[i].state \in AbsStates
    BY <2>3, <2>4 DEF EdgeAbsorbed, EdgeSet
  <2> QED
    BY <1>1, <1>2, <1>4, <2>2, <2>3, <2>5, PropagateEffect DEF EdgeAbsorbed
<1> QED
  BY <1>5, <1>6, <1>7

(* The popped pc is in hand with all its edges still to propagate.         *)
LEMMA PopInv ==
  ASSUME EdgesTyped, Inv, Pop
  PROVE  Inv'
<1> DEFINE pc == worklist[Len(worklist)]
<1> USE DEF Inv
<1>1. pc \in Reached /\ worklist' \in Seq(Reached) /\ PendingIsQueued'
  BY PopQueue
<1>2. /\ todo = <<>>
      /\ iterations' = iterations + 1
      /\ draining' = TRUE
      /\ pending_pushes' = pending_pushes \ {pc}
      /\ visited' = visited \cup {pc}
      /\ from' = {pc}
      /\ todo' = Edges(fde, pc, in_states[pc])
      /\ UNCHANGED <<fde, in_states, join_conflicts, hit_cap>>
  BY DEF Pop
<1> HIDE DEF pc
<1>3. Reached' = Reached
  BY <1>2 DEF Reached
<1>4. todo' \in Seq(EdgeSet(fde))
  BY <1>1, <1>2 DEF EdgesTyped, TypeOK
<1>5. TypeOK'
  BY <1>1, <1>2, <1>3, <1>4 DEF TypeOK
<1>6. Settled'
  <2> SUFFICES ASSUME NEW p \in Reached \ pending_pushes', NEW i \in 1..Len(EdgesOf(p))
               PROVE  \/ EdgeAbsorbed(EdgesOf(p)[i])
                      \/ p \in from' /\ \E j \in 1..Len(todo') : todo'[j] = EdgesOf(p)[i]
    BY <1>2, <1>3 DEF Settled, EdgesOf, EdgeAbsorbed
  <2>1. CASE p = pc
    BY <1>2, <2>1 DEF EdgesOf
  <2>2. CASE p # pc
    BY <1>2, <2>2 DEF Settled
  <2> QED
    BY <2>1, <2>2
<1> QED
  BY <1>1, <1>5, <1>6

(* An edge leaves the list in hand exactly when its target absorbed it.    *)
LEMMA PropagateEdgeInv ==
  ASSUME EdgesTyped, Inv, PropagateEdge
  PROVE  Inv'
<1> DEFINE e == Head(todo)
<1> USE DEF Inv
<1>1. /\ todo # <<>>
      /\ Propagate(e.to, e.state)
      /\ todo' = Tail(todo)
      /\ UNCHANGED <<fde, visited, draining, iterations, hit_cap, from>>
  BY DEF PropagateEdge
<1>2. /\ e \in EdgeSet(fde)
      /\ todo' \in Seq(EdgeSet(fde))
      /\ Len(todo') = Len(todo) - 1
      /\ \A j \in 1..Len(todo') : todo'[j] = todo[j + 1]
      /\ Len(todo) \in Nat
      /\ e = todo[1]
  BY <1>1, HeadAndTail DEF TypeOK
<1> HIDE DEF e
<1>3. e.to \in PCs(fde) /\ e.state \in AbsStates
  BY <1>2 DEF EdgeSet
<1>4. Reached' = Reached \cup {e.to}
  BY <1>1, <1>3, PropagateEffect DEF Reached
<1>5. TypeOK'
  BY <1>1, <1>2, <1>3, <1>4, PropagateEffect, PropagateQueue, PropagateReports DEF TypeOK
<1>6. PendingIsQueued'
  BY <1>1, <1>3, PropagateQueue
<1>7. Settled'
  <2> SUFFICES ASSUME NEW p \in Reached' \ pending_pushes', NEW i \in 1..Len(EdgesOf(p)')
               PROVE  \/ EdgeAbsorbed(EdgesOf(p)[i])'
                      \/ p \in from' /\ \E j \in 1..Len(todo') : todo'[j] = EdgesOf(p)'[i]
    BY DEF Settled
  <2>1. p \in Reached \ pending_pushes /\ in_states'[p] = in_states[p]
    BY <1>1, <1>3, <1>4, PropagateQueue
  <2>2. EdgesOf(p)' = EdgesOf(p) /\ EdgesOf(p) \in Seq(EdgeSet(fde))
    BY <1>1, <2>1 DEF EdgesOf, EdgesTyped, TypeOK
  <2>3. EdgesOf(p)[i] \in EdgeSet(fde)
    BY <2>2
  <2>4. CASE EdgeAbsorbed(EdgesOf(p)[i])
    <3>1. EdgesOf(p)[i].to \in Reached /\ EdgesOf(p)[i].state \in AbsStates
      BY <2>3, <2>4 DEF EdgeAbsorbed, EdgeSet
    <3> QED
      BY <1>1, <1>3, <1>4, <2>2, <2>4, <3>1, PropagateEffect DEF EdgeAbsorbed
  <2>5. CASE EdgesOf(p)[i] = e
    BY <1>1, <1>3, <1>4, <2>2, <2>5, PropagateEffect DEF EdgeAbsorbed
  <2>6. CASE EdgesOf(p)[i] # e /\ p \in from /\ \E j \in 1..Len(todo) : todo[j] = EdgesOf(p)[i]
    <3>1. PICK j \in 1..Len(todo) : todo[j] = EdgesOf(p)[i]
      BY <2>6
    <3>2. j # 1
      BY <1>2, <2>6, <3>1
    <3>3. j - 1 \in 1..Len(todo') /\ todo'[j - 1] = EdgesOf(p)[i]
      BY <1>2, <3>1, <3>2
    <3> QED
      BY <1>1, <2>2, <2>6, <3>3
  <2> QED
    BY <2>1, <2>2, <2>4, <2>5, <2>6 DEF Settled
<1> QED
  BY <1>5, <1>6, <1>7

(* Steps that touch neither the tables nor the edges in hand.              *)
LEMMA QuietInv ==
  ASSUME Inv, HitCap \/ UNCHANGED vars
  PROVE  Inv'
<1>1. UNCHANGED <<fde, in_states, worklist, pending_pushes, join_conflicts, visited, from, todo>>
  BY DEF HitCap, vars
<1>2. TypeOK'
  <2>1. iterations' \in Nat
    BY DEF HitCap, vars, Inv, TypeOK
  <2>2. hit_cap' \in BOOLEAN
    BY DEF HitCap, vars, Inv, TypeOK
  <2>3. draining' \in BOOLEAN
    BY DEF HitCap, vars, Inv, TypeOK
  <2> QED
    BY <1>1, <2>1, <2>2, <2>3 DEF Inv, TypeOK, Reached
<1>3. PendingIsQueued'
  BY <1>1 DEF Inv, PendingIsQueued
<1>4. Settled'
  BY <1>1 DEF Inv, Settled, EdgesOf, EdgeAbsorbed, Reached
<1> QED
  BY <1>2, <1>3, <1>4 DEF Inv

(* Every step preserves the inductive invariant.                           *)
LEMMA NextInv ==
  ASSUME EdgesTyped, Inv, [Next]_vars
  PROVE  Inv'
  BY SeedInv, PopInv, PropagateEdgeInv, QuietInv DEF Next

-----------------------------------------------------------------------------
(* The inductive invariant holds throughout the walk.                      *)
LEMMA Invariance == ASSUME EdgesTyped PROVE Spec => []Inv
<1>1. Init => Inv
  BY InitInv
<1>2. Inv /\ [Next]_vars => Inv'
  BY NextInv
<1> QED
  BY <1>1, <1>2, PTL DEF Spec

(* Type correctness of the walk (FDEChecker::Propagate, ::Drain).          *)
THEOREM TypeCorrect == ASSUME EdgesTyped PROVE Spec => []TypeOK
<1>1. Spec => []Inv
  BY Invariance
<1>2. Inv => TypeOK
  BY DEF Inv
<1> QED
  BY <1>1, <1>2, PTL

(* pending_pushes_ and worklist_ always agree.                             *)
THEOREM DedupIsExact == ASSUME EdgesTyped PROVE Spec => []PendingIsQueued
<1>1. Spec => []Inv
  BY Invariance
<1>2. Inv => PendingIsQueued
  BY DEF Inv
<1> QED
  BY <1>1, <1>2, PTL

(* No edge of a visited instruction is ever lost.                          *)
THEOREM NoEdgeLost == ASSUME EdgesTyped PROVE Spec => []Settled
<1>1. Spec => []Inv
  BY Invariance
<1>2. Inv => Settled
  BY DEF Inv
<1> QED
  BY <1>1, <1>2, PTL

(* When Drain returns with an empty worklist, in_states_ is a fixed point. *)
THEOREM DrainReachesFixedPoint == ASSUME EdgesTyped PROVE Spec => []FixedPoint
<1>1. Spec => []Inv
  BY Invariance
<1>2. Inv => FixedPoint
  <2> SUFFICES ASSUME Inv, worklist = <<>>, todo = <<>>
               PROVE  \A pc \in Reached : \A i \in 1..Len(EdgesOf(pc)) : EdgeAbsorbed(EdgesOf(pc)[i])
    BY DEF FixedPoint
  <2>1. pending_pushes = {}
    BY DEF Inv, PendingIsQueued
  <2> QED
    BY <2>1 DEF Inv, Settled
<1> QED
  BY <1>1, <1>2, PTL

(* In-states only move down the lattice and are never forgotten.           *)
THEOREM StatesDescend == ASSUME EdgesTyped PROVE Spec => InStatesDescend
<1> DEFINE Descend == \A pc \in Reached : pc \in DOMAIN in_states' /\ Absorbed(in_states[pc], in_states'[pc])
<1>1. Spec => []Inv
  BY Invariance
<1>2. Inv /\ [Next]_vars => [Descend]_vars
  <2> SUFFICES ASSUME Inv, Next
               PROVE  Descend
    OBVIOUS
  <2>1. CASE Seed
    <3>1. PICK seed \in Seeds(fde) : Propagate(seed.to, seed.state)
      BY <2>1 DEF Seed
    <3>2. seed.to \in PCs(fde) /\ seed.state \in AbsStates
      BY DEF EdgesTyped, Inv, TypeOK, EdgeSet
    <3> QED
      BY <3>1, <3>2, PropagateEffect DEF Inv
  <2>2. CASE PropagateEdge
    <3>1. Head(todo) \in EdgeSet(fde)
      BY <2>2, HeadAndTail DEF PropagateEdge, Inv, TypeOK
    <3>2. Head(todo).to \in PCs(fde) /\ Head(todo).state \in AbsStates
      BY <3>1 DEF EdgeSet
    <3> QED
      BY <2>2, <3>2, PropagateEffect DEF PropagateEdge, Inv
  <2>3. CASE Pop \/ HitCap
    <3>1. in_states' = in_states
      BY <2>3 DEF Pop, HitCap
    <3> QED
      BY <3>1, JoinLaws DEF Absorbed, Inv, TypeOK, Reached
  <2> QED
    BY <2>1, <2>2, <2>3 DEF Next
<1> QED
  BY <1>1, <1>2, PTL DEF Spec, InStatesDescend
=============================================================================
