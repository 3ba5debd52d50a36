-------------------------- MODULE FDECheckerProofs --------------------------
(***************************************************************************)
(* Proofs about FDEChecker, for every set of FDEs: what CheckWithGuessing  *)
(* does with the results of its one or two Checks, that the walk inside    *)
(* the checker loses no edge, and what the verdict means.                  *)
(***************************************************************************)
EXTENDS FDEChecker, FindingsProofs

IsResult(r) == {"verdict", "findings"} \subseteq DOMAIN r

(* There is a result before the end only while the retry runs, and then it *)
(* is the REVIEW of the first Check.                                       *)
RetryHoldsReview ==
  /\ "guessing_enabled" \in DOMAIN fde
  /\ IsResult(result)
  /\ phase # "done" =>
       /\ ~fde.guessing_enabled => result.verdict = "none"
       /\ fde.guessing_enabled => result.verdict = "REVIEW"

-----------------------------------------------------------------------------
(* What a step may do to the result: nothing, or the end of a Check.       *)
Concludes == phase # "done" /\ \E r : IsResult(r) /\ Conclude(r)

WalkGoesOn ==
  /\ fde' = fde /\ result' = result
  /\ phase # "done" /\ phase' # "done"

(* A step of the checker ends a Check or leaves its result alone.          *)
LEMMA StepsConclude == Next => Concludes \/ WalkGoesOn
<1> SUFFICES ASSUME Next PROVE Concludes \/ WalkGoesOn
  OBVIOUS
<1>1. CASE NothingToWalk
  BY <1>1 DEF NothingToWalk, Concludes, IsResult, Result
<1>2. CASE Finish
  BY <1>2 DEF Finish, Concludes, IsResult, Result
<1>3. CASE EnterFDE
  BY <1>3 DEF EnterFDE, WalkGoesOn
<1>4. CASE DrainStep
  BY <1>4 DEF DrainStep, WalkGoesOn, W!Pop, W!PropagateEdge, W!HitCap
<1>5. CASE DrainReturns \/ SeedPad \/ PadsSeeded
  BY <1>5 DEF DrainReturns, SeedPad, PadsSeeded, WalkGoesOn
<1>6. CASE VerifyInsn \/ ReportCoverageGaps
  BY <1>6 DEF VerifyInsn, ReportCoverageGaps, WalkGoesOn
<1> QED BY <1>1, <1>2, <1>3, <1>4, <1>5, <1>6 DEF Next

(* RetryHoldsReview is an invariant.                                       *)
LEMMA RetryInvariant == Spec => []RetryHoldsReview
<1>1. Init => RetryHoldsReview
  BY CheckerAssumption DEF Init, RetryHoldsReview, IsFDE, IsResult, NoResult, Result
<1>2. RetryHoldsReview /\ [Next]_vars => RetryHoldsReview'
  <2> SUFFICES ASSUME RetryHoldsReview, [Next]_vars PROVE RetryHoldsReview'
    OBVIOUS
  <2>1. CASE WalkGoesOn
    BY <2>1 DEF WalkGoesOn, RetryHoldsReview
  <2>2. CASE Concludes
    <3>1. PICK r : IsResult(r) /\ Conclude(r)
      BY <2>2 DEF Concludes
    <3>2. CASE Retries(r)
      BY <3>1, <3>2 DEF Conclude, Retries, Guessing, RetryHoldsReview
    <3>3. CASE ~Retries(r)
      BY <3>1, <3>3 DEF Conclude, Recovered, RetryHoldsReview, IsResult
    <3> QED BY <3>2, <3>3
  <2>3. CASE UNCHANGED vars
    BY <2>3 DEF vars, RetryHoldsReview
  <2> QED BY <2>1, <2>2, <2>3, StepsConclude
<1> QED BY <1>1, <1>2, PTL DEF Spec

(* Whatever the two walks find, the retry with guessing can only turn the  *)
(* REVIEW of the first Check into REVIEW-LIGHT, and the findings reported  *)
(* are those of the first (CheckWithGuessing).                             *)
THEOREM GuessingSoftens == Spec => GuessingOnlySoftens
<1> DEFINE Softens ==
      result.verdict # "none" =>
        /\ result'.findings = result.findings
        /\ \/ result'.verdict = result.verdict
           \/ result.verdict = "REVIEW" /\ result'.verdict = "REVIEW-LIGHT"
<1>1. RetryHoldsReview /\ [Next]_vars => [Softens]_vars
  <2> SUFFICES ASSUME RetryHoldsReview, [Next]_vars, result.verdict # "none"
               PROVE  /\ result'.findings = result.findings
                      /\ \/ result'.verdict = result.verdict
                         \/ result.verdict = "REVIEW" /\ result'.verdict = "REVIEW-LIGHT"
    OBVIOUS
  <2>1. CASE WalkGoesOn
    BY <2>1 DEF WalkGoesOn
  <2>2. CASE Concludes
    <3>1. PICK r : IsResult(r) /\ Conclude(r)
      BY <2>2 DEF Concludes
    <3>2. fde.guessing_enabled /\ result.verdict = "REVIEW"
      BY <2>2 DEF Concludes, RetryHoldsReview
    <3>3. result' = Recovered(r) \/ result' = result
      BY <3>1, <3>2 DEF Conclude, Retries
    <3> QED BY <3>2, <3>3 DEF Recovered, RetryHoldsReview, IsResult
  <2>3. CASE UNCHANGED vars
    BY <2>3 DEF vars
  <2> QED BY <2>1, <2>2, <2>3, StepsConclude
<1> QED BY RetryInvariant, <1>1, PTL DEF Spec, GuessingOnlySoftens

-----------------------------------------------------------------------------
(***************************************************************************)
(* What the verdict means.  WalkTyped is what VerifyPass needs to know of  *)
(* the walk; it is proved with the walk, below.                            *)
(***************************************************************************)
WalkTyped ==
  /\ IsFDE(fde)
  /\ DOMAIN in_states \subseteq FDEPCs(fde)
  /\ \A pc \in DOMAIN in_states : in_states[pc] \in AbsStates
  /\ IsFiniteSet(join_conflicts)
  /\ visited \subseteq DOMAIN in_states
  /\ phase = "pads" => todo = <<>> /\ (worklist = <<>> \/ ~draining \/ hit_cap)

(* The texts of the findings at pc.                                        *)
TextsAt(pc) == Texts(Reports(fde, in_states, join_conflicts, pc))

AllAccountedFor == \A byte \in FDEPCs(fde) : AccountedFor(byte)

(* The walk is over, and the sink has heard of its cap and of every pc     *)
(* verified so far.                                                        *)
WalkIsHeard ==
  /\ todo = <<>>
  /\ worklist = <<>> \/ hit_cap
  /\ hit_cap => sink.findings # <<>>
  /\ \A pc \in verified : Heard(EmptySink, TextsAt(pc), sink)

(* What an empty sink stands for at the end, and what a contradiction is.  *)
NothingFound ==
  /\ todo = <<>>
  /\ worklist = <<>>
  /\ ~hit_cap
  /\ \A pc \in DOMAIN in_states : FindingsAt(pc) = {}
  /\ report_coverage_gaps => AllAccountedFor

Contradicted == \E pc \in verified : \E f \in FindingsAt(pc) : f.severity = "kMismatch"

CheckInv ==
  /\ IsSink(sink)
  /\ verified \subseteq DOMAIN in_states
  /\ unbounded_jumps \subseteq verified
  /\ guessed_jump_tables \subseteq unbounded_jumps
  /\ phase \in Phases
  /\ result.verdict \in Verdicts
  /\ phase \in {"entry", "drain", "pads"} => verified = {}
  /\ phase \notin {"entry", "done"} => HasRow(fde.cfi, fde.cfi.pc_begin)
  /\ phase \in {"verify", "verdict"} => WalkIsHeard
  /\ phase = "verdict" =>
       /\ verified = DOMAIN in_states
       /\ report_coverage_gaps /\ sink.findings = <<>> => AllAccountedFor
  /\ Vouched => NothingFound
  /\ Done /\ sink.truncated = 0 /\ Contradicted => result.verdict = "MISMATCH" \/ fde.guessing_enabled

(* The findings at pc are those in Reports.                                *)
LEMMA FindingsAtAre ==
  ASSUME WalkTyped, NEW pc \in DOMAIN in_states
  PROVE  /\ IsFindings(Reports(fde, in_states, join_conflicts, pc))
         /\ TextsAt(pc) = {} => FindingsAt(pc) = {}
         /\ \A f \in FindingsAt(pc) :
              f.message \in TextsAt(pc) /\ (f.severity = "kMismatch" => f.message[1] \in MismatchTexts)
<1> DEFINE fs == Reports(fde, in_states, join_conflicts, pc)
<1>1. IsFindings(fs)
  BY ReportsAre DEF WalkTyped
<1>2. FindingsAt(pc) = Range(fs)
  BY Zenon DEF FindingsAt, FindingsIn, ConflictsAt, Reports
<1> HIDE DEF fs
<1> DEFINE F == FindingsOf(Texts(fs))
<1>3. fs \in Seq(F)
  BY <1>1 DEF IsFindings
<1>4. DOMAIN fs = 1..Len(fs) /\ \A i \in 1..Len(fs) : fs[i] \in F
  <2> HIDE DEF F
  <2> QED BY <1>3
<1>5. \A f \in Range(fs) : \E i \in 1..Len(fs) : f = fs[i]
  BY <1>4 DEF Range
<1>6. \A f \in Range(fs) : f.message \in Texts(fs) /\ f \in F
  BY <1>4, <1>5 DEF Texts
<1>7. \A f \in F : f.severity = "kMismatch" => f.message[1] \in MismatchTexts
  BY DEF FindingsOf
<1> HIDE DEF F
<1> QED BY <1>1, <1>2, <1>6, <1>7 DEF fs, TextsAt

(* Sinks have findings, and a count.                                       *)
LEMMA SinkTyped ==
  ASSUME NEW s, IsSink(s)
  PROVE  s.truncated \in Nat /\ Len(s.findings) <= max_findings_per_fde
BY DEF IsSink, Sinks

(* A step that adds nothing to the sink and leaves the walk alone.         *)
LEMMA SameTexts ==
  ASSUME UNCHANGED <<fde, in_states, join_conflicts>>, NEW pc
  PROVE  TextsAt(pc)' = TextsAt(pc) /\ FindingsAt(pc)' = FindingsAt(pc)
BY DEF TextsAt, FindingsAt, ConflictsAt

(* Whether a byte is accounted for depends on the walk.                    *)
LEMMA SameAccount ==
  ASSUME UNCHANGED <<fde, visited>>
  PROVE  AllAccountedFor' <=> AllAccountedFor
BY DEF AllAccountedFor, AccountedFor, Covers, Walked

(* What an empty sink, and one with a contradiction, mean at the end.      *)
LEMMA VerdictMeans ==
  ASSUME CheckInv, WalkTyped, phase = "verdict"
  PROVE  /\ Verdict(Take(sink)) \in {"BLESSED", "REVIEW", "MISMATCH"}
         /\ Verdict(Take(sink)) = "BLESSED" => NothingFound
         /\ sink.truncated = 0 /\ Contradicted => Verdict(Take(sink)) = "MISMATCH"
<1>1. IsSink(sink) /\ WalkIsHeard /\ verified = DOMAIN in_states
  BY DEF CheckInv
<1>2. Verdict(Take(sink)) \in {"BLESSED", "REVIEW", "MISMATCH"}
  BY <1>1, VerdictFacts
<1>3. ASSUME Verdict(Take(sink)) = "BLESSED" PROVE NothingFound
  <2>1. sink.findings = <<>>
    BY <1>1, <1>3, VerdictFacts
  <2>2. todo = <<>> /\ worklist = <<>> /\ ~hit_cap
    BY <1>1, <2>1 DEF WalkIsHeard
  <2>3. ASSUME NEW pc \in DOMAIN in_states PROVE FindingsAt(pc) = {}
    <3>1. TextsAt(pc) = {}
      BY <1>1, <2>1 DEF WalkIsHeard, Heard
    <3> QED BY <3>1, FindingsAtAre
  <2>4. report_coverage_gaps => AllAccountedFor
    BY <2>1 DEF CheckInv
  <2> QED BY <2>2, <2>3, <2>4 DEF NothingFound
<1>4. ASSUME sink.truncated = 0, Contradicted PROVE Verdict(Take(sink)) = "MISMATCH"
  <2>1. PICK pc \in verified : \E f \in FindingsAt(pc) : f.severity = "kMismatch"
    BY <1>4 DEF Contradicted
  <2>2. PICK f \in FindingsAt(pc) : f.severity = "kMismatch"
    BY <2>1
  <2>3. f.message \in TextsAt(pc) /\ f.message[1] \in MismatchTexts
    BY <1>1, <2>2, FindingsAtAre
  <2>4. TextsAt(pc) \subseteq Texts(sink.findings)
    BY <1>1, <1>4 DEF WalkIsHeard, Heard
  <2> QED BY <1>1, <1>4, <2>3, <2>4, VerdictFacts
<1> QED BY <1>2, <1>3, <1>4

(* The end of a Check.                                                     *)
LEMMA ConcludeKeeps ==
  ASSUME NEW r, CheckInv, RetryHoldsReview, WalkTyped, phase # "done", Conclude(r),
         r.verdict \in {"BLESSED", "REVIEW", "MISMATCH"},
         r.verdict = "BLESSED" => NothingFound \/ FirstRow(fde).regs[kDWARFRip].kind = "kUndefined",
         sink.truncated = 0 /\ Contradicted => r.verdict = "MISMATCH"
  PROVE  CheckInv'
<1>1. CASE Retries(r)
  <2>1. /\ phase' = "entry" /\ result' = r
        /\ sink' = EmptySink /\ verified' = {} /\ unbounded_jumps' = {} /\ guessed_jump_tables' = {}
    BY <1>1 DEF Conclude, FreshRun
  <2>2. IsSink(sink')
    BY <2>1, EmptySinkIs
  <2> QED BY <2>1, <2>2 DEF CheckInv, Phases, Verdicts, Vouched, Done
<1>2. CASE ~Retries(r)
  <2>1. phase' = "done" /\ UNCHANGED <<fde, walk_vars, run_vars>>
    BY <1>2 DEF Conclude
  <2>2. /\ ~fde.guessing_enabled => result' = r
        /\ fde.guessing_enabled /\ Accepts(r) => result' = Recovered(r)
        /\ fde.guessing_enabled /\ ~Accepts(r) => result' = result
    BY <1>2 DEF Conclude
  <2>3. fde.guessing_enabled => result.verdict = "REVIEW" /\ "verdict" \in DOMAIN result
    BY DEF RetryHoldsReview, IsResult
  <2>4. Recovered(r).verdict = "REVIEW-LIGHT" \/ ~fde.guessing_enabled
    BY <2>3 DEF Recovered
  <2>5. result'.verdict \in Verdicts
    BY <2>2, <2>3, <2>4 DEF Verdicts
  <2>6. result'.verdict \in {"BLESSED", "REVIEW-LIGHT"} => r.verdict = "BLESSED"
    BY <2>2, <2>3, <2>4 DEF Accepts
  <2>7. NothingFound' <=> NothingFound
    BY <2>1, SameTexts, SameAccount DEF NothingFound, walk_vars
  <2>8. Vouched' => NothingFound'
    BY <2>1, <2>6, <2>7 DEF Vouched
  <2>9. Contradicted' <=> Contradicted
    BY <2>1, SameTexts DEF Contradicted, walk_vars, run_vars
  <2>10. IsSink(sink')
    BY <2>1 DEF CheckInv, run_vars
  <2>11. sink'.truncated = 0 /\ Contradicted' => result'.verdict = "MISMATCH" \/ fde'.guessing_enabled
    BY <2>1, <2>2, <2>9 DEF run_vars
  <2> QED BY <2>1, <2>5, <2>8, <2>10, <2>11 DEF CheckInv, Phases, walk_vars, run_vars
<1> QED BY <1>1, <1>2

(* The steps before VerifyPass.                                            *)
LEMMA WalkStepsKeep ==
  ASSUME CheckInv, WalkTyped, EnterFDE \/ DrainStep \/ DrainReturns \/ SeedPad
  PROVE  CheckInv'
<1>1. CASE EnterFDE
  <2>1. IsSink(sink')
    BY <1>1, AddAllTo, EntryFindingsAre DEF EnterFDE, CheckInv, WalkTyped
  <2> QED BY <1>1, <2>1 DEF EnterFDE, CheckInv, Phases, Vouched, Done
<1>2. CASE DrainStep
  BY <1>2 DEF DrainStep, W!Pop, W!PropagateEdge, W!HitCap, CheckInv, Phases, Vouched, Done, run_vars
<1>3. CASE DrainReturns
  BY <1>3 DEF DrainReturns, CheckInv, Phases, Vouched, Done, walk_vars, run_vars
<1>4. CASE SeedPad
  <2>1. PICK lp \in UnreachedPads : sink' = Add(sink, Review(lp, <<"landing pad is trusted">>))
    BY <1>4 DEF SeedPad
  <2>2. lp \in Int
    BY <2>1, PadsInside, FDEFacts DEF UnreachedPads, WalkTyped
  <2>3. IsFindings(<<Review(lp, <<"landing pad is trusted">>)>>)
    BY <2>2, FindingsAre DEF MismatchTexts
  <2>4. IsSink(sink')
    BY <2>1, <2>3, AddTo DEF CheckInv
  <2> QED BY <1>4, <2>4 DEF SeedPad, CheckInv, Phases, Vouched, Done
<1> QED BY <1>1, <1>2, <1>3, <1>4

(* VerifyPass begins when nothing is left to seed or drain.                *)
LEMMA PadsSeededKeeps ==
  ASSUME CheckInv, WalkTyped, PadsSeeded
  PROVE  CheckInv'
<1>1. /\ phase = "pads" /\ verified' = {} /\ unbounded_jumps' = {} /\ guessed_jump_tables' = {}
      /\ result' = result /\ UNCHANGED <<fde, walk_vars>>
  BY DEF PadsSeeded, CheckInv
<1>2. CASE draining
  <2> DEFINE gave_up == Review(fde.cfi.pc_begin, <<"analysis gave up">>)
  <2>1. phase' = "verify" /\ sink' = IF hit_cap THEN Add(sink, gave_up) ELSE sink
    BY <1>2 DEF PadsSeeded
  <2>2. IsFindings(<<gave_up>>)
    BY FDEFacts, FindingsAre DEF WalkTyped, MismatchTexts
  <2> HIDE DEF gave_up
  <2>3. IsSink(Add(sink, gave_up)) /\ Heard(sink, {gave_up.message}, Add(sink, gave_up))
    BY <2>2, AddTo DEF CheckInv
  <2>4. IsSink(sink') /\ (hit_cap => sink'.findings # <<>>)
    BY <2>1, <2>3 DEF Heard, CheckInv
  <2>5. todo = <<>> /\ (worklist = <<>> \/ hit_cap)
    BY <1>1, <1>2 DEF WalkTyped
  <2>6. WalkIsHeard'
    BY <1>1, <2>4, <2>5 DEF WalkIsHeard, walk_vars
  <2> QED BY <1>1, <2>1, <2>4, <2>6 DEF CheckInv, Phases, Vouched, Done, walk_vars
<1>3. CASE ~draining
  BY <1>1, <1>3 DEF PadsSeeded, CheckInv, Phases, Vouched, Done, walk_vars
<1> QED BY <1>2, <1>3

(* VerifyPass at one pc: its findings are heard, and those before it.      *)
LEMMA VerifyInsnKeeps ==
  ASSUME CheckInv, WalkTyped, VerifyInsn
  PROVE  CheckInv'
<1>1. PICK pc \in Unverified :
        /\ sink' = AddAll(sink, Reports(fde, in_states, join_conflicts, pc))
        /\ verified' = verified \cup {pc}
        /\ unbounded_jumps' \in {unbounded_jumps, unbounded_jumps \cup {pc}}
        /\ guessed_jump_tables' \in {guessed_jump_tables, guessed_jump_tables \cup {pc}}
        /\ guessed_jump_tables' = guessed_jump_tables \/ pc \in unbounded_jumps'
  <2>1. PICK pc \in Unverified : \E out \in {OutcomeAt(fde, pc, in_states[pc])} :
          \E targets \in {JumpTableTargets(fde, pc, in_states[pc], out)} :
          \E fs \in {InsnFindings(fde, pc, in_states[pc], out, targets, ConflictsAt(pc))} :
            /\ sink' = AddAll(sink, fs)
            /\ verified' = verified \cup {pc}
            /\ unbounded_jumps' = IF out.has_unbounded_jump_target THEN unbounded_jumps \cup {pc}
                                                                   ELSE unbounded_jumps
            /\ guessed_jump_tables' = IF out.has_unbounded_jump_target /\ targets # <<>>
                                      THEN guessed_jump_tables \cup {pc} ELSE guessed_jump_tables
    BY Zenon DEF VerifyInsn
  <2> DEFINE out == OutcomeAt(fde, pc, in_states[pc])
             targets == JumpTableTargets(fde, pc, in_states[pc], out)
             fs == InsnFindings(fde, pc, in_states[pc], out, targets, ConflictsAt(pc))
  <2>2. fs = Reports(fde, in_states, join_conflicts, pc)
    BY Zenon DEF Reports, ConflictsAt
  <2>3. /\ sink' = AddAll(sink, fs)
        /\ verified' = verified \cup {pc}
        /\ unbounded_jumps' = IF out.has_unbounded_jump_target THEN unbounded_jumps \cup {pc}
                                                               ELSE unbounded_jumps
        /\ guessed_jump_tables' = IF out.has_unbounded_jump_target /\ targets # <<>>
                                  THEN guessed_jump_tables \cup {pc} ELSE guessed_jump_tables
    BY <2>1, Zenon
  <2> HIDE DEF out, targets, fs
  <2> QED BY <2>2, <2>3
<1>2. phase = "verify" /\ UNCHANGED <<fde, walk_vars, phase, result>>
  BY DEF VerifyInsn
<1> DEFINE fs == Reports(fde, in_states, join_conflicts, pc)
<1>3. pc \in DOMAIN in_states /\ IsFindings(fs)
  BY <1>1, FindingsAtAre DEF Unverified
<1> HIDE DEF fs
<1>4. IsSink(sink) /\ IsSink(sink') /\ Heard(sink, Texts(fs), sink')
  BY <1>1, <1>3, AddAllTo DEF CheckInv, fs
<1>5. sink.truncated \in Nat /\ sink'.truncated \in Nat /\ EmptySink.truncated = 0
  BY <1>4, SinkTyped DEF EmptySink
<1>6. \A p \in verified : Heard(EmptySink, TextsAt(p), sink')
  <2>1. ASSUME NEW p \in verified PROVE Heard(EmptySink, TextsAt(p), sink')
    <3>1. Heard(EmptySink, TextsAt(p), sink)
      BY <1>2 DEF CheckInv, WalkIsHeard
    <3> QED BY <1>4, <1>5, <3>1 DEF Heard
  <2> QED BY <2>1
<1>7. Heard(EmptySink, TextsAt(pc), sink')
  <2>1. Texts(EmptySink.findings) = {} /\ EmptySink.findings = <<>>
    BY DEF EmptySink, Texts
  <2>2. TextsAt(pc) = Texts(fs)
    BY DEF TextsAt, fs
  <2> QED BY <1>4, <1>5, <2>1, <2>2 DEF Heard
<1>8. \A p \in verified' : Heard(EmptySink, TextsAt(p)', sink')
  BY <1>1, <1>2, <1>6, <1>7, SameTexts DEF walk_vars
<1>9. hit_cap => sink'.findings # <<>>
  BY <1>2, <1>4 DEF CheckInv, WalkIsHeard, Heard
<1>10. WalkIsHeard'
  BY <1>2, <1>8, <1>9 DEF CheckInv, WalkIsHeard, walk_vars
<1> QED BY <1>1, <1>2, <1>3, <1>4, <1>10 DEF CheckInv, Phases, Vouched, Done, walk_vars

(* ReportCoverageGaps.                                                     *)
LEMMA CoverageKeeps ==
  ASSUME CheckInv, WalkTyped, ReportCoverageGaps
  PROVE  CheckInv'
<1>1. /\ phase = "verify" /\ phase' = "verdict" /\ verified = DOMAIN in_states
      /\ sink' = IF report_coverage_gaps THEN AddAll(sink, GapFindings(fde, Walked(fde))) ELSE sink
      /\ UNCHANGED <<fde, walk_vars, verified, unbounded_jumps, guessed_jump_tables, result>>
  BY DEF ReportCoverageGaps
<1> DEFINE fs == GapFindings(fde, Walked(fde))
<1>2. fde.cfi.pc_begin <= fde.cfi.pc_end
  <2>1. fde.cfi.pc_begin \in fde.cfi.pc_begin..(fde.cfi.pc_end - 1)
    BY <1>1, RowsAre, FDEFacts DEF CheckInv, WalkTyped
  <2> QED BY <2>1, FDEFacts DEF WalkTyped
<1>3. Walked(fde) \subseteq FDEPCs(fde) /\ \A pc \in Walked(fde) : Decodes(fde, pc)
  BY DEF Walked, WalkTyped
<1>4. IsFindings(fs) /\ (fs = <<>> => AllAccountedFor)
  BY <1>2, <1>3, GapsAreReported DEF WalkTyped, AllAccountedFor, AccountedFor, Covers
<1> HIDE DEF fs
<1>5. IsSink(AddAll(sink, fs)) /\ Heard(sink, Texts(fs), AddAll(sink, fs))
  BY <1>4, AddAllTo DEF CheckInv
<1>6. IsSink(sink) /\ IsSink(sink') /\ Heard(sink, {}, sink')
  <2>1. Heard(sink, {}, sink)
    BY SinkTyped DEF CheckInv, Heard
  <2> QED BY <1>1, <1>5, <2>1 DEF CheckInv, fs, Heard
<1>7. \A p \in verified : Heard(EmptySink, TextsAt(p), sink')
  <2>1. ASSUME NEW p \in verified PROVE Heard(EmptySink, TextsAt(p), sink')
    <3>1. Heard(EmptySink, TextsAt(p), sink)
      BY <1>1 DEF CheckInv, WalkIsHeard
    <3>2. sink.truncated \in Nat /\ sink'.truncated \in Nat /\ EmptySink.truncated = 0
      BY <1>6, SinkTyped DEF EmptySink
    <3> QED BY <1>6, <3>1, <3>2 DEF Heard
  <2> QED BY <2>1
<1>8. WalkIsHeard'
  <2>1. hit_cap => sink'.findings # <<>>
    BY <1>1, <1>6 DEF CheckInv, WalkIsHeard, Heard
  <2>2. \A p \in verified' : Heard(EmptySink, TextsAt(p)', sink')
    BY <1>1, <1>7, SameTexts DEF walk_vars
  <2> QED BY <1>1, <2>1, <2>2 DEF CheckInv, WalkIsHeard, walk_vars
<1>9. report_coverage_gaps /\ sink'.findings = <<>> => AllAccountedFor'
  <2>1. ASSUME report_coverage_gaps, sink'.findings = <<>> PROVE AllAccountedFor
    <3>1. Texts(fs) = {}
      BY <1>1, <1>5, <2>1 DEF Heard, fs
    <3>2. fs = <<>>
      <4> DEFINE F == FindingsOf(Texts(fs))
      <4>1. fs \in Seq(F)
        BY <1>4 DEF IsFindings
      <4> HIDE DEF F
      <4>2. Len(fs) \in Nat /\ (Len(fs) = 0 => fs = <<>>)
        BY <4>1
      <4>3. Len(fs) = 0 \/ fs[1].message \in Texts(fs)
        BY <4>2 DEF Texts
      <4> QED BY <3>1, <4>2, <4>3
    <3> QED BY <1>4, <3>2
  <2> QED BY <1>1, <2>1, SameAccount DEF walk_vars
<1> QED BY <1>1, <1>6, <1>8, <1>9 DEF CheckInv, Phases, Vouched, Done, walk_vars

-----------------------------------------------------------------------------
(***************************************************************************)
(* The walk inside the checker.  WP are the lemmas about Worklist, for     *)
(* this checker's edges and seeds; every step of the checker is a step of  *)
(* the walk, leaves it alone, or starts a new one.                         *)
(***************************************************************************)
WP == INSTANCE WorklistProofs WITH PCs <- FDEPCs, FDEs <- Walks, Edges <- FDEEdges, Seeds <- FDESeeds, max_iterations <- IterationCap

(* Where Run calls Propagate itself, the walk is at rest.                  *)
WalkInv ==
  /\ WP!Inv
  /\ fde \in FDEs \/ fde.guessing_enabled
  /\ phase = "entry" => DOMAIN in_states = {} /\ worklist = <<>> /\ todo = <<>> /\ draining = FALSE
  /\ phase = "pads" => todo = <<>> /\ (worklist = <<>> \/ ~draining \/ hit_cap)

(* The FDEs walked: as given, or with guessing enabled.                    *)
LEMMA WalksAre ==
  /\ \A f \in FDEs : f \in Walks /\ Guessing(f) \in Walks
  /\ \A w \in Walks : w \in FDEs \/ \E f \in FDEs : w = Guessing(f)
<1>1. ASSUME NEW f \in FDEs PROVE f \in Walks /\ Guessing(f) \in Walks
  <2>1. \A guess \in BOOLEAN : (IF guess THEN Guessing(f) ELSE f) \in Walks
    BY DEF Walks
  <2>2. (IF FALSE THEN Guessing(f) ELSE f) = f /\ (IF TRUE THEN Guessing(f) ELSE f) = Guessing(f)
    OBVIOUS
  <2> QED BY <2>1, <2>2
<1>2. ASSUME NEW w \in Walks PROVE w \in FDEs \/ \E f \in FDEs : w = Guessing(f)
  BY DEF Walks
<1> QED BY <1>1, <1>2

(* With guessing enabled it is still an FDE, with the same CFI.            *)
LEMMA GuessingIsFDE ==
  ASSUME NEW f, IsFDE(f)
  PROVE  IsFDE(Guessing(f)) /\ Guessing(f).cfi = f.cfi /\ Guessing(f).guessing_enabled = TRUE
<1> DEFINE g == Guessing(f)
<1>1. /\ DOMAIN g = DOMAIN f /\ g.guessing_enabled = TRUE
      /\ \A k \in DOMAIN f : k # "guessing_enabled" => g[k] = f[k]
  BY DEF Guessing, IsFDE
<1> HIDE DEF g
<1>2. /\ g.cfi = f.cfi /\ g.code = f.code /\ g.rodata = f.rodata /\ g.call_sites = f.call_sites
      /\ g.lsda_ok = f.lsda_ok /\ g.others = f.others /\ g.at_function_entry = f.at_function_entry
      /\ g.max_iterations = f.max_iterations
  BY <1>1 DEF IsFDE
<1>3. IsFDE(g)
  BY <1>1, <1>2 DEF IsFDE
<1> QED BY <1>1, <1>2, <1>3 DEF g

(* So every walk is of an FDE.                                             *)
LEMMA WalksAreFDEs == \A f \in Walks : IsFDE(f)
BY CheckerAssumption, WalksAre, GuessingIsFDE

(* The assumptions of Worklist hold of this checker.                       *)
LEMMA WalkAssumptions ==
  /\ GPRs \subseteq 0..15 /\ {WP!kDWARFRbp, WP!kDWARFRsp} \subseteq GPRs
  /\ WordBits \in Nat \ {0} /\ WP!kBoundTop \in Nat /\ \A b \in 0..WordBits : 2^b \in 1..2^WordBits
  /\ \A f \in Walks : IterationCap(f) \in Nat
<1>1. /\ GPRs \subseteq 0..15 /\ {WP!kDWARFRbp, WP!kDWARFRsp} \subseteq GPRs
      /\ WordBits \in Nat \ {0} /\ WP!kBoundTop \in Nat /\ \A b \in 0..WordBits : 2^b \in 1..2^WordBits
  BY GPRsAssumption, WordAssumption DEF kDWARFRbp, kDWARFRsp, WP!kDWARFRbp, WP!kDWARFRsp, kBoundTop, WP!kBoundTop
<1>2. \A f \in Walks : IterationCap(f) \in Nat
  BY WalksAreFDEs DEF IsFDE, IterationCap
<1> QED BY <1>1, <1>2

(* W and WP are instances of the same definitions.                         *)
LEMMA SameJoin ==
  ASSUME NEW a, NEW b
  PROVE  W!Join(a, b) = WP!Join(a, b) /\ W!JoinConflicts(a, b) = WP!JoinConflicts(a, b)
<1>1. W!Join(a, b) = WP!Join(a, b)
  <2>1. \A x, y : W!JoinValue(x, y) = WP!JoinValue(x, y)
    BY DEF W!JoinValue, W!Bottom, WP!JoinValue, WP!Bottom
  <2>2. \A x, y : W!JoinTableValue(x, y) = WP!JoinTableValue(x, y)
    BY DEF W!JoinTableValue, W!MergedIdentity, W!SameIdentity, W!Conflict, W!TableVal, W!Larger, W!kBoundTop,
           WP!JoinTableValue, WP!MergedIdentity, WP!SameIdentity, WP!Conflict, WP!TableVal, WP!Larger, WP!kBoundTop
  <2>3. \A x, y : W!JoinSlots(x, y) = WP!JoinSlots(x, y)
    BY <2>1 DEF W!JoinSlots, WP!JoinSlots
  <2>4. \A x, y : W!JoinLastCmp(x, y) = WP!JoinLastCmp(x, y)
    BY DEF W!JoinLastCmp, W!nullopt, W!FlagsGuard, W!kBoundTop, WP!JoinLastCmp, WP!nullopt, WP!FlagsGuard, WP!kBoundTop
  <2> QED BY <2>1, <2>2, <2>3, <2>4 DEF W!Join, WP!Join
<1>2. W!JoinConflicts(a, b) = WP!JoinConflicts(a, b)
  BY DEF W!JoinConflicts, W!RealConflict, W!IsUnknown, W!kSlotConflict,
         WP!JoinConflicts, WP!RealConflict, WP!IsUnknown, WP!kSlotConflict
<1> QED BY <1>1, <1>2

(* States are the same states.                                             *)
LEMMA SameStates ==
  /\ WP!AbsStates = AbsStates
  /\ \A S : WP!IsFiniteSet(S) <=> IsFiniteSet(S)
<1>1. \A S : WP!IsFiniteSet(S) <=> IsFiniteSet(S)
  BY DEF WP!IsFiniteSet, IsFiniteSet
<1>2. WP!AbsVals = AbsVals /\ WP!Top = Top
  BY DEF WP!AbsVals, AbsVals, WP!Top, Top
<1>3. WP!Bounds = Bounds
  BY DEF WP!Bounds, Bounds, WP!kBoundTop, kBoundTop
<1>4. WP!TableVals = TableVals
  BY <1>3 DEF WP!TableVals, TableVals
<1>5. WP!SlotMaps = SlotMaps
  BY <1>1, <1>2 DEF WP!SlotMaps, SlotMaps
<1>6. WP!FlagsGuards = FlagsGuards /\ WP!nullopt = nullopt
  BY <1>3 DEF WP!FlagsGuards, FlagsGuards, WP!nullopt, nullopt, WP!FlagsGuard, FlagsGuard, WP!kBoundTop, kBoundTop
<1> QED BY <1>1, <1>2, <1>4, <1>5, <1>6 DEF WP!AbsStates, AbsStates

(* The transfer functions map states to states and stay within the FDE:    *)
(* what the proofs about Worklist assume of its edges and seeds.           *)
LEMMA EdgesHold == WP!EdgesTyped
<1> SUFFICES ASSUME NEW f \in Walks
             PROVE  /\ FDESeeds(f) \subseteq WP!EdgeSet(f)
                    /\ \A pc \in FDEPCs(f), st \in WP!AbsStates : FDEEdges(f, pc, st) \in Seq(WP!EdgeSet(f))
  BY Zenon DEF WP!EdgesTyped
<1>1. IsFDE(f)
  BY WalksAreFDEs
<1>2. WP!EdgeSet(f) = EdgesWithin(f)
  BY SameStates DEF WP!EdgeSet, EdgesWithin
<1>3. FDESeeds(f) \subseteq EdgesWithin(f)
  BY <1>1, SeedsOfFDE
<1>4. \A pc \in FDEPCs(f), st \in AbsStates : FDEEdges(f, pc, st) \in Seq(EdgesWithin(f))
  BY <1>1, EdgesOfFDE
<1> QED BY <1>2, <1>3, <1>4, SameStates

(* So is what Propagate does.                                              *)
LEMMA SamePropagate ==
  ASSUME NEW pc, NEW st, W!Propagate(pc, st)
  PROVE  WP!Propagate(pc, st)
BY SameJoin DEF W!Propagate, W!FirstSighting, W!JoinInto, W!Joined, W!Enqueues, W!Reached,
                WP!Propagate, WP!FirstSighting, WP!JoinInto, WP!Joined, WP!Enqueues, WP!Reached

(* Drain's steps are Worklist's.                                           *)
LEMMA DrainKeeps ==
  ASSUME WalkInv, DrainStep
  PROVE  WalkInv'
<1>1. CASE W!Pop
  <2>1. WP!Pop
    BY <1>1 DEF W!Pop, WP!Pop
  <2> QED BY <1>1, <2>1, WP!PopInv, WalkAssumptions, EdgesHold DEF WalkInv, DrainStep, W!Pop
<1>2. CASE W!PropagateEdge
  <2>1. WP!PropagateEdge
    BY <1>2, SamePropagate DEF W!PropagateEdge, WP!PropagateEdge
  <2> QED BY <1>2, <2>1, WP!PropagateEdgeInv, WalkAssumptions, EdgesHold DEF WalkInv, DrainStep, W!PropagateEdge
<1>3. CASE W!HitCap
  <2>1. WP!HitCap
    BY <1>3 DEF W!HitCap, WP!HitCap
  <2> QED BY <1>3, <2>1, WP!QuietInv, WalkAssumptions DEF WalkInv, DrainStep, W!HitCap
<1> QED BY <1>1, <1>2, <1>3 DEF DrainStep

(* The entry and the landing pads are seeds.                               *)
LEMMA SeedsKeep ==
  ASSUME WalkInv, EnterFDE \/ SeedPad
  PROVE  WalkInv'
<1>1. CASE EnterFDE
  <2>1. EntrySeed(fde) \in FDESeeds(fde)
    BY <1>1 DEF EnterFDE, FDESeeds
  <2>2. WP!Seed
    BY <1>1, <2>1, SamePropagate DEF EnterFDE, WalkInv, WP!Seed, WP!Reached
  <2> QED BY <1>1, <2>2, WP!SeedInv, WalkAssumptions, EdgesHold DEF WalkInv, EnterFDE
<1>2. CASE SeedPad
  <2>1. PICK lp \in UnreachedPads : W!Propagate(lp, PadSeed(fde, lp).state)
    BY <1>2 DEF SeedPad
  <2>2. PadSeed(fde, lp) \in FDESeeds(fde) /\ PadSeed(fde, lp).to = lp /\ lp \notin DOMAIN in_states
    BY DEF UnreachedPads, FDESeeds, PadSeed, Edge
  <2>3. WP!Seed
    BY <1>2, <2>1, <2>2, SamePropagate DEF SeedPad, WalkInv, WP!Seed, WP!Reached
  <2> QED BY <1>2, <2>3, WP!SeedInv, WalkAssumptions, EdgesHold DEF WalkInv, SeedPad
<1> QED BY <1>1, <1>2

(* A fresh walk has nothing to lose.                                       *)
LEMMA FreshInv == fde \in Walks /\ W!EmptyWalk => WP!Inv
<1>1. fde \in Walks /\ W!EmptyWalk => WP!Init
  BY DEF W!EmptyWalk, WP!Init, WP!EmptyWalk, W!Top, WP!Top
<1> QED BY <1>1, WP!InitInv, WalkAssumptions

(* The retry begins with one, on the same FDE with guessing enabled.       *)
LEMMA RetryKeeps ==
  ASSUME NEW r, WalkInv, RetryHoldsReview, phase # "done", Conclude(r)
  PROVE  WalkInv'
<1>1. CASE Retries(r)
  <2>1. fde \in FDEs
    BY <1>1 DEF Retries, WalkInv
  <2>2. fde' = Guessing(fde) /\ FreshWalk
    BY <1>1 DEF Conclude
  <2>3. fde' \in Walks /\ fde'.guessing_enabled
    BY <2>1, <2>2, CheckerAssumption, WalksAre DEF Guessing
  <2>4. W!EmptyWalk'
    BY <2>2 DEF FreshWalk, W!EmptyWalk, Top, W!Top
  <2>5. (fde \in Walks /\ W!EmptyWalk => WP!Inv)'
    BY FreshInv, PTL
  <2> QED BY <1>1, <2>2, <2>3, <2>4, <2>5 DEF WalkInv, Conclude, FreshWalk
<1>2. CASE ~Retries(r)
  <2>1. fde' = fde /\ UNCHANGED walk_vars /\ phase' = "done"
    BY <1>2 DEF Conclude
  <2>2. WP!Inv'
    BY <2>1, WP!QuietInv, WalkAssumptions DEF WalkInv, walk_vars, WP!vars
  <2> QED BY <2>1, <2>2 DEF WalkInv
<1> QED BY <1>1, <1>2

(* WalkInv is an invariant of the checker.                                 *)
LEMMA WalkInvariant == Spec => []WalkInv
<1>1. Init => WalkInv
  BY FreshInv, WalksAre DEF Init, W!EmptyWalk, WalkInv
<1>2. WalkInv /\ RetryHoldsReview /\ [Next]_vars => WalkInv'
  <2> SUFFICES ASSUME WalkInv, RetryHoldsReview, [Next]_vars PROVE WalkInv'
    OBVIOUS
  <2>1. CASE NothingToWalk
    BY <2>1, RetryKeeps DEF NothingToWalk
  <2>2. CASE Finish
    BY <2>2, RetryKeeps DEF Finish
  <2>3. CASE EnterFDE \/ SeedPad
    BY <2>3, SeedsKeep
  <2>4. CASE DrainStep
    BY <2>4, DrainKeeps
  <2>5. CASE DrainReturns \/ PadsSeeded \/ VerifyInsn \/ ReportCoverageGaps \/ UNCHANGED vars
    <3>1. UNCHANGED <<fde, walk_vars>>
      BY <2>5 DEF DrainReturns, PadsSeeded, VerifyInsn, ReportCoverageGaps, vars
    <3>2. WP!Inv'
      BY <3>1, WP!QuietInv, WalkAssumptions DEF WalkInv, walk_vars, WP!vars
    <3>3. phase' = "entry" => phase = "entry"
      BY <2>5 DEF DrainReturns, PadsSeeded, VerifyInsn, ReportCoverageGaps, vars
    <3>4. phase' = "pads" => phase = "pads" \/ DrainReturns
      BY <2>5 DEF DrainReturns, PadsSeeded, VerifyInsn, ReportCoverageGaps, vars
    <3> QED BY <3>1, <3>2, <3>3, <3>4 DEF WalkInv, walk_vars, DrainReturns
  <2> QED BY <2>1, <2>2, <2>3, <2>4, <2>5 DEF Next
<1> QED BY <1>1, <1>2, RetryInvariant, PTL DEF Spec

(* Inside the checker, with its real transfer functions, across the        *)
(* seeding of landing pads, the cap and the retry: pending_pushes_ is      *)
(* exactly what is queued and no edge is lost (Run, Drain, Propagate,      *)
(* SeedUnreachedLandingPads, CheckWithGuessing).                           *)
THEOREM CheckerKeepsEdges == Spec => []WalkKeepsEdges
<1>1. WP!PendingIsQueued => W!PendingIsQueued
  BY DEF W!PendingIsQueued, WP!PendingIsQueued
<1>2. WP!Settled => W!Settled
  <2>1. \A a, b : W!Absorbed(a, b) <=> WP!Absorbed(a, b)
    BY SameJoin DEF W!Absorbed, WP!Absorbed
  <2>2. W!Reached = WP!Reached /\ \A pc : W!EdgesOf(pc) = WP!EdgesOf(pc)
    BY DEF W!Reached, W!EdgesOf, WP!Reached, WP!EdgesOf
  <2>3. \A e : W!EdgeAbsorbed(e) <=> WP!EdgeAbsorbed(e)
    BY <2>1, <2>2 DEF W!EdgeAbsorbed, WP!EdgeAbsorbed
  <2> QED BY <2>2, <2>3, Zenon DEF W!Settled, WP!Settled
<1>3. WalkInv => WalkKeepsEdges
  BY <1>1, <1>2 DEF WalkInv, WP!Inv, WalkKeepsEdges
<1> QED BY WalkInvariant, <1>3, PTL

-----------------------------------------------------------------------------
(* The walk is typed.                                                      *)
LEMMA WalkIsTyped == WalkInv => WalkTyped
<1> SUFFICES ASSUME WalkInv PROVE WalkTyped
  OBVIOUS
<1>1. fde \in Walks /\ DOMAIN in_states \subseteq FDEPCs(fde) /\ visited \subseteq DOMAIN in_states
  BY DEF WalkInv, WP!Inv, WP!TypeOK, WP!Reached
<1>2. in_states \in [DOMAIN in_states -> AbsStates] /\ IsFiniteSet(join_conflicts)
  BY SameStates DEF WalkInv, WP!Inv, WP!TypeOK, WP!Reached
<1> QED BY <1>1, <1>2, WalksAreFDEs DEF WalkInv, WalkTyped

(* CheckInv is an invariant of the checker.                                *)
LEMMA CheckInvariant == Spec => [](CheckInv /\ WalkTyped)
<1>1. Init => CheckInv
  <2> SUFFICES ASSUME Init PROVE CheckInv
    OBVIOUS
  <2>1. IsSink(sink) /\ result.verdict = "none"
    BY EmptySinkIs DEF Init, NoResult, Result
  <2> QED BY <2>1 DEF Init, CheckInv, Phases, Verdicts, Vouched, Done
<1>2. CheckInv /\ WalkTyped /\ RetryHoldsReview /\ [Next]_vars => CheckInv'
  <2> SUFFICES ASSUME CheckInv, WalkTyped, RetryHoldsReview, [Next]_vars PROVE CheckInv'
    OBVIOUS
  <2>1. CASE NothingToWalk
    <3>1. phase = "entry" /\ ~Contradicted
      BY <2>1 DEF NothingToWalk, CheckInv, Contradicted
    <3>2. PICK r : /\ Conclude(r) /\ r.verdict \in {"BLESSED", "REVIEW", "MISMATCH"}
                   /\ r.verdict = "BLESSED" => FirstRow(fde).regs[kDWARFRip].kind = "kUndefined"
      <4> DEFINE no_row == Result("REVIEW", <<Review(fde.cfi.pc_begin, <<"no first row">>)>>, {}, {})
                 ends == Result("BLESSED", <<>>, {}, {})
      <4>1. \/ Conclude(no_row)
            \/ Conclude(ends) /\ FirstRow(fde).regs[kDWARFRip].kind = "kUndefined"
        BY <2>1, Zenon DEF NothingToWalk
      <4>2. no_row.verdict = "REVIEW" /\ ends.verdict = "BLESSED"
        BY DEF Result
      <4> HIDE DEF no_row, ends
      <4> QED BY <4>1, <4>2
    <3> QED BY <3>1, <3>2, ConcludeKeeps
  <2>2. CASE Finish
    <3>1. phase = "verdict"
      BY <2>2 DEF Finish
    <3>2. PICK r : Conclude(r) /\ r.verdict = Verdict(Take(sink))
      BY <2>2 DEF Finish, Result
    <3> QED BY <3>1, <3>2, ConcludeKeeps, VerdictMeans
  <2>3. CASE EnterFDE \/ DrainStep \/ DrainReturns \/ SeedPad
    BY <2>3, WalkStepsKeep
  <2>4. CASE PadsSeeded
    BY <2>4, PadsSeededKeeps
  <2>5. CASE VerifyInsn
    BY <2>5, VerifyInsnKeeps
  <2>6. CASE ReportCoverageGaps
    BY <2>6, CoverageKeeps
  <2>7. CASE UNCHANGED vars
    <3>1. /\ UNCHANGED <<fde, in_states, join_conflicts, visited, worklist, hit_cap, todo>>
          /\ UNCHANGED <<phase, sink, verified, unbounded_jumps, guessed_jump_tables, result>>
      BY <2>7 DEF vars, walk_vars, run_vars
    <3>2. NothingFound' <=> NothingFound
      BY <3>1, SameTexts, SameAccount DEF NothingFound
    <3>3. Contradicted' <=> Contradicted
      BY <3>1, SameTexts DEF Contradicted
    <3>4. WalkIsHeard' <=> WalkIsHeard
      BY <3>1, SameTexts DEF WalkIsHeard
    <3>5. AllAccountedFor' <=> AllAccountedFor
      BY <3>1, SameAccount
    <3>6. Vouched' <=> Vouched
      BY <3>1 DEF Vouched, Done
    <3> QED BY <3>1, <3>2, <3>3, <3>4, <3>5, <3>6 DEF CheckInv, Done
  <2> QED BY <2>1, <2>2, <2>3, <2>4, <2>5, <2>6, <2>7 DEF Next
<1> QED BY <1>1, <1>2, WalkInvariant, WalkIsTyped, RetryInvariant, PTL DEF Spec

(* Every variable of the checker has its type, the sink keeps its limit,   *)
(* and no state is recorded outside the FDE (FindingSink, Propagate).      *)
THEOREM CheckerTypeCorrect == Spec => []TypeOK
<1>1. CheckInv /\ WalkTyped => TypeOK
  BY SinkTyped DEF CheckInv, WalkTyped, TypeOK, InRange
<1> QED BY <1>1, CheckInvariant, PTL

(* BLESSED and REVIEW-LIGHT are earned, whatever the function, its rows,   *)
(* its tables and the limits: the walk converged, no reached pc has a      *)
(* finding, and no byte is unaccounted for (Run, VerifyPass,               *)
(* ReportCoverageGaps, FindingSink, CheckWithGuessing).                    *)
THEOREM VouchedIsChecked == Spec => []VouchedMeansChecked
<1>1. CheckInv /\ WalkKeepsEdges => VouchedMeansChecked
  <2> SUFFICES ASSUME CheckInv, WalkKeepsEdges, Vouched
               PROVE  /\ W!FixedPoint /\ worklist = <<>> /\ ~hit_cap
                      /\ \A pc \in DOMAIN in_states : FindingsAt(pc) = {}
                      /\ report_coverage_gaps =>
                           \A byte \in fde.cfi.pc_begin..(fde.cfi.pc_end - 1) : AccountedFor(byte)
    BY DEF VouchedMeansChecked
  <2>1. NothingFound
    BY DEF CheckInv
  <2>2. pending_pushes = {}
    BY <2>1 DEF NothingFound, WalkKeepsEdges, W!PendingIsQueued
  <2>3. \A j \in 1..Len(todo) : FALSE
    BY <2>1 DEF NothingFound
  <2>4. W!FixedPoint
    BY <2>2, <2>3 DEF WalkKeepsEdges, W!Settled, W!FixedPoint
  <2> QED BY <2>1, <2>4 DEF NothingFound, AllAccountedFor, FDEPCs
<1> QED BY <1>1, CheckInvariant, CheckerKeepsEdges, PTL

(* A contradiction at any reached pc makes the verdict MISMATCH, unless    *)
(* the FDE had more distinct findings than the sink keeps (FindingSink,    *)
(* Run): the limit is the only way to lose one.                            *)
THEOREM MismatchIsHeard == Spec => [](sink.truncated = 0 => MismatchIsReported)
<1>1. CheckInv => (sink.truncated = 0 => MismatchIsReported)
  BY DEF CheckInv, Contradicted, MismatchIsReported
<1> QED BY <1>1, CheckInvariant, PTL
=============================================================================
