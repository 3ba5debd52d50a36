--------------------------- MODULE FindingsProofs ---------------------------
(***************************************************************************)
(* What the full checker computes from an FDE: the edges and seeds of its  *)
(* walk stay within it, the checks yield findings whose text tells their   *)
(* severity, the sink forgets none of them, and when there is no coverage  *)
(* gap every byte is accounted for.                                        *)
(***************************************************************************)
EXTENDS FDEAnalysis, SemanticsProofs

-----------------------------------------------------------------------------
(* Findings.                                                               *)

(* How the text of a contradiction begins; every other text is a review's. *)
MismatchTexts == {"holds", "wrong CFA", "rsp of a return"}

(* The findings with messages in M: their text tells their severity.       *)
FindingsOf(M) ==
  {f \in [severity : {"kReview", "kMismatch"}, pc : Int, message : M, repeats : Nat] :
     f.severity = "kMismatch" <=> f.message[1] \in MismatchTexts}

Texts(fs) == {fs[i].message : i \in 1..Len(fs)}

IsFindings(fs) == fs \in Seq(FindingsOf(Texts(fs)))

(* Findings stay findings when more messages are allowed.                  *)
LEMMA FindingsGrow ==
  ASSUME NEW fs, NEW M
  PROVE  /\ fs \in Seq(FindingsOf(M)) => IsFindings(fs) /\ Texts(fs) \subseteq M
         /\ IsFindings(fs) /\ Texts(fs) \subseteq M => fs \in Seq(FindingsOf(M))
<1>1. ASSUME fs \in Seq(FindingsOf(M)) PROVE IsFindings(fs) /\ Texts(fs) \subseteq M
  <2>1. \A i \in 1..Len(fs) : fs[i] \in FindingsOf(M)
    BY <1>1
  <2>2. \A i \in 1..Len(fs) : fs[i].message \in M /\ fs[i].message \in Texts(fs)
    BY <2>1 DEF FindingsOf, Texts
  <2>3. \A i \in 1..Len(fs) : fs[i] \in FindingsOf(Texts(fs))
    BY <2>1, <2>2 DEF FindingsOf
  <2>4. fs \in Seq(FindingsOf(Texts(fs)))
    BY <1>1, <2>3
  <2> QED BY <2>2, <2>4 DEF IsFindings, Texts
<1>2. ASSUME IsFindings(fs), Texts(fs) \subseteq M PROVE fs \in Seq(FindingsOf(M))
  <2>1. FindingsOf(Texts(fs)) \subseteq FindingsOf(M)
    BY <1>2 DEF FindingsOf
  <2> HIDE DEF FindingsOf
  <2> QED BY <1>2, <2>1 DEF IsFindings
<1> QED BY <1>1, <1>2

(* Nothing, one finding, and one batch after another.                      *)
LEMMA FindingsAre ==
  /\ IsFindings(<<>>)
  /\ \A pc \in Int : \A msg : msg[1] \notin MismatchTexts => IsFindings(<<Review(pc, msg)>>)
  /\ \A pc \in Int : \A msg : msg[1] \in MismatchTexts => IsFindings(<<Mismatch(pc, msg)>>)
  /\ \A a, b : IsFindings(a) /\ IsFindings(b) => IsFindings(a \o b)
<1>1. IsFindings(<<>>)
  <2>1. <<>> \in Seq(FindingsOf({}))
    OBVIOUS
  <2> QED BY <2>1, FindingsGrow
<1>2. ASSUME NEW pc \in Int, NEW msg, msg[1] \notin MismatchTexts PROVE IsFindings(<<Review(pc, msg)>>)
  <2>1. Review(pc, msg) \in FindingsOf({msg})
    BY <1>2 DEF Review, Finding, FindingsOf
  <2>2. <<Review(pc, msg)>> \in Seq(FindingsOf({msg}))
    BY <2>1
  <2> QED BY <2>2, FindingsGrow
<1>3. ASSUME NEW pc \in Int, NEW msg, msg[1] \in MismatchTexts PROVE IsFindings(<<Mismatch(pc, msg)>>)
  <2>1. Mismatch(pc, msg) \in FindingsOf({msg})
    BY <1>3 DEF Mismatch, Finding, FindingsOf
  <2>2. <<Mismatch(pc, msg)>> \in Seq(FindingsOf({msg}))
    BY <2>1
  <2> QED BY <2>2, FindingsGrow
<1>4. ASSUME NEW a, NEW b, IsFindings(a), IsFindings(b) PROVE IsFindings(a \o b)
  <2> DEFINE M == Texts(a) \cup Texts(b)
  <2>1. a \in Seq(FindingsOf(M)) /\ b \in Seq(FindingsOf(M))
    BY <1>4, FindingsGrow
  <2>2. a \o b \in Seq(FindingsOf(M))
    <3> HIDE DEF M
    <3> QED BY <2>1
  <2> QED BY <2>2, FindingsGrow
<1> QED BY <1>1, <1>2, <1>3, <1>4

(* Several batches.                                                        *)
LEMMA InOrderFindings ==
  ASSUME NEW n \in Nat, NEW parts, parts = [i \in 1..n |-> parts[i]], \A i \in 1..n : IsFindings(parts[i])
  PROVE  IsFindings(InOrder(parts))
<1> DEFINE M == UNION {Texts(parts[i]) : i \in 1..n}
<1>1. \A i \in 1..n : Texts(parts[i]) \subseteq M
  OBVIOUS
<1>2. \A i \in 1..n : parts[i] \in Seq(FindingsOf(M))
  <2> HIDE DEF M
  <2> QED BY <1>1, FindingsGrow
<1> HIDE DEF M
<1> DEFINE F == FindingsOf(M)
<1>3. parts \in Seq(Seq(F))
  <2> HIDE DEF F
  <2>1. parts \in [1..n -> Seq(F)]
    BY <1>2 DEF F
  <2> DEFINE S == Seq(F)
  <2>2. parts \in [1..n -> S]
    BY <2>1
  <2> HIDE DEF S
  <2>3. parts \in Seq(S)
    BY <2>2
  <2> QED BY <2>3 DEF S
<1> HIDE DEF F
<1>4. InOrder(parts) \in Seq(F)
  BY <1>3, InOrderTyped
<1> QED BY <1>4, FindingsGrow DEF F

(* Sinks: findings of M, no more than the limit, and a count of truncated  *)
(* ones that only a sink with findings has.                                *)
Sinks(M) ==
  {s \in [findings : Seq(FindingsOf(M)), truncated : Nat] :
     Len(s.findings) <= max_findings_per_fde /\ (s.truncated > 0 => s.findings # <<>>)}

IsSink(s) == \E M : s \in Sinks(M)

(* What Add and AddAll do to a sink: no text is lost, no count goes down,  *)
(* and the findings added are in it unless some were truncated.            *)
Heard(s, M, t) ==
  /\ Texts(s.findings) \subseteq Texts(t.findings)
  /\ s.truncated <= t.truncated
  /\ t.truncated = 0 => M \subseteq Texts(t.findings)
  /\ t.findings = <<>> => M = {} /\ s.findings = <<>>

(* FindingSink::Add.                                                       *)
LEMMA AddFacts ==
  ASSUME NEW M, NEW s \in Sinks(M), NEW f \in FindingsOf(M)
  PROVE  Add(s, f) \in Sinks(M) /\ Heard(s, {f.message}, Add(s, f))
<1> DEFINE F == FindingsOf(M)
           n == Len(s.findings)
           same == {i \in 1..n : s.findings[i].message = f.message}
           fs == s.findings
           repeated == [i \in 1..n |-> IF i \in same THEN Repeated(fs[i]) ELSE fs[i]]
           t == Add(s, f)
<1>1. s = [findings |-> fs, truncated |-> s.truncated] /\ fs \in Seq(F) /\ n \in Nat /\ s.truncated \in Nat
  BY DEF Sinks
<1>2. n <= max_findings_per_fde /\ (s.truncated > 0 => fs # <<>>)
  BY DEF Sinks
<1>3. f.message \in M
  BY DEF FindingsOf
<1>4. CASE same # {}
  <2>1. t = [s EXCEPT !.findings = repeated]
    BY <1>4, Zenon DEF Add
  <2>2. \A i \in 1..n : fs[i] \in F
    BY <1>1
  <2>3. \A i \in 1..n : Repeated(fs[i]) \in F /\ Repeated(fs[i]).message = fs[i].message
    BY <2>2 DEF FindingsOf, Repeated
  <2> HIDE DEF F
  <2>4. \A i \in 1..n : repeated[i] \in F /\ repeated[i].message = fs[i].message
    BY <2>2, <2>3
  <2>5. repeated \in Seq(F) /\ Len(repeated) = n
    BY <2>4, <1>1
  <2>6. PICK k \in 1..n : fs[k].message = f.message
    BY <1>4
  <2> HIDE DEF same, n, t, repeated
  <2>7. t = [findings |-> repeated, truncated |-> s.truncated]
    BY <2>1, <1>1
  <2>8. Texts(repeated) = Texts(fs)
    BY <2>4, <2>5 DEF Texts, n
  <2>9. f.message \in Texts(fs)
    BY <2>6 DEF Texts, n
  <2>10. repeated # <<>> /\ fs # <<>>
    BY <2>5, <2>6, <1>1 DEF n
  <2>11. t \in Sinks(M)
    BY <2>7, <2>5, <2>10, <1>1, <1>2 DEF Sinks, F
  <2> QED BY <2>7, <2>8, <2>9, <2>10, <2>11, <1>1 DEF Heard, t
<1>5. CASE same = {} /\ n >= max_findings_per_fde
  <2>1. t = [s EXCEPT !.truncated = @ + 1]
    BY <1>5, Zenon DEF Add
  <2> HIDE DEF same, t
  <2>2. t = [findings |-> fs, truncated |-> s.truncated + 1]
    BY <2>1, <1>1
  <2>3. fs # <<>>
    BY <1>5, SinkAssumption, <1>1
  <2>4. t \in Sinks(M)
    BY <2>2, <2>3, <1>1, <1>2 DEF Sinks
  <2> QED BY <2>2, <2>3, <2>4, <1>1 DEF Heard, t
<1>6. CASE same = {} /\ ~(n >= max_findings_per_fde)
  <2> DEFINE longer == Append(fs, f)
  <2>1. t = [s EXCEPT !.findings = longer]
    BY <1>6, Zenon DEF Add
  <2> HIDE DEF same, t
  <2>2. f \in F
    OBVIOUS
  <2> HIDE DEF F
  <2>3. /\ longer \in Seq(F) /\ Len(longer) = n + 1
        /\ \A i \in 1..n : longer[i] = fs[i]
        /\ longer[n + 1] = f
    BY <1>1, <2>2
  <2> HIDE DEF longer
  <2>4. t = [findings |-> longer, truncated |-> s.truncated]
    BY <2>1, <1>1
  <2>5. longer # <<>>
    BY <2>3, <1>1
  <2>6. Texts(fs) \subseteq Texts(longer) /\ f.message \in Texts(longer)
    BY <2>3, <1>1 DEF Texts
  <2>7. t \in Sinks(M)
    BY <2>3, <2>4, <2>5, <1>1, <1>2, <1>6, SinkAssumption DEF Sinks, F
  <2> QED BY <2>4, <2>5, <2>6, <2>7, <1>1 DEF Heard, t
<1> QED BY <1>4, <1>5, <1>6

(* One more finding heard.                                                 *)
LEMMA HeardAlong ==
  ASSUME NEW s, NEW t, NEW u, NEW A, NEW B,
         s.truncated \in Nat, t.truncated \in Nat, u.truncated \in Nat,
         Heard(s, A, t), Heard(t, B, u)
  PROVE  Heard(s, A \cup B, u)
BY DEF Heard

(* The findings of one batch, in turn.                                     *)
LEMMA AddAllFacts ==
  ASSUME NEW M, NEW s \in Sinks(M), NEW fs \in Seq(FindingsOf(M))
  PROVE  AddAll(s, fs) \in Sinks(M) /\ Heard(s, Texts(fs), AddAll(s, fs))
<1> DEFINE n == Len(fs)
           S == Sinks(M)
           Step(x, i) == CHOOSE after \in {Add(before, fs[i]) : before \in {x}} : TRUE
           step == [i \in 1..n |-> [x \in S |-> Step(x, i)]]
           added[i \in 0..n] == IF i = 0 THEN s ELSE Step(added[i - 1], i)
           First(i) == {fs[j].message : j \in 1..i}
           T == {i \in 0..n : added[i] \in S /\ Heard(s, First(i), added[i])}
<1>1. AddAll(s, fs) = added[n]
  BY Zenon DEF AddAll
<1>2. n \in Nat /\ n \in 0..n /\ \A i \in 1..n : fs[i] \in FindingsOf(M)
  OBVIOUS
<1>3. \A x, i : Step(x, i) = Add(x, fs[i])
  <2> TAKE x, i
  <2>1. {Add(before, fs[i]) : before \in {x}} = {Add(x, fs[i])}
    BY Zenon
  <2> DEFINE a == Add(x, fs[i])
  <2>2. (CHOOSE after \in {a} : TRUE) = a
    <3> HIDE DEF a
    <3> QED OBVIOUS
  <2> QED BY <2>1, <2>2, Zenon
<1> HIDE DEF Step, n
<1>4. \A i \in 1..n, x \in S : Step(x, i) \in S /\ Heard(x, {fs[i].message}, Step(x, i))
  BY <1>2, <1>3, AddFacts
<1>5. First(0) = {} /\ \A i \in 1..n : First(i) = First(i - 1) \cup {fs[i].message}
  <2>1. First(0) = {}
    OBVIOUS
  <2>2. ASSUME NEW i \in 1..n PROVE First(i) = First(i - 1) \cup {fs[i].message}
    <3>1. 1..i = (1..(i - 1)) \cup {i}
      BY <1>2
    <3> QED BY <3>1
  <2> QED BY <2>1, <2>2
<1>6. Texts(fs) = First(n)
  BY DEF Texts, n
<1> HIDE DEF First
<1>7. \E f : f = [i \in 0..n |-> IF i = 0 THEN s ELSE Step(f[i - 1], i)]
  <2> HIDE DEF added
  <2>1. s \in S
    OBVIOUS
  <2> HIDE DEF S
  <2>2. step \in [1..n -> [S -> S]] /\ \A i \in 1..n, x \in S : step[i][x] = Step(x, i)
    BY <1>4
  <2> HIDE DEF step
  <2>3. PICK f \in Runs(n, S, s, step) : TRUE
    BY <1>2, <2>1, <2>2, RecursionExists
  <2>4. f = [i \in 0..n |-> IF i = 0 THEN s ELSE Step(f[i - 1], i)]
    BY <1>2, <2>2, <2>3 DEF Runs
  <2> QED BY <2>4
<1>8. added = [i \in 0..n |-> IF i = 0 THEN s ELSE Step(added[i - 1], i)]
  BY <1>7, Zenon
<1> HIDE DEF added
<1>9. \A x \in S : x.truncated \in Nat
  BY DEF Sinks
<1>10. 0 \in T
  <2>1. added[0] = s
    BY <1>2, <1>8
  <2>2. Heard(s, {}, s)
    BY <1>9 DEF Heard
  <2>3. Heard(s, First(0), added[0])
    BY <2>1, <2>2, <1>5, Zenon
  <2> QED BY <2>1, <2>3, <1>2
<1>11. ASSUME NEW i \in 1..n, i - 1 \in T PROVE i \in T
  <2>1. added[i] = Step(added[i - 1], i)
    BY <1>2, <1>8
  <2>2. added[i - 1] \in S /\ Heard(s, First(i - 1), added[i - 1])
    BY <1>11
  <2>3. added[i] \in S /\ Heard(added[i - 1], {fs[i].message}, added[i])
    BY <1>4, <2>1, <2>2
  <2> HIDE DEF S
  <2>4. s.truncated \in Nat /\ added[i - 1].truncated \in Nat /\ added[i].truncated \in Nat
    BY <1>9, <2>2, <2>3 DEF S
  <2>5. Heard(s, First(i - 1) \cup {fs[i].message}, added[i])
    BY <2>2, <2>3, <2>4, HeardAlong
  <2>6. Heard(s, First(i), added[i])
    BY <2>5, <1>5, Zenon
  <2> QED BY <2>3, <2>6, <1>2
<1> HIDE DEF T
<1>12. n \in T
  BY <1>2, <1>10, <1>11, Induction
<1> QED BY <1>1, <1>6, <1>12 DEF T

(* The same for any sink and any findings.                                 *)
LEMMA AddAllTo ==
  ASSUME NEW s, IsSink(s), NEW fs, IsFindings(fs)
  PROVE  IsSink(AddAll(s, fs)) /\ Heard(s, Texts(fs), AddAll(s, fs))
<1>1. PICK N : s \in Sinks(N)
  BY DEF IsSink
<1> DEFINE M == N \cup Texts(fs)
<1>2. fs \in Seq(FindingsOf(M))
  BY FindingsGrow
<1>3. s.findings \in Seq(FindingsOf(N))
  BY <1>1 DEF Sinks
<1>4. s.findings \in Seq(FindingsOf(M))
  BY <1>3, FindingsGrow
<1>5. s \in Sinks(M)
  <2> HIDE DEF M
  <2> QED BY <1>1, <1>4 DEF Sinks
<1> HIDE DEF M
<1> QED BY <1>2, <1>5, AddAllFacts DEF IsSink

(* One finding.                                                            *)
LEMMA AddTo ==
  ASSUME NEW s, IsSink(s), NEW f, IsFindings(<<f>>)
  PROVE  IsSink(Add(s, f)) /\ Heard(s, {f.message}, Add(s, f))
<1>1. PICK N : s \in Sinks(N)
  BY DEF IsSink
<1> DEFINE M == N \cup Texts(<<f>>)
<1>2. f \in FindingsOf(M)
  <2>1. <<f>> \in Seq(FindingsOf(M))
    BY FindingsGrow
  <2> HIDE DEF M
  <2>2. \A S : <<f>> \in Seq(S) => f \in S
    OBVIOUS
  <2> QED BY <2>1, <2>2
<1>3. s.findings \in Seq(FindingsOf(N))
  BY <1>1 DEF Sinks
<1>4. s.findings \in Seq(FindingsOf(M))
  BY <1>3, FindingsGrow
<1>5. s \in Sinks(M)
  <2> HIDE DEF M
  <2> QED BY <1>1, <1>4 DEF Sinks
<1> HIDE DEF M
<1> QED BY <1>2, <1>5, AddFacts DEF IsSink

-----------------------------------------------------------------------------
(* Whatever the checks of a row and of an exit add are findings.           *)

(* The text put before a message begins the longer one.                    *)
LEMMA TextFirst ==
  ASSUME NEW X, NEW msg \in Seq(X), NEW t, NEW v
  PROVE  (<<t>> \o msg)[1] = t /\ (<<t, v>> \o msg)[1] = t
<1> DEFINE Y == X \cup {t, v}
<1>1. msg \in Seq(Y) /\ <<t>> \in Seq(Y) /\ <<t, v>> \in Seq(Y)
  OBVIOUS
<1> HIDE DEF Y
<1> QED BY <1>1

(* Expect.                                                                 *)
LEMMA ExpectFindings ==
  ASSUME NEW pc \in Int, NEW X, NEW msg \in Seq(X), NEW v, NEW expected
  PROVE  IsFindings(Expect(v, expected, pc, msg))
<1> DEFINE untracked == <<"untracked">> \o msg
           holds == <<"holds", v>> \o msg
<1>1. untracked[1] = "untracked" /\ holds[1] = "holds"
  BY TextFirst
<1> HIDE DEF untracked, holds
<1>2. untracked[1] \notin MismatchTexts /\ holds[1] \in MismatchTexts
  BY <1>1 DEF MismatchTexts
<1> DEFINE review == <<Review(pc, untracked)>>
           mismatch == <<Mismatch(pc, holds)>>
<1>3. IsFindings(<<>>) /\ IsFindings(review) /\ IsFindings(mismatch)
  BY <1>2, FindingsAre
<1>4. Expect(v, expected, pc, msg) \in {<<>>, review, mismatch}
  BY Zenon DEF Expect, untracked, holds
<1> HIDE DEF review, mismatch
<1> QED BY <1>3, <1>4

(* A review with a literal text.                                           *)
LEMMA TextFindings ==
  ASSUME NEW pc \in Int, NEW a, NEW b, NEW c
  PROVE  /\ \A t : t \notin MismatchTexts =>
              /\ IsFindings(<<Review(pc, <<t>>)>>)
              /\ IsFindings(<<Review(pc, <<t, a>>)>>)
              /\ IsFindings(<<Review(pc, <<t, a, b>>)>>)
              /\ IsFindings(<<Review(pc, <<t, a, b, c>>)>>)
         /\ \A t \in MismatchTexts :
              /\ IsFindings(<<Mismatch(pc, <<t, a>>)>>)
              /\ IsFindings(<<Mismatch(pc, <<t, a, b, c>>)>>)
<1>1. \A t : /\ <<t>>[1] = t /\ <<t, a>>[1] = t /\ <<t, a, b>>[1] = t /\ <<t, a, b, c>>[1] = t
  OBVIOUS
<1> HIDE DEF MismatchTexts
<1> QED BY <1>1, FindingsAre, Zenon

(* RowChecker::CheckCFA.                                                   *)
LEMMA CFAFindings ==
  ASSUME NEW pc \in Int, NEW cfa, NEW s, NEW edge
  PROVE  IsFindings(CheckCFA(pc, cfa, s, edge))
<1> DEFINE v == RegOf(s, cfa.reg)
           none == <<Review(pc, <<"no CFA rule", edge>>)>>
           expr == <<Review(pc, <<"CFA expression", edge>>)>>
           cannot == <<Review(pc, <<"CFA cannot be verified", cfa, v, edge>>)>>
           wrong == <<Mismatch(pc, <<"wrong CFA", cfa, v, edge>>)>>
<1>1. /\ "no CFA rule" \notin MismatchTexts /\ "CFA expression" \notin MismatchTexts
      /\ "CFA cannot be verified" \notin MismatchTexts /\ "wrong CFA" \in MismatchTexts
  BY DEF MismatchTexts
<1> HIDE DEF v
<1>2. IsFindings(none) /\ IsFindings(expr) /\ IsFindings(cannot) /\ IsFindings(wrong) /\ IsFindings(<<>>)
  <2>1. IsFindings(none)
    BY <1>1, TextFindings
  <2>2. IsFindings(expr)
    BY <1>1, TextFindings
  <2>3. IsFindings(cannot)
    BY <1>1, TextFindings
  <2>4. IsFindings(wrong)
    BY <1>1, TextFindings
  <2> QED BY <2>1, <2>2, <2>3, <2>4, FindingsAre
<1>3. CheckCFA(pc, cfa, s, edge) =
        CASE cfa.kind = "kUndefined"  -> none
          [] cfa.kind = "kExpression" -> expr
          [] cfa.kind = "kRegOffset" /\ v.kind # "kCFARel" -> cannot
          [] cfa.kind = "kRegOffset" /\ v.kind = "kCFARel" /\ v.delta + cfa.offset # 0 -> wrong
          [] OTHER -> <<>>
  BY Zenon DEF CheckCFA, v
<1> HIDE DEF none, expr, cannot, wrong
<1>4. CheckCFA(pc, cfa, s, edge) \in {none, expr, cannot, wrong, <<>>}
  BY <1>3
<1> QED BY <1>2, <1>4

(* RowChecker::CheckReg.                                                   *)
LEMMA RegFindings ==
  ASSUME NEW pc \in Int, NEW r, NEW rule, NEW s, NEW edge, NEW force
  PROVE  IsFindings(CheckReg(pc, r, rule, s, edge, force))
<1> DEFINE same == Expect(RegOf(s, r), OrigReg(r), pc, <<"same value", r, edge>>)
           at == Expect(Slot(s, rule.offset), OrigReg(r), pc, <<"saved at", r, rule.offset, edge>>)
           val == Expect(RegOf(s, r), CFARel(rule.offset), pc, <<"is CFA", r, rule.offset, edge>>)
           moved == Expect(RegOf(s, rule.reg), OrigReg(r), pc, <<"moved into", r, rule.reg, edge>>)
           expr == <<Review(pc, <<"expression", r, edge>>)>>
<1>1. \A a, b, c, d : <<a, b, c>> \in Seq({a, b, c}) /\ <<a, b, c, d>> \in Seq({a, b, c, d})
  OBVIOUS
<1>2. IsFindings(same) /\ IsFindings(at) /\ IsFindings(val) /\ IsFindings(moved)
  BY <1>1, ExpectFindings
<1>3. IsFindings(expr) /\ IsFindings(<<>>)
  <2>1. "expression" \notin MismatchTexts
    BY DEF MismatchTexts
  <2> QED BY <2>1, TextFindings, FindingsAre
<1>4. CheckReg(pc, r, rule, s, edge, force) =
        CASE \/ rule.kind = "kSameValue"
             \/ /\ rule.kind = "kUnset"
                /\ check_unmentioned_callee_saved \/ force
                /\ r \in kCalleeSaved -> same
          [] rule.kind = "kAtCFAOffset" -> at
          [] rule.kind = "kValOffset" -> val
          [] rule.kind = "kInRegister" -> moved
          [] rule.kind \in {"kExpression", "kValExpression"} -> expr
          [] OTHER -> <<>>
  BY Zenon DEF CheckReg
<1> HIDE DEF same, at, val, moved, expr
<1>5. CheckReg(pc, r, rule, s, edge, force) \in {same, at, val, moved, expr, <<>>}
  BY <1>4
<1> QED BY <1>2, <1>3, <1>5

(* RowChecker::CheckRow.                                                   *)
LEMMA RowFindings ==
  ASSUME NEW pc \in Int, NEW row, NEW s, NEW edge, NEW force
  PROVE  IsFindings(CheckRow(pc, row, s, edge, force))
<1> DEFINE cfa == CheckCFA(pc, row.cfa, s, edge)
           Reg(r) == IF r \in DWARFRegs THEN CheckReg(pc, r, row.regs[r], s, edge, force) ELSE <<>>
<1>1. IsFindings(cfa) /\ \A r : IsFindings(Reg(r))
  <2>1. ASSUME NEW r PROVE IsFindings(Reg(r))
    BY RegFindings, FindingsAre
  <2> QED BY <2>1, CFAFindings
<1>2. CheckRow(pc, row, s, edge, force) =
        cfa \o Reg(0) \o Reg(1) \o Reg(2) \o Reg(3) \o Reg(4) \o Reg(5) \o Reg(6) \o Reg(7) \o Reg(8)
            \o Reg(9) \o Reg(10) \o Reg(11) \o Reg(12) \o Reg(13) \o Reg(14) \o Reg(15) \o Reg(16)
  BY Zenon DEF CheckRow
<1> HIDE DEF cfa, Reg
<1> QED BY <1>1, <1>2, FindingsAre

-----------------------------------------------------------------------------
(* The FDE.                                                                *)

(* The row in force is a row.                                              *)
LEMMA RowsAre ==
  ASSUME NEW cfi \in CFIs, NEW pc \in Int, HasRow(cfi, pc)
  PROVE  RowOf(cfi, pc) \in CFIRows /\ pc \in cfi.pc_begin..(cfi.pc_end - 1)
<1> DEFINE begun == {i \in 1..Len(cfi.rows) : cfi.rows[i].pc_start <= pc}
<1>1. cfi.pc_begin \in Int /\ cfi.pc_end \in Int /\ cfi.rows \in Seq(CFIRows)
  BY DEF CFIs
<1>2. ~(pc < cfi.pc_begin \/ pc >= cfi.pc_end \/ begun = {})
  BY Zenon DEF HasRow, RowAt
<1>3. RowAt(cfi, pc) = CHOOSE i \in begun : \A j \in begun : j <= i
  BY <1>2, Zenon DEF RowAt
<1>4. RowAt(cfi, pc) \in begun
  <2>1. \E i \in begun : \A j \in begun : j <= i
    <3> DEFINE T == {Len(cfi.rows) - i : i \in begun}
    <3>1. T \subseteq Nat /\ T # {}
      <4>1. Len(cfi.rows) \in Nat /\ begun \subseteq 1..Len(cfi.rows) /\ begun # {}
        BY <1>1, <1>2
      <4> HIDE DEF begun
      <4>2. \A i \in begun : Len(cfi.rows) - i \in Nat
        BY <4>1
      <4>3. T \subseteq Nat
        BY <4>2
      <4>4. PICK i : i \in begun
        BY <4>1
      <4>5. Len(cfi.rows) - i \in T
        BY <4>4
      <4> QED BY <4>3, <4>5
    <3>2. PICK k \in T : \A m \in T : k <= m
      <4> HIDE DEF T
      <4> QED BY <3>1, FirstOf
    <3>3. PICK i \in begun : k = Len(cfi.rows) - i
      BY <3>2
    <3>4. \A j \in begun : j <= i
      <4> TAKE j \in begun
      <4>1. Len(cfi.rows) - j \in T
        OBVIOUS
      <4>2. k <= Len(cfi.rows) - j
        BY <4>1, <3>2
      <4> QED BY <4>2, <3>3, <1>1
    <3> QED BY <3>4
  <2> HIDE DEF begun
  <2> QED BY <1>3, <2>1
<1>5. RowAt(cfi, pc) \in 1..Len(cfi.rows)
  BY <1>4
<1> HIDE DEF begun
<1>6. cfi.rows[RowAt(cfi, pc)] \in CFIRows
  <2> HIDE DEF CFIRows
  <2> QED BY <1>1, <1>5
<1> QED BY <1>1, <1>2, <1>6 DEF RowOf

(* Its addresses, code and pads.                                           *)
LEMMA FDEFacts ==
  ASSUME NEW f, IsFDE(f)
  PROVE  /\ f.cfi \in CFIs /\ f.cfi.pc_begin \in Int /\ f.cfi.pc_end \in Int
         /\ \A pc \in FDEPCs(f) : pc \in Int
         /\ \A pc : Decodes(f, pc) => /\ pc \in Int /\ f.code[pc] \in Insns /\ f.code[pc].size \in Nat \ {0}
                                      /\ pc + f.code[pc].size <= f.cfi.pc_end
         /\ \A addr \in DOMAIN f.rodata : f.rodata[addr] \in Int
<1>1. f.cfi \in CFIs /\ f.cfi.pc_begin \in Int /\ f.cfi.pc_end \in Int
  BY DEF IsFDE, CFIs
<1>2. \A pc \in FDEPCs(f) : pc \in Int
  BY <1>1 DEF FDEPCs
<1>3. ASSUME NEW pc, Decodes(f, pc)
      PROVE  /\ pc \in Int /\ f.code[pc] \in Insns /\ f.code[pc].size \in Nat \ {0}
             /\ pc + f.code[pc].size <= f.cfi.pc_end
  <2>1. pc \in DOMAIN f.code /\ pc + f.code[pc].size <= f.cfi.pc_end
    BY <1>3 DEF Decodes, IsInstruction
  <2>2. pc \in Int /\ f.code[pc] \in Insns
    BY <2>1 DEF IsFDE
  <2> QED BY <2>1, <2>2 DEF Insns
<1>4. \A addr \in DOMAIN f.rodata : f.rodata[addr] \in Int
  BY DEF IsFDE
<1> QED BY <1>1, <1>2, <1>3, <1>4

(* A table entry leads to an address.                                      *)
LEMMA EntryTyped ==
  ASSUME NEW f, IsFDE(f), NEW addr \in Int, NEW i \in Int
  PROVE  /\ ResolveTableEntry(f, addr, i) \subseteq Int
         /\ ResolveTableEntry(f, addr, i) # {} => TheTarget(f, addr, i) \in Int
<1> DEFINE at == addr + i * 4
           target == addr + f.rodata[at]
<1>1. at \in DOMAIN f.rodata => target \in Int
  BY FDEFacts
<1>2. ResolveTableEntry(f, addr, i) =
        IF at \in DOMAIN f.rodata /\ CFIContaining(f, target) # {} /\ IsInstruction(f, target)
        THEN {target} ELSE {}
  BY Zenon DEF ResolveTableEntry
<1> HIDE DEF at, target
<1>3. ResolveTableEntry(f, addr, i) \subseteq Int
  BY <1>1, <1>2
<1> HIDE <1>2
<1> QED BY <1>3 DEF TheTarget

(* So a resolved table is a sequence of addresses.                         *)
LEMMA ResolveTyped ==
  ASSUME NEW f, IsFDE(f), NEW addr \in Int, NEW entries \in Nat
  PROVE  ResolveJumpTable(f, addr, entries) \in Seq(Int)
<1>1. CASE entries \in 1..kMaxJumpTableEntries /\ \A i \in 0..(entries - 1) : ResolveTableEntry(f, addr, i) # {}
  <2>1. \A i \in 1..entries : TheTarget(f, addr, i - 1) \in Int
    BY <1>1, EntryTyped
  <2>2. [i \in 1..entries |-> TheTarget(f, addr, i - 1)] \in Seq(Int)
    BY <2>1
  <2> QED BY <1>1, <2>2 DEF ResolveJumpTable
<1>2. CASE ~(entries \in 1..kMaxJumpTableEntries /\ \A i \in 0..(entries - 1) : ResolveTableEntry(f, addr, i) # {})
  <2>1. ResolveJumpTable(f, addr, entries) = <<>>
    BY <1>2, Zenon DEF ResolveJumpTable
  <2> QED BY <2>1
<1> QED BY <1>1, <1>2

(* A probed one too: it ends at the first entry that does not fit.         *)
LEMMA ProbeTyped ==
  ASSUME NEW f, IsFDE(f), NEW addr \in Int, NEW pc, NEW st
  PROVE  ProbeJumpTable(f, addr, pc, st) \in Seq(Int)
<1> DEFINE Good(i) == \E t \in ResolveTableEntry(f, addr, i) : Compatible(f, t, pc, st)
           Ends(k) == (\A i \in 0..(k - 1) : Good(i)) /\ (k = kMaxJumpTableEntries \/ ~Good(k))
           n == CHOOSE k \in 0..kMaxJumpTableEntries : Ends(k)
<1>1. ProbeJumpTable(f, addr, pc, st) = [i \in 1..n |-> TheTarget(f, addr, i - 1)]
  BY Zenon DEF ProbeJumpTable
<1>2. \A i : Good(i) => ResolveTableEntry(f, addr, i) # {}
  OBVIOUS
<1> HIDE DEF Good
<1>3. \E k \in 0..kMaxJumpTableEntries : Ends(k)
  <2> DEFINE T == {k \in 0..kMaxJumpTableEntries : k = kMaxJumpTableEntries \/ ~Good(k)}
  <2>1. T \subseteq Nat /\ T # {}
    BY TableAssumption
  <2>2. PICK k \in T : \A m \in T : k <= m
    <3> HIDE DEF T
    <3> QED BY <2>1, FirstOf
  <2>3. \A i \in 0..(k - 1) : Good(i)
    BY <2>2, TableAssumption
  <2> QED BY <2>2, <2>3
<1>4. n \in 0..kMaxJumpTableEntries /\ Ends(n)
  <2> HIDE DEF Ends
  <2> QED BY <1>3
<1>5. n \in Nat /\ \A i \in 0..(n - 1) : Good(i)
  BY <1>4, TableAssumption
<1> HIDE DEF n
<1>6. \A i \in 1..n : TheTarget(f, addr, i - 1) \in Int
  BY <1>2, <1>5, EntryTyped
<1>7. [i \in 1..n |-> TheTarget(f, addr, i - 1)] \in Seq(Int)
  BY <1>5, <1>6
<1> QED BY <1>1, <1>7

(* Where a dispatch goes.                                                  *)
LEMMA TargetsTyped ==
  ASSUME NEW f, IsFDE(f), NEW pc, NEW st,
         NEW out, out.jump_table_addr \in Int, out.jump_table_entries \in Nat, out.unbounded_jump_table_addr \in Int
  PROVE  JumpTableTargets(f, pc, st, out) \in Seq(Int)
<1> DEFINE bounded == ResolveJumpTable(f, out.jump_table_addr, out.jump_table_entries)
           probed == ProbeJumpTable(f, out.unbounded_jump_table_addr, pc, st)
<1>1. bounded \in Seq(Int) /\ probed \in Seq(Int) /\ <<>> \in Seq(Int)
  BY ResolveTyped, ProbeTyped
<1>2. JumpTableTargets(f, pc, st, out) \in {bounded, probed, <<>>}
  BY Zenon DEF JumpTableTargets
<1> HIDE DEF bounded, probed
<1> QED BY <1>1, <1>2

-----------------------------------------------------------------------------
(* The walk's edges and seeds are states at addresses of the FDE.          *)
EdgesWithin(f) == [to : FDEPCs(f), state : AbsStates]

(* One edge, or none.                                                      *)
LEMMA OneEdge ==
  ASSUME NEW f, NEW pc \in FDEPCs(f), NEW st \in AbsStates
  PROVE  <<Edge(pc, st)>> \in Seq(EdgesWithin(f)) /\ <<>> \in Seq(EdgesWithin(f))
<1>1. Edge(pc, st) \in EdgesWithin(f)
  BY DEF Edge, EdgesWithin
<1> QED BY <1>1

(* The landing pads are inside the FDE.                                    *)
LEMMA PadsInside ==
  ASSUME NEW f, IsFDE(f)
  PROVE  /\ LandingPads(f) \subseteq FDEPCs(f)
         /\ \A pc : LandingPadForCall(f, pc) \subseteq FDEPCs(f)
<1>1. \A i \in CallSites(f) : f.call_sites[i].landing_pad \in FDEPCs(f)
  BY DEF CallSites, InRange
<1> HIDE DEF CallSites
<1> QED BY <1>1 DEF LandingPads, LandingPadForCall

(* Every edge that Drain propagates (fall-through, branch, landing pad,    *)
(* jump table, guessed or not) leads into the FDE and carries a state.     *)
THEOREM EdgesOfFDE ==
  ASSUME NEW f, IsFDE(f), NEW pc \in FDEPCs(f), NEW st \in AbsStates
  PROVE  FDEEdges(f, pc, st) \in Seq(EdgesWithin(f))
<1> DEFINE insn == f.code[pc]
           t == Transfer(insn, st)
           E == Seq(EdgesWithin(f))
           none == <<>>
<1>0. none \in E
  OBVIOUS
<1>1. CASE ~Decodes(f, pc)
  <2>1. FDEEdges(f, pc, st) = none
    BY <1>1, Zenon DEF FDEEdges
  <2> QED BY <2>1, <1>0
<1>2. CASE Decodes(f, pc)
  <2>1. /\ insn \in Insns /\ insn.size \in Nat \ {0} /\ pc \in Int
        /\ f.cfi.pc_begin \in Int /\ f.cfi.pc_end \in Int
    BY <1>2, FDEFacts
  <2>2. t.state \in AbsStates /\ \A kind : TransferEdge(insn, kind, t.state) \in AbsStates
    BY <2>1, TransferTyped
  <2>3. /\ t.out.jump_table_addr \in Int /\ t.out.jump_table_entries \in Nat
        /\ t.out.unbounded_jump_table_addr \in Int
    BY <2>1, OutcomeTyped
  <2> HIDE DEF t
  <2>4. PadEdges(f, pc, t) \in E
    <3> DEFINE pads == IF t.out.is_call THEN LandingPadForCall(f, pc) ELSE {}
               pad == CHOOSE p \in pads : TRUE
    <3>1. pads \subseteq FDEPCs(f)
      BY PadsInside
    <3>2. PadEdges(f, pc, t) = IF pads = {} THEN none ELSE <<Edge(pad, t.state)>>
      BY Zenon DEF PadEdges
    <3> HIDE DEF pads
    <3>3. pads # {} => pad \in FDEPCs(f)
      BY <3>1
    <3> HIDE DEF pad
    <3>4. pads # {} => <<Edge(pad, t.state)>> \in E
      BY <2>2, <3>3, OneEdge
    <3> HIDE DEF E, none
    <3> QED BY <1>0, <3>2, <3>4
  <2>5. FallThroughEdges(f, pc, st, t) \in E
    <3> DEFINE next == pc + insn.size
               go == /\ t.out.falls_through
                     /\ next < f.cfi.pc_end
                     /\ FallThroughIsReal(f.cfi, RowAt(f.cfi, pc), next, st, t.state, t.out.is_call)
               edge == <<Edge(next, TransferEdge(insn, "kFallThrough", t.state))>>
    <3>1. FallThroughEdges(f, pc, st, t) = IF go THEN edge ELSE none
      BY Zenon DEF FallThroughEdges
    <3>2. go => next \in FDEPCs(f)
      BY <2>1 DEF FDEPCs
    <3>3. go => edge \in E
      <4> HIDE DEF go, next
      <4> QED BY <2>2, <3>2, OneEdge
    <3> HIDE DEF E, none, go, edge
    <3> QED BY <1>0, <3>1, <3>3
  <2>6. TakenEdges(f, pc, t) \in E
    <3> DEFINE go == t.out.has_direct_target /\ InRange(f, t.out.direct_target)
               edge == <<Edge(t.out.direct_target, TransferEdge(insn, "kTaken", t.state))>>
    <3>1. TakenEdges(f, pc, t) = IF go THEN edge ELSE none
      BY Zenon DEF TakenEdges
    <3>2. go => t.out.direct_target \in FDEPCs(f)
      BY DEF InRange
    <3>3. go => edge \in E
      <4> HIDE DEF go
      <4> QED BY <2>2, <3>2, OneEdge
    <3> HIDE DEF E, none, go, edge
    <3> QED BY <1>0, <3>1, <3>3
  <2>7. SwitchEdges(f, pc, t) \in E
    <3> DEFINE targets == JumpTableTargets(f, pc, t.state, t.out)
               n == Len(targets)
               Part(i) == IF InRange(f, targets[i]) THEN <<Edge(targets[i], t.state)>> ELSE none
               parts == [i \in 1..n |-> Part(i)]
    <3>1. n \in Nat
      <4>1. targets \in Seq(Int)
        BY <2>3, TargetsTyped
      <4> HIDE DEF targets
      <4> QED BY <4>1
    <3>2. \A i : Part(i) \in E
      <4> TAKE i
      <4>1. InRange(f, targets[i]) => <<Edge(targets[i], t.state)>> \in E
        <5> HIDE DEF targets
        <5> QED BY <2>2, OneEdge DEF InRange
      <4> HIDE DEF E, none, targets
      <4> QED BY <1>0, <4>1
    <3>3. SwitchEdges(f, pc, t) = InOrder(parts)
      BY Zenon DEF SwitchEdges
    <3>4. parts \in Seq(E)
      <4> HIDE DEF n, Part, E
      <4> QED BY <3>1, <3>2
    <3> HIDE DEF parts
    <3> QED BY <3>3, <3>4, InOrderTyped
  <2>8. FDEEdges(f, pc, st) =
          PadEdges(f, pc, t) \o FallThroughEdges(f, pc, st, t) \o TakenEdges(f, pc, t) \o SwitchEdges(f, pc, t)
    BY <1>2, Zenon DEF FDEEdges, t
  <2> DEFINE a == PadEdges(f, pc, t)
             b == FallThroughEdges(f, pc, st, t)
             c == TakenEdges(f, pc, t)
             d == SwitchEdges(f, pc, t)
             X == EdgesWithin(f)
  <2>9. a \in Seq(X) /\ b \in Seq(X) /\ c \in Seq(X) /\ d \in Seq(X)
    BY <2>4, <2>5, <2>6, <2>7
  <2>10. FDEEdges(f, pc, st) = a \o b \o c \o d
    BY <2>8
  <2> HIDE DEF a, b, c, d, X
  <2>11. FDEEdges(f, pc, st) \in Seq(X)
    BY <2>9, <2>10
  <2> QED BY <2>11 DEF X
<1> QED BY <1>1, <1>2

(* The entry and the pads.                                                 *)
LEMMA SeedsOfFDE ==
  ASSUME NEW f, IsFDE(f)
  PROVE  FDESeeds(f) \subseteq EdgesWithin(f)
<1>1. f.cfi \in CFIs /\ f.cfi.pc_begin \in Int /\ \A pc \in FDEPCs(f) : pc \in Int
  BY FDEFacts
<1>2. HasRow(f.cfi, f.cfi.pc_begin) => EntrySeed(f) \in EdgesWithin(f)
  <2> SUFFICES ASSUME HasRow(f.cfi, f.cfi.pc_begin) PROVE EntrySeed(f) \in EdgesWithin(f)
    OBVIOUS
  <2>1. FirstRow(f) \in CFIRows /\ f.cfi.pc_begin \in FDEPCs(f)
    BY <1>1, RowsAre DEF FirstRow, FDEPCs
  <2>2. SeedFromRow(FirstRow(f), is_canonical_entry(f)) \in AbsStates
    BY <2>1, SeedTyped
  <2> QED BY <2>1, <2>2 DEF EntrySeed, Edge, EdgesWithin
<1>3. ASSUME NEW p \in LandingPads(f), HasRow(f.cfi, p) PROVE PadSeed(f, p) \in EdgesWithin(f)
  <2>1. p \in FDEPCs(f)
    BY PadsInside
  <2>2. RowOf(f.cfi, p) \in CFIRows
    BY <1>1, <1>3, <2>1, RowsAre
  <2>3. SeedFromRow(RowOf(f.cfi, p), FALSE) \in AbsStates
    BY <2>2, SeedTyped
  <2> QED BY <2>1, <2>3 DEF PadSeed, Edge, EdgesWithin
<1> HIDE DEF EdgesWithin
<1> QED BY <1>2, <1>3 DEF FDESeeds

-----------------------------------------------------------------------------
(* What VerifyPass adds at one instruction.                                *)

(* FDEChecker::CheckCrossFDEEdge.                                          *)
LEMMA CrossFindings ==
  ASSUME NEW pc \in Int, NEW f, NEW target, NEW st, NEW otherwise, IsFindings(otherwise)
  PROVE  IsFindings(CheckCrossFDEEdge(f, pc, target, st, otherwise))
<1> DEFINE covering == {cfi \in CFIContaining(f, target) : HasRow(cfi, target)}
           cfi == CHOOSE c \in covering : TRUE
           row == CheckRow(pc, RowOf(cfi, target), st, <<target, cfi.pc_begin>>, IsCanonicalEntryOf(cfi, target))
<1>1. IsFindings(row)
  <2> HIDE DEF cfi
  <2> QED BY RowFindings
<1>2. CheckCrossFDEEdge(f, pc, target, st, otherwise) \in {otherwise, row}
  BY Zenon DEF CheckCrossFDEEdge
<1> HIDE DEF row
<1> QED BY <1>1, <1>2

(* For all the targets of a switch that are outside the FDE.               *)
LEMMA CrossTargetFindings ==
  ASSUME NEW pc \in Int, NEW f, NEW targets \in Seq(Int), NEW st
  PROVE  IsFindings(CheckCrossFDETargets(f, pc, targets, st))
<1> DEFINE n == Len(targets)
           no_fde(i) == <<Review(pc, <<"entry without FDE", targets[i]>>)>>
           cross(i) == CheckCrossFDEEdge(f, pc, targets[i], st, no_fde(i))
           part(i) == IF InRange(f, targets[i]) THEN <<>> ELSE cross(i)
           parts == [i \in 1..n |-> part(i)]
<1>1. CheckCrossFDETargets(f, pc, targets, st) = InOrder(parts)
  BY Zenon DEF CheckCrossFDETargets
<1>2. \A i : IsFindings(part(i))
  <2> TAKE i
  <2>1. IsFindings(no_fde(i))
    <3>1. "entry without FDE" \notin MismatchTexts
      BY DEF MismatchTexts
    <3> QED BY <3>1, TextFindings
  <2> HIDE DEF no_fde
  <2>2. IsFindings(cross(i)) /\ IsFindings(<<>>)
    BY <2>1, CrossFindings, FindingsAre
  <2> HIDE DEF cross
  <2> QED BY <2>2
<1>3. n \in Nat
  OBVIOUS
<1> HIDE DEF part, n
<1>4. parts = [i \in 1..n |-> parts[i]] /\ \A i \in 1..n : IsFindings(parts[i])
  BY <1>2
<1> HIDE DEF parts
<1> QED BY <1>1, <1>3, <1>4, InOrderFindings

(* FDEChecker::CheckExitState.                                             *)
LEMMA ExitFindings ==
  ASSUME NEW pc \in Int, NEW f, NEW st, NEW is_tail_call
  PROVE  IsFindings(CheckExitState(f, pc, st, is_tail_call))
<1> DEFINE context == IF is_tail_call THEN "tail call" ELSE "return"
           rsp == st.gpr[kDWARFRsp]
           untracked == <<Review(pc, <<"untracked rsp", rsp, context>>)>>
           jump == <<Review(pc, <<"rsp of a jump out", rsp.delta>>)>>
           wrong == <<Mismatch(pc, <<"rsp of a return", rsp.delta>>)>>
           stack == IF IsUnknown(rsp) THEN untracked
                    ELSE IF rsp = CFARel(-8) THEN <<>>
                    ELSE IF is_tail_call THEN jump ELSE wrong
           fragment == <<Review(pc, <<"exit of a fragment", context>>)>>
           saved == CheckCalleeSaved(pc, st, context)
           ra == Expect(Slot(st, -8), OrigReg(kDWARFRip), pc, <<"return address", Slot(st, -8), context>>)
<1>1. /\ "untracked rsp" \notin MismatchTexts /\ "rsp of a jump out" \notin MismatchTexts
      /\ "rsp of a return" \in MismatchTexts /\ "exit of a fragment" \notin MismatchTexts
  BY DEF MismatchTexts
<1>2. \A a, b, c, d : <<a, b, c>> \in Seq({a, b, c}) /\ <<a, b, c, d>> \in Seq({a, b, c, d})
  OBVIOUS
<1>3. IsFindings(saved)
  <2> DEFINE e(r) == Expect(st.gpr[r], OrigReg(r), pc, <<"callee-saved", r, st.gpr[r], context>>)
             reg(r) == IF r \in kCalleeSaved THEN e(r) ELSE <<>>
  <2> HIDE DEF context
  <2>1. ASSUME NEW r PROVE IsFindings(reg(r))
    <3>1. IsFindings(e(r)) /\ IsFindings(<<>>)
      BY <1>2, ExpectFindings, FindingsAre
    <3> HIDE DEF e
    <3> QED BY <3>1
  <2>2. saved = reg(3) \o reg(6) \o reg(12) \o reg(13) \o reg(14) \o reg(15)
    BY Zenon DEF CheckCalleeSaved
  <2> HIDE DEF reg, saved
  <2> QED BY <2>1, <2>2, FindingsAre
<1>4. IsFindings(ra)
  <2> HIDE DEF context
  <2> QED BY <1>2, ExpectFindings
<1>5. IsFindings(untracked) /\ IsFindings(fragment)
  <2> HIDE DEF context, rsp
  <2> QED BY <1>1, TextFindings
<1>6. IsFindings(jump) /\ IsFindings(wrong)
  <2> HIDE DEF context, rsp
  <2>1. IsFindings(jump)
    BY <1>1, TextFindings
  <2>2. IsFindings(wrong)
    BY <1>1, TextFindings
  <2> QED BY <2>1, <2>2
<1>7. IsFindings(stack)
  <2> HIDE DEF untracked, jump, wrong
  <2> QED BY <1>5, <1>6, FindingsAre
<1>8. CheckExitState(f, pc, st, is_tail_call) \in {fragment, stack, stack \o saved \o ra}
  BY Zenon DEF CheckExitState
<1> HIDE DEF fragment, stack, saved, ra
<1>9. IsFindings(stack \o saved \o ra)
  BY <1>3, <1>4, <1>7, FindingsAre
<1> DEFINE all == stack \o saved \o ra
<1>10. IsFindings(all) /\ CheckExitState(f, pc, st, is_tail_call) \in {fragment, stack, all}
  BY <1>8, <1>9
<1> HIDE DEF all
<1> QED BY <1>5, <1>7, <1>10

(* What follows from the outcome of the instruction.                       *)
LEMMA ControlFindingsAre ==
  ASSUME NEW pc \in Int, NEW f, NEW st, NEW out, NEW targets \in Seq(Int)
  PROVE  IsFindings(ControlFindings(f, pc, st, out, targets))
<1> DEFINE unresolved == <<Unresolved(pc)>>
           table == TableFindings(f, pc, st, targets)
           returns == CheckExitState(f, pc, st, FALSE)
           tail == CheckExitState(f, pc, st, TRUE)
           cross == CheckCrossFDEEdge(f, pc, out.direct_target, st, tail)
<1>1. IsFindings(<<>>) /\ IsFindings(unresolved)
  <2>1. "unresolved indirect jump" \notin MismatchTexts
    BY DEF MismatchTexts
  <2> QED BY <2>1, TextFindings, FindingsAre DEF Unresolved
<1>2. IsFindings(table)
  <2> DEFINE all == CheckCrossFDETargets(f, pc, targets, st)
  <2>1. IsFindings(all)
    BY CrossTargetFindings
  <2>2. table \in {unresolved, all}
    BY Zenon DEF TableFindings
  <2> HIDE DEF all, unresolved, table
  <2> QED BY <1>1, <2>1, <2>2
<1>3. IsFindings(returns) /\ IsFindings(tail)
  BY ExitFindings
<1>4. IsFindings(cross)
  <2> HIDE DEF tail
  <2> QED BY <1>3, CrossFindings
<1>5. ControlFindings(f, pc, st, out, targets) \in {table, returns, cross, unresolved, <<>>}
  <2> DEFINE indirect == IF is_canonical_entry(f) /\ IsExitState(st) THEN <<>> ELSE unresolved
  <2>1. ControlFindings(f, pc, st, out, targets) =
          CASE out.has_jump_table \/ out.has_unbounded_jump_target -> table
            [] out.is_return                 -> returns
            [] out.has_direct_target /\ ~InRange(f, out.direct_target) -> cross
            [] out.indirect_branch /\ ~out.has_unbounded_jump_target -> indirect
            [] OTHER -> <<>>
    BY Zenon DEF ControlFindings
  <2>2. indirect \in {<<>>, unresolved}
    OBVIOUS
  <2> HIDE DEF table, returns, cross, unresolved, indirect
  <2> QED BY <2>1, <2>2
<1> HIDE DEF table, returns, cross, unresolved
<1> QED BY <1>1, <1>2, <1>3, <1>4, <1>5

(* Disagreements between paths.                                            *)
LEMMA ConflictFindingsAre ==
  ASSUME NEW pc \in Int, NEW f, NEW conflicts, IsFiniteSet(conflicts)
  PROVE  IsFindings(ConflictFindings(f, pc, conflicts))
<1> DEFINE consulted == {c \in conflicts : HasRow(f.cfi, pc) /\ RowDependsOn(RowOf(f.cfi, pc), c)}
           n == Cardinality(consulted)
           in_turn == CHOOSE q \in [1..n -> consulted] : Range(q) = consulted
           fs == [i \in 1..n |-> Review(pc, <<"paths disagree", in_turn[i]>>)]
           M == {<<"paths disagree", in_turn[i]>> : i \in 1..n}
<1>1. ConflictFindings(f, pc, conflicts) = fs
  BY Zenon DEF ConflictFindings
<1>2. consulted \subseteq conflicts
  OBVIOUS
<1> HIDE DEF consulted
<1>3. n \in Nat
  BY <1>2, FS_Subset, FS_CardinalityType
<1> HIDE DEF n, in_turn
<1>4. \A i \in 1..n : fs[i] \in FindingsOf(M)
  <2> TAKE i \in 1..n
  <2> DEFINE msg == <<"paths disagree", in_turn[i]>>
  <2>1. msg[1] \notin MismatchTexts
    BY DEF MismatchTexts
  <2>2. msg \in M
    OBVIOUS
  <2>3. fs[i] = Review(pc, msg)
    OBVIOUS
  <2> HIDE DEF M, msg, fs
  <2> QED BY <2>1, <2>2, <2>3 DEF FindingsOf, Review, Finding
<1>5. fs \in Seq(FindingsOf(M))
  <2> HIDE DEF M
  <2> DEFINE F == FindingsOf(M)
             g(i) == Review(pc, <<"paths disagree", in_turn[i]>>)
  <2>1. \A i \in 1..n : g(i) \in F
    BY <1>4
  <2> HIDE DEF F, g
  <2>2. [i \in 1..n |-> g(i)] \in Seq(F)
    BY <1>3, <2>1
  <2> QED BY <2>2 DEF F, g
<1> HIDE DEF fs, M
<1> QED BY <1>1, <1>5, FindingsGrow

(* All of it.                                                              *)
LEMMA InsnFindingsAre ==
  ASSUME NEW f, IsFDE(f), NEW pc \in FDEPCs(f), NEW st \in AbsStates,
         NEW conflicts, IsFiniteSet(conflicts)
  PROVE  LET out == OutcomeAt(f, pc, st)
             targets == JumpTableTargets(f, pc, st, out)
         IN  IsFindings(InsnFindings(f, pc, st, out, targets, conflicts))
<1> DEFINE out == OutcomeAt(f, pc, st)
           targets == JumpTableTargets(f, pc, st, out)
<1>1. pc \in Int
  BY FDEFacts
<1>2. /\ out.jump_table_addr \in Int /\ out.jump_table_entries \in Nat /\ out.unbounded_jump_table_addr \in Int
      /\ out.review_reason \in {"none", "odd stack width"}
  <2>1. CASE Decodes(f, pc)
    <3>1. f.code[pc] \in Insns
      BY <2>1, FDEFacts
    <3>2. out = Transfer(f.code[pc], st).out
      BY <2>1, Zenon DEF OutcomeAt
    <3> HIDE DEF out
    <3> QED BY <3>1, <3>2, OutcomeTyped
  <2>2. CASE ~Decodes(f, pc)
    <3>1. out = Stops
      BY <2>2, Zenon DEF OutcomeAt
    <3> HIDE DEF out
    <3> QED BY <3>1 DEF Stops, Continues
  <2> QED BY <2>1, <2>2
<1> HIDE DEF out
<1>3. targets \in Seq(Int)
  BY <1>2, TargetsTyped
<1> HIDE DEF targets
<1> DEFINE undecoded == <<Review(pc, <<"cannot decode">>)>>
           no_row == <<Review(pc, <<"no CFI row">>)>>
           row == IF HasRow(f.cfi, pc) THEN CheckRow(pc, RowOf(f.cfi, pc), st, NoEdge, FALSE) ELSE no_row
           conflict == ConflictFindings(f, pc, conflicts)
           odd == <<Review(pc, <<out.review_reason>>)>>
           reason == IF out.review_reason = "none" THEN <<>> ELSE odd
           control == ControlFindings(f, pc, st, out, targets)
<1>4. IsFindings(undecoded) /\ IsFindings(no_row) /\ IsFindings(<<>>)
  <2>1. "cannot decode" \notin MismatchTexts /\ "no CFI row" \notin MismatchTexts
    BY DEF MismatchTexts
  <2> QED BY <1>1, <2>1, TextFindings, FindingsAre
<1>5. IsFindings(row)
  <2>1. IsFindings(CheckRow(pc, RowOf(f.cfi, pc), st, NoEdge, FALSE))
    BY <1>1, RowFindings
  <2> HIDE DEF no_row
  <2> QED BY <1>4, <2>1
<1>6. IsFindings(conflict) /\ IsFindings(control)
  BY <1>1, <1>3, ConflictFindingsAre, ControlFindingsAre
<1>7. IsFindings(reason)
  <2>1. out.review_reason \notin MismatchTexts
    BY <1>2 DEF MismatchTexts
  <2>2. IsFindings(odd)
    BY <1>1, <2>1, TextFindings
  <2> HIDE DEF odd
  <2> QED BY <1>4, <2>2
<1>8. InsnFindings(f, pc, st, out, targets, conflicts) =
        IF ~Decodes(f, pc) THEN undecoded ELSE row \o conflict \o reason \o control
  BY Zenon DEF InsnFindings
<1> HIDE DEF undecoded, row, conflict, reason, control
<1>9. IsFindings(row \o conflict \o reason \o control)
  BY <1>5, <1>6, <1>7, FindingsAre
<1>10. IsFindings(InsnFindings(f, pc, st, out, targets, conflicts))
  BY <1>4, <1>8, <1>9
<1> QED BY <1>10 DEF out, targets

-----------------------------------------------------------------------------
(* ReportCoverageGaps.                                                     *)

(* What ReportCoverageGaps adds are findings, and when it adds none, every *)
(* byte of the FDE belongs to a walked instruction or to padding.          *)
THEOREM GapsAreReported ==
  ASSUME NEW f, IsFDE(f), f.cfi.pc_begin <= f.cfi.pc_end,
         NEW walked, walked \subseteq FDEPCs(f), \A pc \in walked : Decodes(f, pc)
  PROVE  /\ IsFindings(GapFindings(f, walked))
         /\ GapFindings(f, walked) = <<>> =>
              \A byte \in FDEPCs(f) : \E pc \in f.cfi.pc_begin..byte :
                /\ byte \in pc..(pc + f.code[pc].size - 1)
                /\ pc \in walked \/ f.code[pc].id \in {"nop", "int3"}
<1> DEFINE lo == f.cfi.pc_begin
           end == f.cfi.pc_end
           D == lo..end
           Stop(pc) == pc = end \/ pc \in walked
           Next(pc) == pc + StepOver(f, pc)
           Odd(pc) == {p \in {pc} : ~IsPadding(f, p)}
           gap_end[pc \in D] == IF Stop(pc) THEN pc ELSE gap_end[Next(pc)]
           real[pc \in D] == IF Stop(pc) THEN {} ELSE Odd(pc) \cup real[Next(pc)]
           Own(pc) == IF pc \in walked \/ real[pc] = {} THEN <<>>
                      ELSE <<Review(pc, <<"bytes not reached", gap_end[pc] - pc>>)>>
           After(pc) == IF pc \in walked THEN Next(pc) ELSE gap_end[pc]
           gaps[pc \in D] == IF pc = end THEN <<>> ELSE Own(pc) \o gaps[After(pc)]
           Accounts(pc, byte) == /\ byte \in pc..(pc + f.code[pc].size - 1)
                                 /\ pc \in walked \/ f.code[pc].id \in {"nop", "int3"}
<1>1. GapFindings(f, walked) = gaps[lo]
  BY Zenon DEF GapFindings
<1>2. lo \in Int /\ end \in Int /\ lo <= end /\ lo \in D /\ FDEPCs(f) = lo..(end - 1)
  BY FDEFacts DEF FDEPCs
<1>3. \A pc : Decodes(f, pc) => pc \in Int /\ f.code[pc].size \in Nat \ {0} /\ pc + f.code[pc].size <= end
  BY FDEFacts
<1>4. \A pc \in walked : pc \in lo..(end - 1) /\ Decodes(f, pc)
  BY <1>2
<1>5. \A pc \in lo..(end - 1) : Next(pc) \in (pc + 1)..end
  BY <1>2, <1>3 DEF StepOver
<1>6. \A pc : Decodes(f, pc) => Next(pc) = pc + f.code[pc].size
  BY DEF StepOver
<1>7. \A pc \in D : ~Stop(pc) => pc \in lo..(end - 1) /\ Next(pc) \in (pc + 1)..end
  BY <1>2, <1>5
<1>8. \A pc : pc \notin Odd(pc) => IsPadding(f, pc)
  OBVIOUS
<1>9. \A pc \in D : Odd(pc) \in SUBSET D
  OBVIOUS
<1>10. \A pc : IsPadding(f, pc) => Decodes(f, pc) /\ f.code[pc].id \in {"nop", "int3"}
  BY DEF IsPadding
<1> DEFINE stops == walked \cup {end}
<1>11. \A pc : Stop(pc) <=> pc \in stops
  OBVIOUS
<1> SUFFICES /\ IsFindings(gaps[lo])
             /\ gaps[lo] = <<>> => \A byte \in lo..(end - 1) : \E pc \in lo..byte : Accounts(pc, byte)
  BY <1>1, <1>2, Zenon
<1> HIDE DEF Stop, stops, Next, Odd, lo, end
<1>12. /\ gap_end = [pc \in D |-> IF Stop(pc) THEN pc ELSE gap_end[Next(pc)]]
       /\ gap_end \in [D -> D]
  <2> DEFINE Is(g) == g = [pc \in D |-> IF Stop(pc) THEN pc ELSE g[Next(pc)]]
             base == [pc \in D |-> pc]
             nxt == [pc \in D |-> Next(pc)]
             comb == [pc \in D |-> [x \in D |-> x]]
             S == D
  <2>1. base \in [lo..end -> S] /\ comb \in [lo..end -> [S -> S]]
    OBVIOUS
  <2>2. \A pc \in D : base[pc] = pc /\ nxt[pc] = Next(pc) /\ \A x \in D : comb[pc][x] = x
    OBVIOUS
  <2> HIDE DEF base, nxt, comb, gap_end
  <2>3. \A pc \in D : pc \notin stops => nxt[pc] \in (pc + 1)..end
    BY <1>7, <1>11, <2>2
  <2>4. PICK g \in Climbs(lo, end, D, stops, base, nxt, comb) : TRUE
    <3> HIDE DEF S
    <3>1. Climbs(lo, end, S, stops, base, nxt, comb) # {}
      BY <1>2, <2>1, <2>3, ClimbExists
    <3> QED BY <3>1 DEF S
  <2>5. g \in [D -> D] /\ \A pc \in D : g[pc] = IF Stop(pc) THEN pc ELSE g[Next(pc)]
    <3>1. g \in [D -> D] /\ \A pc \in D : g[pc] = IF pc \in stops THEN base[pc] ELSE comb[pc][g[nxt[pc]]]
      BY <2>4 DEF Climbs
    <3>2. ASSUME NEW pc \in D PROVE g[pc] = IF Stop(pc) THEN pc ELSE g[Next(pc)]
      <4>1. CASE Stop(pc)
        BY <3>1, <4>1, <2>2, <1>11
      <4>2. CASE ~Stop(pc)
        <5>1. Next(pc) \in D
          BY <4>2, <1>7, <1>2
        <5>2. g[Next(pc)] \in D
          BY <5>1, <3>1
        <5>3. g[pc] = comb[pc][g[Next(pc)]]
          BY <4>2, <3>1, <2>2, <1>11
        <5> QED BY <4>2, <5>2, <5>3, <2>2
      <4> QED BY <4>1, <4>2
    <3> QED BY <3>1, <3>2
  <2>6. Is(g)
    BY <2>5
  <2>7. Is(gap_end)
    <3>1. gap_end = CHOOSE h : Is(h)
      BY Zenon DEF gap_end
    <3> HIDE DEF Is
    <3> QED BY <2>6, <3>1, Zenon
  <2>8. \A pc \in D : gap_end[pc] \in D
    <3> DEFINE T == {pc \in D : gap_end[pc] \in D}
    <3>1. \A pc \in D : (\A q \in (pc + 1)..end : q \in T) => pc \in T
      <4> SUFFICES ASSUME NEW pc \in D, \A q \in (pc + 1)..end : q \in T PROVE gap_end[pc] \in D
        OBVIOUS
      <4> QED BY <2>7, <1>7
    <3> HIDE DEF T
    <3>2. \A pc \in lo..end : pc \in T
      BY <1>2, <3>1, DownwardInduction
    <3> QED BY <3>2 DEF T
  <2> QED BY <2>7, <2>8
<1>13. /\ \A pc \in D : Stop(pc) => gap_end[pc] = pc
       /\ \A pc \in D : ~Stop(pc) => gap_end[pc] = gap_end[Next(pc)]
  BY <1>12
<1>14. \A pc \in D : gap_end[pc] \in pc..end /\ (~Stop(pc) => gap_end[pc] \in (pc + 1)..end)
  <2> HIDE DEF gap_end
  <2> DEFINE T == {pc \in D : gap_end[pc] \in pc..end}
  <2>1. \A pc \in D : (\A q \in (pc + 1)..end : q \in T) => pc \in T
    <3> SUFFICES ASSUME NEW pc \in D, \A q \in (pc + 1)..end : q \in T PROVE gap_end[pc] \in pc..end
      OBVIOUS
    <3> QED BY <1>2, <1>7, <1>13
  <2> HIDE DEF T
  <2>2. \A pc \in lo..end : pc \in T
    BY <1>2, <2>1, DownwardInduction
  <2>3. \A pc \in D : gap_end[pc] \in pc..end
    BY <2>2 DEF T
  <2> QED BY <1>2, <1>7, <1>13, <2>3
<1> HIDE DEF gap_end
<1>15. real = [pc \in D |-> IF Stop(pc) THEN {} ELSE Odd(pc) \cup real[Next(pc)]]
  <2> DEFINE Is(g) == g = [pc \in D |-> IF Stop(pc) THEN {} ELSE Odd(pc) \cup g[Next(pc)]]
             S == SUBSET D
             base == [pc \in D |-> {}]
             nxt == [pc \in D |-> Next(pc)]
             comb == [pc \in D |-> [x \in S |-> Odd(pc) \cup x]]
  <2>1. base \in [lo..end -> S] /\ comb \in [lo..end -> [S -> S]]
    BY <1>9
  <2>2. \A pc \in D : base[pc] = {} /\ nxt[pc] = Next(pc) /\ \A x \in S : comb[pc][x] = Odd(pc) \cup x
    OBVIOUS
  <2> HIDE DEF base, nxt, comb, real, S
  <2>3. \A pc \in D : pc \notin stops => nxt[pc] \in (pc + 1)..end
    BY <1>7, <1>11, <2>2
  <2>4. Climbs(lo, end, S, stops, base, nxt, comb) # {}
    BY <1>2, <2>1, <2>3, ClimbExists
  <2>5. PICK g \in Climbs(lo, end, S, stops, base, nxt, comb) : TRUE
    BY <2>4
  <2>6. g \in [D -> S] /\ \A pc \in D : g[pc] = IF pc \in stops THEN base[pc] ELSE comb[pc][g[nxt[pc]]]
    BY <2>5 DEF Climbs
  <2>7. ASSUME NEW pc \in D PROVE g[pc] = IF Stop(pc) THEN {} ELSE Odd(pc) \cup g[Next(pc)]
    <3>1. CASE Stop(pc)
      BY <2>6, <3>1, <2>2, <1>11
    <3>2. CASE ~Stop(pc)
      <4>1. Next(pc) \in D
        BY <3>2, <1>7, <1>2
      <4>2. g[Next(pc)] \in S
        BY <4>1, <2>6
      <4>3. g[pc] = comb[pc][g[Next(pc)]]
        BY <3>2, <2>6, <2>2, <1>11
      <4> QED BY <3>2, <4>2, <4>3, <2>2
    <3> QED BY <3>1, <3>2
  <2>8. Is(g)
    BY <2>6, <2>7
  <2>9. real = CHOOSE h : Is(h)
    BY Zenon DEF real
  <2> HIDE DEF Is
  <2>10. Is(real)
    BY <2>8, <2>9, Zenon
  <2> QED BY <2>10 DEF Is
<1>16. \A pc \in D : ~Stop(pc) => real[pc] = Odd(pc) \cup real[Next(pc)]
  BY <1>15
<1> HIDE DEF real
<1>17. /\ \A pc \in lo..(end - 1) : After(pc) \in (pc + 1)..end
       /\ \A pc \in walked : After(pc) = Next(pc)
       /\ \A pc : pc \notin walked => After(pc) = gap_end[pc]
  BY <1>2, <1>5, <1>7, <1>14 DEF Stop
<1> DEFINE Note(pc) == <<"bytes not reached", gap_end[pc] - pc>>
           M == {Note(pc) : pc \in D}
           F == FindingsOf(M)
<1>18. \A pc \in D : Own(pc) \in Seq(F)
  <2> SUFFICES ASSUME NEW pc \in D PROVE Own(pc) \in Seq(F)
    OBVIOUS
  <2>1. Note(pc) \in M /\ Note(pc)[1] \notin MismatchTexts /\ pc \in Int
    BY <1>2 DEF MismatchTexts
  <2>2. Own(pc) = IF pc \in walked \/ real[pc] = {} THEN <<>> ELSE <<Review(pc, Note(pc))>>
    OBVIOUS
  <2> HIDE DEF M, Note
  <2>3. Review(pc, Note(pc)) \in F
    BY <2>1 DEF FindingsOf, Review, Finding
  <2> HIDE DEF F, Own
  <2> QED BY <2>2, <2>3
<1>19. \A pc \in D : Own(pc) = <<>> => pc \in walked \/ real[pc] = {}
  OBVIOUS
<1> HIDE DEF Own, After, F, M, Note
<1>20. /\ gaps = [pc \in D |-> IF pc = end THEN <<>> ELSE Own(pc) \o gaps[After(pc)]]
       /\ \A pc \in D : gaps[pc] \in Seq(F)
  <2> DEFINE S == Seq(F)
             none == <<>>
             Comb(pc, x) == Own(pc) \o x
             Is(g) == g = [pc \in D |-> IF pc = end THEN none ELSE Comb(pc, g[After(pc)])]
             base == [pc \in D |-> none]
             nxt == [pc \in D |-> After(pc)]
             comb == [pc \in D |-> [x \in S |-> Comb(pc, x)]]
             top == {end}
  <2>0. none \in S /\ \A pc \in D, x \in S : Comb(pc, x) \in S
    BY <1>18
  <2>9. gaps = CHOOSE h : Is(h)
    BY Zenon DEF gaps
  <2> HIDE DEF S, none, Comb
  <2>1. base \in [lo..end -> S] /\ comb \in [lo..end -> [S -> S]]
    BY <2>0
  <2>2. \A pc \in D : base[pc] = none /\ nxt[pc] = After(pc) /\ \A x \in S : comb[pc][x] = Comb(pc, x)
    OBVIOUS
  <2> HIDE DEF base, nxt, comb, gaps
  <2>3. \A pc \in D : pc \notin top => nxt[pc] \in (pc + 1)..end
    <3>1. \A pc \in D : pc \notin top => pc \in lo..(end - 1)
      BY <1>2
    <3> QED BY <1>17, <2>2, <3>1
  <2>4. Climbs(lo, end, S, top, base, nxt, comb) # {}
    <3> HIDE DEF top
    <3> QED BY <1>2, <2>1, <2>3, ClimbExists
  <2>5. PICK g \in Climbs(lo, end, S, top, base, nxt, comb) : TRUE
    BY <2>4
  <2>6. g \in [D -> S] /\ \A pc \in D : g[pc] = IF pc = end THEN base[pc] ELSE comb[pc][g[nxt[pc]]]
    BY <2>5 DEF Climbs
  <2>7. ASSUME NEW pc \in D PROVE g[pc] = IF pc = end THEN none ELSE Comb(pc, g[After(pc)])
    <3>1. CASE pc = end
      BY <2>6, <3>1, <2>2
    <3>2. CASE pc # end
      <4>1. After(pc) \in D
        BY <3>2, <1>17, <1>2
      <4>2. g[After(pc)] \in S
        BY <4>1, <2>6
      <4>3. g[pc] = comb[pc][g[After(pc)]]
        BY <3>2, <2>6, <2>2
      <4> QED BY <3>2, <4>2, <4>3, <2>2
    <3> QED BY <3>1, <3>2
  <2>8. Is(g)
    BY <2>6, <2>7
  <2> HIDE DEF Is
  <2>10. Is(gaps)
    BY <2>8, <2>9, Zenon
  <2>11. gaps = [pc \in D |-> IF pc = end THEN none ELSE Comb(pc, gaps[After(pc)])]
    BY <2>10 DEF Is
  <2>12. \A pc \in D : gaps[pc] \in S
    <3> DEFINE T == {pc \in D : gaps[pc] \in S}
    <3>1. \A pc \in D : (\A q \in (pc + 1)..end : q \in T) => pc \in T
      <4> SUFFICES ASSUME NEW pc \in D, \A q \in (pc + 1)..end : q \in T PROVE gaps[pc] \in S
        OBVIOUS
      <4>1. CASE pc = end
        BY <4>1, <2>0, <2>11
      <4>2. CASE pc # end
        <5>1. After(pc) \in (pc + 1)..end
          BY <4>2, <1>17, <1>2
        <5> QED BY <4>2, <5>1, <2>0, <2>11
      <4> QED BY <4>1, <4>2
    <3> HIDE DEF T
    <3>2. \A pc \in lo..end : pc \in T
      BY <1>2, <3>1, DownwardInduction
    <3> QED BY <3>2 DEF T
  <2> QED BY <2>11, <2>12 DEF S, none, Comb
<1>21. IsFindings(gaps[lo])
  <2>1. gaps[lo] \in Seq(F)
    BY <1>2, <1>20
  <2> HIDE DEF gaps
  <2> QED BY <2>1, FindingsGrow DEF F
<1> HIDE DEF gaps
<1> HIDE DEF Accounts
<1>22. \A pc : Decodes(f, pc) /\ (pc \in walked \/ IsPadding(f, pc)) =>
               \A byte \in pc..(Next(pc) - 1) : Accounts(pc, byte)
  <2> SUFFICES ASSUME NEW pc, Decodes(f, pc), pc \in walked \/ IsPadding(f, pc), NEW byte \in pc..(Next(pc) - 1)
               PROVE  Accounts(pc, byte)
    OBVIOUS
  <2>1. byte \in pc..(pc + f.code[pc].size - 1)
    <3>1. Next(pc) = pc + f.code[pc].size
      BY <1>6
    <3> QED BY <3>1, <1>3
  <2>2. pc \in walked \/ f.code[pc].id \in {"nop", "int3"}
    BY <1>10
  <2> QED BY <2>1, <2>2, Zenon DEF Accounts
<1>23. \A pc \in D : real[pc] = {} => \A byte \in pc..(gap_end[pc] - 1) : \E p \in pc..byte : Accounts(p, byte)
  <2> DEFINE Covered(pc) == \A byte \in pc..(gap_end[pc] - 1) : \E p \in pc..byte : Accounts(p, byte)
             T == {pc \in D : real[pc] = {} => Covered(pc)}
  <2>1. ASSUME NEW pc \in D, \A q \in (pc + 1)..end : q \in T, real[pc] = {} PROVE Covered(pc)
    <3>1. CASE Stop(pc)
      BY <3>1, <1>2, <1>13
    <3>2. CASE ~Stop(pc)
      <4>1. Next(pc) \in (pc + 1)..end /\ pc \in Int
        BY <3>2, <1>2, <1>7
      <4>2. IsPadding(f, pc) /\ real[Next(pc)] = {}
        BY <3>2, <2>1, <1>8, <1>16
      <4>3. Next(pc) \in T
        BY <4>1, <2>1
      <4>4. Covered(Next(pc))
        BY <4>2, <4>3
      <4>5. gap_end[pc] = gap_end[Next(pc)] /\ gap_end[pc] \in Int
        BY <3>2, <1>13, <1>14, <1>2
      <4> SUFFICES ASSUME NEW byte \in pc..(gap_end[pc] - 1) PROVE \E p \in pc..byte : Accounts(p, byte)
        OBVIOUS
      <4>6. CASE byte < Next(pc)
        <5>1. byte \in pc..(Next(pc) - 1) /\ pc \in pc..byte
          BY <4>1, <4>5, <4>6
        <5> QED BY <5>1, <4>2, <1>10, <1>22
      <4>7. CASE byte >= Next(pc)
        <5>1. byte \in Next(pc)..(gap_end[Next(pc)] - 1)
          BY <4>1, <4>5, <4>7
        <5>2. PICK p \in Next(pc)..byte : Accounts(p, byte)
          BY <5>1, <4>4
        <5>3. p \in pc..byte
          BY <5>2, <4>1
        <5> QED BY <5>2, <5>3
      <4> QED BY <4>1, <4>5, <4>6, <4>7
    <3> QED BY <3>1, <3>2
  <2> HIDE DEF Covered
  <2>2. \A pc \in D : (\A q \in (pc + 1)..end : q \in T) => pc \in T
    BY <2>1
  <2> HIDE DEF T
  <2>3. \A pc \in lo..end : pc \in T
    BY <1>2, <2>2, DownwardInduction
  <2> QED BY <2>3 DEF T, Covered
<1>24. \A pc \in D : gaps[pc] = <<>> => \A byte \in pc..(end - 1) : \E p \in pc..byte : Accounts(p, byte)
  <2> DEFINE Covered(pc) == \A byte \in pc..(end - 1) : \E p \in pc..byte : Accounts(p, byte)
             T == {pc \in D : gaps[pc] = <<>> => Covered(pc)}
  <2>1. ASSUME NEW pc \in D, \A q \in (pc + 1)..end : q \in T, gaps[pc] = <<>> PROVE Covered(pc)
    <3>1. CASE pc = end
      BY <3>1, <1>2
    <3>2. CASE pc # end
      <4>1. pc \in lo..(end - 1) /\ pc \in Int /\ end \in Int
        BY <3>2, <1>2
      <4>2. After(pc) \in (pc + 1)..end /\ After(pc) \in D
        BY <4>1, <1>2, <1>17
      <4>3. Own(pc) = <<>> /\ gaps[After(pc)] = <<>>
        <5> DEFINE a == Own(pc)
                   b == gaps[After(pc)]
        <5>1. a \in Seq(F) /\ b \in Seq(F)
          BY <4>2, <1>18, <1>20
        <5>2. a \o b = <<>>
          BY <2>1, <3>2, <1>20
        <5> HIDE DEF a, b
        <5>3. a = <<>> /\ b = <<>>
          BY <5>1, <5>2
        <5> QED BY <5>3 DEF a, b
      <4>4. Covered(After(pc))
        <5>1. After(pc) \in T
          BY <4>2, <2>1
        <5> QED BY <5>1, <4>3
      <4>5. \A byte \in pc..(After(pc) - 1) : \E p \in pc..byte : Accounts(p, byte)
        <5>1. CASE pc \in walked
          <6>1. After(pc) = Next(pc) /\ Decodes(f, pc)
            BY <5>1, <1>4, <1>17
          <6>2. \A byte \in pc..(After(pc) - 1) : Accounts(pc, byte) /\ pc \in pc..byte
            BY <6>1, <5>1, <1>22, <4>1, <4>2
          <6> QED BY <6>2
        <5>2. CASE pc \notin walked
          BY <5>2, <4>3, <1>17, <1>19, <1>23
        <5> QED BY <5>1, <5>2
      <4> SUFFICES ASSUME NEW byte \in pc..(end - 1) PROVE \E p \in pc..byte : Accounts(p, byte)
        OBVIOUS
      <4>6. CASE byte < After(pc)
        <5>1. byte \in pc..(After(pc) - 1)
          BY <4>1, <4>2, <4>6
        <5> QED BY <5>1, <4>5
      <4>7. CASE byte >= After(pc)
        <5>1. byte \in After(pc)..(end - 1)
          BY <4>1, <4>2, <4>7
        <5>2. PICK p \in After(pc)..byte : Accounts(p, byte)
          BY <5>1, <4>4
        <5>3. p \in pc..byte
          BY <5>2, <4>1, <4>2
        <5> QED BY <5>2, <5>3
      <4> QED BY <4>1, <4>2, <4>6, <4>7
    <3> QED BY <3>1, <3>2
  <2> HIDE DEF Covered
  <2>2. \A pc \in D : (\A q \in (pc + 1)..end : q \in T) => pc \in T
    BY <2>1
  <2> HIDE DEF T
  <2>3. \A pc \in lo..end : pc \in T
    BY <1>2, <2>2, DownwardInduction
  <2> QED BY <2>3 DEF T, Covered
<1> QED BY <1>2, <1>21, <1>24
-----------------------------------------------------------------------------
(* Run as a whole.                                                         *)

(* CheckEntryRow and SetupCallSites.                                       *)
LEMMA EntryFindingsAre ==
  ASSUME NEW f, IsFDE(f)
  PROVE  IsFindings(EntryFindings(f))
<1> DEFINE entry == <<Review(f.cfi.pc_begin, <<"entry is not canonical">>)>>
           lsda == <<Review(f.cfi.pc_begin, <<"LSDA does not parse">>)>>
           a == IF f.at_function_entry /\ ~is_canonical_entry(f) THEN entry ELSE <<>>
           b == IF f.lsda_ok THEN <<>> ELSE lsda
<1>1. f.cfi.pc_begin \in Int
  BY FDEFacts
<1>2. IsFindings(entry) /\ IsFindings(lsda) /\ IsFindings(<<>>)
  <2>1. "entry is not canonical" \notin MismatchTexts /\ "LSDA does not parse" \notin MismatchTexts
    BY DEF MismatchTexts
  <2> QED BY <1>1, <2>1, TextFindings, FindingsAre
<1>3. EntryFindings(f) = a \o b
  BY Zenon DEF EntryFindings
<1> HIDE DEF entry, lsda
<1>4. IsFindings(a) /\ IsFindings(b)
  BY <1>2
<1> HIDE DEF a, b
<1> QED BY <1>3, <1>4, FindingsAre

(* What VerifyPass adds at pc of a walk.                                   *)
Reports(f, states, conflicts, pc) ==
  LET out == OutcomeAt(f, pc, states[pc])
  IN  InsnFindings(f, pc, states[pc], out, JumpTableTargets(f, pc, states[pc], out),
                   {c[2] : c \in {x \in conflicts : x[1] = pc}})

(* They are findings.                                                      *)
LEMMA ReportsAre ==
  ASSUME NEW f, IsFDE(f), NEW pc \in FDEPCs(f), NEW states, states[pc] \in AbsStates,
         NEW conflicts, IsFiniteSet(conflicts)
  PROVE  IsFindings(Reports(f, states, conflicts, pc))
<1> DEFINE here == {x \in conflicts : x[1] = pc}
           g == [x \in here |-> x[2]]
           at_pc == {g[x] : x \in here}
           st == states[pc]
<1>1. {c[2] : c \in {x \in conflicts : x[1] = pc}} = at_pc
  OBVIOUS
<1>2. IsFiniteSet(at_pc)
  <2>1. here \subseteq conflicts
    OBVIOUS
  <2> HIDE DEF here
  <2>2. IsFiniteSet(here) /\ DOMAIN g = here
    BY <2>1, FS_Subset
  <2> HIDE DEF g
  <2> QED BY <2>2, FiniteImage
<1>3. st \in AbsStates
  OBVIOUS
<1> DEFINE out == OutcomeAt(f, pc, st)
           fs == InsnFindings(f, pc, st, out, JumpTableTargets(f, pc, st, out), at_pc)
<1>4. Reports(f, states, conflicts, pc) = fs
  BY <1>1, Zenon DEF Reports
<1> HIDE DEF at_pc, st
<1>5. IsFindings(fs)
  BY <1>2, <1>3, InsnFindingsAre
<1> QED BY <1>4, <1>5

(* A sink that starts empty.                                               *)
LEMMA EmptySinkIs == IsSink(EmptySink)
<1>1. <<>> \in Seq(FindingsOf({}))
  OBVIOUS
<1>2. EmptySink \in Sinks({})
  BY <1>1, SinkAssumption DEF EmptySink, Sinks
<1> QED BY <1>2 DEF IsSink

(* The verdict on what a sink hands over: BLESSED means that nothing was   *)
(* found, and a contradiction in the sink means MISMATCH.                  *)
LEMMA VerdictFacts ==
  ASSUME NEW s, IsSink(s)
  PROVE  /\ Verdict(Take(s)) \in {"BLESSED", "REVIEW", "MISMATCH"}
         /\ Verdict(Take(s)) = "BLESSED" => s.findings = <<>>
         /\ s.truncated = 0 /\ (\E m \in Texts(s.findings) : m[1] \in MismatchTexts)
              => Verdict(Take(s)) = "MISMATCH"
<1>1. PICK M : s \in Sinks(M)
  BY DEF IsSink
<1> DEFINE F == FindingsOf(M)
           fs == s.findings
<1>2. fs \in Seq(F) /\ s.truncated \in Nat /\ (s.truncated > 0 => fs # <<>>)
  BY <1>1 DEF Sinks
<1>3. Verdict(Take(s)) \in {"BLESSED", "REVIEW", "MISMATCH"}
  BY DEF Verdict
<1>4. ASSUME Verdict(Take(s)) = "BLESSED" PROVE fs = <<>>
  <2>1. Take(s) = <<>>
    BY <1>4 DEF Verdict
  <2>2. CASE s.truncated > 0
    <3> DEFINE last == Review(0, <<"further distinct findings not shown", s.truncated>>)
    <3>1. Take(s) = Append(fs, last)
      BY <2>2, Zenon DEF Take
    <3>2. fs \in Seq(F \cup {last})
      <4> HIDE DEF F, last
      <4> QED BY <1>2
    <3>3. Append(fs, last) # <<>>
      <4> DEFINE G == F \cup {last}
      <4>1. fs \in Seq(G) /\ last \in G
        BY <3>2
      <4> HIDE DEF G, last
      <4> QED BY <4>1
    <3> QED BY <2>1, <3>1, <3>3
  <2>3. CASE ~(s.truncated > 0)
    BY <2>1, <2>3, Zenon DEF Take
  <2> QED BY <2>2, <2>3
<1>5. ASSUME s.truncated = 0, NEW m \in Texts(fs), m[1] \in MismatchTexts
      PROVE  Verdict(Take(s)) = "MISMATCH"
  <2>1. Take(s) = fs
    <3>1. ~(s.truncated > 0)
      BY <1>5
    <3> QED BY <3>1, Zenon DEF Take
  <2>2. PICK i \in 1..Len(fs) : fs[i].message = m
    BY DEF Texts
  <2>3. fs[i] \in F
    <3> HIDE DEF F
    <3> QED BY <1>2
  <2>4. fs[i].severity = "kMismatch"
    BY <1>5, <2>2, <2>3 DEF FindingsOf
  <2> QED BY <2>1, <2>2, <2>4, Zenon DEF Verdict
<1> QED BY <1>3, <1>4, <1>5

=============================================================================
