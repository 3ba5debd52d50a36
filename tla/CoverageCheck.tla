--------------------------- MODULE CoverageCheck ---------------------------
(***************************************************************************)
(* coverage-check.cc: which bytes of a symbol no FDE covers.  A range is a *)
(* pair <<first, end>>, end excluded.                                      *)
(***************************************************************************)
EXTENDS Integers, FiniteSets, Sequences, TLC

Before(r, s) == r[1] < s[1] \/ (r[1] = s[1] /\ r[2] < s[2])

Later(a, b) == IF a >= b THEN a ELSE b

Earlier(a, b) == IF a <= b THEN a ELSE b

(* Faulty variant: a range nested in the last one cuts it short.           *)
MergedCut(merged, r) ==
  IF merged # <<>> /\ r[1] <= merged[Len(merged)][2]
  THEN [merged EXCEPT ![Len(merged)] = <<@[1], r[2]>>]
  ELSE Append(merged, r)

(* MergeRanges: the loop's body, and the loop.                             *)
Merged(merged, r) ==
  IF merged # <<>> /\ r[1] <= merged[Len(merged)][2]
  THEN [merged EXCEPT ![Len(merged)] = <<@[1], Later(@[2], r[2])>>]
  ELSE Append(merged, r)

MergeRanges(ranges) ==
  LET sorted == SortSeq(ranges, Before)
      after[i \in 0..Len(ranges)] == IF i = 0 THEN <<>> ELSE Merged(after[i - 1], sorted[i])
  IN  after[Len(ranges)]

(* UncoveredBytes.  coverage is sorted and disjoint: past the point where  *)
(* the loop stops its guard stays false.                                   *)
Scanned(s, iv, end) ==
  IF iv[1] < end /\ s.cursor < end
  THEN [cursor |-> Later(s.cursor, Earlier(iv[2], end)),
        uncovered |-> IF iv[1] > s.cursor
                      THEN s.uncovered + Earlier(iv[1], end) - s.cursor
                      ELSE s.uncovered]
  ELSE s

UncoveredBytes(start, end, coverage) ==
  LET from == SelectSeq(coverage, LAMBDA iv : iv[2] > start)
      after[i \in 0..Len(from)] ==
        IF i = 0 THEN [cursor |-> start, uncovered |-> 0] ELSE Scanned(after[i - 1], from[i], end)
      scan == after[Len(from)]
  IN  IF scan.cursor < end THEN scan.uncovered + end - scan.cursor ELSE scan.uncovered

(* What the two compute together: the bytes in none of the ranges.         *)
BytesOutside(start, end, ranges) ==
  (start..(end - 1)) \ UNION {ranges[i][1]..(ranges[i][2] - 1) : i \in 1..Len(ranges)}
=============================================================================
